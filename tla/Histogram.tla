----------------------------- MODULE Histogram ------------------------------
(***************************************************************************)
(* The histogram of latencies (src/histogram.cpp): buckets, and mean and    *)
(* variance by the online algorithm.  A double is a whole number of units:  *)
(* mean of 1/SCALE, m2 and variance of 1/SCALE^2, with a SCALE that every   *)
(* n (n + 1) divides for the numbers n of samples, so that no division      *)
(* rounds.                                                                  *)
(***************************************************************************)
EXTENDS Integers, Sequences, FiniteSets

CONSTANTS
  BUCKET_SIZES,   \* sizes of a bucket a user may ask for
  SCALE

ASSUME HistogramAssumption == BUCKET_SIZES \subseteq Nat \ {0} /\ SCALE \in Nat \ {0}

VARIABLES bucket_size, count, mean, m2, variance, storage

hist == <<bucket_size, count, mean, m2, variance, storage>>

-----------------------------------------------------------------------------
Abs(a) == IF a < 0 THEN -a ELSE a

\* Division of C: towards zero.
TruncDiv(a, b) == IF a < 0 THEN -((-a) \div b) ELSE a \div b

-----------------------------------------------------------------------------
HistInit ==
  /\ bucket_size = 0   \* there is no histogram yet
  /\ count = 0 /\ mean = 0 /\ m2 = 0 /\ variance = 0
  /\ storage = << >>

hs_initialize ==
  /\ bucket_size' \in BUCKET_SIZES
  /\ UNCHANGED <<count, mean, m2, variance, storage>>

\* The bucket of a value, at the default of 1 the value itself.
Bucket_Down(v) == TruncDiv(v, bucket_size) * bucket_size

Bucket(v) ==
  LET half == bucket_size \div 2
      w == IF v > 0 THEN v + half ELSE IF v < 0 THEN v - half ELSE v
  IN TruncDiv(w, bucket_size) * bucket_size

\* ++storage[b]: a key that is not there yet is inserted with 0.
Increment(s, b) ==
  [k \in DOMAIN s \union {b} |->
     (IF k \in DOMAIN s THEN s[k] ELSE 0) + (IF k = b THEN 1 ELSE 0)]

\* A negative value is counted like any other.
Update(v) ==
  LET delta == SCALE * v - mean IN
  /\ count' = count + 1
  /\ mean' = mean + delta \div (count + 1)
  /\ m2' = m2 + delta * (SCALE * v - mean')
  /\ storage' = Increment(storage, Bucket(v))
  /\ UNCHANGED <<bucket_size, variance>>

Finalize ==
  /\ variance' = IF count < 2 THEN variance ELSE m2 \div (count - 1)
  /\ UNCHANGED <<bucket_size, count, mean, m2, storage>>

-----------------------------------------------------------------------------
(* What the histogram of a sequence of values is, by definition.            *)

SumOf(f, n) == LET S[k \in 0 .. n] == IF k = 0 THEN 0 ELSE S[k - 1] + f[k] IN S[n]

\* n (n - 1) times the sample variance, n the number of values.
Spread(values) ==
  LET n == Len(values) IN
  n * SumOf([k \in 1 .. n |-> values[k] * values[k]], n)
    - SumOf(values, n) * SumOf(values, n)

\* Every value is counted in the bucket whose multiple of the bucket size is
\* nearest to it, of two the one farther from zero.
Nearest(v, b) ==
  /\ b % bucket_size = 0
  /\ 2 * Abs(v - b) <= bucket_size
  /\ 2 * Abs(v - b) = bucket_size => Abs(b) > Abs(v)

HistogramOf(values) ==
  /\ count = Len(values)
  /\ \A k \in DOMAIN values : \E b \in DOMAIN storage : Nearest(values[k], b)
  /\ \A b \in DOMAIN storage :
       storage[b] = Cardinality({k \in DOMAIN values : Nearest(values[k], b)})
  /\ mean * count = SCALE * SumOf(values, count)
=============================================================================
