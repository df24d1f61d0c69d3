----------------------- MODULE MoonSniffFiles_proofs ------------------------
(***************************************************************************)
(* MoonSniff with files: what the histogram is made of, for every trace and *)
(* every size of the map, of a word and of the pcap file.                   *)
(***************************************************************************)
EXTENDS MoonSniffFiles, SequenceTheorems, TLAPS

-----------------------------------------------------------------------------
(* Capturing.                                                               *)

CaptureRange ==
  /\ mode \in MODES /\ trace \in TRACES /\ first_id \in Nat /\ embedded \in BOOLEAN
  /\ task \in [Taps -> {"log", "done"}]
  /\ logged \in [Taps -> SUBSET (DOMAIN trace)]
  /\ file \in [Taps -> Seq(Int)]
  /\ size \in [Taps -> Nat] /\ offset \in [Taps -> Nat]
  /\ at # "wait" => mode = "mscap" /\ \A t \in Taps : task[t] = "done"

\* Room for the largest packet remains when the mapping is doubled.
RoomInv == PcapRoom /\ \A t \in Taps : task[t] = "log" => INITIAL_FILE_SIZE <= size[t]

LEMMA PacketShape ==
  ASSUME trace \in TRACES, NEW k \in DOMAIN trace
  PROVE  /\ DOMAIN trace = 1 .. NUM_PKTS /\ k \in 1 .. NUM_PKTS
         /\ trace[k].at \in Nat /\ trace[k].lat \in Int /\ trace[k].len \in Nat
         /\ 8 <= trace[k].len /\ trace[k].len + 16 <= INITIAL_FILE_SIZE
<1> DEFINE Pkts == [at : Nat, lat : Int, pre : BOOLEAN, post : {"yes", "no", "lost"}, len : Nat]
<1>1. TRACES \subseteq [1 .. NUM_PKTS -> Pkts]
  BY FilesAssumption, Zenon
<1>2. DOMAIN trace = 1 .. NUM_PKTS /\ trace[k] \in Pkts
  BY <1>1, Zenon
<1>3. 8 <= trace[k].len /\ trace[k].len + 16 <= INITIAL_FILE_SIZE
  BY <1>2, FilesAssumption, Zenon
<1>4. QED
  BY <1>2, <1>3, Zenon

LEMMA TrueTimeInt ==
  ASSUME trace \in TRACES, NEW k \in DOMAIN trace, NEW t \in Taps
  PROVE  TrueTime(t, trace[k]) \in Int
<1>1. trace[k].at \in Int /\ trace[k].at + trace[k].lat \in Int
  BY PacketShape
<1>2. QED
  BY <1>1, Zenon DEF TrueTime

LEMMA TimestampInt ==
  ASSUME trace \in TRACES, NEW k \in DOMAIN trace, NEW t \in Taps
  PROVE  Timestamp(t, trace[k]) \in Int
<1>1. PICK a \in Int : a = TrueTime(t, trace[k])
  BY TrueTimeInt, Zenon
<1>2. a % WORD \in Int
  BY FilesAssumption
<1>3. QED
  BY <1>1, <1>2, Zenon DEF Timestamp

LEMMA IdNat ==
  ASSUME trace \in TRACES, first_id \in Nat, NEW k \in DOMAIN trace
  PROVE  Id(k) \in Nat /\ Id(k) \in 0 .. WORD - 1
<1>1. k \in Nat /\ k >= 1 /\ WORD \in Nat /\ WORD > 0
  BY PacketShape, FilesAssumption
<1>2. PICK a \in Nat : a = first_id + k - 1
  BY <1>1
<1>3. a % WORD \in 0 .. WORD - 1
  BY <1>1
<1>4. QED
  BY <1>1, <1>2, <1>3 DEF Id

\* What the actions of the capturing tasks do to the files.
LEMMA LogEffect ==
  ASSUME CaptureRange, NEW t \in Taps, Log(t)
  PROVE  /\ task[t] = "log" /\ UNCHANGED <<config, running, expired, task, matching, hist>>
         /\ \E k \in DOMAIN trace :
              /\ k \notin logged[t] /\ logged' = [logged EXCEPT ![t] = @ \union {k}]
              /\ \/ /\ file' = [file EXCEPT ![t] = @ \o <<Timestamp(t, trace[k]), Id(k)>>]
                    /\ UNCHANGED <<size, offset>>
                 \/ UNCHANGED <<file, size, offset>>
                 \/ /\ UNCHANGED file
                    /\ size' = IF HasRoom(t, trace[k]) THEN size ELSE [size EXCEPT ![t] = 2 * @]
                    /\ offset' = [offset EXCEPT ![t] = @ + InclLen(trace[k]) + 16]
<1>1. /\ task[t] = "log" /\ UNCHANGED <<config, running, expired, task, matching, hist>>
  BY Zenon DEF Log
<1>2. PICK k \in DOMAIN trace :
        /\ IsNext(t, k)
        /\ LogMscap(t, trace[k], Id(k)) \/ LogPcap(t, trace[k])
        /\ logged' = [logged EXCEPT ![t] = @ \union {k}]
  BY Zenon DEF Log
<1>3. k \notin logged[t]
  BY <1>2, Zenon DEF IsNext
<1>4. QED
  BY <1>1, <1>2, <1>3, Zenon DEF LogMscap, LogPcap

LEMMA Appended ==
  ASSUME NEW s \in Seq(Int), NEW a \in Int, NEW b \in Int, NEW g, g = s \o <<a, b>>
  PROVE  /\ g \in Seq(Int) /\ Len(g) = Len(s) + 2
         /\ g[Len(s) + 1] = a /\ g[Len(s) + 2] = b
         /\ \A i \in 1 .. Len(s) : g[i] = s[i]
OBVIOUS

LEMMA CutSeq ==
  ASSUME NEW s \in Seq(Int), s # << >>
  PROVE  LET c == SubSeq(s, 1, Len(s) - 1) IN
         /\ c \in Seq(Int) /\ Len(c) = Len(s) - 1 /\ \A i \in 1 .. Len(s) - 1 : c[i] = s[i]
<1> DEFINE n == Len(s) - 1
           c == SubSeq(s, 1, n)
<1>1. Len(s) \in Nat /\ Len(s) >= 1 /\ n \in Nat /\ \A i \in 1 .. n : s[i] \in Int
  OBVIOUS
<1> HIDE DEF n
<1>2. 1 \in Int /\ n \in Int
  BY <1>1
<1>3. /\ c \in Seq(Int) /\ Len(c) = IF 1 <= n THEN n - 1 + 1 ELSE 0
      /\ \A i \in 1 .. n - 1 + 1 : c[i] = s[1 + i - 1]
  BY <1>1, <1>2, SubSeqProperties
<1> HIDE DEF c
<1>4. (IF 1 <= n THEN n - 1 + 1 ELSE 0) = n /\ \A i \in 1 .. n : i \in 1 .. n - 1 + 1 /\ 1 + i - 1 = i
  BY <1>1
<1>5. c \in Seq(Int) /\ Len(c) = n /\ \A i \in 1 .. n : c[i] = s[i]
  <2>1. c \in Seq(Int) /\ Len(c) = n
    BY <1>1, <1>3
  <2>2. ASSUME NEW i \in 1 .. n PROVE c[i] = s[i]
    <3>1. c[i] = s[1 + i - 1] /\ 1 + i - 1 = i
      BY <1>3, <1>4, Zenon
    <3>2. QED
      BY <3>1, Zenon
  <2>3. QED
    BY <2>1, <2>2, Zenon
<1>6. QED
  BY <1>5, Zenon DEF c, n

LEMMA RangeInit ==
  ASSUME Init
  PROVE  CaptureRange /\ RoomInv
<1>1. CaptureRange
  <2>1. /\ INITIAL_FILE_SIZE \in Nat /\ 24 \in Nat /\ FIRST_IDS \subseteq Nat
        /\ << >> \in Seq(Int)
    BY FilesAssumption
  <2>2. QED
    BY <2>1, Zenon DEF Init, CaptureRange
<1>2. \A t \in Taps : size[t] = INITIAL_FILE_SIZE /\ offset[t] = 24
  BY Zenon DEF Init
<1>3. 24 <= INITIAL_FILE_SIZE + 7 /\ 24 <= INITIAL_FILE_SIZE + 0 /\ INITIAL_FILE_SIZE <= INITIAL_FILE_SIZE
  BY FilesAssumption
<1>4. QED
  BY <1>1, <1>2, <1>3, Zenon DEF RoomInv, PcapRoom

\* InclLen is no more than what a packet is without its timestamp.
LEMMA InclLenBound ==
  ASSUME CaptureRange, NEW k \in DOMAIN trace
  PROVE  /\ InclLen(trace[k]) \in Nat
         /\ InclLen(trace[k]) <= trace[k].len - (IF embedded THEN 0 ELSE 8)
<1>1. trace[k].len \in Nat /\ 8 <= trace[k].len /\ embedded \in BOOLEAN /\ SNAP_LEN \in Nat
  BY PacketShape, FilesAssumption, Zenon DEF CaptureRange
<1>2. QED
  BY <1>1 DEF InclLen

LEMMA LogRange ==
  ASSUME CaptureRange, NEW t \in Taps, Log(t)
  PROVE  CaptureRange'
<1>1. PICK k \in DOMAIN trace :
        /\ k \notin logged[t] /\ logged' = [logged EXCEPT ![t] = @ \union {k}]
        /\ \/ /\ file' = [file EXCEPT ![t] = @ \o <<Timestamp(t, trace[k]), Id(k)>>]
              /\ UNCHANGED <<size, offset>>
           \/ UNCHANGED <<file, size, offset>>
           \/ /\ UNCHANGED file
              /\ size' = IF HasRoom(t, trace[k]) THEN size ELSE [size EXCEPT ![t] = 2 * @]
              /\ offset' = [offset EXCEPT ![t] = @ + InclLen(trace[k]) + 16]
  BY LogEffect, Zenon
<1>2. UNCHANGED <<mode, trace, first_id, embedded, task, at>> /\ task[t] = "log"
  BY LogEffect, Zenon DEF config, matching
<1>3. logged' \in [Taps -> SUBSET (DOMAIN trace)]
  BY <1>1, Zenon DEF CaptureRange
<1>4. file' \in [Taps -> Seq(Int)]
  <2>1. file \in [Taps -> Seq(Int)] /\ file[t] \in Seq(Int)
    BY Zenon DEF CaptureRange
  <2>2. Timestamp(t, trace[k]) \in Int /\ Id(k) \in Int
    BY TimestampInt, IdNat DEF CaptureRange
  <2>3. file[t] \o <<Timestamp(t, trace[k]), Id(k)>> \in Seq(Int)
    BY <2>1, <2>2, Appended, Zenon
  <2>4. QED
    BY <1>1, <2>1, <2>3, Zenon
<1>5. size' \in [Taps -> Nat] /\ offset' \in [Taps -> Nat]
  <2>1. size \in [Taps -> Nat] /\ offset \in [Taps -> Nat] /\ size[t] \in Nat /\ offset[t] \in Nat
    BY Zenon DEF CaptureRange
  <2>2. 2 * size[t] \in Nat /\ offset[t] + InclLen(trace[k]) + 16 \in Nat
    BY <2>1, InclLenBound
  <2>3. QED
    BY <1>1, <2>1, <2>2, Zenon
<1>6. QED
  BY <1>2, <1>3, <1>4, <1>5, Zenon DEF CaptureRange

LEMMA LogRoom ==
  ASSUME CaptureRange, RoomInv, NEW t \in Taps, Log(t)
  PROVE  RoomInv'
<1>1. PICK k \in DOMAIN trace :
           \/ UNCHANGED <<size, offset>>
           \/ /\ size' = IF HasRoom(t, trace[k]) THEN size ELSE [size EXCEPT ![t] = 2 * @]
              /\ offset' = [offset EXCEPT ![t] = @ + InclLen(trace[k]) + 16]
  BY LogEffect, Zenon
<1>2. UNCHANGED <<embedded, task>> /\ task[t] = "log"
  BY LogEffect, Zenon DEF config
<1>3. CASE UNCHANGED <<size, offset>>
  BY <1>2, <1>3, Zenon DEF RoomInv, PcapRoom
<1>4. CASE /\ size' = IF HasRoom(t, trace[k]) THEN size ELSE [size EXCEPT ![t] = 2 * @]
           /\ offset' = [offset EXCEPT ![t] = @ + InclLen(trace[k]) + 16]
  <2>1. /\ size \in [Taps -> Nat] /\ offset \in [Taps -> Nat] /\ size[t] \in Nat /\ offset[t] \in Nat
        /\ embedded \in BOOLEAN
    BY Zenon DEF CaptureRange
  <2>2. PICK n \in Nat : n = InclLen(trace[k]) /\ n <= trace[k].len - (IF embedded THEN 0 ELSE 8)
    BY InclLenBound, Zenon
  <2>3. trace[k].len \in Nat /\ 8 <= trace[k].len /\ trace[k].len + 16 <= INITIAL_FILE_SIZE
    BY PacketShape, Zenon DEF CaptureRange
  <2>4. /\ INITIAL_FILE_SIZE <= size[t] /\ offset[t] <= size[t] + (IF embedded THEN 7 ELSE 0)
    BY <1>2, Zenon DEF RoomInv, PcapRoom
  <2>5. offset'[t] = offset[t] + n + 16 /\ size'[t] = IF HasRoom(t, trace[k]) THEN size[t] ELSE 2 * size[t]
    BY <1>4, <2>1, <2>2, Zenon
  <2>6. /\ offset'[t] <= size'[t] + (IF embedded THEN 7 ELSE 0) /\ INITIAL_FILE_SIZE <= size'[t]
    <3>1. CASE HasRoom(t, trace[k])
      <4>1. offset[t] + trace[k].len + 8 < size[t] /\ size'[t] = size[t]
        BY <2>5, <3>1, Zenon DEF HasRoom
      <4>2. QED
        BY <2>1, <2>2, <2>3, <2>4, <2>5, <4>1
    <3>2. CASE ~HasRoom(t, trace[k])
      <4>1. size'[t] = 2 * size[t]
        BY <2>5, <3>2, Zenon
      <4>2. QED
        BY <2>1, <2>2, <2>3, <2>4, <2>5, <4>1, FilesAssumption, SMTT(30)
    <3>3. QED
      BY <3>1, <3>2, Zenon
  <2>7. \A u \in Taps : u # t => size'[u] = size[u] /\ offset'[u] = offset[u]
    BY <1>4, <2>1, Zenon
  <2>8. QED
    BY <1>2, <2>6, <2>7, Zenon DEF RoomInv, PcapRoom
<1>5. QED
  BY <1>1, <1>3, <1>4, Zenon

LEMMA LogEndsEffect ==
  ASSUME CaptureRange, RoomInv, NEW t \in Taps, LogEnds(t)
  PROVE  CaptureRange' /\ RoomInv'
<1>1. /\ task[t] = "log" /\ task' = [task EXCEPT ![t] = "done"]
      /\ \/ size' = [size EXCEPT ![t] = offset[t]]
         \/ size' = size
      /\ UNCHANGED <<mode, trace, first_id, embedded, logged, file, offset, at>>
  BY Zenon DEF LogEnds, config, matching
<1>2. /\ size \in [Taps -> Nat] /\ offset \in [Taps -> Nat] /\ embedded \in BOOLEAN
      /\ task \in [Taps -> {"log", "done"}]
  BY Zenon DEF CaptureRange
<1>3. size' \in [Taps -> Nat] /\ task' \in [Taps -> {"log", "done"}] /\ task'[t] = "done"
  BY <1>1, <1>2, Zenon
<1>4. CaptureRange'
  BY <1>1, <1>2, <1>3, Zenon DEF CaptureRange
<1>5. offset[t] \in Nat /\ offset[t] <= offset[t] + 7 /\ offset[t] <= offset[t] + 0
  BY <1>2
<1>6. \A u \in Taps : u # t => size'[u] = size[u] /\ task'[u] = task[u]
  BY <1>1, <1>2, Zenon
<1>7. size'[t] = offset[t] \/ size'[t] = size[t]
  BY <1>1, <1>2, Zenon
<1>8. offset[t] <= size'[t] + (IF embedded THEN 7 ELSE 0)
  BY <1>5, <1>7, Zenon DEF RoomInv, PcapRoom
<1>9. QED
  BY <1>1, <1>3, <1>4, <1>6, <1>8, Zenon DEF RoomInv, PcapRoom

LEMMA KillEffect ==
  ASSUME CaptureRange, RoomInv, Kill
  PROVE  CaptureRange' /\ RoomInv'
<1>1. /\ task' = [t \in Taps |-> "done"]
      /\ UNCHANGED <<mode, trace, first_id, embedded, logged, size, offset, at>>
  BY Zenon DEF Kill, config, matching
<1>2. PICK torn \in SUBSET {t \in Taps : task[t] = "log" /\ file[t] # << >>} :
        file' = [t \in Taps |-> IF t \in torn
                                THEN SubSeq(file[t], 1, Len(file[t]) - 1) ELSE file[t]]
  BY Zenon DEF Kill
<1>3. ASSUME NEW t \in Taps
      PROVE (IF t \in torn THEN SubSeq(file[t], 1, Len(file[t]) - 1) ELSE file[t]) \in Seq(Int)
  <2>1. file[t] \in Seq(Int)
    BY Zenon DEF CaptureRange
  <2>2. t \in torn => file[t] # << >>
    BY <1>2, Zenon
  <2>3. t \in torn => SubSeq(file[t], 1, Len(file[t]) - 1) \in Seq(Int)
    BY <2>1, <2>2, CutSeq, Zenon
  <2>4. QED
    BY <2>1, <2>3, Zenon
<1>4. file' \in [Taps -> Seq(Int)]
  BY <1>2, <1>3, Zenon
<1>5. task' \in [Taps -> {"log", "done"}] /\ \A t \in Taps : task'[t] = "done" /\ task'[t] # "log"
  BY <1>1, Zenon
<1>6. CaptureRange'
  BY <1>1, <1>4, <1>5, Zenon DEF CaptureRange
<1>7. QED
  BY <1>1, <1>5, <1>6, Zenon DEF RoomInv, PcapRoom

\* Only the capturing tasks and the end of the program touch a file.
LEMMA QuietSteps ==
  ASSUME Next
  PROVE  \/ \E t \in Taps : Log(t) \/ LogEnds(t)
         \/ Kill
         \/ /\ UNCHANGED <<config, task, logged, file, size, offset>>
            /\ UNCHANGED <<matching, hist>> \/ PostProcessing
<1>1. CASE Capture
  BY <1>1, Zenon DEF Capture
<1>2. CASE Expire \/ Stop
  BY <1>2, Zenon DEF Expire, Stop
<1>3. CASE PostProcessing
  <2>1. UNCHANGED <<config, capture>>
    BY <1>3, Zenon DEF PostProcessing, Open, Fill, FillEnds, Match, MatchRest, MatchEnds
  <2>2. QED
    BY <1>3, <2>1, Zenon DEF capture
<1>4. QED
  BY <1>1, <1>2, <1>3, Zenon DEF Next

LEMMA PostProcessingStarts ==
  ASSUME CaptureRange, PostProcessing
  PROVE  mode = "mscap" /\ (\A t \in Taps : task[t] = "done") /\ at' # "wait"
<1>1. CASE Open
  BY <1>1, Zenon DEF Open
<1>2. CASE Fill \/ FillEnds \/ Match \/ MatchRest \/ MatchEnds
  BY <1>2, Zenon DEF Fill, FillEnds, Match, MatchRest, MatchEnds, CaptureRange
<1>3. QED
  BY <1>1, <1>2, Zenon DEF PostProcessing

LEMMA RangeStep ==
  ASSUME CaptureRange, RoomInv, [Next]_vars
  PROVE  CaptureRange' /\ RoomInv'
<1>1. CASE \E t \in Taps : Log(t) \/ LogEnds(t)
  BY <1>1, LogRange, LogRoom, LogEndsEffect, Zenon
<1>2. CASE Kill
  BY <1>2, KillEffect, Zenon
<1>3. CASE /\ UNCHANGED <<config, task, logged, file, size, offset>>
           /\ UNCHANGED at \/ PostProcessing
  <2>1. at' # "wait" => mode = "mscap" /\ \A t \in Taps : task[t] = "done"
    BY <1>3, PostProcessingStarts, Zenon DEF CaptureRange
  <2>2. QED
    BY <1>3, <2>1, Zenon DEF CaptureRange, RoomInv, PcapRoom, config
<1>4. QED
  BY <1>1, <1>2, <1>3, QuietSteps, Zenon DEF vars, capture, matching

\* Every record pcap_log_pkts writes lies within the mapped file, up to 7 bytes
\* when the timestamps are in the mbufs, whatever the lengths of the packets and
\* the size the file begins with.
THEOREM RecordsInMapping == Spec => []PcapRoom
<1>1. Spec => [](CaptureRange /\ RoomInv)
  BY RangeInit, RangeStep, PTL DEF Spec
<1>2. CaptureRange /\ RoomInv => PcapRoom
  BY Zenon DEF RoomInv
<1>3. QED
  BY <1>1, <1>2, PTL

-----------------------------------------------------------------------------
(* The records of a file.                                                   *)

Ordinals == Nat \ {0}
Whole(f, r) == 2 * r <= Len(f)
Rec(f, r) == [ts |-> f[2 * r - 1], id |-> f[2 * r]]
RecordOf(t, k) == [ts |-> Timestamp(t, trace[k]), id |-> Id(k)]

\* Each record is that of a packet the task has handled.
FileInv ==
  \A t \in Taps :
    /\ task[t] = "log" => \E n \in Nat : Len(file[t]) = 2 * n
    /\ \A r \in Ordinals : Whole(file[t], r) => \E k \in logged[t] : Rec(file[t], r) = RecordOf(t, k)

\* No two of them have the same identifier.
UniqueInv ==
  \A t \in Taps : \A r, s \in Ordinals :
    Whole(file[t], r) /\ Whole(file[t], s) /\ Rec(file[t], r).id = Rec(file[t], s).id => r = s

\* g is the file f with n records and one more, of a and b.
OneMore(f, n, a, b, g) ==
  /\ Len(f) = 2 * n /\ Len(g) = Len(f) + 2 /\ g[Len(f) + 1] = a /\ g[Len(f) + 2] = b
  /\ \A i \in 1 .. Len(f) : g[i] = f[i]

LEMMA AppendedRecord ==
  ASSUME NEW f, NEW n \in Nat, NEW a, NEW b, NEW g, OneMore(f, n, a, b, g)
  PROVE  /\ Len(g) = 2 * (n + 1) /\ Rec(g, n + 1) = [ts |-> a, id |-> b]
         /\ \A r \in Ordinals : Whole(g, r) => r = n + 1 \/ (Whole(f, r) /\ Rec(g, r) = Rec(f, r))
<1>1. /\ Len(f) = 2 * n /\ Len(g) = Len(f) + 2 /\ g[Len(f) + 1] = a /\ g[Len(f) + 2] = b
      /\ \A i \in 1 .. Len(f) : g[i] = f[i]
  BY Zenon DEF OneMore
<1>2. Len(f) + 2 = 2 * (n + 1) /\ Len(f) + 1 = 2 * (n + 1) - 1
  BY <1>1
<1>3. Rec(g, n + 1) = [ts |-> a, id |-> b]
  BY <1>1, <1>2, Zenon DEF Rec
<1>4. ASSUME NEW r \in Ordinals, 2 * r <= Len(g), r # n + 1
      PROVE Whole(f, r) /\ Rec(g, r) = Rec(f, r)
  <2>1. 2 * r <= Len(f) /\ 2 * r - 1 \in 1 .. Len(f) /\ 2 * r \in 1 .. Len(f)
    BY <1>1, <1>4 DEF Ordinals
  <2>2. QED
    BY <1>1, <2>1, Zenon DEF Whole, Rec
<1>5. QED
  BY <1>1, <1>2, <1>3, <1>4, Zenon DEF Whole

LEMMA CutRecord ==
  ASSUME NEW f \in Seq(Int), f # << >>, NEW g, g = SubSeq(f, 1, Len(f) - 1),
         NEW r \in Ordinals, Whole(g, r)
  PROVE  Whole(f, r) /\ Rec(g, r) = Rec(f, r)
<1>1. Len(g) = Len(f) - 1 /\ \A i \in 1 .. Len(f) - 1 : g[i] = f[i]
  BY CutSeq, Zenon
<1>2. 2 * r <= Len(g)
  BY Zenon DEF Whole
<1>3. 2 * r <= Len(f) /\ 2 * r - 1 \in 1 .. Len(f) - 1 /\ 2 * r \in 1 .. Len(f) - 1
  BY <1>1, <1>2 DEF Ordinals
<1>4. QED
  BY <1>1, <1>3, Zenon DEF Whole, Rec

LEMMA IdsDiffer ==
  ASSUME CaptureRange, NUM_PKTS <= WORD, NEW j \in DOMAIN trace, NEW k \in DOMAIN trace, Id(j) = Id(k)
  PROVE  j = k
<1>1. j \in 1 .. NUM_PKTS /\ k \in 1 .. NUM_PKTS /\ first_id \in Nat /\ NUM_PKTS \in Nat
      /\ WORD \in Nat /\ WORD > 0
  BY PacketShape, FilesAssumption, Zenon DEF CaptureRange
<1>2. PICK a \in Nat : a = first_id + j - 1
  BY <1>1
<1>3. PICK b \in Nat : b = first_id + k - 1
  BY <1>1
<1>4. a % WORD = b % WORD
  BY <1>2, <1>3, Zenon DEF Id
<1>5. a - b < WORD /\ b - a < WORD
  BY <1>1, <1>2, <1>3
<1>6. a = WORD * (a \div WORD) + (a % WORD) /\ b = WORD * (b \div WORD) + (b % WORD)
      /\ a \div WORD \in Int /\ b \div WORD \in Int
  BY <1>1
<1>7. PICK x \in Int, y \in Int, z \in Int : a = WORD * x + z /\ b = WORD * y + z
  <2>1. a % WORD \in Int
    BY <1>1
  <2>2. QED
    BY <1>4, <1>6, <2>1, Zenon
<1>8. a - b = WORD * (x - y) /\ x - y \in Int
  BY <1>1, <1>7
<1>9. x - y = 0
  BY <1>1, <1>5, <1>8
<1>10. QED
  BY <1>1, <1>2, <1>3, <1>8, <1>9

\* The capture as the matching finds it.
CaptureInv == CaptureRange /\ RoomInv /\ FileInv

LEMMA FileInit ==
  ASSUME Init
  PROVE  FileInv /\ UniqueInv
<1>1. \A t \in Taps : file[t] = << >>
  BY Zenon DEF Init
<1>2. Len(<< >>) = 0 /\ 0 = 2 * 0 /\ 0 \in Nat /\ \A r \in Ordinals : ~(2 * r <= 0)
  BY DEF Ordinals
<1>3. \A r \in Ordinals : \A t \in Taps : ~Whole(file[t], r)
  BY <1>1, <1>2, Zenon DEF Whole
<1>4. QED
  BY <1>1, <1>2, <1>3, Zenon DEF FileInv, UniqueInv

LEMMA LogFile ==
  ASSUME CaptureInv, NEW t \in Taps, Log(t)
  PROVE  FileInv' /\ (NUM_PKTS <= WORD /\ UniqueInv => UniqueInv')
<1>1. PICK k \in DOMAIN trace :
        /\ k \notin logged[t] /\ logged' = [logged EXCEPT ![t] = @ \union {k}]
        /\ \/ file' = [file EXCEPT ![t] = @ \o <<Timestamp(t, trace[k]), Id(k)>>]
           \/ UNCHANGED file
  BY LogEffect, Zenon DEF CaptureInv
<1>2. /\ UNCHANGED <<trace, first_id, embedded, task>> /\ task[t] = "log"
      /\ file \in [Taps -> Seq(Int)] /\ logged \in [Taps -> SUBSET (DOMAIN trace)] /\ CaptureRange
  BY LogEffect, Zenon DEF config, CaptureInv, CaptureRange
<1>3. \A u \in Taps : logged[u] \subseteq logged'[u]
  BY <1>1, <1>2, Zenon
<1>4. \A u \in Taps : \A j : RecordOf(u, j)' = RecordOf(u, j)
  BY <1>2, Zenon DEF RecordOf, Timestamp, TrueTime, Id
<1>5. CASE UNCHANGED file
  BY <1>2, <1>3, <1>4, <1>5, Zenon DEF CaptureInv, FileInv, UniqueInv
<1>6. CASE file' = [file EXCEPT ![t] = @ \o <<Timestamp(t, trace[k]), Id(k)>>]
  <2> DEFINE f == file[t]
             g == file'[t]
  <2>1. g = f \o <<Timestamp(t, trace[k]), Id(k)>> /\ f \in Seq(Int)
    BY <1>2, <1>6, Zenon
  <2>2. Timestamp(t, trace[k]) \in Int /\ Id(k) \in Int
    BY <1>2, TimestampInt, IdNat DEF CaptureRange
  <2>3. PICK n \in Nat : Len(f) = 2 * n
    BY <1>2, Zenon DEF CaptureInv, FileInv
  <2> HIDE DEF f, g
  <2>4. /\ Len(g) = 2 * (n + 1) /\ Rec(g, n + 1) = [ts |-> Timestamp(t, trace[k]), id |-> Id(k)]
        /\ \A r \in Ordinals : Whole(g, r) => r = n + 1 \/ (Whole(f, r) /\ Rec(g, r) = Rec(f, r))
    <3>1. PICK a \in Int, b \in Int : a = Timestamp(t, trace[k]) /\ b = Id(k)
      BY <2>2, Zenon
    <3>2. g = f \o <<a, b>>
      BY <2>1, <3>1, Zenon
    <3>3. /\ Len(g) = 2 * (n + 1) /\ Rec(g, n + 1) = [ts |-> a, id |-> b]
          /\ \A r \in Ordinals : Whole(g, r) => r = n + 1 \/ (Whole(f, r) /\ Rec(g, r) = Rec(f, r))
      <4>1. /\ Len(g) = Len(f) + 2 /\ g[Len(f) + 1] = a /\ g[Len(f) + 2] = b
            /\ \A i \in 1 .. Len(f) : g[i] = f[i]
        BY <2>1, <3>2, Appended
      <4>2. QED
        <5>1. OneMore(f, n, a, b, g)
          BY <2>3, <4>1, Zenon DEF OneMore
        <5>2. QED
          BY <5>1, AppendedRecord, Zenon
    <3>4. QED
      BY <3>1, <3>3, Zenon
  <2>5. n + 1 \in Nat /\ k \in logged'[t] /\ Rec(g, n + 1) = RecordOf(t, k)
    <3>1. n + 1 \in Nat
      OBVIOUS
    <3>2. QED
      BY <1>1, <1>2, <2>4, <3>1, Zenon DEF RecordOf
  <2>6. \A r \in Ordinals : Whole(f, r) => \E j \in logged[t] : Rec(f, r) = RecordOf(t, j)
    BY Zenon DEF CaptureInv, FileInv, f
  <2>7. \A u \in Taps : u # t => file'[u] = file[u]
    BY <1>2, <1>6, Zenon
  <2>8. FileInv'
    <3>1. \A r \in Ordinals : Whole(g, r) => \E j \in logged'[t] : Rec(g, r) = RecordOf(t, j)
      BY <1>3, <2>4, <2>5, <2>6, Zenon
    <3>2. \E m \in Nat : Len(g) = 2 * m
      BY <2>4, <2>5, Zenon
    <3>3. ASSUME NEW u \in Taps
          PROVE  /\ task[u] = "log" => \E m \in Nat : Len(file'[u]) = 2 * m
                 /\ \A r \in Ordinals : Whole(file'[u], r) =>
                      \E j \in logged'[u] : Rec(file'[u], r) = RecordOf(u, j)
      <4>1. CASE u = t
        BY <3>1, <3>2, <4>1, Zenon DEF g
      <4>2. CASE u # t
        BY <1>3, <2>7, <4>2, Zenon DEF CaptureInv, FileInv
      <4>3. QED
        BY <4>1, <4>2, Zenon
    <3>4. QED
      BY <1>2, <1>4, <3>3, Zenon DEF FileInv
  <2>9. ASSUME NUM_PKTS <= WORD, UniqueInv PROVE UniqueInv'
    <3>1. \A r \in Ordinals : Whole(f, r) => Rec(f, r).id # Id(k)
      <4>1. ASSUME NEW r \in Ordinals, Whole(f, r), Rec(f, r).id = Id(k) PROVE FALSE
        <5>1. PICK j \in logged[t] : Rec(f, r) = RecordOf(t, j)
          BY <2>6, <4>1, Zenon
        <5>2. Rec(f, r).id = Id(j)
          <6>1. RecordOf(t, j).id = Id(j)
            BY Zenon DEF RecordOf
          <6>2. QED
            BY <5>1, <6>1, Zenon
        <5>3. j \in DOMAIN trace /\ Id(j) = Id(k)
          BY <1>2, <4>1, <5>1, <5>2, Zenon
        <5>4. j = k
          BY <1>2, <2>9, <5>3, IdsDiffer, Zenon
        <5>5. QED
          BY <1>1, <5>1, <5>4, Zenon
      <4>2. QED
        BY <4>1, Zenon
    <3>2. Rec(g, n + 1).id = Id(k)
      <4>1. RecordOf(t, k).id = Id(k)
        BY Zenon DEF RecordOf
      <4>2. QED
        BY <2>5, <4>1, Zenon
    <3>3. \A r, s \in Ordinals : Whole(f, r) /\ Whole(f, s) /\ Rec(f, r).id = Rec(f, s).id => r = s
      BY <2>9, Zenon DEF UniqueInv, f
    <3>4. \A r, s \in Ordinals : Whole(g, r) /\ Whole(g, s) /\ Rec(g, r).id = Rec(g, s).id => r = s
      BY <2>4, <3>1, <3>2, <3>3, Zenon
    <3>5. QED
      BY <2>7, <2>9, <3>4, Zenon DEF UniqueInv, g
  <2>10. QED
    BY <2>8, <2>9, Zenon
<1>7. QED
  BY <1>1, <1>5, <1>6, Zenon

LEMMA KillFile ==
  ASSUME CaptureInv, Kill
  PROVE  FileInv' /\ (UniqueInv => UniqueInv')
<1>1. /\ task' = [t \in Taps |-> "done"]
      /\ UNCHANGED <<trace, first_id, embedded, logged>>
  BY Zenon DEF Kill, config
<1>2. PICK torn \in SUBSET {t \in Taps : task[t] = "log" /\ file[t] # << >>} :
        file' = [t \in Taps |-> IF t \in torn
                                THEN SubSeq(file[t], 1, Len(file[t]) - 1) ELSE file[t]]
  BY Zenon DEF Kill
<1>3. ASSUME NEW t \in Taps, NEW r \in Ordinals, Whole(file'[t], r)
      PROVE  Whole(file[t], r) /\ Rec(file'[t], r) = Rec(file[t], r)
  <2>1. file[t] \in Seq(Int)
    BY Zenon DEF CaptureInv, CaptureRange
  <2>2. CASE t \in torn
    <3>1. file'[t] = SubSeq(file[t], 1, Len(file[t]) - 1) /\ file[t] # << >>
      BY <1>2, <2>2, Zenon
    <3>2. QED
      BY <1>3, <2>1, <3>1, CutRecord, Zenon
  <2>3. CASE t \notin torn
    <3>1. file'[t] = file[t]
      BY <1>2, <2>3, Zenon
    <3>2. QED
      BY <1>3, <3>1, Zenon
  <2>4. QED
    BY <2>2, <2>3, Zenon
<1>4. \A u \in Taps : \A j : RecordOf(u, j)' = RecordOf(u, j)
  BY <1>1, Zenon DEF RecordOf, Timestamp, TrueTime, Id
<1>5. \A t \in Taps : task'[t] # "log"
  BY <1>1, Zenon
<1>6. FileInv'
  BY <1>1, <1>3, <1>4, <1>5, Zenon DEF CaptureInv, FileInv
<1>7. ASSUME UniqueInv PROVE UniqueInv'
  BY <1>3, <1>7, Zenon DEF UniqueInv
<1>8. QED
  BY <1>6, <1>7, Zenon

LEMMA CaptureStep ==
  ASSUME CaptureInv, [Next]_vars
  PROVE  CaptureInv' /\ (NUM_PKTS <= WORD /\ UniqueInv => UniqueInv')
<1>1. CaptureRange' /\ RoomInv'
  BY RangeStep, Zenon DEF CaptureInv
<1>2. FileInv' /\ (NUM_PKTS <= WORD /\ UniqueInv => UniqueInv')
  <2>1. CASE \E t \in Taps : Log(t)
    BY <2>1, LogFile, Zenon
  <2>2. CASE Kill
    BY <2>2, KillFile, Zenon
  <2> DEFINE Quiet == /\ UNCHANGED <<trace, first_id, embedded, logged, file>>
                      /\ \A t \in Taps : task'[t] = "log" => task[t] = "log"
  <2>3. CASE Quiet
    <3>1. \A u \in Taps : \A j : RecordOf(u, j)' = RecordOf(u, j)
      BY <2>3, Zenon DEF RecordOf, Timestamp, TrueTime, Id
    <3>2. QED
      BY <2>3, <3>1, Zenon DEF CaptureInv, FileInv, UniqueInv
  <2>4. ASSUME NEW t \in Taps, LogEnds(t) PROVE Quiet
    <3>1. /\ task' = [task EXCEPT ![t] = "done"] /\ UNCHANGED <<trace, first_id, embedded, logged, file>>
      BY <2>4, Zenon DEF LogEnds, config
    <3>2. QED
      BY <3>1, Zenon DEF CaptureInv, CaptureRange
  <2>5. QED
    BY <2>1, <2>2, <2>3, <2>4, QuietSteps, Zenon DEF vars, config, capture
<1>3. QED
  BY <1>1, <1>2, Zenon DEF CaptureInv

\* The post-processing works on files that stay as they are.
LEMMA FrozenFiles ==
  ASSUME CaptureInv, [Next]_vars
  PROVE  /\ UNCHANGED config /\ \A t \in Taps : logged[t] \subseteq logged'[t]
         /\ at # "wait" => UNCHANGED file
         /\ \/ PostProcessing /\ UNCHANGED <<file, logged>>
            \/ UNCHANGED <<matching, hist>>
<1> USE DEF CaptureInv
<1>1. ASSUME NEW t \in Taps, Log(t) PROVE UNCHANGED <<config, matching, hist>> /\ at = "wait"
  <2>1. UNCHANGED <<config, matching, hist>> /\ task[t] = "log"
    BY <1>1, Zenon DEF Log
  <2>2. QED
    BY <2>1, Zenon DEF CaptureRange
<1>2. ASSUME NEW t \in Taps, Log(t) PROVE \A u \in Taps : logged[u] \subseteq logged'[u]
  <2>1. PICK k : logged' = [logged EXCEPT ![t] = @ \union {k}]
    BY <1>2, Zenon DEF Log
  <2>2. QED
    BY <2>1, Zenon DEF CaptureRange
<1>3. ASSUME NEW t \in Taps, LogEnds(t) PROVE UNCHANGED <<config, matching, hist, file, logged>>
  BY <1>3, Zenon DEF LogEnds
<1>4. CASE Kill
  <2>1. UNCHANGED <<config, matching, hist, logged>> /\ \E t \in Taps : task[t] = "log"
    BY <1>4, Zenon DEF Kill
  <2>2. at = "wait"
    BY <2>1, Zenon DEF CaptureRange
  <2>3. QED
    BY <2>1, <2>2, Zenon
<1>5. CASE \E t \in Taps : Log(t) \/ LogEnds(t)
  BY <1>1, <1>2, <1>3, <1>5, Zenon
<1>6. QED
  BY <1>4, <1>5, QuietSteps, Zenon DEF vars, capture

-----------------------------------------------------------------------------
(* Reading the files.                                                       *)

Cap == [ts : Int, id : Nat]

\* cap is the record behind the first n of the file, and the reader, which has
\* passed p values, is behind it; Nil if there are only n.
Reading(f, cap, n, p) ==
  /\ n \in Nat
  /\ \/ /\ cap # Nil /\ cap \in Cap /\ p = 2 * (n + 1)
        /\ Whole(f, n + 1) /\ cap = Rec(f, n + 1)
     \/ /\ cap = Nil /\ p = 2 * n
        /\ Whole(f, n) /\ ~Whole(f, n + 1)

LEMMA RecShape ==
  ASSUME CaptureInv, NEW t \in Taps, NEW r \in Ordinals, Whole(file[t], r)
  PROVE  Rec(file[t], r) \in Cap /\ Rec(file[t], r) # Nil
<1>1. PICK k \in logged[t] : Rec(file[t], r) = RecordOf(t, k)
  BY Zenon DEF CaptureInv, FileInv
<1>2. k \in DOMAIN trace
  BY <1>1, Zenon DEF CaptureInv, CaptureRange
<1>3. Timestamp(t, trace[k]) \in Int /\ Id(k) \in Nat
  BY <1>2, TimestampInt, IdNat, Zenon DEF CaptureInv, CaptureRange
<1>4. Id(k) # -1
  BY <1>3
<1>5. RecordOf(t, k) \in Cap /\ RecordOf(t, k).id = Id(k)
  BY <1>3, Zenon DEF RecordOf, Cap
<1>6. Nil.id = -1
  BY Zenon DEF Nil
<1>7. QED
  BY <1>1, <1>4, <1>5, <1>6, Zenon

LEMMA ReadRecord ==
  ASSUME CaptureInv, NEW t \in Taps, NEW n \in Nat, NEW p, p = 2 * n
  PROVE  /\ n + 1 \in Ordinals
         /\ Whole(file[t], n + 1) => /\ Record(t, p) = Rec(file[t], n + 1)
                                     /\ Record(t, p) \in Cap /\ Record(t, p) # Nil
         /\ ~Whole(file[t], n + 1) => Record(t, p) = Nil
<1>1. n + 1 \in Ordinals
  BY DEF Ordinals
<1>2. PICK l \in Nat : l = Len(file[t])
  <2>1. file[t] \in Seq(Int)
    BY Zenon DEF CaptureInv, CaptureRange
  <2>2. Len(file[t]) \in Nat
    BY <2>1
  <2>3. QED
    BY <2>2, Zenon
<1>3. /\ p + 1 = 2 * (n + 1) - 1 /\ p + 2 = 2 * (n + 1)
      /\ 2 * (n + 1) <= l => ~(l - p < 2)
      /\ ~(2 * (n + 1) <= l) => l - p < 2
  OBVIOUS
<1>4. ASSUME Whole(file[t], n + 1) PROVE Record(t, p) = Rec(file[t], n + 1)
  <2>1. ~(Len(file[t]) - p < 2)
    BY <1>2, <1>3, <1>4, Zenon DEF Whole
  <2>2. QED
    BY <1>3, <2>1, Zenon DEF Record, Rec
<1>5. ASSUME ~Whole(file[t], n + 1) PROVE Record(t, p) = Nil
  <2>1. Len(file[t]) - p < 2
    BY <1>2, <1>3, <1>5, Zenon DEF Whole
  <2>2. QED
    BY <2>1, Zenon DEF Record
<1>6. QED
  BY <1>1, <1>4, <1>5, RecShape, Zenon

\* readSingle behind a record.
LEMMA ReadNext ==
  ASSUME CaptureInv, NEW t \in Taps, NEW cap, cap # Nil, NEW n, Reading(file[t], cap, n, pos[t])
  PROVE  Reading(file[t], Record(t, pos[t]), n + 1, Advance(t))
<1>1. n \in Nat /\ pos[t] = 2 * (n + 1) /\ Whole(file[t], n + 1)
  BY Zenon DEF Reading
<1>2. n + 1 \in Nat /\ pos[t] + 2 = 2 * ((n + 1) + 1)
  BY <1>1
<1>3. /\ Whole(file[t], (n + 1) + 1) => /\ Record(t, pos[t]) = Rec(file[t], (n + 1) + 1)
                                        /\ Record(t, pos[t]) \in Cap /\ Record(t, pos[t]) # Nil
      /\ ~Whole(file[t], (n + 1) + 1) => Record(t, pos[t]) = Nil
  BY <1>1, <1>2, ReadRecord, Zenon
<1>4. CASE Whole(file[t], (n + 1) + 1)
  <2>1. Advance(t) = 2 * ((n + 1) + 1)
    BY <1>2, <1>3, <1>4, Zenon DEF Advance
  <2>2. QED
    BY <1>2, <1>3, <1>4, <2>1, Zenon DEF Reading
<1>5. CASE ~Whole(file[t], (n + 1) + 1)
  <2>1. Advance(t) = 2 * (n + 1)
    BY <1>1, <1>3, <1>5, Zenon DEF Advance
  <2>2. QED
    BY <1>1, <1>2, <1>3, <1>5, <2>1, Zenon DEF Reading
<1>6. QED
  BY <1>4, <1>5, Zenon

\* readSingle at the end of the file.
LEMMA ReadAtEnd ==
  ASSUME CaptureInv, NEW t \in Taps, NEW n, Reading(file[t], Nil, n, pos[t])
  PROVE  Record(t, pos[t]) = Nil /\ Advance(t) = pos[t]
<1>1. n \in Nat /\ pos[t] = 2 * n /\ ~Whole(file[t], n + 1)
  BY Zenon DEF Reading
<1>2. Record(t, pos[t]) = Nil
  BY <1>1, ReadRecord, Zenon
<1>3. QED
  BY <1>2, Zenon DEF Advance

\* The first records.
LEMMA ReadFirst ==
  ASSUME CaptureInv, NEW t \in Taps, pos[t] = 0
  PROVE  Reading(file[t], Record(t, 0), 0, Advance(t))
<1>1. 0 \in Nat /\ 0 = 2 * 0 /\ 0 + 2 = 2 * (0 + 1)
  OBVIOUS
<1>2. /\ Whole(file[t], 0 + 1) => /\ Record(t, 0) = Rec(file[t], 0 + 1)
                                  /\ Record(t, 0) \in Cap /\ Record(t, 0) # Nil
      /\ ~Whole(file[t], 0 + 1) => Record(t, 0) = Nil
  BY <1>1, ReadRecord, Zenon
<1>3. Whole(file[t], 0)
  <2>1. file[t] \in Seq(Int)
    BY Zenon DEF CaptureInv, CaptureRange
  <2>2. 2 * 0 <= Len(file[t])
    BY <2>1
  <2>3. QED
    BY <2>2, Zenon DEF Whole
<1>4. Advance(t) = IF Record(t, 0) = Nil THEN 0 ELSE 0 + 2
  BY Zenon DEF Advance
<1>5. CASE Whole(file[t], 0 + 1)
  <2>1. Advance(t) = 2 * (0 + 1)
    BY <1>1, <1>2, <1>4, <1>5, Zenon
  <2>2. QED
    BY <1>1, <1>2, <1>5, <2>1, Zenon DEF Reading
<1>6. CASE ~Whole(file[t], 0 + 1)
  <2>1. Advance(t) = 2 * 0
    BY <1>1, <1>2, <1>4, <1>6, Zenon
  <2>2. QED
    BY <1>1, <1>2, <1>3, <1>6, <2>1, Zenon DEF Reading
<1>7. QED
  BY <1>5, <1>6, Zenon

-----------------------------------------------------------------------------
(* Matching.                                                                *)

MapSet == [Slots -> [timestamp : Int, identifier : Int]]

MatchRange ==
  /\ map \in MapSet
  /\ pre_pkts \in Nat /\ post_pkts \in Nat /\ misses \in Nat /\ below \in Nat
  /\ samples \in Seq([id : Nat, diff : Int])
  /\ post_pkts = Len(samples) + misses + below

FirstCap == Whole(file["pre"], 1) /\ precap = Rec(file["pre"], 1)

\* The reader of the first file once initialFill is over.  If that took the whole
\* file, precap is still the first record until one of the second file is matched.
PreInv ==
  /\ \E n \in Nat : pos["pre"] = 2 * n
  /\ precap # Nil => \E r \in Ordinals : Whole(file["pre"], r) /\ precap = Rec(file["pre"], r)
  /\ fillcap = Nil /\ precap # Nil =>
       /\ postcap # Nil /\ post_pkts = 0 /\ FirstCap
       /\ Reading(file["pre"], Nil, pre_pkts, pos["pre"])
  /\ fillcap = Nil /\ precap = Nil =>
       \E n \in Nat : pre_pkts = n + 1 /\ Reading(file["pre"], Nil, n, pos["pre"])

ReadInv ==
  /\ pos \in [Taps -> Nat]
  /\ at = "wait" => (\A t \in Taps : pos[t] = 0) /\ pre_pkts = 0 /\ post_pkts = 0
  /\ at \in {"fill", "match", "done"} => Reading(file["post"], postcap, post_pkts, pos["post"])
  /\ at = "fill" => /\ Reading(file["pre"], fillcap, pre_pkts, pos["pre"])
                    /\ post_pkts = 0 /\ postcap # Nil /\ precap # Nil /\ FirstCap
  /\ at \in {"match", "done"} => PreInv
  /\ at = "done" => postcap = Nil

LEMMA IndexInSlots ==
  ASSUME NEW id \in Nat
  PROVE  Index(id) \in Slots
BY FilesAssumption DEF Index, Slots

LEMMA EnteredMap ==
  ASSUME NEW m \in MapSet, NEW cap \in Cap
  PROVE  /\ Entered(m, cap) \in MapSet /\ Index(cap.id) \in Slots
         /\ Entered(m, cap)[Index(cap.id)] = [timestamp |-> cap.ts, identifier |-> cap.id]
         /\ \A s \in Slots : s # Index(cap.id) => Entered(m, cap)[s] = m[s]
<1>1. cap.ts \in Int /\ cap.id \in Nat /\ cap.id \in Int
  BY DEF Cap
<1>2. Index(cap.id) \in Slots
  BY <1>1, IndexInSlots, Zenon
<1>3. [timestamp |-> cap.ts, identifier |-> cap.id] \in [timestamp : Int, identifier : Int]
  BY <1>1, Zenon
<1>4. QED
  BY <1>2, <1>3, Zenon DEF Entered, MapSet

LEMMA LatencyInt ==
  ASSUME NEW m \in MapSet, NEW cap \in Cap
  PROVE  /\ Index(cap.id) \in Slots /\ m[Index(cap.id)].timestamp \in Int
         /\ cap.ts - m[Index(cap.id)].timestamp \in Int
         /\ Unwrapped(cap.ts - m[Index(cap.id)].timestamp) \in Int
<1>1. cap.ts \in Int /\ cap.id \in Nat
  BY DEF Cap
<1>2. Index(cap.id) \in Slots
  BY <1>1, IndexInSlots, Zenon
<1>3. m[Index(cap.id)].timestamp \in Int
  BY <1>2, Zenon DEF MapSet
<1>4. PICK d \in Int : d = cap.ts - m[Index(cap.id)].timestamp
  BY <1>1, <1>3
<1>5. d + WORD \in Int
  BY FilesAssumption
<1>6. Unwrapped(d) \in Int
  BY <1>5, Zenon DEF Unwrapped
<1>7. QED
  BY <1>2, <1>3, <1>4, <1>6, Zenon

\* computeLatency: one record of the second file is a sample, a miss or refused.
LEMMA ComputeEffect ==
  ASSUME MatchRange, NEW m \in MapSet, postcap \in Cap, computeLatency(m)
  PROVE  /\ postcap' = Record("post", pos["post"]) /\ post_pkts' = post_pkts + 1
         /\ map' = [m EXCEPT ![Index(postcap.id)] = Empty] /\ map' \in MapSet
         /\ post_pkts' \in Nat /\ misses' \in Nat /\ below' \in Nat
         /\ samples' \in Seq([id : Nat, diff : Int])
         /\ post_pkts' = Len(samples') + misses' + below'
<1> DEFINE d == Unwrapped(postcap.ts - m[Index(postcap.id)].timestamp)
<1>1. /\ postcap' = Record("post", pos["post"]) /\ post_pkts' = post_pkts + 1
      /\ map' = [m EXCEPT ![Index(postcap.id)] = Empty]
  BY Zenon DEF computeLatency
<1>2. \/ below' = below + 1 /\ UNCHANGED <<misses, samples>>
      \/ samples' = Append(samples, [id |-> postcap.id, diff |-> d]) /\ UNCHANGED <<misses, below>>
      \/ misses' = misses + 1 /\ UNCHANGED <<below, samples>>
  BY Zenon DEF computeLatency
<1>3. Empty \in [timestamp : Int, identifier : Int]
  BY DEF Empty
<1>4. map' \in MapSet
  BY <1>1, <1>3, Zenon DEF MapSet
<1>5. d \in Int
  BY LatencyInt, Zenon
<1>6. postcap.id \in Nat
  BY Zenon DEF Cap
<1> HIDE DEF d
<1>7. /\ pre_pkts \in Nat /\ post_pkts \in Nat /\ misses \in Nat /\ below \in Nat
      /\ samples \in Seq([id : Nat, diff : Int]) /\ post_pkts = Len(samples) + misses + below
      /\ Len(samples) \in Nat
  BY DEF MatchRange
<1>8. [id |-> postcap.id, diff |-> d] \in [id : Nat, diff : Int]
  BY <1>5, <1>6, Zenon
<1>9. /\ post_pkts' \in Nat /\ misses' \in Nat /\ below' \in Nat
      /\ samples' \in Seq([id : Nat, diff : Int])
      /\ post_pkts' = Len(samples') + misses' + below'
  <2>1. CASE below' = below + 1 /\ UNCHANGED <<misses, samples>>
    BY <1>1, <1>7, <2>1
  <2>2. CASE samples' = Append(samples, [id |-> postcap.id, diff |-> d]) /\ UNCHANGED <<misses, below>>
    <3>1. PICK e \in [id : Nat, diff : Int] : e = [id |-> postcap.id, diff |-> d]
      BY <1>8, Zenon
    <3>2. samples' = Append(samples, e)
      BY <2>2, <3>1, Zenon
    <3>3. samples' \in Seq([id : Nat, diff : Int]) /\ Len(samples') = Len(samples) + 1
      BY <1>7, <3>2
    <3>4. QED
      BY <1>1, <1>7, <2>2, <3>3
  <2>3. CASE misses' = misses + 1 /\ UNCHANGED <<below, samples>>
    BY <1>1, <1>7, <2>3
  <2>4. QED
    BY <1>2, <2>1, <2>2, <2>3, Zenon
<1>10. QED
  BY <1>1, <1>4, <1>9, Zenon

LEMMA MatchInit ==
  ASSUME Init
  PROVE  MatchRange /\ ReadInv
<1>1. Empty \in [timestamp : Int, identifier : Int] /\ 0 \in Nat /\ 0 = Len(<< >>) + 0 + 0
      /\ << >> \in Seq([id : Nat, diff : Int])
  BY DEF Empty
<1>2. map \in MapSet
  BY <1>1, Zenon DEF Init, MapSet
<1>3. pos \in [Taps -> Nat] /\ \A t \in Taps : pos[t] = 0
  BY <1>1, Zenon DEF Init
<1>4. at = "wait" /\ pre_pkts = 0 /\ post_pkts = 0 /\ misses = 0 /\ below = 0 /\ samples = << >>
  BY Zenon DEF Init
<1>5. MatchRange
  BY <1>1, <1>2, <1>4, Zenon DEF MatchRange
<1>6. QED
  BY <1>3, <1>4, <1>5, Zenon DEF ReadInv

LEMMA AdvanceNat ==
  ASSUME pos \in [Taps -> Nat], NEW t \in Taps
  PROVE  Advance(t) \in Nat
<1>1. pos[t] \in Nat /\ pos[t] + 2 \in Nat
  OBVIOUS
<1>2. QED
  BY <1>1, Zenon DEF Advance

MatchInv == MatchRange /\ ReadInv

LEMMA TapsTwo == "pre" \in Taps /\ "post" \in Taps /\ "pre" # "post"
BY Zenon DEF Taps

LEMMA OpenRead ==
  ASSUME CaptureInv, MatchInv, Open, UNCHANGED file
  PROVE  MatchInv'
<1>1. /\ at = "wait" /\ precap' = Record("pre", 0) /\ postcap' = Record("post", 0)
      /\ fillcap' = precap' /\ at' = (IF Nil \in {precap', postcap'} THEN "error" ELSE "fill")
      /\ pos' = [t \in Taps |-> Advance(t)]
      /\ UNCHANGED <<map, misses, pre_pkts, post_pkts, below, samples>>
  BY Zenon DEF Open
<1>2. pos \in [Taps -> Nat] /\ (\A t \in Taps : pos[t] = 0) /\ pre_pkts = 0 /\ post_pkts = 0
  BY <1>1, Zenon DEF MatchInv, ReadInv
<1>3. pos' \in [Taps -> Nat] /\ pos'["pre"] = Advance("pre") /\ pos'["post"] = Advance("post")
  BY <1>1, <1>2, AdvanceNat, TapsTwo, Zenon
<1>4. /\ Reading(file["pre"], precap', 0, pos'["pre"])
      /\ Reading(file["post"], postcap', 0, pos'["post"])
  BY <1>1, <1>2, <1>3, ReadFirst, TapsTwo, Zenon
<1>5. MatchRange'
  BY <1>1, Zenon DEF MatchInv, MatchRange
<1>6. CASE at' = "error"
  BY <1>3, <1>5, <1>6, Zenon DEF MatchInv, ReadInv
<1>7. CASE at' = "fill"
  <2>1. precap' # Nil /\ postcap' # Nil
    BY <1>1, <1>7, Zenon
  <2>2. 0 + 1 = 1
    OBVIOUS
  <2>3. Whole(file["pre"], 1) /\ precap' = Rec(file["pre"], 1)
    BY <1>4, <2>1, <2>2, Zenon DEF Reading
  <2>4. QED
    BY <1>1, <1>2, <1>3, <1>4, <1>5, <1>7, <2>1, <2>3, Zenon DEF MatchInv, ReadInv, FirstCap
<1>8. QED
  BY <1>1, <1>6, <1>7, Zenon

LEMMA FillRead ==
  ASSUME CaptureInv, MatchInv, Fill, UNCHANGED file
  PROVE  MatchInv'
<1>1. /\ at = "fill" /\ at' = "fill" /\ fillcap # Nil
      /\ pre_pkts' = pre_pkts + 1 /\ map' = Entered(map, fillcap)
      /\ fillcap' = Record("pre", pos["pre"]) /\ pos' = [pos EXCEPT !["pre"] = Advance("pre")]
      /\ UNCHANGED <<precap, postcap, misses, post_pkts, below, samples>>
  BY Zenon DEF Fill, FillGoesOn
<1>2. /\ pos \in [Taps -> Nat] /\ Reading(file["post"], postcap, post_pkts, pos["post"])
      /\ Reading(file["pre"], fillcap, pre_pkts, pos["pre"])
      /\ post_pkts = 0 /\ postcap # Nil /\ precap # Nil /\ FirstCap
  BY <1>1, Zenon DEF MatchInv, ReadInv
<1>3. pos' \in [Taps -> Nat] /\ pos'["pre"] = Advance("pre") /\ pos'["post"] = pos["post"]
  BY <1>1, <1>2, AdvanceNat, TapsTwo, Zenon
<1>4. Reading(file["pre"], fillcap', pre_pkts', pos'["pre"])
  BY <1>1, <1>2, <1>3, ReadNext, TapsTwo, Zenon
<1>5. fillcap \in Cap /\ pre_pkts' \in Nat
  BY <1>1, <1>2, <1>4, Zenon DEF Reading
<1>6. map' \in MapSet
  BY <1>1, <1>5, EnteredMap, Zenon DEF MatchInv, MatchRange
<1>7. MatchRange'
  BY <1>1, <1>5, <1>6, Zenon DEF MatchInv, MatchRange
<1>8. QED
  BY <1>1, <1>2, <1>3, <1>4, <1>7, Zenon DEF MatchInv, ReadInv, FirstCap

LEMMA FillEndsRead ==
  ASSUME CaptureInv, MatchInv, FillEnds, UNCHANGED file
  PROVE  MatchInv'
<1>1. /\ at = "fill" /\ at' = "match"
      /\ UNCHANGED <<pos, precap, postcap, fillcap, map, misses, pre_pkts, post_pkts, below, samples>>
  BY Zenon DEF FillEnds
<1>2. /\ pos \in [Taps -> Nat] /\ Reading(file["post"], postcap, post_pkts, pos["post"])
      /\ Reading(file["pre"], fillcap, pre_pkts, pos["pre"])
      /\ post_pkts = 0 /\ postcap # Nil /\ precap # Nil /\ FirstCap
  BY <1>1, Zenon DEF MatchInv, ReadInv
<1>3. \E n \in Nat : pos["pre"] = 2 * n
  <2>1. pre_pkts \in Nat /\ (pos["pre"] = 2 * pre_pkts \/ pos["pre"] = 2 * (pre_pkts + 1))
    BY <1>2, Zenon DEF Reading
  <2>2. pre_pkts + 1 \in Nat
    BY <2>1
  <2>3. QED
    BY <2>1, <2>2, Zenon
<1>4. 1 \in Ordinals
  BY DEF Ordinals
<1>5. PreInv
  BY <1>2, <1>3, <1>4, Zenon DEF PreInv, FirstCap
<1>6. PreInv'
  BY <1>1, <1>5, Zenon DEF PreInv, FirstCap
<1>7. MatchRange'
  BY <1>1, Zenon DEF MatchInv, MatchRange
<1>8. QED
  BY <1>1, <1>2, <1>6, <1>7, Zenon DEF MatchInv, ReadInv

\* The record of the first file that is entered next.
LEMMA PrecapShape ==
  ASSUME CaptureInv, MatchInv, at = "match", precap # Nil
  PROVE  precap \in Cap
<1>1. PICK r \in Ordinals : Whole(file["pre"], r) /\ precap = Rec(file["pre"], r)
  BY Zenon DEF MatchInv, ReadInv, PreInv
<1>2. QED
  BY <1>1, RecShape, TapsTwo, Zenon

LEMMA PostcapShape ==
  ASSUME MatchInv, at = "match", postcap # Nil
  PROVE  postcap \in Cap
BY Zenon DEF MatchInv, ReadInv, Reading

LEMMA MatchRead ==
  ASSUME CaptureInv, MatchInv, Match, UNCHANGED file
  PROVE  MatchInv'
<1>1. /\ at = "match" /\ at' = "match" /\ precap # Nil /\ postcap # Nil /\ UNCHANGED fillcap
      /\ pre_pkts' = pre_pkts + 1 /\ precap' = Record("pre", pos["pre"])
      /\ computeLatency(Entered(map, precap)) /\ pos' = [t \in Taps |-> Advance(t)]
  BY Zenon DEF Match
<1>2. /\ pos \in [Taps -> Nat] /\ Reading(file["post"], postcap, post_pkts, pos["post"]) /\ PreInv
      /\ MatchRange
  BY <1>1, Zenon DEF MatchInv, ReadInv
<1>3. precap \in Cap /\ postcap \in Cap
  BY <1>1, PrecapShape, PostcapShape, Zenon
<1>4. Entered(map, precap) \in MapSet
  BY <1>2, <1>3, EnteredMap, Zenon DEF MatchRange
<1>5. /\ postcap' = Record("post", pos["post"]) /\ post_pkts' = post_pkts + 1
      /\ map' \in MapSet /\ post_pkts' \in Nat /\ misses' \in Nat /\ below' \in Nat
      /\ samples' \in Seq([id : Nat, diff : Int])
      /\ post_pkts' = Len(samples') + misses' + below'
  BY <1>1, <1>2, <1>3, <1>4, ComputeEffect, Zenon
<1>6. pos' \in [Taps -> Nat] /\ pos'["pre"] = Advance("pre") /\ pos'["post"] = Advance("post")
  BY <1>1, <1>2, AdvanceNat, TapsTwo, Zenon
<1>7. Reading(file["post"], postcap', post_pkts', pos'["post"])
  BY <1>1, <1>2, <1>5, <1>6, ReadNext, TapsTwo, Zenon
<1>8. pre_pkts \in Nat /\ pre_pkts' \in Nat
  BY <1>1, <1>2 DEF MatchRange
<1>9. MatchRange'
  BY <1>5, <1>8, Zenon DEF MatchRange
<1>10. PICK n \in Nat : pos["pre"] = 2 * n
  BY <1>2, Zenon DEF PreInv
<1>11. /\ n + 1 \in Ordinals
       /\ Whole(file["pre"], n + 1) => precap' = Rec(file["pre"], n + 1)
       /\ ~Whole(file["pre"], n + 1) => precap' = Nil
  BY <1>1, <1>10, ReadRecord, TapsTwo, Zenon
<1>12. \E l \in Nat : pos'["pre"] = 2 * l
  <2>1. n + 1 \in Nat /\ pos["pre"] + 2 = 2 * (n + 1)
    BY <1>10
  <2>2. pos'["pre"] = pos["pre"] \/ pos'["pre"] = pos["pre"] + 2
    BY <1>6, Zenon DEF Advance
  <2>3. QED
    BY <1>10, <2>1, <2>2, Zenon
<1>13. ASSUME fillcap = Nil
       PROVE precap' = Nil /\ Reading(file["pre"], Nil, pre_pkts, pos'["pre"])
  <2>1. Reading(file["pre"], Nil, pre_pkts, pos["pre"])
    BY <1>1, <1>2, <1>13, Zenon DEF PreInv
  <2>2. QED
    BY <1>1, <1>6, <2>1, ReadAtEnd, TapsTwo, Zenon
<1>14. PreInv'
  <2>1. precap' # Nil => \E r \in Ordinals : Whole(file["pre"], r) /\ precap' = Rec(file["pre"], r)
    BY <1>11, Zenon
  <2>2. QED
    BY <1>1, <1>8, <1>12, <1>13, <2>1, Zenon DEF PreInv
<1>15. QED
  BY <1>1, <1>6, <1>7, <1>9, <1>14, Zenon DEF MatchInv, ReadInv

LEMMA MatchRestRead ==
  ASSUME CaptureInv, MatchInv, MatchRest, UNCHANGED file
  PROVE  MatchInv'
<1>1. /\ at = "match" /\ at' = "match" /\ precap = Nil /\ postcap # Nil
      /\ UNCHANGED <<fillcap, precap, pre_pkts>>
      /\ computeLatency(map) /\ pos' = [pos EXCEPT !["post"] = Advance("post")]
  BY Zenon DEF MatchRest
<1>2. /\ pos \in [Taps -> Nat] /\ Reading(file["post"], postcap, post_pkts, pos["post"]) /\ PreInv
      /\ MatchRange
  BY <1>1, Zenon DEF MatchInv, ReadInv
<1>3. postcap \in Cap /\ map \in MapSet
  BY <1>1, <1>2, PostcapShape, Zenon DEF MatchRange
<1>4. /\ postcap' = Record("post", pos["post"]) /\ post_pkts' = post_pkts + 1
      /\ map' \in MapSet /\ post_pkts' \in Nat /\ misses' \in Nat /\ below' \in Nat
      /\ samples' \in Seq([id : Nat, diff : Int])
      /\ post_pkts' = Len(samples') + misses' + below'
  BY <1>1, <1>2, <1>3, ComputeEffect, Zenon
<1>5. pos' \in [Taps -> Nat] /\ pos'["pre"] = pos["pre"] /\ pos'["post"] = Advance("post")
  BY <1>1, <1>2, AdvanceNat, TapsTwo, Zenon
<1>6. Reading(file["post"], postcap', post_pkts', pos'["post"])
  BY <1>1, <1>2, <1>4, <1>5, ReadNext, TapsTwo, Zenon
<1>7. MatchRange'
  BY <1>1, <1>2, <1>4, Zenon DEF MatchRange
<1>8. PreInv'
  BY <1>1, <1>2, <1>5, Zenon DEF PreInv
<1>9. QED
  BY <1>1, <1>5, <1>6, <1>7, <1>8, Zenon DEF MatchInv, ReadInv

LEMMA MatchEndsRead ==
  ASSUME MatchInv, MatchEnds, UNCHANGED file
  PROVE  MatchInv'
<1>1. /\ at = "match" /\ at' = "done" /\ postcap = Nil
      /\ UNCHANGED <<pos, precap, postcap, fillcap, map, misses, pre_pkts, post_pkts, below, samples>>
  BY Zenon DEF MatchEnds
<1>2. PreInv
  BY <1>1, Zenon DEF MatchInv, ReadInv
<1>3. PreInv'
  BY <1>1, <1>2, Zenon DEF PreInv, FirstCap
<1>4. MatchRange'
  BY <1>1, Zenon DEF MatchInv, MatchRange
<1>5. QED
  BY <1>1, <1>3, <1>4, Zenon DEF MatchInv, ReadInv

LEMMA MatchInvStep ==
  ASSUME CaptureInv, MatchInv, [Next]_vars
  PROVE  MatchInv'
<1>1. CASE PostProcessing /\ UNCHANGED file
  BY <1>1, OpenRead, FillRead, FillEndsRead, MatchRead, MatchRestRead, MatchEndsRead, Zenon
     DEF PostProcessing
<1>2. CASE UNCHANGED matching /\ (at # "wait" => UNCHANGED file)
  <2>1. UNCHANGED <<at, pos, precap, postcap, fillcap, map, misses, pre_pkts, post_pkts, below, samples>>
    BY <1>2, Zenon DEF matching
  <2>2. MatchRange'
    BY <2>1, Zenon DEF MatchInv, MatchRange
  <2>3. CASE at = "wait"
    BY <2>1, <2>2, <2>3, Zenon DEF MatchInv, ReadInv
  <2>4. CASE at # "wait"
    <3>1. UNCHANGED file
      BY <1>2, <2>4, Zenon
    <3>2. PreInv => PreInv'
      BY <2>1, <3>1, Zenon DEF PreInv, FirstCap
    <3>3. FirstCap => FirstCap'
      BY <2>1, <3>1, Zenon DEF FirstCap
    <3>4. QED
      BY <2>1, <2>2, <3>1, <3>2, <3>3, Zenon DEF MatchInv, ReadInv
  <2>5. QED
    BY <2>3, <2>4, Zenon
<1>3. QED
  BY <1>1, <1>2, FrozenFiles, Zenon

LEMMA RecordsOf ==
  ASSUME CaptureInv, NEW t \in Taps, NEW n, NEW p, Reading(file[t], Nil, n, p)
  PROVE  Records(t) = n
<1>1. n \in Nat /\ 2 * n <= Len(file[t]) /\ ~(2 * (n + 1) <= Len(file[t]))
  BY Zenon DEF Reading, Whole
<1>2. file[t] \in Seq(Int)
  BY Zenon DEF CaptureInv, CaptureRange
<1>3. Len(file[t]) \in Nat
  BY <1>2
<1>4. PICK l \in Nat : l = Len(file[t])
  BY <1>3, Zenon
<1>5. 2 * n <= l /\ ~(2 * (n + 1) <= l)
  BY <1>1, <1>4, Zenon
<1>6. l \div 2 = n
  BY <1>1, <1>5
<1>7. QED
  BY <1>4, <1>6, Zenon DEF Records

LEMMA MatchingInvariant == Spec => [](CaptureInv /\ MatchInv)
<1>1. Init => CaptureInv /\ MatchInv
  BY RangeInit, FileInit, MatchInit, Zenon DEF CaptureInv, MatchInv
<1>2. CaptureInv /\ MatchInv /\ [Next]_vars => (CaptureInv /\ MatchInv)'
  BY CaptureStep, MatchInvStep, Zenon
<1>3. QED
  BY <1>1, <1>2, PTL DEF Spec

\* What initialFill and the loop of the matching have read of the first file is in
\* the map, but for the records both hold.
Held(S) == \A r \in Ordinals : 2 * r <= pos["pre"] => file["pre"][2 * r] \in S

TakenInv ==
  /\ taken \subseteq Int
  /\ at \in {"fill", "match", "done"} =>
       /\ Held(taken \union {fillcap.id, precap.id})
       /\ \E n \in Nat : pos["pre"] = 2 * n /\ Whole(file["pre"], n)
  /\ at \in {"match", "done"} /\ precap = Nil =>
       \E n \in Nat : Reading(file["pre"], Nil, n, pos["pre"])

\* readSingle of the first file.
LEMMA ReadOneMore ==
  ASSUME CaptureInv, NEW n \in Nat, pos["pre"] = 2 * n, Whole(file["pre"], n), NEW S, Held(S)
  PROVE  /\ \A r \in Ordinals : 2 * r <= Advance("pre") =>
              file["pre"][2 * r] \in S \union {Record("pre", pos["pre"]).id}
         /\ \E m \in Nat : Advance("pre") = 2 * m /\ Whole(file["pre"], m)
         /\ Record("pre", pos["pre"]) = Nil => Reading(file["pre"], Nil, n, Advance("pre"))
<1>1. /\ Whole(file["pre"], n + 1) => /\ Record("pre", pos["pre"]) = Rec(file["pre"], n + 1)
                                      /\ Record("pre", pos["pre"]) # Nil
      /\ ~Whole(file["pre"], n + 1) => Record("pre", pos["pre"]) = Nil
  BY ReadRecord, TapsTwo, Zenon
<1>2. n + 1 \in Nat /\ pos["pre"] + 2 = 2 * (n + 1)
  OBVIOUS
<1>3. CASE Whole(file["pre"], n + 1)
  <2>0. Rec(file["pre"], n + 1).id = file["pre"][2 * (n + 1)]
    BY Zenon DEF Rec
  <2>1. Advance("pre") = 2 * (n + 1) /\ Record("pre", pos["pre"]).id = file["pre"][2 * (n + 1)]
    <3>1. Advance("pre") = pos["pre"] + 2
      BY <1>1, <1>3, Zenon DEF Advance
    <3>2. QED
      BY <1>1, <1>2, <1>3, <2>0, <3>1, Zenon
  <2>2. ASSUME NEW r \in Ordinals, 2 * r <= 2 * (n + 1)
        PROVE  2 * r <= pos["pre"] \/ r = n + 1
    BY <2>2 DEF Ordinals
  <2>3. QED
    BY <1>1, <1>2, <1>3, <2>1, <2>2, Zenon DEF Held
<1>4. CASE ~Whole(file["pre"], n + 1)
  <2>1. Record("pre", pos["pre"]) = Nil /\ Advance("pre") = pos["pre"]
    BY <1>1, <1>4, Zenon DEF Advance
  <2>2. QED
    BY <1>4, <2>1, Zenon DEF Held, Reading
<1>5. QED
  BY <1>3, <1>4, Zenon

LEMMA TakenOpen ==
  ASSUME CaptureInv, MatchInv, TakenInv, Open, UNCHANGED file
  PROVE  TakenInv'
<1>1. /\ at = "wait" /\ precap' = Record("pre", 0) /\ fillcap' = precap' /\ taken' = taken
      /\ pos' = [t \in Taps |-> Advance(t)]
      /\ at' = (IF Nil \in {precap', postcap'} THEN "error" ELSE "fill")
  BY Zenon DEF Open
<1>2. pos["pre"] = 0 /\ pos'["pre"] = Advance("pre")
  BY <1>1, TapsTwo, Zenon DEF MatchInv, ReadInv
<1>3. pos["pre"] = 2 * 0 /\ 0 \in Nat /\ Held({})
  BY <1>2 DEF Held, Ordinals
<1>4. Whole(file["pre"], 0)
  <2>1. file["pre"] \in Seq(Int)
    BY TapsTwo, Zenon DEF CaptureInv, CaptureRange
  <2>2. 2 * 0 <= Len(file["pre"])
    BY <2>1
  <2>3. QED
    BY <2>2, Zenon DEF Whole
<1>5. /\ \A r \in Ordinals : 2 * r <= pos'["pre"] => file["pre"][2 * r] \in {} \union {precap'.id}
      /\ \E m \in Nat : pos'["pre"] = 2 * m /\ Whole(file["pre"], m)
  BY <1>1, <1>2, <1>3, <1>4, ReadOneMore, Zenon
<1>6. Held(taken \union {fillcap.id, precap.id})'
  BY <1>5, Zenon DEF Held
<1>7. QED
  BY <1>1, <1>5, <1>6, Zenon DEF TakenInv

LEMMA TakenFill ==
  ASSUME CaptureInv, MatchInv, TakenInv, Fill, UNCHANGED file
  PROVE  TakenInv'
<1>1. /\ at = "fill" /\ at' = "fill" /\ fillcap # Nil /\ fillcap' = Record("pre", pos["pre"])
      /\ taken' = taken \union {fillcap.id} /\ precap' = precap
      /\ pos' = [pos EXCEPT !["pre"] = Advance("pre")]
  BY Zenon DEF Fill, FillGoesOn
<1>2. pos \in [Taps -> Nat] /\ Reading(file["pre"], fillcap, pre_pkts, pos["pre"])
  BY <1>1, Zenon DEF MatchInv, ReadInv
<1>3. pos'["pre"] = Advance("pre") /\ fillcap.id \in Int
  <2>1. fillcap \in Cap
    BY <1>1, <1>2, Zenon DEF Reading
  <2>2. fillcap.id \in Nat
    BY <2>1, Zenon DEF Cap
  <2>3. QED
    BY <1>1, <1>2, <2>2, TapsTwo
<1> DEFINE S == taken \union {fillcap.id, precap.id}
<1>4. PICK n \in Nat : pos["pre"] = 2 * n /\ Whole(file["pre"], n)
  BY <1>1, Zenon DEF TakenInv
<1>5. Held(S)
  BY <1>1, Zenon DEF TakenInv
<1> HIDE DEF S
<1>6. /\ \A r \in Ordinals : 2 * r <= pos'["pre"] => file["pre"][2 * r] \in S \union {fillcap'.id}
      /\ \E m \in Nat : pos'["pre"] = 2 * m /\ Whole(file["pre"], m)
  BY <1>1, <1>3, <1>4, <1>5, ReadOneMore, Zenon
<1>7. S \union {fillcap'.id} \subseteq taken' \union {fillcap'.id, precap'.id}
  BY <1>1, Zenon DEF S
<1>8. Held(taken \union {fillcap.id, precap.id})'
  BY <1>6, <1>7, Zenon DEF Held
<1>9. QED
  BY <1>1, <1>3, <1>6, <1>8, Zenon DEF TakenInv

LEMMA TakenMatch ==
  ASSUME CaptureInv, MatchInv, TakenInv, Match, UNCHANGED file
  PROVE  TakenInv'
<1>1. /\ at = "match" /\ at' = "match" /\ precap # Nil /\ precap' = Record("pre", pos["pre"])
      /\ taken' = taken \union {precap.id} /\ fillcap' = fillcap
      /\ pos' = [t \in Taps |-> Advance(t)]
  BY Zenon DEF Match
<1>2. pos'["pre"] = Advance("pre") /\ precap.id \in Int
  <2>1. precap \in Cap
    BY <1>1, PrecapShape, Zenon
  <2>2. precap.id \in Nat
    BY <2>1, Zenon DEF Cap
  <2>3. QED
    BY <1>1, <2>2, TapsTwo
<1> DEFINE S == taken \union {fillcap.id, precap.id}
<1>3. PICK n \in Nat : pos["pre"] = 2 * n /\ Whole(file["pre"], n)
  BY <1>1, Zenon DEF TakenInv
<1>4. Held(S)
  BY <1>1, Zenon DEF TakenInv
<1> HIDE DEF S
<1>5. /\ \A r \in Ordinals : 2 * r <= pos'["pre"] => file["pre"][2 * r] \in S \union {precap'.id}
      /\ \E m \in Nat : pos'["pre"] = 2 * m /\ Whole(file["pre"], m)
      /\ precap' = Nil => Reading(file["pre"], Nil, n, pos'["pre"])
  BY <1>1, <1>2, <1>3, <1>4, ReadOneMore, Zenon
<1>6. S \union {precap'.id} \subseteq taken' \union {fillcap'.id, precap'.id}
  BY <1>1, Zenon DEF S
<1>7. Held(taken \union {fillcap.id, precap.id})'
  BY <1>5, <1>6, Zenon DEF Held
<1>8. QED
  BY <1>1, <1>2, <1>5, <1>7, Zenon DEF TakenInv

LEMMA TakenStep ==
  ASSUME CaptureInv, MatchInv, TakenInv, [Next]_vars
  PROVE  TakenInv'
<1>1. CASE UNCHANGED <<precap, fillcap, taken>> /\ UNCHANGED pos["pre"]
           /\ (at # "wait" => UNCHANGED file) /\ (at' = at \/ (at = "match" /\ at' = "done"))
  <2>1. CASE at = "wait"
    BY <1>1, <2>1, Zenon DEF TakenInv
  <2>2. CASE at # "wait"
    <3>1. UNCHANGED file
      BY <1>1, <2>2, Zenon
    <3>2. Held(taken \union {fillcap.id, precap.id})
            => Held(taken \union {fillcap.id, precap.id})'
      BY <1>1, <3>1, Zenon DEF Held
    <3>3. QED
      BY <1>1, <3>1, <3>2, Zenon DEF TakenInv
  <2>3. QED
    BY <2>1, <2>2, Zenon
<1>2. CASE PostProcessing /\ UNCHANGED file
  <2>1. CASE FillEnds
    <3>1. at = "fill" /\ at' = "match" /\ UNCHANGED <<pos, precap, fillcap, taken>>
      BY <2>1, Zenon DEF FillEnds
    <3>2. precap # Nil
      BY <3>1, Zenon DEF MatchInv, ReadInv
    <3>3. Held(taken \union {fillcap.id, precap.id})'
      BY <1>2, <3>1, Zenon DEF Held, TakenInv
    <3>4. QED
      BY <1>2, <3>1, <3>2, <3>3, Zenon DEF TakenInv
  <2>2. CASE MatchRest
    <3>1. at' = at /\ UNCHANGED <<precap, fillcap, taken>>
          /\ pos' = [pos EXCEPT !["post"] = Advance("post")]
      BY <2>2, Zenon DEF MatchRest
    <3>2. pos'["pre"] = pos["pre"]
      BY <3>1, TapsTwo, Zenon DEF MatchInv, ReadInv
    <3>3. QED
      BY <1>1, <1>2, <3>1, <3>2, Zenon
  <2>3. CASE MatchEnds
    BY <1>1, <1>2, <2>3, Zenon DEF MatchEnds
  <2>4. QED
    BY <1>2, <2>1, <2>2, <2>3, TakenOpen, TakenFill, TakenMatch, Zenon DEF PostProcessing
<1>3. CASE UNCHANGED matching /\ (at # "wait" => UNCHANGED file)
  BY <1>1, <1>3, Zenon DEF matching
<1>4. QED
  BY <1>2, <1>3, FrozenFiles, Zenon

LEMMA TakenInvariant == Spec => []TakenInv
<1>1. Init => TakenInv
  BY Zenon DEF Init, TakenInv
<1>2. CaptureInv /\ MatchInv /\ TakenInv /\ [Next]_vars => TakenInv'
  BY TakenStep, Zenon
<1>3. QED
  BY <1>1, <1>2, MatchingInvariant, PTL DEF Spec

\* Whatever was captured and wherever the files were cut off: when the matching is
\* done, every whole record of the second file was looked up once and was a
\* sample, a miss or refused; of the first file every record that was read was
\* entered into the map, except the one initialFill stopped at, and the last one
\* read when the second file was over before.
THEOREM AllRecordsAccounted == Spec => []RecordsAccounted
<1>1. CaptureInv /\ MatchInv /\ TakenInv => RecordsAccounted
  <2>1. SUFFICES ASSUME CaptureInv, MatchInv, TakenInv, at = "done" PROVE RecordsAccounted
    BY Zenon DEF RecordsAccounted
  <2>2. postcap = Nil /\ Reading(file["post"], postcap, post_pkts, pos["post"])
    BY <2>1, Zenon DEF MatchInv, ReadInv
  <2>3. post_pkts = Records("post")
    BY <2>1, <2>2, RecordsOf, TapsTwo, Zenon
  <2>4. post_pkts = Len(samples) + misses + below
    BY <2>1, Zenon DEF MatchInv, MatchRange
  <2>5. ASSUME NEW r \in 1 .. Records("pre"), 2 * r <= pos["pre"]
        PROVE  file["pre"][2 * r] \in taken \union {fillcap.id, precap.id}
    <3>1. r \in Ordinals
      BY DEF Ordinals
    <3>2. QED
      BY <2>1, <2>5, <3>1, Zenon DEF TakenInv, Held
  <2>6. ASSUME precap = Nil PROVE pos["pre"] = 2 * Records("pre")
    <3>1. PICK n \in Nat : Reading(file["pre"], Nil, n, pos["pre"])
      BY <2>1, <2>6, Zenon DEF TakenInv
    <3>2. Records("pre") = n /\ pos["pre"] = 2 * n
      BY <2>1, <3>1, RecordsOf, TapsTwo, Zenon DEF Reading
    <3>3. QED
      BY <3>2, Zenon
  <2>7. QED
    BY <2>3, <2>4, <2>5, <2>6, Zenon DEF RecordsAccounted
<1>2. QED
  BY <1>1, MatchingInvariant, TakenInvariant, PTL

-----------------------------------------------------------------------------
(* The latencies.                                                           *)

EntryOf(c) == [timestamp |-> c.ts, identifier |-> c.id]

\* The map m holds entries of captured packets only.
MapOf(m) ==
  \A s \in Slots : m[s].timestamp # 0 => \E k \in logged["pre"] : m[s] = EntryOf(RecordOf("pre", k))

\* A sample is the latency of a packet whose record has been matched, and of no
\* other sample's packet.
SampleInv ==
  \A i \in DOMAIN samples :
    /\ \E k \in DOMAIN trace :
         samples[i].id = Id(k) /\ (Measurable(trace[k]) => samples[i].diff = trace[k].lat)
    /\ \E r \in Ordinals :
         r <= post_pkts /\ Whole(file["post"], r) /\ samples[i].id = Rec(file["post"], r).id
    /\ \A j \in DOMAIN samples : samples[i].id = samples[j].id => i = j

\* Two timestamps that were taken modulo a word, less than a word apart.
LEMMA DiffOfWords ==
  ASSUME NEW a \in Int, NEW l \in Int, 0 <= l, l < WORD,
         NEW d, d = ((a + l) % WORD) - (a % WORD)
  PROVE  d \in Int /\ -WORD < d /\ d < WORD /\ (d = l \/ d = l - WORD)
<1>1. WORD \in Nat /\ WORD > 0
  BY FilesAssumption
<1>2. PICK b \in Int : b = a + l
  OBVIOUS
<1>3. a = WORD * (a \div WORD) + (a % WORD) /\ a \div WORD \in Int /\ a % WORD \in 0 .. WORD - 1
  BY <1>1
<1>4. b = WORD * (b \div WORD) + (b % WORD) /\ b \div WORD \in Int /\ b % WORD \in 0 .. WORD - 1
  BY <1>1
<1>5. PICK q \in Int, v \in 0 .. WORD - 1 : a = WORD * q + v /\ v = a % WORD
  BY <1>3, Zenon
<1>6. PICK x \in Int, w \in 0 .. WORD - 1 : b = WORD * x + w /\ w = b % WORD
  BY <1>4, Zenon
<1>7. d = w - v
  BY <1>2, <1>5, <1>6, Zenon
<1>8. d \in Int /\ -WORD < d /\ d < WORD /\ l = WORD * (x - q) + d /\ x - q \in Int
  BY <1>1, <1>2, <1>5, <1>6, <1>7
<1>9. x - q = 0 \/ x - q = 1
  <2>1. WORD * (x - q) > -WORD /\ WORD * (x - q) < 2 * WORD
    BY <1>1, <1>8
  <2>2. QED
    BY <1>1, <1>8, <2>1
<1>10. QED
  BY <1>1, <1>8, <1>9

LEMMA HalfWord == HALF \in Int /\ HALF >= 0 /\ WORD = 2 * HALF
<1>1. WORD \in Nat /\ WORD % 2 = 0
  BY FilesAssumption
<1>2. WORD = 2 * (WORD \div 2) + (WORD % 2) /\ WORD \div 2 \in Int
  BY <1>1
<1>3. WORD \div 2 >= 0 /\ WORD = 2 * (WORD \div 2)
  BY <1>1, <1>2
<1>4. QED
  BY <1>2, <1>3, Zenon DEF HALF

\* They give the latency back, or one below the threshold.
LEMMA LatencyOfWords ==
  ASSUME NEW a \in Int, NEW l \in Int, 0 <= l, l < WORD + TIME_THRESH,
         NEW d, d = ((a + l) % WORD) - (a % WORD), TIME_THRESH <= Unwrapped(d)
  PROVE  Unwrapped(d) = l
<1>1. WORD \in Nat /\ WORD > 0 /\ TIME_THRESH \in Int /\ TIME_THRESH <= 0
  BY FilesAssumption
<1>2. l < WORD
  BY <1>1
<1>3. d \in Int /\ -WORD < d /\ d < WORD /\ (d = l \/ d = l - WORD)
  BY <1>2, DiffOfWords
<1>4. PICK h \in Int : h = HALF /\ h >= 0
  BY HalfWord, Zenon
<1>5. Unwrapped(d) = IF d < -h /\ d > -WORD THEN d + WORD ELSE d
  BY <1>4, Zenon DEF Unwrapped
<1>6. QED
  BY <1>1, <1>3, <1>4, <1>5

\* Up to half a word they always give it back.
LEMMA LatencyOfHalf ==
  ASSUME NEW a \in Int, NEW l \in Int, 0 <= l, l < HALF,
         NEW d, d = ((a + l) % WORD) - (a % WORD)
  PROVE  Unwrapped(d) = l
<1>1. WORD \in Nat /\ WORD > 0
  BY FilesAssumption
<1>2. PICK h \in Int : h = HALF /\ h >= 0 /\ WORD = 2 * h /\ l < h
  BY HalfWord, Zenon
<1>3. l < WORD
  BY <1>1, <1>2
<1>4. d \in Int /\ -WORD < d /\ d < WORD /\ (d = l \/ d = l - WORD)
  BY <1>3, DiffOfWords
<1>5. Unwrapped(d) = IF d < -h /\ d > -WORD THEN d + WORD ELSE d
  BY <1>2, Zenon DEF Unwrapped
<1>6. QED
  BY <1>1, <1>2, <1>4, <1>5

LEMMA LatencyTrue ==
  ASSUME CaptureInv, NEW k \in DOMAIN trace, Measurable(trace[k]),
         NEW d, d = Timestamp("post", trace[k]) - Timestamp("pre", trace[k]),
         TIME_THRESH <= Unwrapped(d)
  PROVE  Unwrapped(d) = trace[k].lat
<1>1. trace[k].at \in Nat /\ trace[k].lat \in Int /\ embedded \in BOOLEAN
  BY PacketShape, Zenon DEF CaptureInv, CaptureRange
<1>2. PICK a \in Nat, l \in Int : a = trace[k].at /\ l = trace[k].lat
  BY <1>1, Zenon
<1>3. TrueTime("pre", trace[k]) = a /\ TrueTime("post", trace[k]) = a + l
  BY <1>2, Zenon DEF TrueTime
<1>4. CASE embedded
  <2>1. d = (a + l) - a
    BY <1>3, <1>4, Zenon DEF Timestamp
  <2>2. d = l
    BY <2>1
  <2>3. l >= -HALF
    BY <1>2, <1>4, Zenon DEF Measurable
  <2>4. PICK h \in Int : h = HALF
    <3>1. WORD \div 2 \in Int
      BY FilesAssumption
    <3>2. QED
      BY <3>1, Zenon DEF HALF
  <2>5. ~(l < -h)
    BY <2>3, <2>4
  <2>6. Unwrapped(l) = l
    BY <2>4, <2>5, Zenon DEF Unwrapped
  <2>7. QED
    BY <1>2, <2>2, <2>6, Zenon
<1>5. CASE ~embedded
  <2>1. d = ((a + l) % WORD) - (a % WORD)
    BY <1>3, <1>5, Zenon DEF Timestamp
  <2>2. 0 <= l /\ l < WORD + TIME_THRESH
    <3>1. l >= 0 /\ l < WORD + TIME_THRESH
      BY <1>2, <1>5, Zenon DEF Measurable
    <3>2. QED
      BY <3>1
  <2>3. a \in Int /\ d \in Int
    <3>1. (a + l) % WORD \in Int /\ a % WORD \in Int
      BY FilesAssumption
    <3>2. QED
      BY <2>1, <3>1
  <2>4. Unwrapped(d) = l
    BY <2>1, <2>2, <2>3, LatencyOfWords, Zenon
  <2>5. QED
    BY <1>2, <2>4, Zenon
<1>6. QED
  BY <1>1, <1>4, <1>5, Zenon

LEMMA EnteredOf ==
  ASSUME CaptureInv, NEW m \in MapSet, MapOf(m), NEW r \in Ordinals, Whole(file["pre"], r)
  PROVE  MapOf(Entered(m, Rec(file["pre"], r)))
<1> DEFINE cap == Rec(file["pre"], r)
           e == Entered(m, cap)
<1>1. cap \in Cap
  BY RecShape, TapsTwo, Zenon
<1>2. PICK k \in logged["pre"] : cap = RecordOf("pre", k)
  BY TapsTwo, Zenon DEF CaptureInv, FileInv
<1> HIDE DEF cap
<1>3. /\ e[Index(cap.id)] = EntryOf(cap)
      /\ \A s \in Slots : s # Index(cap.id) => e[s] = m[s]
  BY <1>1, EnteredMap, Zenon DEF EntryOf
<1>4. MapOf(e)
  <2> HIDE DEF e
  <2>1. QED
    BY <1>2, <1>3, Zenon DEF MapOf
<1>5. QED
  BY <1>4, Zenon DEF cap

LEMMA EmptiedOf ==
  ASSUME NEW m \in MapSet, MapOf(m), NEW x \in Slots
  PROVE  MapOf([m EXCEPT ![x] = Empty])
<1> DEFINE e == [m EXCEPT ![x] = Empty]
<1>1. Empty.timestamp = 0
  BY Zenon DEF Empty
<1>2. e[x] = Empty /\ \A s \in Slots : s # x => e[s] = m[s]
  BY Zenon DEF MapSet
<1>3. MapOf(e)
  <2> HIDE DEF e
  <2>1. QED
    BY <1>1, <1>2, Zenon DEF MapOf
<1>4. QED
  BY <1>3, Zenon

\* Where an entry is found, it is that of the packet whose record is looked up.
LEMMA FoundLatency ==
  ASSUME CaptureInv, NUM_PKTS <= WORD, NEW m \in MapSet, MapOf(m),
         NEW r \in Ordinals, Whole(file["post"], r), NEW cap, cap = Rec(file["post"], r),
         m[Index(cap.id)].identifier = cap.id, m[Index(cap.id)].timestamp # 0,
         NEW d, d = cap.ts - m[Index(cap.id)].timestamp, TIME_THRESH <= Unwrapped(d)
  PROVE  \E k \in DOMAIN trace :
           cap.id = Id(k) /\ (Measurable(trace[k]) => Unwrapped(d) = trace[k].lat)
<1>1. cap \in Cap
  BY RecShape, TapsTwo, Zenon
<1>2. Index(cap.id) \in Slots
  BY <1>1, LatencyInt, Zenon
<1>3. PICK k \in logged["pre"] : m[Index(cap.id)] = EntryOf(RecordOf("pre", k))
  BY <1>2, Zenon DEF MapOf
<1>4. PICK j \in logged["post"] : cap = RecordOf("post", j)
  BY TapsTwo, Zenon DEF CaptureInv, FileInv
<1>5. j \in DOMAIN trace /\ k \in DOMAIN trace
  BY <1>3, <1>4, TapsTwo, Zenon DEF CaptureInv, CaptureRange
<1>6. /\ RecordOf("pre", k).id = Id(k) /\ RecordOf("pre", k).ts = Timestamp("pre", trace[k])
      /\ RecordOf("post", j).id = Id(j) /\ RecordOf("post", j).ts = Timestamp("post", trace[j])
  BY Zenon DEF RecordOf
<1>7. /\ EntryOf(RecordOf("pre", k)).identifier = Id(k)
      /\ EntryOf(RecordOf("pre", k)).timestamp = Timestamp("pre", trace[k])
  BY <1>6, Zenon DEF EntryOf
<1>8. /\ cap.id = Id(j) /\ cap.ts = Timestamp("post", trace[j])
      /\ m[Index(cap.id)].identifier = Id(k) /\ m[Index(cap.id)].timestamp = Timestamp("pre", trace[k])
  BY <1>3, <1>4, <1>6, <1>7, Zenon
<1>9. Id(j) = Id(k)
  BY <1>8, Zenon
<1>10. j = k
  BY <1>5, <1>9, IdsDiffer, Zenon DEF CaptureInv
<1>11. d = Timestamp("post", trace[k]) - Timestamp("pre", trace[k])
  BY <1>8, <1>10, Zenon
<1>12. QED
  BY <1>5, <1>8, <1>9, <1>11, LatencyTrue, Zenon

\* The files and the trace that the samples are about.
Trusted == CaptureInv /\ UniqueInv /\ MatchInv /\ NUM_PKTS <= WORD

LEMMA SampleEffect ==
  ASSUME Trusted, SampleInv, NEW m \in MapSet, MapOf(m), at = "match", postcap # Nil,
         computeLatency(m), UNCHANGED <<config, file>>
  PROVE  SampleInv'
<1> DEFINE d == postcap.ts - m[Index(postcap.id)].timestamp
           n == post_pkts + 1
           Sample == [id |-> postcap.id, diff |-> Unwrapped(d)]
<1>1. /\ CaptureInv /\ UniqueInv /\ MatchInv /\ NUM_PKTS <= WORD /\ MatchRange /\ postcap \in Cap
      /\ Whole(file["post"], n) /\ postcap = Rec(file["post"], n)
  BY Zenon DEF Trusted, MatchInv, ReadInv, Reading
<1>2. /\ post_pkts \in Nat /\ n \in Ordinals /\ n \in Nat
      /\ \A r \in Ordinals : r <= post_pkts => r <= n /\ r # n
  <2>1. post_pkts \in Nat
    BY <1>1, Zenon DEF MatchRange
  <2>2. QED
    BY <2>1 DEF Ordinals
<1>3. post_pkts' = n
  BY Zenon DEF computeLatency
<1>4. \/ samples' = samples
      \/ /\ samples' = Append(samples, Sample) /\ Unwrapped(d) >= TIME_THRESH
         /\ m[Index(postcap.id)].identifier = postcap.id /\ m[Index(postcap.id)].timestamp # 0
  BY Zenon DEF computeLatency
<1>5. /\ UNCHANGED <<trace, file, first_id, embedded>>
      /\ (\A k : Id(k)' = Id(k)) /\ (\A p : Measurable(p)' = Measurable(p))
  BY Zenon DEF config, Id, Measurable
<1>6. \A i \in DOMAIN samples :
        /\ \E k \in DOMAIN trace :
             samples[i].id = Id(k) /\ (Measurable(trace[k]) => samples[i].diff = trace[k].lat)
        /\ \E r \in Ordinals :
             /\ r <= n /\ Whole(file["post"], r) /\ samples[i].id = Rec(file["post"], r).id
             /\ r # n
        /\ \A j \in DOMAIN samples : samples[i].id = samples[j].id => i = j
  BY <1>2, Zenon DEF SampleInv
<1> HIDE DEF n
<1>7. CASE samples' = samples
  <2>1. ASSUME NEW i \in DOMAIN samples'
        PROVE  /\ \E k \in DOMAIN trace :
                    samples'[i].id = Id(k) /\ (Measurable(trace[k]) => samples'[i].diff = trace[k].lat)
               /\ \E r \in Ordinals :
                    r <= n /\ Whole(file["post"], r) /\ samples'[i].id = Rec(file["post"], r).id
               /\ \A j \in DOMAIN samples' : samples'[i].id = samples'[j].id => i = j
    BY <1>6, <1>7, <2>1, Zenon
  <2>2. QED
    BY <1>3, <1>5, <2>1, ZenonT(40) DEF SampleInv
<1>8. CASE samples' = Append(samples, Sample) /\ Unwrapped(d) >= TIME_THRESH
         /\ m[Index(postcap.id)].identifier = postcap.id /\ m[Index(postcap.id)].timestamp # 0
  <2>1. TIME_THRESH <= Unwrapped(d) /\ Unwrapped(d) \in Int
    <3>1. Unwrapped(d) \in Int /\ TIME_THRESH \in Int
      BY <1>1, LatencyInt, FilesAssumption, Zenon
    <3>2. QED
      BY <1>8, <3>1
  <2>2. \E k \in DOMAIN trace :
          postcap.id = Id(k) /\ (Measurable(trace[k]) => Unwrapped(d) = trace[k].lat)
    <3>1. d = postcap.ts - m[Index(postcap.id)].timestamp
      BY Zenon
    <3> HIDE DEF d
    <3>2. n \in Ordinals /\ Whole(file["post"], n) /\ postcap = Rec(file["post"], n)
      BY <1>1, <1>2, Zenon
    <3>3. m[Index(postcap.id)].identifier = postcap.id /\ m[Index(postcap.id)].timestamp # 0
      BY <1>8, Zenon
    <3>4. QED
      BY <1>1, <2>1, <3>1, <3>2, <3>3, FoundLatency
  <2> HIDE DEF d
  <2>3. postcap.id \in Nat
    BY <1>1, Zenon DEF Cap
  <2>4. Sample \in [id : Nat, diff : Int] /\ Sample.id = postcap.id /\ Sample.diff = Unwrapped(d)
    BY <2>1, <2>3, Zenon
  <2> HIDE DEF Sample
  <2>5. samples \in Seq([id : Nat, diff : Int])
    BY <1>1, Zenon DEF MatchRange
  <2> DEFINE l == Len(samples) + 1
  <2>6. /\ DOMAIN samples' = (DOMAIN samples) \union {l} /\ l \notin DOMAIN samples
        /\ samples'[l] = Sample /\ \A i \in DOMAIN samples : samples'[i] = samples[i]
    <3>1. samples' = Append(samples, Sample)
      BY <1>8, Zenon
    <3>2. QED
      BY <2>4, <2>5, <3>1
  <2> HIDE DEF l
  <2>7. \A i \in DOMAIN samples : samples[i].id # postcap.id
    BY <1>1, <1>2, <1>6, TapsTwo, Zenon DEF UniqueInv
  <2>8. n <= n
    BY <1>2
  <2>9. ASSUME NEW i \in DOMAIN samples'
        PROVE  /\ \E k \in DOMAIN trace :
                    samples'[i].id = Id(k) /\ (Measurable(trace[k]) => samples'[i].diff = trace[k].lat)
               /\ \E r \in Ordinals :
                    r <= n /\ Whole(file["post"], r) /\ samples'[i].id = Rec(file["post"], r).id
               /\ \A j \in DOMAIN samples' : samples'[i].id = samples'[j].id => i = j
    <3>1. CASE i = l
      <4>1. samples'[i].id = postcap.id /\ samples'[i].diff = Unwrapped(d)
        BY <2>4, <2>6, <3>1, Zenon
      <4>2. \A j \in DOMAIN samples : samples'[j].id # postcap.id
        BY <2>6, <2>7, Zenon
      <4>3. QED
        BY <1>1, <1>2, <2>2, <2>6, <2>8, <3>1, <4>1, <4>2, Zenon
    <3>2. CASE i \in DOMAIN samples
      <4>1. samples'[i] = samples[i] /\ samples'[l].id = postcap.id
        BY <2>4, <2>6, <3>2, Zenon
      <4>2. \A j \in DOMAIN samples' : samples'[i].id = samples'[j].id => i = j
        BY <1>6, <2>6, <2>7, <3>2, <4>1, Zenon
      <4>3. QED
        BY <1>6, <3>2, <4>1, <4>2, Zenon
    <3>3. QED
      BY <2>6, <3>1, <3>2, Zenon
  <2>10. QED
    BY <1>3, <1>5, <2>9, ZenonT(40) DEF SampleInv
<1>9. QED
  BY <1>4, <1>7, <1>8, Zenon

LEMMA SamplesWait ==
  ASSUME MatchInv, post_pkts = 0
  PROVE  DOMAIN samples = {} /\ samples = << >>
<1>1. samples \in Seq([id : Nat, diff : Int]) /\ misses \in Nat /\ below \in Nat
      /\ 0 = Len(samples) + misses + below
  BY Zenon DEF MatchInv, MatchRange
<1>2. Len(samples) = 0
  BY <1>1
<1>3. QED
  BY <1>1, <1>2

LatencyInv == MapOf(map) /\ SampleInv

LEMMA LatencyInit ==
  ASSUME Init
  PROVE  LatencyInv
<1>1. \A s \in Slots : map[s].timestamp = 0
  BY Zenon DEF Init, Empty
<1>2. DOMAIN samples = {}
  BY DEF Init
<1>3. QED
  BY <1>1, <1>2, Zenon DEF LatencyInv, MapOf, SampleInv

LEMMA MapLater ==
  ASSUME NEW m, MapOf(m), UNCHANGED config, \A t \in Taps : logged[t] \subseteq logged'[t]
  PROVE  \A s \in Slots : m[s].timestamp # 0 =>
           \E k \in logged'["pre"] : m[s] = EntryOf(RecordOf("pre", k)')
<1>1. \A k : RecordOf("pre", k)' = RecordOf("pre", k)
  BY Zenon DEF RecordOf, Timestamp, TrueTime, Id, config
<1>2. logged["pre"] \subseteq logged'["pre"]
  BY TapsTwo, Zenon
<1>3. QED
  BY <1>1, <1>2, Zenon DEF MapOf

LEMMA LatencyStep ==
  ASSUME Trusted, LatencyInv, [Next]_vars
  PROVE  LatencyInv'
<1>1. /\ UNCHANGED config /\ \A t \in Taps : logged[t] \subseteq logged'[t]
      /\ at # "wait" => UNCHANGED file
      /\ \/ PostProcessing /\ UNCHANGED <<file, logged>>
         \/ UNCHANGED <<matching, hist>>
  BY FrozenFiles, Zenon DEF Trusted
<1>2. CaptureInv /\ MatchInv /\ map \in MapSet /\ MapOf(map) /\ SampleInv
  BY Zenon DEF Trusted, LatencyInv, MatchInv, MatchRange
<1>3. ASSUME NEW m, MapOf(m), map' = m PROVE MapOf(map)'
  <2>1. \A s \in Slots : m[s].timestamp # 0 =>
          \E k \in logged'["pre"] : m[s] = EntryOf(RecordOf("pre", k)')
    BY <1>1, <1>3, MapLater, Zenon
  <2>2. QED
    BY <1>3, <2>1, Zenon DEF MapOf, EntryOf
<1>4. ASSUME UNCHANGED <<file, samples, post_pkts>> PROVE SampleInv'
  BY <1>1, <1>2, <1>4, Zenon DEF SampleInv, config, Id, Measurable
<1>5. CASE UNCHANGED matching
  <2>1. UNCHANGED <<at, map, samples, post_pkts>>
    BY <1>5, Zenon DEF matching
  <2>2. CASE at = "wait"
    <3>1. post_pkts = 0
      BY <1>2, <2>2, Zenon DEF MatchInv, ReadInv
    <3>2. DOMAIN samples = {}
      BY <1>2, <3>1, SamplesWait, Zenon
    <3>3. SampleInv'
      BY <2>1, <3>2, Zenon DEF SampleInv
    <3>4. QED
      BY <1>2, <1>3, <2>1, <3>3, Zenon DEF LatencyInv
  <2>3. CASE at # "wait"
    BY <1>1, <1>2, <1>3, <1>4, <2>1, <2>3, Zenon DEF LatencyInv
  <2>4. QED
    BY <2>2, <2>3, Zenon
<1>6. CASE (Open \/ FillEnds \/ MatchEnds) /\ UNCHANGED file
  <2>1. UNCHANGED <<map, samples, post_pkts>>
    BY <1>6, Zenon DEF Open, FillEnds, MatchEnds
  <2>2. QED
    BY <1>2, <1>3, <1>4, <1>6, <2>1, Zenon DEF LatencyInv
<1>7. CASE Fill /\ UNCHANGED file
  <2>1. at = "fill" /\ fillcap # Nil /\ map' = Entered(map, fillcap) /\ UNCHANGED <<samples, post_pkts>>
    BY <1>7, Zenon DEF Fill, FillGoesOn
  <2>2. pre_pkts \in Nat /\ Whole(file["pre"], pre_pkts + 1) /\ fillcap = Rec(file["pre"], pre_pkts + 1)
    BY <1>2, <2>1, Zenon DEF MatchInv, ReadInv, Reading
  <2>3. pre_pkts + 1 \in Ordinals
    BY <2>2 DEF Ordinals
  <2>4. MapOf(Entered(map, fillcap))
    BY <1>2, <2>2, <2>3, EnteredOf, Zenon
  <2>5. QED
    BY <1>3, <1>4, <1>7, <2>1, <2>4, Zenon DEF LatencyInv
<1>8. CASE Match /\ UNCHANGED file
  <2>1. /\ at = "match" /\ precap # Nil /\ postcap # Nil
        /\ computeLatency(Entered(map, precap))
    BY <1>8, Zenon DEF Match
  <2>2. PICK r \in Ordinals : Whole(file["pre"], r) /\ precap = Rec(file["pre"], r)
    BY <1>2, <2>1, Zenon DEF MatchInv, ReadInv, PreInv
  <2>3. MapOf(Entered(map, precap))
    BY <1>2, <2>2, EnteredOf, Zenon
  <2>4. precap \in Cap /\ postcap \in Cap
    BY <1>2, <2>1, PrecapShape, PostcapShape, Zenon
  <2>5. Entered(map, precap) \in MapSet /\ Index(postcap.id) \in Slots
    BY <1>2, <2>4, EnteredMap, Zenon
  <2>6. map' = [Entered(map, precap) EXCEPT ![Index(postcap.id)] = Empty]
    BY <2>1, Zenon DEF computeLatency
  <2>7. MapOf(map)'
    BY <1>3, <2>3, <2>5, <2>6, EmptiedOf, Zenon
  <2>8. SampleInv'
    BY <1>1, <1>2, <1>8, <2>1, <2>3, <2>5, SampleEffect, Zenon
  <2>9. QED
    BY <2>7, <2>8, Zenon DEF LatencyInv
<1>9. CASE MatchRest /\ UNCHANGED file
  <2>1. at = "match" /\ postcap # Nil /\ computeLatency(map)
    BY <1>9, Zenon DEF MatchRest
  <2>2. postcap \in Cap
    BY <1>2, <2>1, PostcapShape, Zenon
  <2>3. Index(postcap.id) \in Slots
    BY <1>2, <2>2, EnteredMap, Zenon
  <2>4. map' = [map EXCEPT ![Index(postcap.id)] = Empty]
    BY <2>1, Zenon DEF computeLatency
  <2>5. MapOf(map)'
    BY <1>2, <1>3, <2>3, <2>4, EmptiedOf, Zenon
  <2>6. SampleInv'
    BY <1>1, <1>2, <1>9, <2>1, SampleEffect, Zenon
  <2>7. QED
    BY <2>5, <2>6, Zenon DEF LatencyInv
<1>10. QED
  BY <1>1, <1>5, <1>6, <1>7, <1>8, <1>9, Zenon DEF PostProcessing

LEMMA LatencyInvariant ==
  ASSUME NUM_PKTS <= WORD
  PROVE  Spec => [](Trusted /\ LatencyInv)
<1>1. Init => Trusted /\ LatencyInv
  BY RangeInit, FileInit, MatchInit, LatencyInit, Zenon DEF Trusted, CaptureInv, MatchInv
<1>2. Trusted /\ LatencyInv /\ [Next]_vars => (Trusted /\ LatencyInv)'
  <2>1. SUFFICES ASSUME Trusted, LatencyInv, [Next]_vars PROVE Trusted' /\ LatencyInv'
    BY Zenon
  <2>2. Trusted'
    BY <2>1, CaptureStep, MatchInvStep, Zenon DEF Trusted
  <2>3. QED
    BY <2>1, <2>2, LatencyStep, Zenon
<1>3. QED
  BY <1>1, <1>2, PTL DEF Spec

\* The identifiers of a capture that is not longer than the 32-bit counter of the
\* traffic generator are distinct.  Then every latency in the histogram is that of
\* its packet, although both timestamps are taken modulo a word and slots of the
\* map are used again, and no packet is in it twice: for every trace, order of
\* arrival, size of the map and point at which the program was killed.
THEOREM SamplesAreTrue ==
  ASSUME NUM_PKTS <= WORD
  PROVE  Spec => []SamplesTrue
<1>1. Trusted /\ LatencyInv => SamplesTrue
  <2>1. SUFFICES ASSUME Trusted, LatencyInv, NEW i \in DOMAIN samples
                 PROVE  /\ Measurable(Packet(samples[i].id)) =>
                             samples[i].diff = Packet(samples[i].id).lat
                        /\ \A j \in DOMAIN samples : samples[i].id = samples[j].id => i = j
    BY Zenon DEF SamplesTrue
  <2>2. PICK k \in DOMAIN trace :
          samples[i].id = Id(k) /\ (Measurable(trace[k]) => samples[i].diff = trace[k].lat)
    BY <2>1, Zenon DEF LatencyInv, SampleInv
  <2>3. (CHOOSE j \in DOMAIN trace : Id(j) = samples[i].id) = k
    <3>1. \A j \in DOMAIN trace : Id(j) = samples[i].id => j = k
      BY <2>1, <2>2, IdsDiffer, Zenon DEF Trusted, CaptureInv
    <3>2. QED
      BY <2>2, <3>1, Zenon
  <2>4. Packet(samples[i].id) = trace[k]
    BY <2>3, Zenon DEF Packet
  <2>5. QED
    BY <2>1, <2>2, <2>4, Zenon DEF LatencyInv, SampleInv
<1>2. QED
  BY <1>1, LatencyInvariant, PTL

-----------------------------------------------------------------------------
(* Completeness.                                                            *)

LEMMA IndicesDiffer ==
  ASSUME CaptureRange, NUM_PKTS <= INDEX_BITMASK + 1,
         NEW j \in DOMAIN trace, NEW k \in DOMAIN trace, Index(Id(j)) = Index(Id(k))
  PROVE  j = k
<1>1. j \in 1 .. NUM_PKTS /\ k \in 1 .. NUM_PKTS /\ first_id \in Nat /\ NUM_PKTS \in Nat
      /\ WORD \in Nat /\ WORD > 0 /\ INDEX_BITMASK \in Nat /\ WORD % (INDEX_BITMASK + 1) = 0
  BY PacketShape, FilesAssumption, Zenon DEF CaptureRange
<1>2. PICK s \in Nat : s = INDEX_BITMASK + 1 /\ s > 0
  BY <1>1
<1>3. PICK a \in Nat : a = first_id + j - 1
  BY <1>1
<1>4. PICK b \in Nat : b = first_id + k - 1
  BY <1>1
<1>5. a - b < s /\ b - a < s
  BY <1>1, <1>2, <1>3, <1>4
<1>6. (a % WORD) % s = (b % WORD) % s /\ WORD % s = 0
  BY <1>1, <1>2, <1>3, <1>4, Zenon DEF Index, Id
<1>7. PICK c \in Int : WORD = s * c
  <2>1. WORD = s * (WORD \div s) + (WORD % s) /\ WORD \div s \in Int
    BY <1>1, <1>2
  <2>2. WORD = s * (WORD \div s)
    BY <1>6, <2>1, <1>2
  <2>3. QED
    BY <2>1, <2>2, Zenon
<1>8. ASSUME NEW x \in Nat PROVE \E y \in Int : x = s * y + ((x % WORD) % s)
  <2>1. x = WORD * (x \div WORD) + (x % WORD) /\ x \div WORD \in Int /\ x % WORD \in Nat
    BY <1>1
  <2>2. PICK q \in Int, u \in Nat : x = WORD * q + u /\ u = x % WORD
    BY <2>1, Zenon
  <2>3. u = s * (u \div s) + (u % s) /\ u \div s \in Int /\ u % s \in Int
    <3>1. s > 0
      BY <1>2, Zenon
    <3>2. QED
      BY <3>1
  <2>4. PICK e \in Int, i \in Int : u = s * e + i /\ i = u % s
    BY <2>3, Zenon
  <2>5. PICK g \in Int : WORD * q = s * g
    <3>1. WORD * q = s * (c * q) /\ c * q \in Int
      BY <1>7
    <3>2. QED
      BY <3>1, Zenon
  <2>6. x = s * (g + e) + i /\ g + e \in Int
    <3>1. x = s * g + u /\ u = s * e + i
      BY <2>2, <2>4, <2>5, Zenon
    <3>2. QED
      BY <3>1
  <2>7. i = (x % WORD) % s
    BY <2>2, <2>4, Zenon
  <2>8. QED
    BY <2>6, <2>7, Zenon
<1>9. PICK y \in Int : a = s * y + ((a % WORD) % s)
  BY <1>8, Zenon
<1>10. PICK z \in Int : b = s * z + ((b % WORD) % s)
  BY <1>8, Zenon
<1>11. PICK i \in Int : i = (a % WORD) % s
  <2>1. a % WORD \in Int
    BY <1>1
  <2>2. (a % WORD) % s \in Int
    BY <1>2, <2>1
  <2>3. QED
    BY <2>2, Zenon
<1>12. a = s * y + i /\ b = s * z + i
  BY <1>6, <1>9, <1>10, <1>11, Zenon
<1>13. a - b = s * (y - z) /\ y - z \in Int
  BY <1>12
<1>14. a = b
  <2>1. PICK w \in Int : a - b = s * w
    BY <1>13, Zenon
  <2>2. w = 0
    BY <1>2, <1>5, <2>1
  <2>3. QED
    BY <2>1, <2>2
<1>15. QED
  BY <1>1, <1>3, <1>4, <1>14

LEMMA FitsWord ==
  ASSUME NUM_PKTS <= INDEX_BITMASK + 1
  PROVE  NUM_PKTS <= WORD
<1>1. /\ WORD \in Nat /\ WORD > 0 /\ INDEX_BITMASK \in Nat /\ WORD % (INDEX_BITMASK + 1) = 0
      /\ NUM_PKTS \in Nat
  BY FilesAssumption
<1>2. PICK s \in Nat : s = INDEX_BITMASK + 1 /\ s > 0
  BY <1>1
<1>3. WORD = s * (WORD \div s) + (WORD % s) /\ WORD \div s \in Int /\ WORD % s = 0
  BY <1>1, <1>2
<1>4. PICK c \in Int : WORD = s * c
  BY <1>2, <1>3
<1>5. c >= 1
  BY <1>1, <1>2, <1>4
<1>6. s * c >= s
  BY <1>2, <1>5
<1>7. QED
  BY <1>1, <1>2, <1>4, <1>6

Good(p) == p.lat >= 0 /\ p.lat < HALF /\ Timestamp("pre", p) # 0

\* A good packet that is in the map is not refused.
LEMMA GoodLatency ==
  ASSUME CaptureInv, NEW k \in DOMAIN trace, Good(trace[k]),
         NEW d, d = Timestamp("post", trace[k]) - Timestamp("pre", trace[k])
  PROVE  Unwrapped(d) >= TIME_THRESH /\ ~(Unwrapped(d) < TIME_THRESH)
<1>1. trace[k].at \in Nat /\ trace[k].lat \in Int /\ embedded \in BOOLEAN
  BY PacketShape, Zenon DEF CaptureInv, CaptureRange
<1>2. PICK a \in Nat, l \in Int : a = trace[k].at /\ l = trace[k].lat
  BY <1>1, Zenon
<1>3. TrueTime("pre", trace[k]) = a /\ TrueTime("post", trace[k]) = a + l
  BY <1>2, Zenon DEF TrueTime
<1>4. l >= 0 /\ l < HALF
  BY <1>2, Zenon DEF Good
<1>5. Unwrapped(d) = l
  <2>1. CASE embedded
    <3>1. d = (a + l) - a
      BY <1>3, <2>1, Zenon DEF Timestamp
    <3>2. d = l
      BY <3>1
    <3>3. PICK h \in Int : h = HALF /\ h >= 0
      BY HalfWord, Zenon
    <3>4. ~(l < -h)
      BY <1>4, <3>3
    <3>5. Unwrapped(l) = l
      BY <3>3, <3>4, Zenon DEF Unwrapped
    <3>6. QED
      BY <3>2, <3>5, Zenon
  <2>2. CASE ~embedded
    <3>1. d = ((a + l) % WORD) - (a % WORD)
      BY <1>3, <2>2, Zenon DEF Timestamp
    <3>2. 0 <= l /\ a \in Int
      BY <1>4
    <3>3. QED
      BY <1>4, <3>1, <3>2, LatencyOfHalf, Zenon
  <2>3. QED
    BY <1>1, <2>1, <2>2, Zenon
<1>6. l >= TIME_THRESH /\ ~(l < TIME_THRESH)
  BY <1>4, FilesAssumption
<1>7. QED
  BY <1>5, <1>6, Zenon

\* The r-th record of the first file is in the map m; one of the first n of the
\* second file has its identifier; it needs no more to be matched.
HeldIn(m, r) == m[Index(Rec(file["pre"], r).id)] = EntryOf(Rec(file["pre"], r))
Matched(r, n) == \E q \in Ordinals : q <= n /\ Rec(file["post"], q).id = Rec(file["pre"], r).id
Sampled(r) ==
  \A k \in DOMAIN trace :
    Id(k) = Rec(file["pre"], r).id /\ Good(trace[k]) => \E i \in DOMAIN samples : samples[i].id = Id(k)

CompleteIn(m) ==
  \A r \in Ordinals : Whole(file["pre"], r) =>
    \/ HeldIn(m, r) /\ ~Matched(r, post_pkts)
    \/ Matched(r, post_pkts) /\ Sampled(r)

CompleteInv ==
  /\ at = "fill" => \A r \in Ordinals : r <= pre_pkts => HeldIn(map, r)
  /\ at \in {"match", "done"} /\ fillcap = Nil => CompleteIn(map)

Fitting == Trusted /\ NUM_PKTS <= INDEX_BITMASK + 1

\* Records of different packets are in different slots.
LEMMA RecordsApart ==
  ASSUME Fitting, NEW t \in Taps, NEW u \in Taps, NEW q \in Ordinals, NEW r \in Ordinals,
         Whole(file[t], q), Whole(file[u], r),
         Index(Rec(file[t], q).id) = Index(Rec(file[u], r).id)
  PROVE  \E k \in DOMAIN trace : Rec(file[t], q) = RecordOf(t, k) /\ Rec(file[u], r) = RecordOf(u, k)
<1>1. CaptureInv /\ CaptureRange /\ NUM_PKTS <= INDEX_BITMASK + 1
  BY Zenon DEF Fitting, Trusted, CaptureInv
<1>2. PICK j \in logged[t] : Rec(file[t], q) = RecordOf(t, j)
  BY <1>1, Zenon DEF CaptureInv, FileInv
<1>3. PICK k \in logged[u] : Rec(file[u], r) = RecordOf(u, k)
  BY <1>1, Zenon DEF CaptureInv, FileInv
<1>4. j \in DOMAIN trace /\ k \in DOMAIN trace
  BY <1>1, <1>2, <1>3, Zenon DEF CaptureRange
<1>5. RecordOf(t, j).id = Id(j) /\ RecordOf(u, k).id = Id(k)
  BY Zenon DEF RecordOf
<1>6. Index(Id(j)) = Index(Id(k))
  BY <1>2, <1>3, <1>5, Zenon
<1>7. j = k
  BY <1>1, <1>4, <1>6, IndicesDiffer, Zenon
<1>8. QED
  BY <1>2, <1>3, <1>4, <1>7, Zenon

LEMMA EnteredHolds ==
  ASSUME Fitting, NEW m \in MapSet, NEW q \in Ordinals, Whole(file["pre"], q),
         NEW r \in Ordinals, Whole(file["pre"], r), r = q \/ HeldIn(m, r)
  PROVE  HeldIn(Entered(m, Rec(file["pre"], q)), r)
<1> DEFINE cap == Rec(file["pre"], q)
           e == Entered(m, cap)
<1>1. CaptureInv /\ UniqueInv
  BY Zenon DEF Fitting, Trusted
<1>2. cap \in Cap
  BY <1>1, RecShape, TapsTwo, Zenon
<1>3. e[Index(cap.id)] = EntryOf(cap) /\ \A s \in Slots : s # Index(cap.id) => e[s] = m[s]
  BY <1>2, EnteredMap, Zenon DEF EntryOf
<1>4. Rec(file["pre"], r) \in Cap
  BY <1>1, RecShape, TapsTwo, Zenon
<1>5. Index(Rec(file["pre"], r).id) \in Slots
  BY <1>4, EnteredMap, Zenon
<1>6. CASE Index(Rec(file["pre"], r).id) = Index(cap.id)
  <2>1. PICK k \in DOMAIN trace :
          Rec(file["pre"], r) = RecordOf("pre", k) /\ cap = RecordOf("pre", k)
    BY <1>6, RecordsApart, TapsTwo, Zenon
  <2> HIDE DEF e
  <2>2. QED
    BY <1>3, <2>1, Zenon DEF HeldIn, e
<1>7. CASE Index(Rec(file["pre"], r).id) # Index(cap.id)
  <2>1. r # q
    BY <1>7, Zenon
  <2>2. HeldIn(m, r)
    BY <2>1, Zenon
  <2> HIDE DEF cap
  <2>3. QED
    BY <1>3, <1>5, <1>7, <2>2, Zenon DEF HeldIn, cap
<1>8. QED
  BY <1>6, <1>7, Zenon

LEMMA CompleteEffect ==
  ASSUME Fitting, NEW m \in MapSet, CompleteIn(m), at = "match", postcap # Nil,
         computeLatency(m), UNCHANGED <<config, file>>
  PROVE  CompleteIn(map)'
<1> DEFINE n == post_pkts + 1
           idx == Index(postcap.id)
           d == postcap.ts - m[idx].timestamp
<1>1. /\ CaptureInv /\ MatchRange /\ postcap \in Cap /\ CaptureRange
      /\ Whole(file["post"], n) /\ postcap = Rec(file["post"], n)
  BY Zenon DEF Fitting, Trusted, CaptureInv, MatchInv, ReadInv, Reading
<1>2. /\ n \in Ordinals /\ n <= n /\ (\A q \in Ordinals : q <= post_pkts => q <= n)
      /\ \A q \in Ordinals : q <= n => q = n \/ q <= post_pkts
  <2>1. post_pkts \in Nat
    BY <1>1, Zenon DEF MatchRange
  <2>2. QED
    BY <2>1 DEF Ordinals
<1>3. post_pkts' = n /\ map' = [m EXCEPT ![idx] = Empty]
  BY Zenon DEF computeLatency
<1>4. /\ samples' = samples \/ samples' = Append(samples, [id |-> postcap.id, diff |-> Unwrapped(d)])
      /\ m[idx].identifier = postcap.id /\ m[idx].timestamp # 0 /\ ~(Unwrapped(d) < TIME_THRESH) =>
           samples' = Append(samples, [id |-> postcap.id, diff |-> Unwrapped(d)])
  BY Zenon DEF computeLatency
<1>5. /\ UNCHANGED <<trace, file>> /\ (\A k : Id(k)' = Id(k)) /\ (\A p : Good(p)' = Good(p))
  BY Zenon DEF config, Id, Good, Timestamp, TrueTime
<1>6. idx \in Slots /\ \A s \in Slots : s # idx => map'[s] = m[s]
  <2>1. idx \in Slots
    BY <1>1, EnteredMap, Zenon
  <2>2. QED
    BY <1>3, <2>1, Zenon DEF MapSet
<1>7. /\ \A i \in DOMAIN samples : i \in DOMAIN samples' /\ samples'[i] = samples[i]
      /\ samples' = Append(samples, [id |-> postcap.id, diff |-> Unwrapped(d)]) =>
           \E i \in DOMAIN samples' : samples'[i].id = postcap.id
  <2>1. samples \in Seq([id : Nat, diff : Int])
    BY <1>1, Zenon DEF MatchRange
  <2> DEFINE e == [id |-> postcap.id, diff |-> Unwrapped(d)]
  <2>2. e.id = postcap.id /\ e \in [id : Nat, diff : Int]
    <3>1. Unwrapped(d) \in Int /\ postcap.id \in Nat
      BY <1>1, LatencyInt, Zenon DEF Cap
    <3>2. QED
      BY <3>1, Zenon
  <2>3. samples' = samples \/ samples' = Append(samples, e)
    BY <1>4, Zenon
  <2> HIDE DEF e
  <2>4. \A i \in DOMAIN samples : i \in DOMAIN samples' /\ samples'[i] = samples[i]
    <3>1. CASE samples' = samples
      BY <3>1, Zenon
    <3>2. CASE samples' = Append(samples, e)
      BY <2>1, <2>2, <3>2
    <3>3. QED
      BY <2>3, <3>1, <3>2, Zenon
  <2>5. ASSUME samples' = Append(samples, e)
        PROVE  Len(samples) + 1 \in DOMAIN samples' /\ samples'[Len(samples) + 1] = e
    BY <2>1, <2>2, <2>5
  <2>6. samples' = Append(samples, e) => \E i \in DOMAIN samples' : samples'[i].id = postcap.id
    BY <2>2, <2>5, Zenon
  <2>7. QED
    BY <2>4, <2>6, Zenon DEF e
<1> HIDE DEF n
<1>8. ASSUME NEW r \in Ordinals, Whole(file["pre"], r)
      PROVE  \/ HeldIn(map', r) /\ ~Matched(r, n)
             \/ Matched(r, n) /\ \A k \in DOMAIN trace :
                  Id(k) = Rec(file["pre"], r).id /\ Good(trace[k]) =>
                    \E i \in DOMAIN samples' : samples'[i].id = Id(k)
  <2>1. CASE Matched(r, post_pkts) /\ Sampled(r)
    <3>1. Matched(r, n)
      BY <1>2, <2>1, Zenon DEF Matched
    <3>2. QED
      BY <1>7, <2>1, <3>1, Zenon DEF Sampled
  <2>2. CASE HeldIn(m, r) /\ ~Matched(r, post_pkts)
    <3> DEFINE c == Rec(file["pre"], r)
    <3>1. c \in Cap
      BY <1>1, <1>8, RecShape, TapsTwo, Zenon
    <3>2. Index(c.id) \in Slots
      BY <3>1, EnteredMap, Zenon
    <3>3. CASE Index(c.id) = idx
      <4>1. PICK k \in DOMAIN trace : c = RecordOf("pre", k) /\ postcap = RecordOf("post", k)
        BY <1>1, <1>2, <1>8, <3>3, RecordsApart, TapsTwo, Zenon
      <4>2. /\ RecordOf("pre", k).id = Id(k) /\ RecordOf("pre", k).ts = Timestamp("pre", trace[k])
            /\ RecordOf("post", k).id = Id(k) /\ RecordOf("post", k).ts = Timestamp("post", trace[k])
        BY Zenon DEF RecordOf
      <4>3. c.id = Id(k) /\ postcap.id = Id(k) /\ c.ts = Timestamp("pre", trace[k])
            /\ postcap.ts = Timestamp("post", trace[k])
        BY <4>1, <4>2, Zenon
      <4>4. Matched(r, n)
        BY <1>1, <1>2, <4>3, Zenon DEF Matched
      <4>5. m[idx] = EntryOf(c)
        BY <2>2, <3>3, Zenon DEF HeldIn
      <4>6. EntryOf(c).identifier = c.id /\ EntryOf(c).timestamp = c.ts
        BY Zenon DEF EntryOf
      <4>7. m[idx].identifier = postcap.id /\ m[idx].timestamp = Timestamp("pre", trace[k])
        BY <4>3, <4>5, <4>6, Zenon
      <4>8. ASSUME NEW j \in DOMAIN trace, Id(j) = c.id, Good(trace[j])
            PROVE  \E i \in DOMAIN samples' : samples'[i].id = Id(j)
        <5>1. Id(j) = Id(k)
          BY <4>3, <4>8, Zenon
        <5>2. j = k
          BY <1>1, <5>1, IdsDiffer, Zenon DEF Fitting, Trusted
        <5>3. Good(trace[k]) /\ Timestamp("pre", trace[k]) # 0
          BY <4>8, <5>2, Zenon DEF Good
        <5>4. d = Timestamp("post", trace[k]) - Timestamp("pre", trace[k])
          BY <4>3, <4>7, Zenon
        <5> HIDE DEF d
        <5>5. ~(Unwrapped(d) < TIME_THRESH)
          BY <1>1, <5>3, <5>4, GoodLatency, Zenon
        <5>6. samples' = Append(samples, [id |-> postcap.id, diff |-> Unwrapped(d)])
          BY <1>4, <4>7, <5>3, <5>5, Zenon
        <5>7. \E i \in DOMAIN samples' : samples'[i].id = postcap.id
          BY <1>7, <5>6, Zenon
        <5>8. QED
          BY <4>3, <5>1, <5>7, Zenon
      <4>9. QED
        BY <4>4, <4>8, Zenon
    <3>4. CASE Index(c.id) # idx
      <4>1. HeldIn(map', r)
        BY <1>6, <2>2, <3>2, <3>4, Zenon DEF HeldIn
      <4>2. Rec(file["post"], n).id # c.id
        BY <1>1, <3>4, Zenon
      <4>3. ~Matched(r, n)
        BY <1>2, <2>2, <4>2, Zenon DEF Matched
      <4>4. QED
        BY <4>1, <4>3, Zenon
    <3>5. QED
      BY <3>3, <3>4, Zenon
  <2>3. QED
    BY <1>8, <2>1, <2>2, Zenon DEF CompleteIn
<1>9. QED
  BY <1>3, <1>5, <1>8, ZenonT(40) DEF CompleteIn, HeldIn, Matched, Sampled

LEMMA CompleteStep ==
  ASSUME Fitting, CompleteInv, [Next]_vars
  PROVE  CompleteInv'
<1>1. /\ UNCHANGED config
      /\ at # "wait" => UNCHANGED file
      /\ \/ PostProcessing /\ UNCHANGED <<file, logged>>
         \/ UNCHANGED <<matching, hist>>
  BY FrozenFiles, Zenon DEF Fitting, Trusted
<1>2. CaptureInv /\ MatchInv /\ map \in MapSet
  BY Zenon DEF Fitting, Trusted, MatchInv, MatchRange
<1>3. ASSUME UNCHANGED <<config, file, map, samples, post_pkts>>, CompleteIn(map) PROVE CompleteIn(map)'
  <2>1. UNCHANGED trace /\ (\A k : Id(k)' = Id(k)) /\ (\A p : Good(p)' = Good(p))
    BY <1>3, Zenon DEF config, Id, Good, Timestamp, TrueTime
  <2>2. \A r \in Ordinals : Sampled(r) => Sampled(r)'
    BY <1>3, <2>1, Zenon DEF Sampled
  <2>3. \A r \in Ordinals : HeldIn(map, r) => HeldIn(map, r)'
    BY <1>3, Zenon DEF HeldIn
  <2>4. \A r \in Ordinals : Matched(r, post_pkts)' <=> Matched(r, post_pkts)
    BY <1>3, Zenon DEF Matched
  <2>5. QED
    BY <1>3, <2>2, <2>3, <2>4, Zenon DEF CompleteIn
<1>4. CASE UNCHANGED matching
  <2>1. UNCHANGED <<at, fillcap, map, samples, pre_pkts, post_pkts>>
    BY <1>4, Zenon DEF matching
  <2>2. at = "fill" => UNCHANGED file
    BY <1>1, Zenon
  <2>3. at \in {"match", "done"} => UNCHANGED file
    BY <1>1, Zenon
  <2>4. at = "fill" => (\A r \in Ordinals : r <= pre_pkts => HeldIn(map, r))'
    BY <2>1, <2>2, Zenon DEF CompleteInv, HeldIn
  <2>5. at \in {"match", "done"} /\ fillcap = Nil => CompleteIn(map)'
    BY <1>1, <1>3, <2>1, <2>3, Zenon DEF CompleteInv
  <2>6. QED
    BY <2>1, <2>4, <2>5, Zenon DEF CompleteInv
<1>5. CASE Open /\ UNCHANGED file
  <2>1. at = "wait" /\ at' \in {"error", "fill"} /\ UNCHANGED pre_pkts
    BY <1>5, Zenon DEF Open
  <2>2. pre_pkts' = 0 /\ \A r \in Ordinals : ~(r <= 0)
    <3>1. pre_pkts = 0
      BY <1>2, <2>1, Zenon DEF MatchInv, ReadInv
    <3>2. \A r \in Ordinals : ~(r <= 0)
      BY DEF Ordinals
    <3>3. QED
      BY <2>1, <3>1, <3>2, Zenon
  <2>3. QED
    BY <2>1, <2>2, Zenon DEF CompleteInv
<1>6. CASE Fill /\ UNCHANGED file
  <2>1. /\ at = "fill" /\ at' = "fill" /\ fillcap # Nil /\ map' = Entered(map, fillcap)
        /\ pre_pkts' = pre_pkts + 1
    BY <1>6, Zenon DEF Fill, FillGoesOn
  <2> DEFINE n == pre_pkts + 1
  <2>2. pre_pkts \in Nat /\ Whole(file["pre"], n) /\ fillcap = Rec(file["pre"], n)
    BY <1>2, <2>1, Zenon DEF MatchInv, ReadInv, Reading
  <2>3. n \in Ordinals /\ \A r \in Ordinals : r <= n => r = n \/ r <= pre_pkts
    BY <2>2 DEF Ordinals
  <2>4. ASSUME NEW r \in Ordinals, r <= n PROVE Whole(file["pre"], r)
    <3>1. 2 * n <= Len(file["pre"]) /\ file["pre"] \in Seq(Int)
      BY <1>2, <2>2, TapsTwo, Zenon DEF Whole, CaptureInv, CaptureRange
    <3>2. 2 * r <= Len(file["pre"])
      BY <2>2, <2>4, <3>1 DEF Ordinals
    <3>3. QED
      BY <3>2, Zenon DEF Whole
  <2> HIDE DEF n
  <2>5. ASSUME NEW r \in Ordinals, r <= n PROVE HeldIn(map', r)
    <3>1. r = n \/ HeldIn(map, r)
      BY <2>1, <2>3, <2>5, Zenon DEF CompleteInv
    <3>2. HeldIn(Entered(map, Rec(file["pre"], n)), r)
      BY <1>2, <2>2, <2>3, <2>4, <2>5, <3>1, EnteredHolds, Zenon
    <3>3. QED
      BY <2>1, <2>2, <3>2, Zenon
  <2>6. pre_pkts' = n /\ at' = "fill"
    BY <2>1, Zenon DEF n
  <2>7. QED
    BY <1>6, <2>5, <2>6, Zenon DEF CompleteInv, HeldIn
<1>7. CASE FillEnds /\ UNCHANGED file
  <2>1. at = "fill" /\ at' = "match" /\ UNCHANGED <<fillcap, map, samples, post_pkts>>
    BY <1>7, Zenon DEF FillEnds
  <2>2. ASSUME fillcap = Nil PROVE CompleteIn(map)
    <3>1. /\ pre_pkts \in Nat /\ ~Whole(file["pre"], pre_pkts + 1) /\ post_pkts = 0
      BY <1>2, <2>1, <2>2, Zenon DEF MatchInv, ReadInv, Reading
    <3>2. ASSUME NEW r \in Ordinals, Whole(file["pre"], r) PROVE r <= pre_pkts
      <4>1. /\ 2 * r <= Len(file["pre"]) /\ ~(2 * (pre_pkts + 1) <= Len(file["pre"]))
            /\ file["pre"] \in Seq(Int)
        BY <1>2, <3>1, <3>2, TapsTwo, Zenon DEF Whole, CaptureInv, CaptureRange
      <4>2. QED
        BY <3>1, <4>1 DEF Ordinals
    <3>3. \A r \in Ordinals : ~Matched(r, post_pkts)
      <4>1. \A q \in Ordinals : ~(q <= 0)
        BY DEF Ordinals
      <4>2. QED
        BY <3>1, <4>1, Zenon DEF Matched
    <3>4. QED
      BY <2>1, <3>2, <3>3, Zenon DEF CompleteInv, CompleteIn
  <2>3. fillcap = Nil => CompleteIn(map)'
    BY <1>1, <1>3, <1>7, <2>1, <2>2, Zenon
  <2>4. QED
    BY <2>1, <2>3, Zenon DEF CompleteInv
<1>8. CASE Match /\ UNCHANGED file
  <2>1. /\ at = "match" /\ at' = "match" /\ precap # Nil /\ postcap # Nil /\ UNCHANGED fillcap
        /\ computeLatency(Entered(map, precap))
    BY <1>8, Zenon DEF Match
  <2>2. ASSUME fillcap = Nil PROVE CompleteIn(map)'
    <3>1. post_pkts = 0 /\ Whole(file["pre"], 1) /\ precap = Rec(file["pre"], 1)
      BY <1>2, <2>1, <2>2, Zenon DEF MatchInv, ReadInv, PreInv, FirstCap
    <3>2. 1 \in Ordinals /\ \A q \in Ordinals : ~(q <= 0)
      BY DEF Ordinals
    <3>3. \A r \in Ordinals : ~Matched(r, post_pkts)
      BY <3>1, <3>2, Zenon DEF Matched
    <3>4. CompleteIn(map)
      BY <2>1, <2>2, Zenon DEF CompleteInv
    <3>5. CompleteIn(Entered(map, precap))
      <4>1. ASSUME NEW r \in Ordinals, Whole(file["pre"], r) PROVE HeldIn(Entered(map, precap), r)
        <5>1. HeldIn(map, r)
          BY <3>3, <3>4, <4>1, Zenon DEF CompleteIn
        <5>2. HeldIn(Entered(map, Rec(file["pre"], 1)), r)
          BY <1>2, <3>1, <3>2, <4>1, <5>1, EnteredHolds, Zenon
        <5>3. QED
          BY <3>1, <5>2, Zenon
      <4>2. QED
        BY <3>3, <4>1, Zenon DEF CompleteIn
    <3>6. precap \in Cap
      BY <1>2, <2>1, PrecapShape, Zenon
    <3>7. Entered(map, precap) \in MapSet
      BY <1>2, <3>6, EnteredMap, Zenon
    <3>8. QED
      BY <1>1, <1>8, <2>1, <3>5, <3>7, CompleteEffect, Zenon
  <2>3. QED
    BY <2>1, <2>2, Zenon DEF CompleteInv
<1>9. CASE MatchRest /\ UNCHANGED file
  <2>1. at = "match" /\ at' = "match" /\ postcap # Nil /\ UNCHANGED fillcap /\ computeLatency(map)
    BY <1>9, Zenon DEF MatchRest
  <2>2. ASSUME fillcap = Nil PROVE CompleteIn(map)'
    <3>1. CompleteIn(map)
      BY <2>1, <2>2, Zenon DEF CompleteInv
    <3>2. QED
      BY <1>1, <1>2, <1>9, <2>1, <3>1, CompleteEffect, Zenon
  <2>3. QED
    BY <2>1, <2>2, Zenon DEF CompleteInv
<1>10. CASE MatchEnds /\ UNCHANGED file
  <2>1. at = "match" /\ at' = "done" /\ UNCHANGED <<fillcap, map, samples, post_pkts>>
    BY <1>10, Zenon DEF MatchEnds
  <2>2. fillcap = Nil => CompleteIn(map)'
    BY <1>1, <1>3, <1>10, <2>1, Zenon DEF CompleteInv
  <2>3. QED
    BY <2>1, <2>2, Zenon DEF CompleteInv
<1>11. QED
  BY <1>1, <1>4, <1>5, <1>6, <1>7, <1>8, <1>9, <1>10, Zenon DEF PostProcessing

LEMMA CompleteInvariant ==
  ASSUME NUM_PKTS <= INDEX_BITMASK + 1
  PROVE  Spec => [](Fitting /\ CompleteInv)
<1>1. Init => CompleteInv
  <2>1. Init => at = "wait"
    BY Zenon DEF Init
  <2>2. QED
    BY <2>1, Zenon DEF CompleteInv
<1>2. NUM_PKTS <= WORD
  BY FitsWord, Zenon
<1>3. Spec => []Fitting
  <2>1. Trusted => Fitting
    BY Zenon DEF Fitting
  <2>2. Spec => []Trusted
    <3>1. Spec => [](Trusted /\ LatencyInv)
      BY <1>2, LatencyInvariant, Zenon
    <3>2. QED
      BY <3>1, PTL
  <2>3. QED
    BY <2>1, <2>2, PTL
<1>4. Fitting /\ CompleteInv /\ [Next]_vars => CompleteInv'
  BY CompleteStep, Zenon
<1>5. QED
  BY <1>1, <1>3, <1>4, PTL DEF Spec

\* The identifiers of a trace that fits the map have slots of their own.  Then,
\* when initialFill took all of the first file, the matching misses no packet that
\* is in both files, was less than half a word under way and has a timestamp other
\* than 0: for every order of arrival and every packet lost or left unstamped.
THEOREM MatchingIsComplete ==
  ASSUME NUM_PKTS <= INDEX_BITMASK + 1
  PROVE  Spec => []MatchComplete
<1>1. Fitting /\ CompleteInv => MatchComplete
  <2>1. SUFFICES ASSUME Fitting, CompleteInv, at = "done", FilledAll, NEW k \in DOMAIN trace,
                        InFile("pre", Id(k)), InFile("post", Id(k)), Good(trace[k])
                 PROVE  \E i \in DOMAIN samples : samples[i].id = Id(k)
    BY Zenon DEF MatchComplete, Good
  <2>2. CaptureInv /\ MatchInv /\ CompleteIn(map)
    BY <2>1, Zenon DEF Fitting, Trusted, CompleteInv, FilledAll
  <2>3. ASSUME NEW t \in Taps, InFile(t, Id(k))
        PROVE  \E r \in Ordinals : r <= Records(t) /\ Whole(file[t], r) /\ Rec(file[t], r).id = Id(k)
    <3>1. PICK r \in 1 .. Records(t) : file[t][2 * r] = Id(k)
      BY <2>3, Zenon DEF InFile
    <3>2. file[t] \in Seq(Int)
      BY <2>2, Zenon DEF CaptureInv, CaptureRange
    <3>3. Len(file[t]) \in Nat
      BY <3>2
    <3>4. PICK l \in Nat : l = Len(file[t])
      BY <3>3, Zenon
    <3>5. Records(t) = l \div 2
      BY <3>4, Zenon DEF Records
    <3>6. PICK h \in Nat : h = l \div 2 /\ 2 * h <= l
      <4>1. l \div 2 \in Nat /\ 2 * (l \div 2) <= l
        OBVIOUS
      <4>2. QED
        BY <4>1, Zenon
    <3>7. r \in 1 .. h
      BY <3>5, <3>6, Zenon
    <3>8. r \in Ordinals /\ r <= h /\ 2 * r <= l
      BY <3>6, <3>7 DEF Ordinals
    <3>9. Whole(file[t], r) /\ Rec(file[t], r).id = Id(k)
      <4>1. Whole(file[t], r)
        BY <3>4, <3>8, Zenon DEF Whole
      <4>2. Rec(file[t], r).id = file[t][2 * r]
        BY Zenon DEF Rec
      <4>3. QED
        BY <3>1, <4>1, <4>2, Zenon
    <3>10. QED
      BY <3>5, <3>6, <3>8, <3>9, Zenon
  <2>4. PICK r \in Ordinals : Whole(file["pre"], r) /\ Rec(file["pre"], r).id = Id(k)
    BY <2>1, <2>3, TapsTwo, Zenon
  <2>5. PICK q \in Ordinals : q <= Records("post") /\ Rec(file["post"], q).id = Id(k)
    BY <2>1, <2>3, TapsTwo, Zenon
  <2>6. post_pkts = Records("post")
    <3>1. postcap = Nil /\ Reading(file["post"], postcap, post_pkts, pos["post"])
      BY <2>1, <2>2, Zenon DEF MatchInv, ReadInv
    <3>2. QED
      BY <2>2, <3>1, RecordsOf, TapsTwo, Zenon
  <2>7. Matched(r, post_pkts)
    BY <2>4, <2>5, <2>6, Zenon DEF Matched
  <2>8. Sampled(r)
    BY <2>2, <2>4, <2>7, Zenon DEF CompleteIn
  <2>9. QED
    BY <2>1, <2>4, <2>8, Zenon DEF Sampled
<1>2. QED
  BY <1>1, CompleteInvariant, PTL

-----------------------------------------------------------------------------
(* Types.                                                                   *)

RestRange ==
  /\ running \in BOOLEAN /\ expired \in BOOLEAN /\ overwrites \in Nat
  /\ at \in {"wait", "fill", "match", "done", "error"}

LEMMA RestStep ==
  ASSUME RestRange, [Next]_vars
  PROVE  RestRange'
<1>1. running' \in BOOLEAN /\ expired' \in BOOLEAN
  <2>1. CASE \E t \in Taps : Log(t) \/ LogEnds(t)
    BY <2>1, Zenon DEF Log, LogEnds, RestRange
  <2>2. CASE Expire \/ Stop \/ Kill
    BY <2>2, Zenon DEF Expire, Stop, Kill, RestRange
  <2>3. CASE PostProcessing
    <3>1. UNCHANGED capture
      BY <2>3, Zenon DEF PostProcessing, Open, Fill, FillEnds, Match, MatchRest, MatchEnds
    <3>2. QED
      BY <3>1, Zenon DEF capture, RestRange
  <2>4. QED
    BY <2>1, <2>2, <2>3, Zenon DEF Next, Capture, vars, capture, RestRange
<1>2. /\ at' \in {"wait", "fill", "match", "done", "error"}
      /\ \/ UNCHANGED overwrites
         \/ \E cap : overwrites' = overwrites + Overwritten(cap)
  <2>1. CASE PostProcessing
    <3>1. CASE Open
      BY <3>1, Zenon DEF Open
    <3>2. CASE FillEnds \/ MatchEnds
      BY <3>2, Zenon DEF FillEnds, MatchEnds
    <3>3. CASE Fill \/ Match \/ MatchRest
      BY <3>3, Zenon DEF Fill, Match, MatchRest, RestRange
    <3>4. QED
      BY <2>1, <3>1, <3>2, <3>3, Zenon DEF PostProcessing
  <2>2. CASE UNCHANGED matching
    BY <2>2, Zenon DEF matching, RestRange
  <2>3. Next => PostProcessing \/ UNCHANGED matching
    BY Zenon DEF Next, Capture, Log, LogEnds, Expire, Stop, Kill
  <2>4. QED
    BY <2>1, <2>2, <2>3, Zenon DEF vars
<1>3. overwrites' \in Nat
  <2>1. ASSUME NEW cap PROVE overwrites + Overwritten(cap) \in Nat
    BY DEF RestRange, Overwritten
  <2>2. QED
    BY <1>2, <2>1, Zenon DEF RestRange
<1>4. QED
  BY <1>1, <1>2, <1>3, Zenon DEF RestRange

\* Type correctness of the capture and the matching.
THEOREM FilesTypeCorrect == Spec => []FilesTypeOK
<1>1. Init => RestRange
  <2>1. 0 \in Nat
    OBVIOUS
  <2>2. QED
    BY <2>1, Zenon DEF Init, RestRange
<1>2. Spec => []RestRange
  BY <1>1, RestStep, PTL DEF Spec
<1>3. RestRange /\ CaptureInv /\ MatchInv /\ TakenInv => FilesTypeOK
  <2>1. SUFFICES ASSUME RestRange, CaptureRange, MatchRange, pos \in [Taps -> Nat], taken \subseteq Int
                 PROVE  FilesTypeOK
    BY Zenon DEF CaptureInv, MatchInv, ReadInv, TakenInv
  <2>2. DOMAIN trace = 1 .. NUM_PKTS
    BY <2>1, FilesAssumption, Zenon DEF CaptureRange
  <2>3. {overwrites, misses, pre_pkts, post_pkts, below} \subseteq Nat
    BY <2>1, Zenon DEF RestRange, MatchRange
  <2>4. QED
    BY <2>1, <2>2, <2>3, Zenon DEF FilesTypeOK, CaptureRange, MatchRange, MapSet, RestRange
<1>4. QED
  BY <1>2, <1>3, MatchingInvariant, TakenInvariant, PTL

=============================================================================
