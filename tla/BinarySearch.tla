---------------------------- MODULE BinarySearch ----------------------------
(***************************************************************************)
(* utils.binarySearch of the RFC 2544 suite (rfc2544/utils/utils.lua): an   *)
(* interval, and the operation that narrows it after a trial.               *)
(***************************************************************************)
EXTENDS Integers

Distance(a, b) == IF a > b THEN a - b ELSE b - a

\* math.ceil((lowerLimit + upperLimit) / 2)
Middle(bs) == (bs.lowerLimit + bs.upperLimit + 1) \div 2

create(lower, upper) == [lowerLimit |-> lower, upperLimit |-> upper]

\* The interval after a trial at curr.
Narrow_Swapped(bs, curr, top) ==
  IF top THEN [bs EXCEPT !.upperLimit = curr] ELSE [bs EXCEPT !.lowerLimit = curr]

Narrow(bs, curr, top) ==
  IF top THEN [bs EXCEPT !.lowerLimit = curr] ELSE [bs EXCEPT !.upperLimit = curr]

\* binarySearch:next.  The test for the lower end compares with a global that is
\* never set, so it does not end the search.
next(bs, curr, top, threshold) ==
  IF top /\ curr = bs.upperLimit
  THEN [bs |-> bs, val |-> curr, finished |-> TRUE]
  ELSE LET n == Narrow(bs, curr, top)
           nextVal == Middle(n)
           close == Distance(nextVal, curr) < threshold
       IN [bs |-> n, val |-> IF close THEN curr ELSE nextVal, finished |-> close]
=============================================================================
