--------------------------- MODULE Rfc2544_proofs ---------------------------
(***************************************************************************)
(* Back-to-back: the two tasks search in step, and measure the buffer of an *)
(* orderly device, for every size of the bursts and every granularity.      *)
(* Throughput and frame loss: what they report was measured by a trial, a   *)
(* search comes close to the device's capacity and a sweep skips no rate,   *)
(* for every link rate, threshold, granularity and capacity.                *)
(***************************************************************************)
EXTENDS BackToBack, Rfc2544Bench, TLAPS

\* How often somebody waits at the barrier.
Arrived == (IF load.at \in {"waiting_start", "waiting_meet"} THEN 1 ELSE 0)
           + (IF counter.at \in {"waiting_start", "waiting_meet"} THEN 1 ELSE 0)

\* Where the two tasks can be: before the first barrier, at a used barrier that is
\* not re-initialised, at their verdicts, in a round, or stuck with a barrier that
\* was re-initialised before the counter had left it.
AtStart ==
  /\ load.at \in {"start", "waiting_start"} /\ counter.at \in {"start", "waiting_start"}
  /\ load.at = "start" \/ counter.at = "start"
  /\ bar = 2 - Arrived

UsedStart ==
  /\ bar = 0
  /\ \/ load.at = "reinit_start" /\ counter.at \in {"waiting_start", "head", "count", "done"}
     \/ load.at = "waiting_start" /\ counter.at \in {"head", "count", "done"}

BothJudge ==
  \/ load.at = "reinit" /\ counter.at \in {"waiting_meet", "judge"} /\ bar = 0
  \/ load.at = "waiting_meet" /\ counter.at = "judge" /\ bar = 0
  \/ load.at = "judge" /\ counter.at = "judge" /\ bar = 2

LoadToJudge ==
  /\ counter.at \in {"sleep", "done"}
  /\ (load.at \in {"waiting_meet", "reinit"} /\ bar = 0) \/ (load.at = "judge" /\ bar = 2)

CounterToJudge ==
  load.at \in {"sleep", "done"} /\ counter.at = "judge" /\ bar = 2

InRound ==
  /\ load.at \in {"head", "burst", "meet", "waiting_meet", "sleep", "done"}
  /\ counter.at \in {"head", "count", "meet", "waiting_meet", "sleep", "done"}
  /\ ~(load.at = "waiting_meet" /\ counter.at = "waiting_meet")
  /\ bar = 2 - Arrived

Stuck ==
  /\ counter.at \in {"waiting_start", "waiting_meet"}
  /\ load.at \in {"head", "burst", "meet", "waiting_meet", "judge", "sleep", "done"}
  /\ bar = IF load.at = "waiting_meet" THEN 1 ELSE 2

\* The part of a task that is its search.
SameSearch(t, u) ==
  /\ t.count = u.count /\ t.binSearch = u.binSearch /\ t.first = u.first
  /\ t.longest = u.longest /\ t.round = u.round

\* Of two tasks at the same place of the search one, t, has already judged the
\* burst that u is still to judge with the outcome top.
Ahead(t, u, top, g) == SameSearch(t, Judged(u, top, g)) /\ t.at = Judged(u, top, g).at

Published ==
  /\ load.at \in {"meet", "waiting_meet", "reinit", "judge"} => load.mine = rsns.sent
  /\ counter.at \in {"meet", "waiting_meet", "judge"} => counter.mine = rsns.received

StepInv ==
  /\ Published
  /\ \/ (AtStart \/ UsedStart \/ InRound) /\ SameSearch(load, counter)
     \/ BothJudge /\ SameSearch(load, counter)
     \/ LoadToJudge /\ Ahead(counter, load, load.mine = rsns.received, granularity)
     \/ CounterToJudge /\ Ahead(load, counter, counter.mine = rsns.sent, granularity)
     \/ Stuck /\ SameSearch(load, counter)
     \/ Stuck /\ load.at # "judge" /\ load.round = counter.round + 1

\* The interval of a task's search, and the burst it is to send next in it.
Interval(t) ==
  LET l == t.binSearch.lowerLimit
      u == t.binSearch.upperLimit
  IN /\ l \in Nat /\ u \in Nat /\ l < u /\ u <= MAX_PKTS
     /\ l <= t.count /\ t.count <= u /\ (t.at # "done" => l < t.count)

Passes(n, buf) == IF n < buf THEN n ELSE buf

\* The search of a task while it lasts, and the result it ends with, for a device
\* that forwards bursts up to its buffer.
Searching(t, buf) ==
  /\ t.longest = t.binSearch.lowerLimit /\ t.longest <= buf
  /\ t.binSearch.upperLimit = MAX_PKTS \/ buf < t.binSearch.upperLimit
  /\ t.first => t.count = MAX_PKTS

Found(longest, buf, g) ==
  /\ longest <= buf
  /\ (IF buf > MAX_PKTS THEN MAX_PKTS ELSE buf) - longest < 2 * g

Measured(t, buf, g) == IF t.at = "done" THEN Found(t.longest, buf, g) ELSE Searching(t, buf)

\* Where the frames of a burst are.
FramesInv ==
  /\ load.at \in {"meet", "waiting_meet", "reinit", "judge"} => load.mine = load.count
  /\ in_dut = IF /\ load.at \in {"meet", "waiting_meet"}
                 /\ counter.at \in {"head", "count", "sleep"} /\ bar # 0
              THEN Passes(load.count, buffer) ELSE 0
  /\ counter.at \in {"meet", "waiting_meet"} => load.at \in {"meet", "waiting_meet", "reinit"}
  /\ counter.at \in {"meet", "waiting_meet", "judge"} =>
       counter.mine = Passes(counter.count, buffer)
  /\ load.at \in {"reinit", "judge"} \/ (load.at = "waiting_meet" /\ bar = 0) =>
       rsns.received = Passes(load.count, buffer)
  /\ counter.at = "judge" => rsns.sent = counter.count
  /\ InRound => (load.at = "done" <=> counter.at = "done")
  /\ load.at \in {"waiting_start", "reinit_start"} => counter.at # "done"

Orderly ==
  Measured(load, buffer, granularity) /\ Measured(counter, buffer, granularity) /\ FramesInv

PreciseInv == (running /\ buffer # -1 /\ ~Stuck => Orderly) /\ BurstPrecise

\* Variables in range, with the intervals of the two searches.
Entries == [value : Int, longestS : Nat, longestR : Nat, stopped : BOOLEAN]

RangeInv ==
  /\ BurstTypeOK /\ Interval(load) /\ Interval(counter)
  /\ granularity \in Nat \ {0} /\ buffer \in Nat \union {-1} /\ running \in BOOLEAN
  /\ results \in Seq(Entries)

-----------------------------------------------------------------------------
(* The binary search.                                                       *)

LEMMA MiddleBounds ==
  ASSUME NEW l \in Nat, NEW u \in Nat, l < u
  PROVE  LET m == Middle([lowerLimit |-> l, upperLimit |-> u]) IN
         /\ m \in Nat /\ l < m /\ m <= u
         /\ 2 * (m - l) >= u - l /\ 2 * (u - m) >= u - l - 1
<1>1. Middle([lowerLimit |-> l, upperLimit |-> u]) = (l + u + 1) \div 2
  BY DEF Middle
<1>2. QED
  BY <1>1

Step(l, u, val, finished) ==
  [bs |-> [lowerLimit |-> l, upperLimit |-> u], val |-> val, finished |-> finished]

\* What binarySearch:next returns: the interval it goes on with, and when it ends
\* how close the ends are.
Outcome(n, l, u, c, top, g) ==
  \/ top /\ c = u /\ n = Step(l, u, c, TRUE)
  \/ top /\ c < u /\ u - c < 2 * g /\ n = Step(c, u, c, TRUE)
  \/ top /\ \E v \in c + 1 .. u : (v = u => u = c + 1) /\ n = Step(c, u, v, FALSE)
  \/ ~top /\ c - l < 2 * g /\ n = Step(l, c, c, TRUE)
  \/ ~top /\ \E v \in l + 1 .. c : v # c /\ n = Step(l, c, v, FALSE)

LEMMA NextOutcome ==
  ASSUME NEW l \in Nat, NEW u \in Nat, l < u, NEW c \in Nat, l < c, c <= u,
         NEW top \in BOOLEAN, NEW g \in Nat \ {0}, NEW bs, bs = [lowerLimit |-> l, upperLimit |-> u]
  PROVE  Outcome(next(bs, c, top, g), l, u, c, top, g)
<1> DEFINE n == next(bs, c, top, g)
<1>1. CASE top /\ c = u
  BY <1>1 DEF next, Step, Outcome
<1>2. CASE top /\ c # u
  <2>1. PICK m \in Nat : /\ m = Middle([lowerLimit |-> c, upperLimit |-> u])
                         /\ c < m /\ m <= u /\ 2 * (m - c) >= u - c
                         /\ 2 * (u - m) >= u - c - 1
    BY <1>2, MiddleBounds
  <2>2. Narrow(bs, c, top) = [lowerLimit |-> c, upperLimit |-> u]
    BY <1>2 DEF Narrow
  <2>3. n = Step(c, u, IF Distance(m, c) < g THEN c ELSE m, Distance(m, c) < g)
    BY <1>2, <2>1, <2>2, Zenon DEF next, Step
  <2>4. Distance(m, c) = m - c
    BY <2>1 DEF Distance
  <2>5. CASE Distance(m, c) < g
    <3>1. u - c < 2 * g /\ c < u
      BY <1>2, <2>1, <2>4, <2>5
    <3>2. n = Step(c, u, c, TRUE)
      BY <2>3, <2>5, Zenon
    <3>3. QED
      BY <1>2, <3>1, <3>2, Zenon DEF Outcome
  <2>6. CASE ~(Distance(m, c) < g)
    <3>1. n = Step(c, u, m, FALSE)
      <4>1. (Distance(m, c) < g) = FALSE
        BY <2>6
      <4>2. QED
        BY <2>3, <4>1, Zenon
    <3>2. m \in c + 1 .. u /\ (m = u => u = c + 1)
      BY <2>1
    <3>3. QED
      BY <1>2, <3>1, <3>2, Zenon DEF Outcome
  <2>7. QED
    BY <2>5, <2>6, Zenon
<1>3. CASE ~top
  <2>1. PICK m \in Nat : /\ m = Middle([lowerLimit |-> l, upperLimit |-> c])
                         /\ l < m /\ m <= c /\ 2 * (c - m) >= c - l - 1
    BY MiddleBounds
  <2>2. Narrow(bs, c, top) = [lowerLimit |-> l, upperLimit |-> c]
    BY <1>3 DEF Narrow
  <2>3. n = Step(l, c, IF Distance(m, c) < g THEN c ELSE m, Distance(m, c) < g)
    BY <1>3, <2>1, <2>2, Zenon DEF next, Step
  <2>4. Distance(m, c) = c - m
    BY <2>1 DEF Distance
  <2>5. CASE Distance(m, c) < g
    <3>1. c - l < 2 * g
      BY <2>1, <2>4, <2>5
    <3>2. n = Step(l, c, c, TRUE)
      BY <2>3, <2>5, Zenon
    <3>3. QED
      BY <1>3, <3>1, <3>2, Zenon DEF Outcome
  <2>6. CASE ~(Distance(m, c) < g)
    <3>1. n = Step(l, c, m, FALSE)
      <4>1. (Distance(m, c) < g) = FALSE
        BY <2>6
      <4>2. QED
        BY <2>3, <4>1, Zenon
    <3>2. m \in l + 1 .. c /\ m # c
      BY <2>1, <2>4, <2>6
    <3>3. QED
      BY <1>3, <3>1, <3>2, Zenon DEF Outcome
  <2>7. QED
    BY <2>5, <2>6, Zenon
<1>4. QED
  BY <1>1, <1>2, <1>3, Zenon

\* A task that moves on keeps its search.
Places == {"start", "waiting_start", "reinit_start", "head", "burst", "count",
           "meet", "waiting_meet", "reinit", "judge", "sleep", "done"}

\* A task t whose verdict led to the interval, count and result given.
Verdict(s, t, l, u, count, longest, place) ==
  /\ s \in Tasks /\ s.mine = t.mine /\ s.round = t.round + 1 /\ s.at = place /\ s.first = FALSE
  /\ s.binSearch = [lowerLimit |-> l, upperLimit |-> u] /\ s.count = count
  /\ s.longest = longest

Updated(t, l, u, count, longest, place) ==
  [t EXCEPT !.binSearch = [lowerLimit |-> l, upperLimit |-> u], !.longest = longest,
            !.count = count, !.at = place, !.round = t.round + 1]

LEMMA TaskAfter ==
  ASSUME NEW t \in Tasks, t.first = FALSE, NEW l \in Nat, NEW u \in Nat, l < u, u <= MAX_PKTS,
         NEW c \in 1 .. MAX_PKTS, NEW longest \in 0 .. MAX_PKTS, NEW place \in {"sleep", "done"}
  PROVE  Verdict(Updated(t, l, u, c, longest, place), t, l, u, c, longest, place)
<1>0. [lowerLimit |-> l, upperLimit |-> u]
        \in [lowerLimit : 0 .. MAX_PKTS, upperLimit : 1 .. MAX_PKTS]
  BY BackToBackAssumption
<1>1. PICK bs \in [lowerLimit : 0 .. MAX_PKTS, upperLimit : 1 .. MAX_PKTS] :
        bs = [lowerLimit |-> l, upperLimit |-> u]
  BY <1>0, Zenon
<1>2. PICK r \in Nat : r = t.round + 1
  BY DEF Tasks
<1> DEFINE s == [t EXCEPT !.binSearch = bs, !.longest = longest, !.count = c, !.at = place,
                          !.round = r]
<1>3. /\ s \in Tasks /\ s.binSearch = bs /\ s.longest = longest /\ s.count = c
      /\ s.at = place /\ s.round = r /\ s.mine = t.mine /\ s.first = t.first
  BY Zenon DEF Tasks
<1>4. s = Updated(t, l, u, c, longest, place)
  BY <1>1, <1>2, Zenon DEF Updated
<1> HIDE DEF s
<1>5. QED
  BY <1>1, <1>2, <1>3, <1>4, Zenon DEF Verdict

\* What a task makes of a burst: it throws the first one away, or it goes on with a
\* smaller interval, or it ends with one that is small enough or at its upper end.
LEMMA JudgedOutcome ==
  ASSUME NEW t \in Tasks, NEW l \in Nat, NEW u \in Nat, l < u, u <= MAX_PKTS,
         t.binSearch = [lowerLimit |-> l, upperLimit |-> u], l < t.count, t.count <= u,
         NEW top \in BOOLEAN, NEW g \in Nat \ {0}
  PROVE  LET s == Judged(t, top, g)
             c == t.count
         IN  \/ t.first /\ Verdict(s, t, l, u, c, t.longest, "sleep")
             \/ ~t.first /\ top /\ c = u /\ Verdict(s, t, l, u, c, c, "done")
             \/ ~t.first /\ top /\ c < u /\ u - c < 2 * g /\ Verdict(s, t, c, u, c, c, "done")
             \/ ~t.first /\ top /\ \E v \in c + 1 .. u : Verdict(s, t, c, u, v, c, "sleep")
             \/ ~t.first /\ ~top /\ c - l < 2 * g /\ Verdict(s, t, l, c, c, t.longest, "done")
             \/ ~t.first /\ ~top /\ \E v \in l + 1 .. c : Verdict(s, t, l, c, v, t.longest, "sleep")
<1> DEFINE n == next(t.binSearch, t.count, top, g)
           c == t.count
<1>1. /\ c \in 1 .. MAX_PKTS /\ c \in Nat /\ t.longest \in 0 .. MAX_PKTS /\ c \in 0 .. MAX_PKTS
      /\ c <= MAX_PKTS /\ t.round \in Nat /\ t.first \in BOOLEAN
  BY BackToBackAssumption DEF Tasks
<1>2. CASE t.first
  <2>1. Judged(t, top, g) = [t EXCEPT !.first = FALSE, !.at = "sleep", !.round = t.round + 1]
    BY <1>2 DEF Judged
  <2>2. PICK r \in Nat : r = t.round + 1
    BY <1>1
  <2>3. Verdict([t EXCEPT !.first = FALSE, !.at = "sleep", !.round = r], t, l, u, c,
                t.longest, "sleep")
    BY <2>2, Zenon DEF Verdict, Tasks
  <2>4. QED
    BY <1>2, <2>1, <2>2, <2>3, Zenon
<1>3. CASE ~t.first
  <2>1. Judged(t, top, g) = [t EXCEPT !.binSearch = n.bs,
                                   !.longest = IF top THEN c ELSE t.longest,
                                   !.count = IF n.finished THEN c ELSE n.val,
                                   !.at = IF n.finished THEN "done" ELSE "sleep",
                                   !.round = t.round + 1]
    BY <1>3, Zenon DEF Judged
  <2>2. t.first = FALSE
    BY <1>1, <1>3, Zenon
  <2>3. ASSUME NEW a, NEW b, NEW v, n = Step(a, b, v, TRUE)
        PROVE  Judged(t, top, g) = Updated(t, a, b, c, IF top THEN c ELSE t.longest, "done")
    <3>1. n.bs = [lowerLimit |-> a, upperLimit |-> b] /\ n.finished = TRUE
      BY <2>3 DEF Step
    <3> HIDE DEF n
    <3>2. QED
      BY <2>1, <3>1, Zenon DEF Updated
  <2>4. ASSUME NEW a, NEW b, NEW v, n = Step(a, b, v, FALSE)
        PROVE  Judged(t, top, g) = Updated(t, a, b, v, IF top THEN c ELSE t.longest, "sleep")
    <3>1. n.bs = [lowerLimit |-> a, upperLimit |-> b] /\ n.finished = FALSE /\ n.val = v
      BY <2>4 DEF Step
    <3> HIDE DEF n
    <3>2. QED
      BY <2>1, <3>1, Zenon DEF Updated
  <2>5. \/ top /\ c = u /\ n = Step(l, u, c, TRUE)
        \/ top /\ c < u /\ u - c < 2 * g /\ n = Step(c, u, c, TRUE)
        \/ top /\ \E v \in c + 1 .. u : n = Step(c, u, v, FALSE)
        \/ ~top /\ c - l < 2 * g /\ n = Step(l, c, c, TRUE)
        \/ ~top /\ \E v \in l + 1 .. c : n = Step(l, c, v, FALSE)
    <3>1. Outcome(n, l, u, c, top, g)
      BY <1>1, NextOutcome, Zenon
    <3> HIDE DEF n, c
    <3>2. QED
      BY <3>1, Zenon DEF Outcome
  <2> HIDE DEF n
  <2>6. CASE top /\ c = u /\ n = Step(l, u, c, TRUE)
    <3>1. Judged(t, top, g) = Updated(t, l, u, c, c, "done")
      BY <2>3, <2>6, Zenon
    <3>2. Verdict(Judged(t, top, g), t, l, u, c, c, "done")
      BY <1>1, <2>2, <3>1, TaskAfter, Zenon
    <3>3. QED
      BY <1>3, <2>6, <3>2, Zenon
  <2>7. CASE top /\ c < u /\ u - c < 2 * g /\ n = Step(c, u, c, TRUE)
    BY <1>1, <1>3, <2>2, <2>3, <2>7, TaskAfter, ZenonT(40)
  <2>8. ASSUME top, NEW v \in c + 1 .. u, n = Step(c, u, v, FALSE)
        PROVE  Verdict(Judged(t, top, g), t, c, u, v, c, "sleep")
    <3>1. c < u /\ v \in 1 .. MAX_PKTS
      BY <1>1, <2>8, BackToBackAssumption
    <3>2. QED
      BY <1>1, <2>2, <2>4, <2>8, <3>1, TaskAfter, ZenonT(40)
  <2>9. CASE ~top /\ c - l < 2 * g /\ n = Step(l, c, c, TRUE)
    BY <1>1, <1>3, <2>2, <2>3, <2>9, TaskAfter, ZenonT(40)
  <2>10. ASSUME ~top, NEW v \in l + 1 .. c, n = Step(l, c, v, FALSE)
         PROVE  Verdict(Judged(t, top, g), t, l, c, v, t.longest, "sleep")
    <3>1. v \in 1 .. MAX_PKTS
      BY <1>1, <2>10, BackToBackAssumption
    <3>2. QED
      BY <1>1, <2>2, <2>4, <2>10, <3>1, TaskAfter, ZenonT(40)
  <2>11. QED
    BY <1>3, <2>5, <2>6, <2>7, <2>8, <2>9, <2>10, Zenon
<1>4. QED
  BY <1>2, <1>3, Zenon

\* The fields of s, the task t after a verdict for which next returned n.
Fields(s, t, n, top) ==
  /\ t.first => /\ s.first = FALSE /\ s.at = "sleep" /\ s.binSearch = t.binSearch
                /\ s.count = t.count /\ s.longest = t.longest /\ s.round = t.round + 1
  /\ ~t.first => /\ s.first = t.first /\ s.at = (IF n.finished THEN "done" ELSE "sleep")
                 /\ s.binSearch = n.bs /\ s.count = (IF n.finished THEN t.count ELSE n.val)
                 /\ s.longest = (IF top THEN t.count ELSE t.longest)
                 /\ s.round = t.round + 1

LEMMA JudgedFields ==
  ASSUME NEW t \in Tasks, NEW top, NEW g
  PROVE  Fields(Judged(t, top, g), t, next(t.binSearch, t.count, top, g), top)
<1> DEFINE n == next(t.binSearch, t.count, top, g)
<1>1. CASE t.first
  BY <1>1 DEF Judged, Tasks, Fields
<1>2. CASE ~t.first
  <2>1. Judged(t, top, g) = [t EXCEPT !.binSearch = n.bs,
                                      !.longest = IF top THEN t.count ELSE t.longest,
                                      !.count = IF n.finished THEN t.count ELSE n.val,
                                      !.at = IF n.finished THEN "done" ELSE "sleep",
                                      !.round = t.round + 1]
    BY <1>2, Zenon DEF Judged
  <2> HIDE DEF n
  <2>2. QED
    BY <1>2, <2>1 DEF Tasks, n, Fields
<1>3. QED
  BY <1>1, <1>2, Zenon

\* Two tasks at the same place of the search that agree on the outcome of a burst
\* are at the same place after their verdicts.
LEMMA JudgedSame ==
  ASSUME NEW t \in Tasks, NEW u \in Tasks, SameSearch(t, u), NEW top, NEW g
  PROVE  Ahead(Judged(t, top, g), u, top, g)
<1>1. next(t.binSearch, t.count, top, g) = next(u.binSearch, u.count, top, g)
  BY Zenon DEF SameSearch
<1>2. /\ t.count = u.count /\ t.binSearch = u.binSearch /\ t.first = u.first
      /\ t.longest = u.longest /\ t.round = u.round
  BY Zenon DEF SameSearch
<1> DEFINE s == Judged(t, top, g)
           r == Judged(u, top, g)
           n == next(t.binSearch, t.count, top, g)
<1>3. Fields(s, t, n, top) /\ Fields(r, u, n, top)
  BY <1>1, JudgedFields, Zenon
<1> HIDE DEF s, r, n
<1>4. CASE t.first
  BY <1>2, <1>3, <1>4, Zenon DEF s, r, Fields, Ahead, SameSearch
<1>5. CASE ~t.first
  BY <1>2, <1>3, <1>5, Zenon DEF s, r, Fields, Ahead, SameSearch
<1>6. QED
  BY <1>4, <1>5, Zenon

LEMMA TaskInterval ==
  ASSUME NEW t \in Tasks, Interval(t)
  PROVE  \E l, u \in Nat : /\ t.binSearch = [lowerLimit |-> l, upperLimit |-> u]
                           /\ l = t.binSearch.lowerLimit /\ u = t.binSearch.upperLimit
                           /\ l < u /\ u <= MAX_PKTS /\ l <= t.count /\ t.count <= u
                           /\ t.at # "done" => l < t.count
<1>1. t.binSearch = [lowerLimit |-> t.binSearch.lowerLimit, upperLimit |-> t.binSearch.upperLimit]
  BY DEF Tasks
<1>2. QED
  BY <1>1, Zenon DEF Interval

\* A verdict keeps a task's search in range.
LEMMA JudgedRange ==
  ASSUME NEW t \in Tasks, Interval(t), t.at = "judge", NEW top \in BOOLEAN, NEW g \in Nat \ {0}
  PROVE  LET s == Judged(t, top, g) IN
         /\ s \in Tasks /\ Interval(s) /\ s.mine = t.mine /\ s.round = t.round + 1
         /\ s.at \in {"sleep", "done"}
<1>1. PICK l, u \in Nat : /\ t.binSearch = [lowerLimit |-> l, upperLimit |-> u]
                          /\ l < u /\ u <= MAX_PKTS /\ l < t.count /\ t.count <= u
  BY TaskInterval, Zenon
<1> DEFINE s == Judged(t, top, g)
           c == t.count
<1>2. c \in Nat
  BY DEF Tasks
<1>3. \E a, b, v \in Nat : \E longest, place :
        /\ Verdict(s, t, a, b, v, longest, place) /\ a < b /\ b <= u /\ a <= v /\ v <= b
        /\ place = "done" \/ (place = "sleep" /\ a < v)
  <2>1. \/ t.first /\ Verdict(s, t, l, u, c, t.longest, "sleep")
        \/ ~t.first /\ top /\ c = u /\ Verdict(s, t, l, u, c, c, "done")
        \/ ~t.first /\ top /\ c < u /\ u - c < 2 * g /\ Verdict(s, t, c, u, c, c, "done")
        \/ ~t.first /\ top /\ \E v \in c + 1 .. u : Verdict(s, t, c, u, v, c, "sleep")
        \/ ~t.first /\ ~top /\ c - l < 2 * g /\ Verdict(s, t, l, c, c, t.longest, "done")
        \/ ~t.first /\ ~top /\ \E v \in l + 1 .. c : Verdict(s, t, l, c, v, t.longest, "sleep")
    BY <1>1, JudgedOutcome, Zenon
  <2> HIDE DEF s, c
  <2>2. /\ l < c /\ c <= u /\ c <= c /\ u <= u /\ l <= c
        /\ \A v \in c + 1 .. u : v \in Nat /\ c < v /\ c <= v /\ v <= u /\ c < u
        /\ \A v \in l + 1 .. c : v \in Nat /\ l < v /\ l <= v /\ v <= c
    BY <1>1, <1>2 DEF c
  <2>3. QED
    BY <1>1, <1>2, <2>1, <2>2, Zenon
<1>0. PICK a, b, v \in Nat : \E longest, place :
        /\ Verdict(s, t, a, b, v, longest, place) /\ a < b /\ b <= u /\ a <= v /\ v <= b
        /\ place = "done" \/ (place = "sleep" /\ a < v)
  BY <1>3, Zenon
<1>4. PICK longest, place :
        /\ Verdict(s, t, a, b, v, longest, place) /\ a < b /\ b <= u /\ a <= v /\ v <= b
        /\ place = "done" \/ (place = "sleep" /\ a < v)
  BY <1>0, Zenon
<1> HIDE DEF s
<1>5. /\ s \in Tasks /\ s.mine = t.mine /\ s.round = t.round + 1 /\ s.at = place
      /\ s.binSearch = [lowerLimit |-> a, upperLimit |-> b] /\ s.count = v
  BY <1>4, Zenon DEF Verdict
<1>6. b <= MAX_PKTS /\ (place # "done" => a < v) /\ place \in {"sleep", "done"}
  BY <1>1, <1>4, BackToBackAssumption
<1>7. s.binSearch.lowerLimit = a /\ s.binSearch.upperLimit = b
  BY <1>5
<1>8. Interval(s)
  BY <1>4, <1>5, <1>6, <1>7, Zenon DEF Interval
<1>9. QED
  BY <1>5, <1>6, <1>8, Zenon DEF s

\* A task s that is where place says and otherwise what t was, except perhaps for
\* its own count.
Keeps(s, t, place) == s \in Tasks /\ s.at = place /\ SameSearch(s, t)

Stays(s, t, place) == Keeps(s, t, place) /\ s.mine = t.mine

MovedTo(t, place) == [t EXCEPT !.at = place]

LEMMA MovedStays ==
  ASSUME NEW t \in Tasks, NEW place \in Places
  PROVE  Stays(MovedTo(t, place), t, place)
BY DEF Tasks, Places, Stays, Keeps, MovedTo, SameSearch

LEMMA CountedKeeps ==
  ASSUME NEW t \in Tasks, NEW n \in Nat
  PROVE  LET s == [t EXCEPT !.mine = n, !.at = "meet"] IN Keeps(s, t, "meet") /\ s.mine = n
BY Zenon DEF Tasks, Keeps, SameSearch

LEMMA KeepsInterval ==
  ASSUME NEW t, NEW s, NEW place, Keeps(s, t, place), Interval(t), t.at # "done"
  PROVE  Interval(s)
BY Zenon DEF Keeps, Interval, SameSearch

LEMMA SameSearchTransitive ==
  ASSUME NEW r, NEW s, NEW t
  PROVE  /\ SameSearch(s, s) /\ (SameSearch(s, t) => SameSearch(t, s))
         /\ SameSearch(r, s) /\ SameSearch(s, t) => SameSearch(r, t)
BY Zenon DEF SameSearch

LEMMA NewTask ==
  Task("start") \in Tasks /\ Task("start").at = "start" /\ Interval(Task("start"))
  /\ Task("start").binSearch = [lowerLimit |-> 0, upperLimit |-> MAX_PKTS]
  /\ Task("start").longest = 0 /\ Task("start").count = MAX_PKTS
<1>1. create(0, MAX_PKTS) = [lowerLimit |-> 0, upperLimit |-> MAX_PKTS]
  BY DEF create
<1>2. Task("start") = [at |-> "start", count |-> MAX_PKTS,
                       binSearch |-> [lowerLimit |-> 0, upperLimit |-> MAX_PKTS],
                       first |-> TRUE, longest |-> 0, mine |-> 0, round |-> 0]
  BY <1>1, Zenon DEF Task
<1>3. /\ [lowerLimit |-> 0, upperLimit |-> MAX_PKTS]
           \in [lowerLimit : 0 .. MAX_PKTS, upperLimit : 1 .. MAX_PKTS]
      /\ MAX_PKTS \in 1 .. MAX_PKTS /\ 0 \in 0 .. MAX_PKTS /\ 0 \in Nat
  BY BackToBackAssumption
<1>4. Task("start") \in Tasks
  <2>1. PICK bs \in [lowerLimit : 0 .. MAX_PKTS, upperLimit : 1 .. MAX_PKTS] :
          bs = [lowerLimit |-> 0, upperLimit |-> MAX_PKTS]
    BY <1>3, Zenon
  <2>2. [at |-> "start", count |-> MAX_PKTS, binSearch |-> bs, first |-> TRUE, longest |-> 0,
         mine |-> 0, round |-> 0] \in Tasks
    BY <1>3 DEF Tasks
  <2>3. QED
    BY <1>2, <2>1, <2>2, Zenon
<1>5. /\ Task("start").at = "start" /\ Task("start").count = MAX_PKTS
      /\ Task("start").binSearch = [lowerLimit |-> 0, upperLimit |-> MAX_PKTS]
      /\ Task("start").longest = 0
  BY <1>2
<1>6. /\ Task("start").binSearch.lowerLimit = 0
      /\ Task("start").binSearch.upperLimit = MAX_PKTS
  BY <1>5
<1>7. Interval(Task("start"))
  BY <1>5, <1>6, BackToBackAssumption DEF Interval
<1>8. QED
  BY <1>4, <1>5, <1>7, Zenon

-----------------------------------------------------------------------------
(* What the steps do to the tasks.                                          *)

LEMMA LoadWaitsEffect ==
  ASSUME RangeInv, LoadWaits
  PROVE  /\ counter' = counter
         /\ \/ bar = 1 /\ bar' = 0 /\ Stays(load', load, LoadPassed(load.at))
            \/ bar # 1 /\ bar' = bar - 1 /\ Stays(load', load, Waiting(load.at))
<1>1. load \in Tasks /\ LoadPassed(load.at) \in Places /\ Waiting(load.at) \in Places
  BY DEF RangeInv, BurstTypeOK, LoadPassed, Waiting, Places
<1>2. CASE bar = 1
  <2>1. load' = MovedTo(load, LoadPassed(load.at)) /\ bar' = 0 /\ counter' = counter
    BY <1>2 DEF LoadWaits, MovedTo
  <2>2. QED
    BY <1>1, <1>2, <2>1, MovedStays, Zenon
<1>3. CASE bar # 1
  <2>1. load' = MovedTo(load, Waiting(load.at)) /\ counter' = counter /\ bar' = bar - 1
    BY <1>3, Zenon DEF LoadWaits, MovedTo
  <2>2. QED
    BY <1>1, <1>3, <2>1, MovedStays, Zenon
<1>4. QED
  BY <1>2, <1>3, Zenon

LEMMA CounterWaitsEffect ==
  ASSUME RangeInv, CounterWaits
  PROVE  /\ load' = load
         /\ \/ bar = 1 /\ bar' = 0 /\ Stays(counter', counter, CounterPassed(counter.at))
            \/ bar # 1 /\ bar' = bar - 1 /\ Stays(counter', counter, Waiting(counter.at))
<1>1. counter \in Tasks /\ CounterPassed(counter.at) \in Places /\ Waiting(counter.at) \in Places
  BY DEF RangeInv, BurstTypeOK, CounterPassed, Waiting, Places
<1>2. CASE bar = 1
  <2>1. counter' = MovedTo(counter, CounterPassed(counter.at)) /\ bar' = 0 /\ load' = load
    BY <1>2 DEF CounterWaits, MovedTo
  <2>2. QED
    BY <1>1, <1>2, <2>1, MovedStays, Zenon
<1>3. CASE bar # 1
  <2>1. counter' = MovedTo(counter, Waiting(counter.at)) /\ load' = load /\ bar' = bar - 1
    BY <1>3, Zenon DEF CounterWaits, MovedTo
  <2>2. QED
    BY <1>1, <1>3, <2>1, MovedStays, Zenon
<1>4. QED
  BY <1>2, <1>3, Zenon

LEMMA LeavesEffect ==
  ASSUME RangeInv
  PROVE  /\ LoadLeaves => Stays(load', load, LoadPassed(load.at))
         /\ CounterLeaves => Stays(counter', counter, CounterPassed(counter.at))
<1>1. /\ load \in Tasks /\ counter \in Tasks
      /\ LoadPassed(load.at) \in Places /\ CounterPassed(counter.at) \in Places
  BY DEF RangeInv, BurstTypeOK, LoadPassed, CounterPassed, Places
<1>2. LoadLeaves => load' = MovedTo(load, LoadPassed(load.at))
  BY Zenon DEF LoadLeaves, MovedTo
<1>3. CounterLeaves => counter' = MovedTo(counter, CounterPassed(counter.at))
  BY Zenon DEF CounterLeaves, MovedTo
<1>4. QED
  BY <1>1, <1>2, <1>3, MovedStays, Zenon

\* The steps of a task that only move it on.
LEMMA LoadMovesEffect ==
  ASSUME RangeInv
  PROVE  /\ Reinit => Stays(load', load, IF load.at = "reinit_start" THEN "head" ELSE "judge")
         /\ LoadHead => Stays(load', load, IF running THEN "burst" ELSE "done")
         /\ LoadWakes => Stays(load', load, "head")
<1>1. load \in Tasks /\ {"head", "judge", "burst", "done"} \subseteq Places
  BY DEF RangeInv, BurstTypeOK, Places
<1>2. ASSUME Reinit
      PROVE  Stays(load', load, IF load.at = "reinit_start" THEN "head" ELSE "judge")
  <2>1. load' = MovedTo(load, IF load.at = "reinit_start" THEN "head" ELSE "judge")
    BY <1>2, Zenon DEF Reinit, MovedTo
  <2>2. (IF load.at = "reinit_start" THEN "head" ELSE "judge") \in Places
    BY <1>1
  <2>3. QED
    BY <1>1, <2>1, <2>2, MovedStays, Zenon
<1>3. ASSUME LoadHead PROVE Stays(load', load, IF running THEN "burst" ELSE "done")
  <2>1. load' = MovedTo(load, IF running THEN "burst" ELSE "done")
    BY <1>3, Zenon DEF LoadHead, MovedTo
  <2>2. (IF running THEN "burst" ELSE "done") \in Places
    BY <1>1
  <2>3. QED
    BY <1>1, <2>1, <2>2, MovedStays, Zenon
<1>4. ASSUME LoadWakes PROVE Stays(load', load, "head")
  <2>1. load' = MovedTo(load, "head")
    BY <1>4, Zenon DEF LoadWakes, MovedTo
  <2>2. QED
    BY <1>1, <2>1, MovedStays
<1>5. QED
  BY <1>2, <1>3, <1>4, Zenon

LEMMA CounterMovesEffect ==
  ASSUME RangeInv
  PROVE  /\ CounterHead => Stays(counter', counter, IF running THEN "count" ELSE "done")
         /\ CounterWakes => Stays(counter', counter, "head")
<1>1. counter \in Tasks /\ {"head", "count", "done"} \subseteq Places
  BY DEF RangeInv, BurstTypeOK, Places
<1>2. ASSUME CounterHead PROVE Stays(counter', counter, IF running THEN "count" ELSE "done")
  <2>1. counter' = MovedTo(counter, IF running THEN "count" ELSE "done")
    BY <1>2, Zenon DEF CounterHead, MovedTo
  <2>2. (IF running THEN "count" ELSE "done") \in Places
    BY <1>1
  <2>3. QED
    BY <1>1, <2>1, <2>2, MovedStays, Zenon
<1>3. ASSUME CounterWakes PROVE Stays(counter', counter, "head")
  <2>1. counter' = MovedTo(counter, "head")
    BY <1>3, Zenon DEF CounterWakes, MovedTo
  <2>2. QED
    BY <1>1, <2>1, MovedStays
<1>4. QED
  BY <1>2, <1>3, Zenon

LEMMA SendBurstEffect ==
  ASSUME RangeInv, SendBurst
  PROVE  \E frames \in 0 .. load.count :
           /\ Keeps(load', load, "meet") /\ load'.mine = frames /\ (running => frames = load.count)
           /\ rsns' = [rsns EXCEPT !.sent = frames]
           /\ \E passed \in 0 .. frames : /\ buffer # -1 => passed = Passes(frames, buffer)
                                        /\ in_dut' = in_dut + passed
<1>1. load \in Tasks /\ load.count \in Nat
  <2>1. load \in Tasks
    BY Zenon DEF RangeInv, BurstTypeOK
  <2>2. QED
    BY <2>1 DEF Tasks
<1>2. PICK frames \in 0 .. load.count :
        /\ running => frames = load.count
        /\ load' = [load EXCEPT !.mine = frames, !.at = "meet"]
        /\ rsns' = [rsns EXCEPT !.sent = frames]
        /\ \E passed \in 0 .. frames : /\ buffer # -1 => passed = Passes(frames, buffer)
                                     /\ in_dut' = in_dut + passed
  BY Zenon DEF SendBurst, Passes
<1>3. frames \in Nat
  BY <1>1
<1>4. Keeps(load', load, "meet") /\ load'.mine = frames
  BY <1>1, <1>2, <1>3, CountedKeeps, Zenon
<1>5. QED
  BY <1>2, <1>4, Zenon

LEMMA CountBurstEffect ==
  ASSUME RangeInv, CountBurst
  PROVE  \E n \in 0 .. in_dut :
           /\ Keeps(counter', counter, "meet") /\ counter'.mine = n
           /\ n >= counter.count \/ load.at \in {"meet", "waiting_meet", "done"}
           /\ buffer # -1 => n = in_dut
           /\ rsns' = [rsns EXCEPT !.received = n]
           /\ in_dut' = in_dut - n
<1>1. counter \in Tasks /\ in_dut \in Nat
  BY Zenon DEF RangeInv, BurstTypeOK
<1>2. PICK n \in 0 .. in_dut :
        /\ n >= counter.count \/ load.at \in {"meet", "waiting_meet", "done"}
        /\ buffer # -1 => n = in_dut
        /\ counter' = [counter EXCEPT !.mine = n, !.at = "meet"]
        /\ rsns' = [rsns EXCEPT !.received = n]
        /\ in_dut' = in_dut - n
  BY Zenon DEF CountBurst
<1>3. n \in Nat
  BY <1>1
<1>4. Keeps(counter', counter, "meet") /\ counter'.mine = n
  BY <1>1, <1>2, <1>3, CountedKeeps, Zenon
<1>5. QED
  BY <1>2, <1>4, Zenon

-----------------------------------------------------------------------------
LEMMA RangeInit == BurstInit => RangeInv
<1> SUFFICES ASSUME BurstInit PROVE RangeInv
  OBVIOUS
<1>1. /\ load = Task("start") /\ counter = Task("start") /\ running = TRUE
      /\ granularity \in GRANULARITIES /\ buffer \in BUFFERS \union {-1} /\ bar = 2
      /\ rsns = [sent |-> 0, received |-> 0] /\ in_dut = 0 /\ iteration = 1 /\ results = <<>>
  BY Zenon DEF BurstInit
<1>2. /\ load \in Tasks /\ counter \in Tasks /\ Interval(load) /\ Interval(counter)
  BY <1>1, NewTask, Zenon
<1>3. rsns \in [sent : 0 .. MAX_PKTS, received : Nat]
  BY <1>1, BackToBackAssumption
<1>4. /\ granularity \in Nat \ {0} /\ buffer \in Nat \union {-1}
      /\ bar \in 0 .. 2 /\ in_dut \in Nat /\ iteration \in 1 .. NUM_ITERATIONS
  BY <1>1, BackToBackAssumption
<1>5. results \in Seq(Entries) /\ Len(results) = 0
  BY <1>1
<1>6. Len(results) <= iteration
  BY <1>1, <1>5
<1>7. QED
  BY <1>1, <1>2, <1>3, <1>4, <1>5, <1>6, Zenon DEF RangeInv, BurstTypeOK

\* What a step must show for the variables to stay in range.
LEMMA RangeKept ==
  ASSUME RangeInv, UNCHANGED <<granularity, buffer, iteration, results>>,
         load' \in Tasks, counter' \in Tasks, Interval(load'), Interval(counter'),
         bar' \in 0 .. 2, in_dut' \in Nat, rsns' \in [sent : 0 .. MAX_PKTS, received : Nat],
         running' \in BOOLEAN
  PROVE  RangeInv'
BY Zenon DEF RangeInv, BurstTypeOK

LEMMA RangeWaits ==
  ASSUME RangeInv, StepInv, LoadWaits \/ CounterWaits
  PROVE  RangeInv'
<1>1. /\ load \in Tasks /\ counter \in Tasks /\ Interval(load) /\ Interval(counter)
      /\ rsns \in [sent : 0 .. MAX_PKTS, received : Nat] /\ bar \in 0 .. 2
      /\ running \in BOOLEAN /\ in_dut \in Nat
  BY Zenon DEF RangeInv, BurstTypeOK
<1>2. UNCHANGED <<running, granularity, buffer, rsns, iteration, results>>
  BY Zenon DEF LoadWaits, CounterWaits
<1>3. bar # 0
  BY DEF StepInv, AtStart, UsedStart, InRound, BothJudge, LoadToJudge, CounterToJudge, Stuck, Arrived,
         LoadWaits, CounterWaits
<1>4. bar' \in 0 .. 2
  BY <1>1, <1>3 DEF LoadWaits, CounterWaits
<1>5. in_dut' \in Nat
  BY <1>1 DEF LoadWaits, CounterWaits
<1>6. load' \in Tasks /\ counter' \in Tasks /\ Interval(load') /\ Interval(counter')
  <2>1. CASE LoadWaits
    <3>1. load.at # "done"
      BY <2>1 DEF LoadWaits
    <3>2. counter' = counter /\ \E place : Keeps(load', load, place)
      BY <2>1, LoadWaitsEffect, Zenon DEF Stays
    <3>3. QED
      BY <1>1, <3>1, <3>2, KeepsInterval, Zenon DEF Keeps
  <2>2. CASE CounterWaits
    <3>1. counter.at # "done"
      BY <2>2 DEF CounterWaits
    <3>2. load' = load /\ \E place : Keeps(counter', counter, place)
      BY <2>2, CounterWaitsEffect, Zenon DEF Stays
    <3>3. QED
      BY <1>1, <3>1, <3>2, KeepsInterval, Zenon DEF Keeps
  <2>3. QED
    BY <2>1, <2>2
<1>7. QED
  BY <1>1, <1>2, <1>4, <1>5, <1>6, RangeKept, Zenon

LEMMA RangeBurst ==
  ASSUME RangeInv, SendBurst \/ CountBurst
  PROVE  RangeInv'
<1>1. /\ load \in Tasks /\ counter \in Tasks /\ Interval(load) /\ Interval(counter)
      /\ rsns \in [sent : 0 .. MAX_PKTS, received : Nat] /\ bar \in 0 .. 2
      /\ running \in BOOLEAN /\ in_dut \in Nat
  BY Zenon DEF RangeInv, BurstTypeOK
<1>2. UNCHANGED <<running, granularity, buffer, bar, iteration, results>>
  BY Zenon DEF SendBurst, CountBurst
<1>3. load.count \in 1 .. MAX_PKTS
  BY <1>1 DEF Tasks
<1>4. CASE SendBurst
  <2>1. PICK frames \in 0 .. load.count :
          /\ Keeps(load', load, "meet") /\ rsns' = [rsns EXCEPT !.sent = frames]
          /\ \E passed \in 0 .. frames : in_dut' = in_dut + passed
    BY <1>4, SendBurstEffect, Zenon
  <2>2. load.at # "done" /\ counter' = counter
    BY <1>4, Zenon DEF SendBurst
  <2>3. frames \in 0 .. MAX_PKTS
    BY <1>3, BackToBackAssumption
  <2>4. rsns' \in [sent : 0 .. MAX_PKTS, received : Nat]
    BY <1>1, <2>1, <2>3
  <2>5. in_dut' \in Nat
    BY <1>1, <2>1, <2>3
  <2>6. load' \in Tasks /\ Interval(load') /\ counter' \in Tasks /\ Interval(counter')
    BY <1>1, <2>1, <2>2, KeepsInterval, Zenon DEF Keeps
  <2>7. bar' \in 0 .. 2 /\ running' \in BOOLEAN
    BY <1>1, <1>2
  <2>8. QED
    BY <1>2, <2>4, <2>5, <2>6, <2>7, RangeKept, Zenon
<1>5. CASE CountBurst
  <2>1. PICK n \in 0 .. in_dut :
          Keeps(counter', counter, "meet") /\ rsns' = [rsns EXCEPT !.received = n]
          /\ in_dut' = in_dut - n
    BY <1>5, CountBurstEffect, Zenon
  <2>2. counter.at # "done" /\ load' = load
    BY <1>5, Zenon DEF CountBurst
  <2>3. rsns' \in [sent : 0 .. MAX_PKTS, received : Nat] /\ in_dut' \in Nat
    BY <1>1, <2>1
  <2>4. load' \in Tasks /\ Interval(load') /\ counter' \in Tasks /\ Interval(counter')
    BY <1>1, <2>1, <2>2, KeepsInterval, Zenon DEF Keeps
  <2>5. bar' \in 0 .. 2 /\ running' \in BOOLEAN
    BY <1>1, <1>2
  <2>6. QED
    BY <1>2, <2>3, <2>4, <2>5, RangeKept, Zenon
<1>6. QED
  BY <1>4, <1>5

LEMMA RangeMoves ==
  ASSUME RangeInv,
         \/ LoadLeaves \/ CounterLeaves
         \/ Reinit \/ LoadHead \/ LoadWakes \/ CounterHead \/ CounterWakes
         \/ LoadJudges \/ CounterJudges \/ LoseLate \/ BurstStop \/ UNCHANGED burstVars
  PROVE  RangeInv'
<1>1. /\ load \in Tasks /\ counter \in Tasks /\ Interval(load) /\ Interval(counter)
      /\ rsns \in [sent : 0 .. MAX_PKTS, received : Nat] /\ bar \in 0 .. 2
      /\ running \in BOOLEAN /\ in_dut \in Nat /\ granularity \in Nat \ {0}
  BY Zenon DEF RangeInv, BurstTypeOK
<1>2. UNCHANGED <<granularity, buffer, rsns, iteration, results>>
  BY Zenon DEF LoadLeaves, CounterLeaves, Reinit, LoadHead, LoadWakes, CounterHead, CounterWakes,
               LoadJudges, CounterJudges, LoseLate, BurstStop, burstVars
<1>3. bar' \in 0 .. 2 /\ running' \in BOOLEAN /\ in_dut' \in Nat
  <2>1. bar' = bar \/ bar' = 2
    BY Zenon DEF LoadLeaves, CounterLeaves, Reinit, LoadHead, LoadWakes, CounterHead, CounterWakes,
                 LoadJudges, CounterJudges, LoseLate, BurstStop, burstVars
  <2>2. running' = running \/ running' = FALSE
    BY Zenon DEF LoadLeaves, CounterLeaves, Reinit, LoadHead, LoadWakes, CounterHead, CounterWakes,
                 LoadJudges, CounterJudges, LoseLate, BurstStop, burstVars
  <2>3. in_dut' = in_dut \/ (in_dut > 0 /\ in_dut' = in_dut - 1)
    BY Zenon DEF LoadLeaves, CounterLeaves, Reinit, LoadHead, LoadWakes, CounterHead, CounterWakes,
                 LoadJudges, CounterJudges, LoseLate, BurstStop, burstVars
  <2>4. bar' \in 0 .. 2 /\ in_dut' \in Nat
    BY <1>1, <2>1, <2>3
  <2>5. running' \in BOOLEAN
    BY <1>1, <2>2, Zenon
  <2>6. QED
    BY <2>4, <2>5, Zenon
<1>4. load' \in Tasks /\ Interval(load')
  <2>1. CASE LoadLeaves \/ Reinit \/ LoadHead \/ LoadWakes
    <3>1. load.at # "done"
      BY <2>1 DEF LoadLeaves, Reinit, LoadHead, LoadWakes
    <3>2. \E place : Keeps(load', load, place)
      BY <2>1, LoadMovesEffect, LeavesEffect, Zenon DEF Stays
    <3>3. QED
      BY <1>1, <3>1, <3>2, KeepsInterval, Zenon DEF Keeps
  <2>2. CASE LoadJudges
    <3>1. load.at = "judge" /\ load' = Judged(load, load.mine = rsns.received, granularity)
      BY <2>2, Zenon DEF LoadJudges
    <3>2. (load.mine = rsns.received) \in BOOLEAN
      OBVIOUS
    <3>3. QED
      BY <1>1, <3>1, <3>2, JudgedRange, Zenon
  <2>3. CASE CounterLeaves \/ CounterHead \/ CounterWakes \/ CounterJudges \/ LoseLate \/ BurstStop
             \/ UNCHANGED burstVars
    <3>1. load' = load
      BY <2>3, Zenon DEF CounterLeaves, CounterHead, CounterWakes, CounterJudges, LoseLate, BurstStop, burstVars
    <3>2. QED
      BY <1>1, <3>1, Zenon
  <2>4. QED
    BY <2>1, <2>2, <2>3, Zenon
<1>5. counter' \in Tasks /\ Interval(counter')
  <2>1. CASE CounterLeaves \/ CounterHead \/ CounterWakes
    <3>1. counter.at # "done"
      BY <2>1 DEF CounterLeaves, CounterHead, CounterWakes
    <3>2. \E place : Keeps(counter', counter, place)
      BY <2>1, CounterMovesEffect, LeavesEffect, Zenon DEF Stays
    <3>3. QED
      BY <1>1, <3>1, <3>2, KeepsInterval, Zenon DEF Keeps
  <2>2. CASE CounterJudges
    <3>1. counter.at = "judge" /\ counter' = Judged(counter, counter.mine = rsns.sent, granularity)
      BY <2>2, Zenon DEF CounterJudges
    <3>2. (counter.mine = rsns.sent) \in BOOLEAN
      OBVIOUS
    <3>3. QED
      BY <1>1, <3>1, <3>2, JudgedRange, Zenon
  <2>3. CASE LoadLeaves \/ Reinit \/ LoadHead \/ LoadWakes \/ LoadJudges \/ LoseLate \/ BurstStop
             \/ UNCHANGED burstVars
    <3>1. counter' = counter
      BY <2>3, Zenon DEF LoadLeaves, Reinit, LoadHead, LoadWakes, LoadJudges, LoseLate, BurstStop, burstVars
    <3>2. QED
      BY <1>1, <3>1, Zenon
  <2>4. QED
    BY <2>1, <2>2, <2>3, Zenon
<1>6. rsns' \in [sent : 0 .. MAX_PKTS, received : Nat]
  BY <1>1, <1>2, Zenon
<1>7. QED
  BY <1>2, <1>3, <1>4, <1>5, <1>6, RangeKept, Zenon

LEMMA RangeReport ==
  ASSUME RangeInv, Report
  PROVE  RangeInv'
<1>1. /\ load \in Tasks /\ counter \in Tasks /\ Interval(load) /\ Interval(counter)
      /\ results \in Seq(Entries) /\ iteration \in 1 .. NUM_ITERATIONS /\ running \in BOOLEAN
  BY Zenon DEF RangeInv, BurstTypeOK
<1>2. /\ load' \in Tasks /\ Interval(load') /\ counter' \in Tasks /\ Interval(counter')
  BY <1>1, NewTask, Zenon DEF Report
<1>3. PICK e : /\ results' = Append(results, e) /\ Len(results) < iteration
               /\ e = [value |-> IF NIL # load.longest THEN -1 ELSE load.longest,
                       longestS |-> load.longest, longestR |-> counter.longest,
                       stopped |-> ~running]
  BY Zenon DEF Report
<1>4. e \in Entries
  <2>1. /\ load.longest \in Nat /\ counter.longest \in Nat
        /\ (IF NIL # load.longest THEN -1 ELSE load.longest) \in Int
    BY <1>1, BackToBackAssumption DEF Tasks
  <2>2. (~running) \in BOOLEAN
    OBVIOUS
  <2>3. QED
    BY <1>3, <2>1, <2>2, Zenon DEF Entries
<1>5. results' \in Seq(Entries) /\ Len(results') = Len(results) + 1
  BY <1>1, <1>3, <1>4
<1>6. iteration' \in 1 .. NUM_ITERATIONS /\ iteration' >= iteration
  BY <1>1, BackToBackAssumption DEF Report
<1>7. Len(results') <= iteration'
  <2>1. Len(results) \in Nat /\ iteration \in Nat
    BY <1>1
  <2>2. QED
    BY <1>3, <1>5, <1>6, <2>1
<1>8. UNCHANGED <<running, granularity, buffer, bar, rsns, in_dut>>
  BY Zenon DEF Report
<1>9. QED
  BY <1>2, <1>5, <1>6, <1>7, <1>8, Zenon DEF RangeInv, BurstTypeOK

-----------------------------------------------------------------------------
(* The two tasks in step.                                                   *)

LoadHolds == {"meet", "waiting_meet", "reinit", "judge"}
CounterHolds == {"meet", "waiting_meet", "judge"}

LEMMA PublishedKept ==
  ASSUME Published, load'.mine = load.mine, counter'.mine = counter.mine, rsns' = rsns,
         load'.at \in LoadHolds => load.at \in LoadHolds,
         counter'.at \in CounterHolds => counter.at \in CounterHolds
  PROVE  Published'
BY Zenon DEF Published, LoadHolds, CounterHolds

LEMMA SearchKept ==
  ASSUME SameSearch(load', load), SameSearch(counter', counter), SameSearch(load, counter)
  PROVE  SameSearch(load', counter')
BY Zenon DEF SameSearch

LEMMA WaitingPhase ==
  ASSUME StepInv, ~Stuck, load.at \in {"start", "meet"} \/ counter.at \in {"start", "meet"}
  PROVE  (AtStart \/ InRound) /\ SameSearch(load, counter) /\ Published
BY DEF StepInv, UsedStart, BothJudge, LoadToJudge, CounterToJudge

LEMMA StepLoadWaits ==
  ASSUME RangeInv, StepInv, ~Stuck, LoadWaits
  PROVE  StepInv'
<1>1. load.at \in {"start", "meet"} /\ rsns' = rsns /\ counter' = counter
  BY Zenon DEF LoadWaits
<1>2. (AtStart \/ InRound) /\ SameSearch(load, counter) /\ Published
  BY <1>1, WaitingPhase, Zenon
<1>4. counter.at \in {"waiting_start", "waiting_meet"} <=> bar = 1
  BY <1>1, <1>2 DEF AtStart, InRound, Arrived
<1>5. CASE bar = 1
  <2>1. bar' = 0 /\ Stays(load', load, LoadPassed(load.at))
    BY <1>5, LoadWaitsEffect, Zenon
  <2>2. load'.at = LoadPassed(load.at) /\ load'.mine = load.mine
    BY <2>1, Zenon DEF Stays, Keeps
  <2>3. SameSearch(load', counter')
    BY <1>1, <1>2, <2>1, SearchKept, SameSearchTransitive, Zenon DEF Stays, Keeps
  <2>4. Published'
    BY <1>1, <1>2, <1>4, <1>5, <2>2, PublishedKept DEF LoadPassed, LoadHolds, AtStart
  <2>5. CASE AtStart
    <3>1. UsedStart'
      BY <1>1, <1>4, <1>5, <2>1, <2>2, <2>5 DEF AtStart, UsedStart, LoadPassed
    <3>2. QED
      BY <2>3, <2>4, <3>1, Zenon DEF StepInv
  <2>6. CASE InRound
    <3>1. BothJudge'
      BY <1>1, <1>4, <1>5, <2>1, <2>2, <2>6 DEF InRound, BothJudge, LoadPassed
    <3>2. QED
      BY <2>3, <2>4, <3>1, Zenon DEF StepInv
  <2>7. QED
    BY <1>2, <2>5, <2>6
<1>6. CASE bar # 1
  <2>1. bar' = bar - 1 /\ Stays(load', load, Waiting(load.at))
    BY <1>6, LoadWaitsEffect, Zenon
  <2>2. load'.at = Waiting(load.at) /\ load'.mine = load.mine
    BY <2>1, Zenon DEF Stays, Keeps
  <2>3. SameSearch(load', counter')
    BY <1>1, <1>2, <2>1, SearchKept, SameSearchTransitive, Zenon DEF Stays, Keeps
  <2>4. Published'
    BY <1>1, <1>2, <2>1, <2>2, PublishedKept DEF Waiting, LoadHolds
  <2>5. CASE AtStart
    <3>1. AtStart'
      BY <1>1, <1>4, <1>6, <2>1, <2>2, <2>5 DEF AtStart, Arrived, Waiting
    <3>2. QED
      BY <2>3, <2>4, <3>1, Zenon DEF StepInv
  <2>6. CASE InRound
    <3>1. InRound'
      BY <1>1, <1>4, <1>6, <2>1, <2>2, <2>6 DEF InRound, Arrived, Waiting
    <3>2. QED
      BY <2>3, <2>4, <3>1, Zenon DEF StepInv
  <2>7. QED
    BY <1>2, <2>5, <2>6
<1>7. QED
  BY <1>5, <1>6

LEMMA StepCounterWaits ==
  ASSUME RangeInv, StepInv, ~Stuck, CounterWaits
  PROVE  StepInv'
<1>1. counter.at \in {"start", "meet"} /\ rsns' = rsns /\ load' = load
  BY Zenon DEF CounterWaits
<1>2. (AtStart \/ InRound) /\ SameSearch(load, counter) /\ Published
  BY <1>1, WaitingPhase, Zenon
<1>4. load.at \in {"waiting_start", "waiting_meet"} <=> bar = 1
  BY <1>1, <1>2 DEF AtStart, InRound, Arrived
<1>5. CASE bar = 1
  <2>1. bar' = 0 /\ Stays(counter', counter, CounterPassed(counter.at))
    BY <1>5, CounterWaitsEffect, Zenon
  <2>2. counter'.at = CounterPassed(counter.at) /\ counter'.mine = counter.mine
    BY <2>1, Zenon DEF Stays, Keeps
  <2>3. SameSearch(load', counter')
    BY <1>1, <1>2, <2>1, SearchKept, SameSearchTransitive, Zenon DEF Stays, Keeps
  <2>4. Published'
    BY <1>1, <1>2, <1>4, <1>5, <2>2, PublishedKept DEF CounterPassed, CounterHolds, AtStart
  <2>5. CASE AtStart
    <3>1. UsedStart'
      BY <1>1, <1>4, <1>5, <2>1, <2>2, <2>5 DEF AtStart, UsedStart, CounterPassed
    <3>2. QED
      BY <2>3, <2>4, <3>1, Zenon DEF StepInv
  <2>6. CASE InRound
    <3>1. BothJudge'
      BY <1>1, <1>4, <1>5, <2>1, <2>2, <2>6 DEF InRound, BothJudge, CounterPassed
    <3>2. QED
      BY <2>3, <2>4, <3>1, Zenon DEF StepInv
  <2>7. QED
    BY <1>2, <2>5, <2>6
<1>6. CASE bar # 1
  <2>1. bar' = bar - 1 /\ Stays(counter', counter, Waiting(counter.at))
    BY <1>6, CounterWaitsEffect, Zenon
  <2>2. counter'.at = Waiting(counter.at) /\ counter'.mine = counter.mine
    BY <2>1, Zenon DEF Stays, Keeps
  <2>3. SameSearch(load', counter')
    BY <1>1, <1>2, <2>1, SearchKept, SameSearchTransitive, Zenon DEF Stays, Keeps
  <2>4. Published'
    BY <1>1, <1>2, <2>1, <2>2, PublishedKept DEF Waiting, CounterHolds
  <2>5. CASE AtStart
    <3>1. AtStart'
      BY <1>1, <1>4, <1>6, <2>1, <2>2, <2>5 DEF AtStart, Arrived, Waiting
    <3>2. QED
      BY <2>3, <2>4, <3>1, Zenon DEF StepInv
  <2>6. CASE InRound
    <3>1. InRound'
      BY <1>1, <1>4, <1>6, <2>1, <2>2, <2>6 DEF InRound, Arrived, Waiting
    <3>2. QED
      BY <2>3, <2>4, <3>1, Zenon DEF StepInv
  <2>7. QED
    BY <1>2, <2>5, <2>6
<1>7. QED
  BY <1>5, <1>6

LEMMA AheadKept ==
  ASSUME NEW t, NEW u \in Tasks, NEW s \in Tasks, NEW top, NEW g, SameSearch(s, u), Ahead(t, u, top, g)
  PROVE  Ahead(t, s, top, g)
<1>1. Ahead(Judged(u, top, g), s, top, g)
  BY JudgedSame, SameSearchTransitive, Zenon
<1>2. QED
  BY <1>1, SameSearchTransitive, Zenon DEF Ahead

LEMMA StepLoadLeaves ==
  ASSUME RangeInv, StepInv, ~Stuck, LoadLeaves
  PROVE  StepInv'
<1>1. /\ load.at \in {"waiting_start", "waiting_meet"} /\ bar = 0 /\ bar' = bar /\ rsns' = rsns
      /\ counter' = counter /\ granularity' = granularity /\ load \in Tasks /\ counter \in Tasks
  BY Zenon DEF LoadLeaves, RangeInv, BurstTypeOK
<1>2. /\ load'.at = LoadPassed(load.at) /\ load'.mine = load.mine /\ load' \in Tasks
      /\ SameSearch(load', load)
  BY LeavesEffect, Zenon DEF Stays, Keeps
<1>3. Published'
  BY <1>1, <1>2, PublishedKept DEF StepInv, LoadHolds, LoadPassed
<1>4. CASE (UsedStart \/ BothJudge) /\ SameSearch(load, counter)
  <2>1. UsedStart' \/ BothJudge'
    BY <1>1, <1>2, <1>4 DEF UsedStart, BothJudge, LoadPassed
  <2>2. SameSearch(load', counter')
    BY <1>1, <1>2, <1>4, SearchKept, SameSearchTransitive, Zenon
  <2>3. QED
    BY <1>3, <2>1, <2>2, Zenon DEF StepInv
<1>5. CASE LoadToJudge /\ Ahead(counter, load, load.mine = rsns.received, granularity)
  <2>1. LoadToJudge'
    BY <1>1, <1>2, <1>5 DEF LoadToJudge, LoadPassed
  <2>2. Ahead(counter', load', load'.mine = rsns'.received, granularity')
    BY <1>1, <1>2, <1>5, AheadKept, Zenon
  <2>3. QED
    BY <1>3, <2>1, <2>2, Zenon DEF StepInv
<1>6. ~AtStart /\ ~InRound /\ ~CounterToJudge
  BY <1>1 DEF AtStart, InRound, CounterToJudge, Arrived
<1>7. QED
  BY <1>4, <1>5, <1>6, Zenon DEF StepInv

LEMMA StepCounterLeaves ==
  ASSUME RangeInv, StepInv, ~Stuck, CounterLeaves
  PROVE  StepInv'
<1>1. /\ counter.at \in {"waiting_start", "waiting_meet"} /\ bar = 0 /\ bar' = bar /\ rsns' = rsns
      /\ load' = load
  BY Zenon DEF CounterLeaves
<1>2. /\ counter'.at = CounterPassed(counter.at) /\ counter'.mine = counter.mine
      /\ SameSearch(counter', counter)
  BY LeavesEffect, Zenon DEF Stays, Keeps
<1>3. ~AtStart /\ ~InRound /\ ~LoadToJudge /\ ~CounterToJudge
  BY <1>1 DEF AtStart, InRound, LoadToJudge, CounterToJudge, Arrived
<1>4. (UsedStart \/ BothJudge) /\ SameSearch(load, counter) /\ Published
  BY <1>3, Zenon DEF StepInv
<1>5. Published'
  BY <1>1, <1>2, <1>4, PublishedKept DEF CounterHolds, CounterPassed
<1>6. UsedStart' \/ BothJudge'
  BY <1>1, <1>2, <1>4 DEF UsedStart, BothJudge, CounterPassed
<1>7. SameSearch(load', counter')
  BY <1>1, <1>2, <1>4, SearchKept, SameSearchTransitive, Zenon
<1>8. QED
  BY <1>5, <1>6, <1>7, Zenon DEF StepInv

LEMMA StepReinit ==
  ASSUME RangeInv, StepInv, Reinit
  PROVE  StepInv'
<1>1. /\ load.at \in {"reinit_start", "reinit"} /\ bar' = 2 /\ rsns' = rsns /\ counter' = counter
      /\ granularity' = granularity /\ load \in Tasks /\ counter \in Tasks
  BY Zenon DEF Reinit, RangeInv, BurstTypeOK
<1>2. Stays(load', load, IF load.at = "reinit_start" THEN "head" ELSE "judge")
  BY LoadMovesEffect, Zenon
<1>3. /\ load'.at = (IF load.at = "reinit_start" THEN "head" ELSE "judge")
      /\ load'.mine = load.mine /\ load' \in Tasks /\ SameSearch(load', load)
  BY <1>2, Zenon DEF Stays, Keeps
<1>4. Published'
  BY <1>1, <1>3, PublishedKept DEF StepInv, LoadHolds
<1>5. CASE (UsedStart \/ BothJudge) /\ SameSearch(load, counter)
  <2>1. InRound' \/ BothJudge' \/ Stuck'
    BY <1>1, <1>3, <1>5 DEF UsedStart, BothJudge, InRound, Stuck, Arrived
  <2>2. SameSearch(load', counter')
    BY <1>1, <1>3, <1>5, SearchKept, SameSearchTransitive, Zenon
  <2>3. QED
    BY <1>4, <2>1, <2>2, Zenon DEF StepInv
<1>7. CASE LoadToJudge /\ Ahead(counter, load, load.mine = rsns.received, granularity)
  <2>1. LoadToJudge'
    BY <1>1, <1>3, <1>7 DEF LoadToJudge
  <2>2. Ahead(counter', load', load'.mine = rsns'.received, granularity')
    BY <1>1, <1>3, <1>7, AheadKept, Zenon
  <2>3. QED
    BY <1>4, <2>1, <2>2, Zenon DEF StepInv
<1>8. ~AtStart /\ ~InRound /\ ~CounterToJudge /\ ~Stuck
  BY <1>1 DEF AtStart, InRound, CounterToJudge, Stuck
<1>9. QED
  BY <1>5, <1>7, <1>8, Zenon DEF StepInv

LEMMA StepLoadMoves ==
  ASSUME RangeInv, StepInv, ~Stuck, LoadHead \/ LoadWakes \/ SendBurst
  PROVE  StepInv'
<1>1. /\ load.at \in {"head", "sleep", "burst"} /\ bar' = bar /\ counter' = counter
      /\ load.at = "sleep" => counter.at # "judge"
  BY Zenon DEF LoadHead, LoadWakes, SendBurst
<1>2. ~AtStart /\ ~UsedStart /\ ~BothJudge /\ ~LoadToJudge /\ ~CounterToJudge
  BY <1>1 DEF AtStart, UsedStart, BothJudge, LoadToJudge, CounterToJudge
<1>3. InRound /\ SameSearch(load, counter) /\ Published
  BY <1>2, Zenon DEF StepInv
<1>4. /\ load'.at \in {"head", "burst", "done", "meet"} /\ SameSearch(load', load)
      /\ Published'
  <2>1. CASE LoadHead \/ LoadWakes
    <3>1. PICK place \in {"head", "burst", "done"} : Stays(load', load, place)
      <4>1. (IF running THEN "burst" ELSE "done") \in {"head", "burst", "done"}
            /\ "head" \in {"head", "burst", "done"}
        OBVIOUS
      <4>2. QED
        BY <2>1, <4>1, LoadMovesEffect, Zenon
    <3>2. load'.at = place /\ load'.mine = load.mine /\ SameSearch(load', load)
      BY <3>1, Zenon DEF Stays, Keeps
    <3>3. rsns' = rsns
      BY <2>1, Zenon DEF LoadHead, LoadWakes
    <3>4. load'.at \notin LoadHolds
      BY <3>2 DEF LoadHolds
    <3>5. Published'
      BY <1>1, <1>3, <3>2, <3>3, <3>4, PublishedKept, Zenon
    <3>6. QED
      BY <3>2, <3>5
  <2>2. CASE SendBurst
    <3>1. PICK frames \in 0 .. load.count :
            /\ Keeps(load', load, "meet") /\ load'.mine = frames
            /\ rsns' = [rsns EXCEPT !.sent = frames]
      BY <2>2, SendBurstEffect, Zenon
    <3>2. load'.at = "meet" /\ SameSearch(load', load)
      BY <3>1, Zenon DEF Keeps
    <3>3. rsns'.sent = frames /\ rsns'.received = rsns.received
      BY <3>1 DEF RangeInv, BurstTypeOK
    <3>4. Published'
      BY <1>1, <1>3, <3>1, <3>3, Zenon DEF Published
    <3>5. QED
      BY <3>2, <3>4
  <2>3. QED
    BY <2>1, <2>2
<1>5. InRound'
  BY <1>1, <1>3, <1>4 DEF InRound, Arrived
<1>6. SameSearch(load', counter')
  BY <1>1, <1>3, <1>4, SearchKept, SameSearchTransitive, Zenon
<1>7. QED
  BY <1>4, <1>5, <1>6, Zenon DEF StepInv

LEMMA StepCounterMoves ==
  ASSUME RangeInv, StepInv, CounterHead \/ CounterWakes \/ CountBurst
  PROVE  StepInv'
<1>1. /\ counter.at \in {"head", "sleep", "count"} /\ bar' = bar /\ load' = load
      /\ counter.at = "sleep" => load.at \notin {"reinit", "judge"} /\ ~(load.at = "waiting_meet" /\ bar = 0)
      /\ counter.at = "count" => load.at \notin {"waiting_start", "reinit_start"}
  BY Zenon DEF CounterHead, CounterWakes, CountBurst
<1>2. ~AtStart /\ ~BothJudge /\ ~LoadToJudge /\ ~CounterToJudge /\ ~Stuck
  BY <1>1 DEF AtStart, BothJudge, LoadToJudge, CounterToJudge, Stuck
<1>3. (InRound \/ UsedStart) /\ SameSearch(load, counter) /\ Published
  BY <1>2, Zenon DEF StepInv
<1>4. /\ counter'.at \in {"head", "count", "done", "meet"} /\ SameSearch(counter', counter)
      /\ Published' /\ (counter.at = "head" => counter'.at \in {"count", "done"})
  <2>1. CASE CounterHead \/ CounterWakes
    <3>1. PICK place \in {"head", "count", "done"} :
            Stays(counter', counter, place) /\ (counter.at = "head" => place # "head")
      <4>1. (IF running THEN "count" ELSE "done") \in {"head", "count", "done"}
            /\ "head" \in {"head", "count", "done"}
            /\ (IF running THEN "count" ELSE "done") # "head"
        OBVIOUS
      <4>2. CounterWakes => counter.at # "head"
        BY DEF CounterWakes
      <4>3. QED
        BY <2>1, <4>1, <4>2, CounterMovesEffect, Zenon
    <3>2. counter'.at = place /\ counter'.mine = counter.mine /\ SameSearch(counter', counter)
      BY <3>1, Zenon DEF Stays, Keeps
    <3>3. rsns' = rsns
      BY <2>1, Zenon DEF CounterHead, CounterWakes
    <3>4. counter'.at \notin CounterHolds
      BY <3>2 DEF CounterHolds
    <3>5. Published'
      BY <1>1, <1>3, <3>2, <3>3, <3>4, PublishedKept, Zenon
    <3>6. QED
      BY <3>1, <3>2, <3>5
  <2>2. CASE CountBurst
    <3>1. PICK n \in 0 .. in_dut :
            /\ Keeps(counter', counter, "meet") /\ counter'.mine = n
            /\ rsns' = [rsns EXCEPT !.received = n]
      BY <2>2, CountBurstEffect, Zenon
    <3>2. counter'.at = "meet" /\ SameSearch(counter', counter)
      BY <3>1, Zenon DEF Keeps
    <3>3. rsns'.sent = rsns.sent /\ rsns'.received = n
      BY <3>1 DEF RangeInv, BurstTypeOK
    <3>4. Published'
      BY <1>1, <1>3, <3>1, <3>3, Zenon DEF Published
    <3>5. counter.at # "head"
      BY <2>2, Zenon DEF CountBurst
    <3>6. QED
      BY <3>2, <3>4, <3>5
  <2>3. QED
    BY <2>1, <2>2
<1>5. InRound' \/ UsedStart'
  BY <1>1, <1>3, <1>4 DEF InRound, UsedStart, Arrived
<1>6. SameSearch(load', counter')
  BY <1>1, <1>3, <1>4, SearchKept, SameSearchTransitive, Zenon
<1>7. QED
  BY <1>4, <1>5, <1>6, Zenon DEF StepInv

\* Each task compares the two counts, so both come to the same verdict.
LEMMA SameVerdict ==
  ASSUME RangeInv, Published, load.at \in {"waiting_meet", "reinit", "judge"}, counter.at = "judge"
  PROVE  (load.mine = rsns.received) = (counter.mine = rsns.sent)
BY DEF Published

LEMMA StepLoadJudges ==
  ASSUME RangeInv, StepInv, ~Stuck, LoadJudges
  PROVE  StepInv'
<1> DEFINE top == load.mine = rsns.received
<1>1. /\ load.at = "judge" /\ load' = Judged(load, top, granularity)
      /\ bar' = bar /\ rsns' = rsns /\ counter' = counter /\ granularity' = granularity
      /\ load \in Tasks /\ counter \in Tasks /\ Interval(load) /\ granularity \in Nat \ {0}
      /\ Published
  BY Zenon DEF LoadJudges, RangeInv, BurstTypeOK, StepInv
<1>2. load'.mine = load.mine /\ load'.at \in {"sleep", "done"}
  <2>1. top \in BOOLEAN
    OBVIOUS
  <2>2. QED
    BY <1>1, <2>1, JudgedRange, Zenon
<1>3. Published'
  BY <1>1, <1>2, PublishedKept DEF LoadHolds
<1>4. CASE BothJudge /\ SameSearch(load, counter)
  <2>1. CounterToJudge' /\ counter.at = "judge"
    BY <1>1, <1>2, <1>4 DEF BothJudge, CounterToJudge
  <2>2. top = (counter.mine = rsns.sent)
    BY <1>1, <2>1, SameVerdict, Zenon
  <2>3. Ahead(load', counter, top, granularity)
    BY <1>1, <1>4, JudgedSame, Zenon
  <2>4. Ahead(load', counter', counter'.mine = rsns'.sent, granularity')
    BY <1>1, <2>2, <2>3, Zenon
  <2>5. QED
    BY <1>3, <2>1, <2>4, Zenon DEF StepInv
<1>5. CASE LoadToJudge /\ Ahead(counter, load, load.mine = rsns.received, granularity)
  <2>1. InRound'
    BY <1>1, <1>2, <1>5 DEF LoadToJudge, InRound, Arrived
  <2>2. SameSearch(load', counter')
    BY <1>1, <1>5, SameSearchTransitive, Zenon DEF Ahead
  <2>3. QED
    BY <1>3, <2>1, <2>2, Zenon DEF StepInv
<1>6. ~AtStart /\ ~UsedStart /\ ~InRound /\ ~CounterToJudge
  BY <1>1 DEF AtStart, UsedStart, InRound, CounterToJudge
<1>7. QED
  BY <1>4, <1>5, <1>6, Zenon DEF StepInv

LEMMA StepCounterJudges ==
  ASSUME RangeInv, StepInv, CounterJudges
  PROVE  StepInv'
<1> DEFINE top == counter.mine = rsns.sent
<1>1. /\ counter.at = "judge" /\ counter' = Judged(counter, top, granularity)
      /\ bar' = bar /\ rsns' = rsns /\ load' = load /\ granularity' = granularity
      /\ load \in Tasks /\ counter \in Tasks /\ Interval(counter) /\ granularity \in Nat \ {0}
      /\ Published
  BY Zenon DEF CounterJudges, RangeInv, BurstTypeOK, StepInv
<1>2. counter'.mine = counter.mine /\ counter'.at \in {"sleep", "done"}
  <2>1. top \in BOOLEAN
    OBVIOUS
  <2>2. QED
    BY <1>1, <2>1, JudgedRange, Zenon
<1>3. Published'
  BY <1>1, <1>2, PublishedKept DEF CounterHolds
<1>4. CASE BothJudge /\ SameSearch(load, counter)
  <2>1. LoadToJudge' /\ load.at \in {"waiting_meet", "reinit", "judge"}
    BY <1>1, <1>2, <1>4 DEF BothJudge, LoadToJudge
  <2>2. (load.mine = rsns.received) = top
    BY <1>1, <2>1, SameVerdict, Zenon
  <2>3. Ahead(counter', load, top, granularity)
    BY <1>1, <1>4, JudgedSame, SameSearchTransitive, Zenon
  <2>4. Ahead(counter', load', load'.mine = rsns'.received, granularity')
    BY <1>1, <2>2, <2>3, Zenon
  <2>5. QED
    BY <1>3, <2>1, <2>4, Zenon DEF StepInv
<1>5. CASE CounterToJudge /\ Ahead(load, counter, counter.mine = rsns.sent, granularity)
  <2>1. InRound'
    BY <1>1, <1>2, <1>5 DEF CounterToJudge, InRound, Arrived
  <2>2. SameSearch(load', counter')
    BY <1>1, <1>5, SameSearchTransitive, Zenon DEF Ahead
  <2>3. QED
    BY <1>3, <2>1, <2>2, Zenon DEF StepInv
<1>6. ~AtStart /\ ~UsedStart /\ ~InRound /\ ~LoadToJudge /\ ~Stuck
  BY <1>1 DEF AtStart, UsedStart, InRound, LoadToJudge, Stuck
<1>7. QED
  BY <1>4, <1>5, <1>6, Zenon DEF StepInv

LEMMA StepIdle ==
  ASSUME StepInv, UNCHANGED <<load, counter, bar, rsns, granularity>>
  PROVE  StepInv'
BY Zenon DEF StepInv, Published, AtStart, UsedStart, InRound, BothJudge, LoadToJudge,
             CounterToJudge, Stuck, Arrived

\* Once the barrier was re-initialised under a waiting counter it waits for good,
\* and the load task judges at most one more burst.
LEMMA StepStuck ==
  ASSUME RangeInv, StepInv, Stuck, [BurstNext]_burstVars
  PROVE  StepInv' /\ Stuck'
<1>1. /\ counter.at \in {"waiting_start", "waiting_meet"} /\ bar # 0
      /\ load.at \in {"head", "burst", "meet", "waiting_meet", "judge", "sleep", "done"}
  BY DEF Stuck
<1>2. /\ load \in Tasks /\ counter \in Tasks /\ Interval(load) /\ granularity \in Nat \ {0}
      /\ Published
  BY Zenon DEF RangeInv, BurstTypeOK, StepInv
<1>3. ~LoadLeaves /\ ~Reinit /\ ~CounterSlave /\ ~Report
  BY <1>1 DEF LoadLeaves, Reinit, CounterSlave, CounterWaits, CounterLeaves, CounterHead, CountBurst,
     CounterJudges, CounterWakes, Report
<1>4. counter' = counter
  BY <1>3, Zenon DEF BurstNext, LoadSlave, LoadWaits, LoadHead, SendBurst, LoadJudges, LoadWakes,
     LoseLate, BurstStop, burstVars
<1>5. \/ SameSearch(load, counter)
      \/ load.at # "judge" /\ load.round = counter.round + 1
  <2>1. ~AtStart /\ ~UsedStart /\ ~InRound /\ ~BothJudge /\ ~LoadToJudge /\ ~CounterToJudge
    BY DEF Stuck, AtStart, UsedStart, InRound, BothJudge, LoadToJudge, CounterToJudge, Arrived
  <2>2. QED
    BY <2>1, Zenon DEF StepInv
<1>6. ASSUME Stuck', Published', load'.at # "judge", SameSearch(load', load)
      PROVE  StepInv' /\ Stuck'
  <2>1. load'.round = load.round
    BY <1>6, Zenon DEF SameSearch
  <2>2. SameSearch(load, counter) => SameSearch(load', counter')
    BY <1>4, <1>6, SearchKept, SameSearchTransitive, Zenon
  <2>3. QED
    BY <1>4, <1>5, <1>6, <2>1, <2>2, Zenon DEF StepInv
<1>7. CASE LoadWaits
  <2>1. load.at = "meet" /\ bar = 2 /\ rsns' = rsns
    BY <1>1, <1>7 DEF LoadWaits, Stuck
  <2>2. bar' = 1 /\ Stays(load', load, Waiting(load.at))
    BY <1>7, <2>1, LoadWaitsEffect
  <2>3. load'.at = "waiting_meet" /\ load'.mine = load.mine /\ SameSearch(load', load)
    BY <2>1, <2>2 DEF Stays, Keeps, Waiting
  <2>4. Stuck'
    BY <1>1, <1>4, <2>2, <2>3 DEF Stuck
  <2>5. Published'
    BY <1>2, <1>4, <2>1, <2>3, PublishedKept DEF LoadHolds
  <2>6. QED
    BY <1>6, <2>3, <2>4, <2>5
<1>8. CASE LoadHead \/ LoadWakes
  <2>1. PICK place \in {"head", "burst", "done"} : Stays(load', load, place)
    <3>1. (IF running THEN "burst" ELSE "done") \in {"head", "burst", "done"}
          /\ "head" \in {"head", "burst", "done"}
      OBVIOUS
    <3>2. QED
      BY <1>8, <3>1, LoadMovesEffect, Zenon
  <2>2. load'.at = place /\ load'.mine = load.mine /\ SameSearch(load', load)
    BY <2>1, Zenon DEF Stays, Keeps
  <2>3. rsns' = rsns /\ bar' = bar /\ load.at # "waiting_meet"
    BY <1>8 DEF LoadHead, LoadWakes
  <2>4. Stuck'
    BY <1>1, <1>4, <2>2, <2>3 DEF Stuck
  <2>5. load'.at \notin LoadHolds /\ load'.at # "judge"
    BY <2>2 DEF LoadHolds
  <2>6. Published'
    BY <1>2, <1>4, <2>2, <2>3, <2>5, PublishedKept, Zenon
  <2>7. QED
    BY <1>6, <2>2, <2>4, <2>5, <2>6, Zenon
<1>9. CASE SendBurst
  <2>1. load.at = "burst" /\ bar' = bar
    BY <1>9, Zenon DEF SendBurst
  <2>2. PICK frames \in 0 .. load.count :
          /\ Keeps(load', load, "meet") /\ load'.mine = frames
          /\ rsns' = [rsns EXCEPT !.sent = frames]
    BY <1>9, SendBurstEffect, Zenon
  <2>3. load'.at = "meet" /\ SameSearch(load', load)
    BY <2>2, Zenon DEF Keeps
  <2>4. rsns'.sent = frames /\ rsns'.received = rsns.received
    BY <2>2 DEF RangeInv, BurstTypeOK
  <2>5. Published'
    BY <1>2, <1>4, <2>2, <2>4, Zenon DEF Published
  <2>6. Stuck' /\ load'.at # "judge"
    BY <1>1, <1>4, <2>1, <2>3 DEF Stuck
  <2>7. QED
    BY <1>6, <2>3, <2>5, <2>6, Zenon
<1>10. CASE LoadJudges
  <2> DEFINE top == load.mine = rsns.received
  <2>1. /\ load.at = "judge" /\ load' = Judged(load, top, granularity) /\ bar' = bar /\ rsns' = rsns
    BY <1>10, Zenon DEF LoadJudges
  <2>2. load'.mine = load.mine /\ load'.at \in {"sleep", "done"}
    <3>1. top \in BOOLEAN
      OBVIOUS
    <3>2. QED
      BY <1>2, <2>1, <3>1, JudgedRange, Zenon
  <2>3. Published'
    BY <1>2, <1>4, <2>1, <2>2, PublishedKept DEF LoadHolds
  <2>4. Stuck' /\ load'.at # "judge"
    BY <1>1, <1>4, <2>1, <2>2 DEF Stuck
  <2>5. load'.round = load.round + 1
    <3>1. Fields(load', load, next(load.binSearch, load.count, top, granularity), top)
      BY <1>2, <2>1, JudgedFields, Zenon
    <3>2. QED
      BY <3>1, Zenon DEF Fields
  <2>6. load.round = counter.round
    BY <1>5, <2>1, Zenon DEF SameSearch
  <2>7. QED
    BY <1>4, <2>3, <2>4, <2>5, <2>6, Zenon DEF StepInv
<1>11. CASE LoseLate \/ BurstStop \/ UNCHANGED burstVars
  <2>1. UNCHANGED <<load, counter, bar, rsns, granularity>>
    BY <1>11, Zenon DEF LoseLate, BurstStop, burstVars
  <2>2. Stuck'
    BY <2>1, Zenon DEF Stuck
  <2>3. QED
    BY <2>1, <2>2, StepIdle, Zenon
<1>12. QED
  BY <1>3, <1>7, <1>8, <1>9, <1>10, <1>11, Zenon DEF BurstNext, LoadSlave

LEMMA StepReport ==
  ASSUME RangeInv, StepInv, Report
  PROVE  StepInv'
<1>1. /\ load.at = "done" /\ counter.at = "done"
      /\ bar' = bar /\ rsns' = rsns /\ granularity' = granularity
      /\ \/ load' = Task("start") /\ counter' = Task("start")
         \/ load' = load /\ counter' = counter
  BY Zenon DEF Report
<1>2. InRound
  BY <1>1 DEF StepInv, AtStart, UsedStart, BothJudge, LoadToJudge, CounterToJudge, Stuck
<1>3. CASE load' = Task("start") /\ counter' = Task("start")
  <2>1. load'.at = "start" /\ counter'.at = "start"
    BY <1>3, NewTask, Zenon
  <2>2. AtStart'
    BY <1>1, <1>2, <2>1 DEF AtStart, InRound, Arrived
  <2>3. SameSearch(load', counter')
    BY <1>3, SameSearchTransitive, Zenon
  <2>4. Published'
    BY <2>1 DEF Published
  <2>5. QED
    BY <2>2, <2>3, <2>4, Zenon DEF StepInv
<1>4. CASE load' = load /\ counter' = counter
  BY <1>1, <1>4, StepIdle, Zenon
<1>5. QED
  BY <1>1, <1>3, <1>4

LEMMA StepInit ==
  ASSUME BurstInit
  PROVE  StepInv
<1>1. load = Task("start") /\ counter = Task("start") /\ bar = 2
  BY Zenon DEF BurstInit
<1>2. load.at = "start" /\ counter.at = "start"
  BY <1>1, NewTask, Zenon
<1>3. AtStart /\ Published
  BY <1>1, <1>2 DEF AtStart, Arrived, Published
<1>4. SameSearch(load, counter)
  BY <1>1, SameSearchTransitive, Zenon
<1>5. QED
  BY <1>3, <1>4, Zenon DEF StepInv

LEMMA StepNext ==
  ASSUME RangeInv, StepInv, [BurstNext]_burstVars
  PROVE  RangeInv' /\ StepInv'
<1>1. RangeInv'
  BY RangeWaits, RangeMoves, RangeBurst, RangeReport, Zenon DEF BurstNext, LoadSlave, CounterSlave
<1>2. CASE Stuck
  BY <1>1, <1>2, StepStuck, Zenon
<1>3. CASE ~Stuck
  <2>1. CASE LoseLate \/ BurstStop \/ UNCHANGED burstVars
    <3>1. UNCHANGED <<load, counter, bar, rsns, granularity>>
      BY <2>1, Zenon DEF LoseLate, BurstStop, burstVars
    <3>2. QED
      BY <1>1, <3>1, StepIdle, Zenon
  <2>2. QED
    BY <1>1, <1>3, <2>1, StepLoadWaits, StepCounterWaits, StepLoadLeaves, StepCounterLeaves, StepReinit,
       StepLoadMoves, StepCounterMoves, StepLoadJudges, StepCounterJudges, StepReport, Zenon
    DEF BurstNext, LoadSlave, CounterSlave
<1>4. QED
  BY <1>2, <1>3

LEMMA StepImplies ==
  ASSUME RangeInv, StepInv
  PROVE  LockStep
<1>1. load \in Tasks /\ counter \in Tasks /\ Interval(load) /\ Interval(counter)
      /\ granularity \in Nat \ {0}
  BY Zenon DEF RangeInv, BurstTypeOK
<1>2. load.round \in Nat /\ counter.round \in Nat
  BY <1>1 DEF Tasks
<1>3. CASE SameSearch(load, counter)
  BY <1>2, <1>3 DEF SameSearch, LockStep
<1>4. ASSUME NEW t \in Tasks, NEW u \in Tasks, NEW top, Ahead(t, u, top, granularity)
      PROVE  t.round = u.round + 1
  <2> DEFINE s == Judged(u, top, granularity)
  <2>1. Fields(s, u, next(u.binSearch, u.count, top, granularity), top)
    BY JudgedFields, Zenon
  <2>2. s.round = u.round + 1
    BY <2>1, Zenon DEF Fields
  <2>3. t.round = s.round
    BY <1>4, Zenon DEF Ahead, SameSearch
  <2>4. QED
    BY <2>2, <2>3, Zenon
<1>5. CASE Ahead(counter, load, load.mine = rsns.received, granularity)
  <2>1. counter.round = load.round + 1
    BY <1>1, <1>4, <1>5, Zenon
  <2>2. QED
    BY <1>2, <2>1 DEF LockStep
<1>6. CASE Ahead(load, counter, counter.mine = rsns.sent, granularity)
  <2>1. load.round = counter.round + 1
    BY <1>1, <1>4, <1>6, Zenon
  <2>2. QED
    BY <1>2, <2>1 DEF LockStep
<1>7. CASE load.round = counter.round + 1
  BY <1>2, <1>7 DEF LockStep
<1>8. QED
  BY <1>3, <1>5, <1>6, <1>7, Zenon DEF StepInv

\* The tasks of backtoback.lua search in step, for every length of the bursts,
\* every granularity, every device and however often it is measured: with equally
\* many verdicts they hold the same interval and the same next burst.
THEOREM TasksInStep == BurstSpec => []LockStep
<1>1. BurstInit => RangeInv /\ StepInv
  BY RangeInit, StepInit, Zenon
<1>2. RangeInv /\ StepInv /\ [BurstNext]_burstVars => RangeInv' /\ StepInv'
  BY StepNext, Zenon
<1>3. RangeInv /\ StepInv => LockStep
  BY StepImplies, Zenon
<1>4. QED
  BY <1>1, <1>2, <1>3, PTL DEF BurstSpec

\* Variables stay in range: no burst is empty, nobody arrives at a used barrier
\* before bar:reinit.
THEOREM BurstsInRange == BurstSpec => []BurstTypeOK
<1>1. BurstInit => RangeInv /\ StepInv
  BY RangeInit, StepInit, Zenon
<1>2. RangeInv /\ StepInv /\ [BurstNext]_burstVars => RangeInv' /\ StepInv'
  BY StepNext, Zenon
<1>3. RangeInv => BurstTypeOK
  BY Zenon DEF RangeInv
<1>4. QED
  BY <1>1, <1>2, <1>3, PTL DEF BurstSpec

-----------------------------------------------------------------------------
(* What they measure.                                                       *)

LEMMA MeasuredKept ==
  ASSUME NEW s, NEW t, NEW buf, NEW g, SameSearch(s, t), s.at = "done" <=> t.at = "done",
         Measured(t, buf, g)
  PROVE  Measured(s, buf, g)
BY Zenon DEF SameSearch, Measured, Searching

\* A verdict that is right about the device keeps the search around its buffer.
LEMMA JudgedMeasures ==
  ASSUME NEW t \in Tasks, Interval(t), t.at = "judge", NEW top \in BOOLEAN, NEW g \in Nat \ {0},
         NEW buf \in Nat, Measured(t, buf, g), top <=> t.count <= buf
  PROVE  Measured(Judged(t, top, g), buf, g)
<1>1. PICK l, u \in Nat : /\ t.binSearch = [lowerLimit |-> l, upperLimit |-> u]
                          /\ l = t.binSearch.lowerLimit /\ u = t.binSearch.upperLimit
                          /\ l < u /\ u <= MAX_PKTS /\ l < t.count /\ t.count <= u
  BY TaskInterval, Zenon
<1>2. PICK c \in Nat : c = t.count /\ l < c /\ c <= u
  BY <1>1 DEF Tasks
<1>3. /\ t.longest = l /\ l <= buf /\ (u = MAX_PKTS \/ buf < u) /\ (top <=> c <= buf)
      /\ MAX_PKTS \in Nat
  <2>1. t.at # "done"
    OBVIOUS
  <2>2. Searching(t, buf)
    BY <2>1, Zenon DEF Measured
  <2>3. QED
    BY <1>1, <1>2, <2>2, BackToBackAssumption DEF Searching
<1> DEFINE s == Judged(t, top, g)
<1>4. ASSUME NEW ll, NEW uu, NEW cc, Verdict(s, t, ll, uu, cc, ll, "sleep"),
             ll <= buf, uu = MAX_PKTS \/ buf < uu
      PROVE  Measured(s, buf, g)
  <2>1. s.at # "done" /\ s.longest = ll /\ s.first = FALSE
    BY <1>4 DEF Verdict
  <2>2. s.binSearch.lowerLimit = ll /\ s.binSearch.upperLimit = uu
    BY <1>4 DEF Verdict
  <2>3. Searching(s, buf)
    BY <1>4, <2>1, <2>2, Zenon DEF Searching
  <2>4. QED
    BY <2>1, <2>3, Zenon DEF Measured
<1>5. ASSUME NEW ll, NEW uu, NEW cc, NEW longest, Verdict(s, t, ll, uu, cc, longest, "done"),
             Found(longest, buf, g)
      PROVE  Measured(s, buf, g)
  BY <1>5, Zenon DEF Verdict, Measured
<1>6. \/ t.first /\ Verdict(s, t, l, u, c, l, "sleep")
      \/ top /\ c = u /\ Verdict(s, t, l, u, c, c, "done")
      \/ top /\ c < u /\ u - c < 2 * g /\ Verdict(s, t, c, u, c, c, "done")
      \/ top /\ \E v \in c + 1 .. u : Verdict(s, t, c, u, v, c, "sleep")
      \/ ~top /\ c - l < 2 * g /\ Verdict(s, t, l, c, c, l, "done")
      \/ ~top /\ \E v \in l + 1 .. c : Verdict(s, t, l, c, v, l, "sleep")
  <2>1. \/ t.first /\ Verdict(s, t, l, u, t.count, t.longest, "sleep")
        \/ ~t.first /\ top /\ t.count = u /\ Verdict(s, t, l, u, t.count, t.count, "done")
        \/ ~t.first /\ top /\ t.count < u /\ u - t.count < 2 * g
           /\ Verdict(s, t, t.count, u, t.count, t.count, "done")
        \/ ~t.first /\ top
           /\ \E v \in t.count + 1 .. u : Verdict(s, t, t.count, u, v, t.count, "sleep")
        \/ ~t.first /\ ~top /\ t.count - l < 2 * g
           /\ Verdict(s, t, l, t.count, t.count, t.longest, "done")
        \/ ~t.first /\ ~top
           /\ \E v \in l + 1 .. t.count : Verdict(s, t, l, t.count, v, t.longest, "sleep")
    BY <1>1, JudgedOutcome, Zenon
  <2>2. t.count = c /\ t.longest = l
    BY <1>2, <1>3, Zenon
  <2>3. QED
    BY <2>1, <2>2, Zenon
<1>7. top /\ c = u => Found(c, buf, g)
  BY <1>2, <1>3 DEF Found
<1>8. top /\ c < u /\ u - c < 2 * g => Found(c, buf, g)
  BY <1>1, <1>2, <1>3 DEF Found
<1>9. ~top /\ c - l < 2 * g => Found(l, buf, g)
  BY <1>1, <1>2, <1>3 DEF Found
<1>10. (top => c <= buf) /\ (~top => buf < c)
  BY <1>2, <1>3
<1>11. QED
  BY <1>3, <1>4, <1>5, <1>6, <1>7, <1>8, <1>9, <1>10, Zenon

LEMMA OrderlyLoadWaits ==
  ASSUME RangeInv, StepInv, ~Stuck, LoadWaits, Orderly
  PROVE  Orderly'
<1>1. /\ load.at \in {"start", "meet"} /\ rsns' = rsns /\ in_dut' = in_dut /\ buffer' = buffer
      /\ granularity' = granularity /\ counter' = counter
  BY Zenon DEF LoadWaits
<1>2. (AtStart \/ InRound) /\ SameSearch(load, counter) /\ Published
  BY <1>1, WaitingPhase, Zenon
<1>3. counter.at \in {"waiting_start", "waiting_meet"} <=> bar = 1
  BY <1>1, <1>2 DEF AtStart, InRound, Arrived
<1>4. CASE bar = 1
  <2>1. Stays(load', load, LoadPassed(load.at)) /\ bar' = 0
    BY <1>4, LoadWaitsEffect, Zenon
  <2>2. /\ load'.at = LoadPassed(load.at) /\ load'.mine = load.mine
        /\ SameSearch(load', load) /\ load'.count = load.count
    BY <2>1, Zenon DEF Stays, Keeps, SameSearch
  <2>3. Measured(load', buffer, granularity) /\ Measured(counter', buffer, granularity)
    <3>1. load'.at # "done" /\ load.at # "done"
      BY <1>1, <2>2 DEF LoadPassed
    <3>2. QED
      BY <1>1, <2>2, <3>1, MeasuredKept, Zenon DEF Orderly
  <2>4. FramesInv'
    <3>1. load.count = counter.count
      BY <1>2, Zenon DEF SameSearch
    <3>2. CASE AtStart
      <4>1. load'.at = "reinit_start" /\ counter.at = "waiting_start" /\ load.at = "start"
        BY <1>1, <1>3, <1>4, <2>2, <3>2 DEF AtStart, LoadPassed
      <4>2. in_dut = 0
        BY <4>1 DEF Orderly, FramesInv
      <4>3. QED
        BY <1>1, <4>1, <4>2 DEF FramesInv, InRound
    <3>3. CASE InRound
      <4>1. load'.at = "reinit" /\ load.at = "meet" /\ counter.at = "waiting_meet"
        BY <1>1, <1>3, <1>4, <2>2, <3>3 DEF InRound, LoadPassed
      <4>2. /\ in_dut = 0 /\ load.mine = load.count /\ counter.mine = Passes(counter.count, buffer)
            /\ counter.mine = rsns.received
        BY <1>2, <4>1 DEF Orderly, FramesInv, Published
      <4>3. QED
        BY <1>1, <2>2, <3>1, <4>1, <4>2 DEF FramesInv, InRound
    <3>4. QED
      BY <1>2, <3>2, <3>3
  <2>5. QED
    BY <1>1, <2>3, <2>4, Zenon DEF Orderly
<1>5. CASE bar # 1
  <2>0. bar = 2
    BY <1>1, <1>2, <1>5 DEF AtStart, InRound, Arrived
  <2>1. Stays(load', load, Waiting(load.at)) /\ bar' = 1
    BY <2>0, LoadWaitsEffect
  <2>2. /\ load'.at = Waiting(load.at) /\ load'.mine = load.mine
        /\ SameSearch(load', load) /\ load'.count = load.count
    BY <2>1, Zenon DEF Stays, Keeps, SameSearch
  <2>3. Measured(load', buffer, granularity) /\ Measured(counter', buffer, granularity)
    <3>1. load'.at # "done" /\ load.at # "done"
      BY <1>1, <2>2 DEF Waiting
    <3>2. QED
      BY <1>1, <2>1, <2>2, <3>1, MeasuredKept, Zenon DEF Orderly
  <2>4. FramesInv'
    <3>1. CASE AtStart
      <4>1. load'.at = "waiting_start" /\ load.at = "start" /\ counter.at = "start"
        BY <1>1, <1>3, <1>5, <2>2, <3>1 DEF AtStart, Waiting
      <4>2. QED
        BY <1>1, <2>1, <4>1 DEF Orderly, FramesInv, InRound
    <3>2. CASE InRound
      <4>1. load'.at = "waiting_meet" /\ load.at = "meet"
        BY <1>1, <2>2, <3>2 DEF InRound, Waiting
      <4>2. counter.at # "done"
        BY <3>2, <4>1 DEF Orderly, FramesInv
      <4>3. QED
        BY <1>1, <2>0, <2>1, <2>2, <4>1, <4>2 DEF Orderly, FramesInv
    <3>3. QED
      BY <1>2, <3>1, <3>2
  <2>5. QED
    BY <1>1, <2>3, <2>4, Zenon DEF Orderly
<1>6. QED
  BY <1>4, <1>5

LEMMA OrderlyCounterWaits ==
  ASSUME RangeInv, StepInv, ~Stuck, CounterWaits, buffer # -1, Orderly
  PROVE  Orderly'
<1>1. /\ counter.at \in {"start", "meet"} /\ rsns' = rsns /\ in_dut' = in_dut /\ buffer' = buffer
      /\ granularity' = granularity /\ load' = load
  <2>1. counter.at = "start" => in_dut = 0
    BY DEF Orderly, FramesInv
  <2>2. (counter.at = "start" => in_dut' = 0) /\ (counter.at # "start" => in_dut' = in_dut)
    BY Zenon DEF CounterWaits
  <2>3. in_dut' = in_dut
    BY <2>1, <2>2, Zenon
  <2>4. QED
    BY <2>3, Zenon DEF CounterWaits
<1>2. (AtStart \/ InRound) /\ SameSearch(load, counter) /\ Published
  BY <1>1, WaitingPhase, Zenon
<1>3. load.at \in {"waiting_start", "waiting_meet"} <=> bar = 1
  BY <1>1, <1>2 DEF AtStart, InRound, Arrived
<1>4. CASE bar = 1
  <2>1. Stays(counter', counter, CounterPassed(counter.at)) /\ bar' = 0
    BY <1>4, CounterWaitsEffect, Zenon
  <2>2. /\ counter'.at = CounterPassed(counter.at) /\ counter'.mine = counter.mine
        /\ SameSearch(counter', counter) /\ counter'.count = counter.count
    BY <2>1, Zenon DEF Stays, Keeps, SameSearch
  <2>3. Measured(load', buffer, granularity) /\ Measured(counter', buffer, granularity)
    <3>1. counter'.at # "done" /\ counter.at # "done"
      BY <1>1, <2>2 DEF CounterPassed
    <3>2. QED
      BY <1>1, <2>2, <3>1, MeasuredKept, Zenon DEF Orderly
  <2>4. FramesInv'
    <3>1. load.count = counter.count
      BY <1>2, Zenon DEF SameSearch
    <3>2. CASE AtStart
      <4>1. counter'.at = "head" /\ load.at = "waiting_start"
        BY <1>1, <1>3, <1>4, <2>2, <3>2 DEF AtStart, CounterPassed
      <4>2. in_dut = 0
        BY <4>1 DEF Orderly, FramesInv
      <4>3. QED
        BY <1>1, <4>1, <4>2 DEF FramesInv, InRound
    <3>3. CASE InRound
      <4>1. counter'.at = "judge" /\ load.at = "waiting_meet" /\ counter.at = "meet"
        BY <1>1, <1>3, <1>4, <2>2, <3>3 DEF InRound, CounterPassed
      <4>2. /\ in_dut = 0 /\ load.mine = load.count /\ counter.mine = Passes(counter.count, buffer)
            /\ load.mine = rsns.sent /\ counter.mine = rsns.received
        BY <1>2, <4>1 DEF Orderly, FramesInv, Published
      <4>3. QED
        BY <1>1, <2>1, <2>2, <3>1, <4>1, <4>2 DEF FramesInv, InRound
    <3>4. QED
      BY <1>2, <3>2, <3>3
  <2>5. QED
    BY <1>1, <2>3, <2>4, Zenon DEF Orderly
<1>5. CASE bar # 1
  <2>0. bar = 2
    BY <1>1, <1>2, <1>5 DEF AtStart, InRound, Arrived
  <2>1. Stays(counter', counter, Waiting(counter.at)) /\ bar' = 1
    BY <2>0, CounterWaitsEffect
  <2>2. /\ counter'.at = Waiting(counter.at) /\ counter'.mine = counter.mine
        /\ SameSearch(counter', counter) /\ counter'.count = counter.count
    BY <2>1, Zenon DEF Stays, Keeps, SameSearch
  <2>3. Measured(load', buffer, granularity) /\ Measured(counter', buffer, granularity)
    <3>1. counter'.at # "done" /\ counter.at # "done"
      BY <1>1, <2>2 DEF Waiting
    <3>2. QED
      BY <1>1, <2>1, <2>2, <3>1, MeasuredKept, Zenon DEF Orderly
  <2>4. FramesInv'
    <3>1. CASE AtStart
      <4>1. counter'.at = "waiting_start" /\ load.at = "start" /\ counter.at = "start"
        BY <1>1, <1>3, <1>5, <2>2, <3>1 DEF AtStart, Waiting
      <4>2. QED
        BY <1>1, <2>1, <4>1 DEF Orderly, FramesInv, InRound
    <3>2. CASE InRound
      <4>1. counter'.at = "waiting_meet" /\ counter.at = "meet"
        BY <1>1, <2>2, <3>2 DEF InRound, Waiting
      <4>2. load.at # "done"
        BY <3>2, <4>1 DEF Orderly, FramesInv
      <4>3. QED
        BY <1>1, <2>0, <2>1, <2>2, <4>1, <4>2 DEF Orderly, FramesInv
    <3>3. QED
      BY <1>2, <3>1, <3>2
  <2>5. QED
    BY <1>1, <2>3, <2>4, Zenon DEF Orderly
<1>6. QED
  BY <1>4, <1>5

LEMMA OrderlyLoadLeaves ==
  ASSUME RangeInv, StepInv, ~Stuck, LoadLeaves, Orderly
  PROVE  Orderly'
<1>1. /\ load.at \in {"waiting_start", "waiting_meet"} /\ bar = 0 /\ bar' = bar
      /\ rsns' = rsns /\ in_dut' = in_dut /\ counter' = counter /\ buffer' = buffer
      /\ granularity' = granularity
  BY Zenon DEF LoadLeaves
<1>2. /\ load'.at = LoadPassed(load.at) /\ load'.mine = load.mine
      /\ SameSearch(load', load) /\ load'.count = load.count
  BY LeavesEffect, Zenon DEF Stays, Keeps, SameSearch
<1>3. load'.at # "done" /\ load.at # "done"
  BY <1>1, <1>2 DEF LoadPassed
<1>4. Measured(load', buffer, granularity) /\ Measured(counter', buffer, granularity)
  BY <1>1, <1>2, <1>3, MeasuredKept, Zenon DEF Orderly
<1>5. CASE load.at = "waiting_start"
  <2>1. load'.at = "reinit_start"
    BY <1>2, <1>5 DEF LoadPassed
  <2>2. FramesInv'
    BY <1>1, <1>2, <1>5, <2>1 DEF Orderly, FramesInv, InRound
  <2>3. QED
    BY <1>1, <1>4, <2>2, Zenon DEF Orderly
<1>6. CASE load.at = "waiting_meet"
  <2>1. load'.at = "reinit"
    BY <1>2, <1>6 DEF LoadPassed
  <2>2. FramesInv'
    BY <1>1, <1>2, <1>6, <2>1 DEF Orderly, FramesInv, InRound
  <2>3. QED
    BY <1>1, <1>4, <2>2, Zenon DEF Orderly
<1>7. QED
  BY <1>1, <1>5, <1>6

LEMMA OrderlyCounterLeaves ==
  ASSUME RangeInv, StepInv, ~Stuck, CounterLeaves, Orderly
  PROVE  Orderly'
<1>1. /\ counter.at \in {"waiting_start", "waiting_meet"} /\ bar = 0 /\ bar' = bar
      /\ rsns' = rsns /\ in_dut' = in_dut /\ load' = load /\ buffer' = buffer
      /\ granularity' = granularity
  BY Zenon DEF CounterLeaves
<1>2. /\ counter'.at = CounterPassed(counter.at) /\ counter'.mine = counter.mine
      /\ SameSearch(counter', counter) /\ counter'.count = counter.count
  BY LeavesEffect, Zenon DEF Stays, Keeps, SameSearch
<1>3. counter'.at # "done" /\ counter.at # "done"
  BY <1>1, <1>2 DEF CounterPassed
<1>4. Measured(load', buffer, granularity) /\ Measured(counter', buffer, granularity)
  BY <1>1, <1>2, <1>3, MeasuredKept, Zenon DEF Orderly
<1>5. ~AtStart /\ ~InRound /\ ~LoadToJudge /\ ~CounterToJudge
  BY <1>1 DEF AtStart, InRound, LoadToJudge, CounterToJudge, Arrived
<1>6. (UsedStart \/ BothJudge) /\ SameSearch(load, counter) /\ Published
  BY <1>5, Zenon DEF StepInv
<1>7. CASE UsedStart
  <2>1. load.at = "reinit_start" /\ counter'.at = "head"
    BY <1>1, <1>2, <1>7 DEF UsedStart, CounterPassed
  <2>2. FramesInv'
    BY <1>1, <1>2, <2>1 DEF Orderly, FramesInv, InRound
  <2>3. QED
    BY <1>1, <1>4, <2>2, Zenon DEF Orderly
<1>8. CASE BothJudge
  <2>1. load.at = "reinit" /\ counter'.at = "judge" /\ counter.at = "waiting_meet"
    BY <1>1, <1>2, <1>8 DEF BothJudge, CounterPassed
  <2>2. load.mine = rsns.sent /\ load.mine = load.count /\ load.count = counter.count
    BY <1>6, <2>1 DEF Published, SameSearch, Orderly, FramesInv
  <2>3. FramesInv'
    BY <1>1, <1>2, <2>1, <2>2 DEF Orderly, FramesInv, InRound
  <2>4. QED
    BY <1>1, <1>4, <2>3, Zenon DEF Orderly
<1>9. QED
  BY <1>6, <1>7, <1>8

LEMMA OrderlyReinit ==
  ASSUME RangeInv, StepInv, Reinit, ~Stuck', Orderly
  PROVE  Orderly'
<1>1. /\ load.at \in {"reinit_start", "reinit"} /\ rsns' = rsns /\ in_dut' = in_dut /\ bar' = 2
      /\ counter' = counter /\ buffer' = buffer /\ granularity' = granularity
  BY Zenon DEF Reinit
<1>2. /\ load'.at = (IF load.at = "reinit_start" THEN "head" ELSE "judge")
      /\ load'.mine = load.mine /\ SameSearch(load', load) /\ load'.count = load.count
  BY LoadMovesEffect, Zenon DEF Stays, Keeps, SameSearch
<1>3. load'.at # "done" /\ load.at # "done"
  BY <1>1, <1>2
<1>4. Measured(load', buffer, granularity) /\ Measured(counter', buffer, granularity)
  BY <1>1, <1>2, <1>3, MeasuredKept, Zenon DEF Orderly
<1>5. FramesInv'
  <2>0. counter.at \notin {"waiting_start", "waiting_meet"}
    BY <1>1, <1>2 DEF Stuck
  <2>1. CASE load.at = "reinit_start"
    <3>1. load'.at = "head" /\ counter.at # "done"
      BY <1>2, <2>1 DEF Orderly, FramesInv
    <3>2. QED
      BY <1>1, <1>2, <2>1, <3>1 DEF Orderly, FramesInv
  <2>2. CASE load.at = "reinit"
    <3>1. load'.at = "judge"
      BY <1>2, <2>2
    <3>2. counter.at # "meet"
      BY <1>1, <2>2 DEF StepInv, AtStart, UsedStart, InRound, BothJudge, LoadToJudge, CounterToJudge,
                        Stuck
    <3>3. QED
      BY <1>1, <1>2, <2>0, <2>2, <3>1, <3>2 DEF Orderly, FramesInv, InRound
  <2>3. QED
    BY <1>1, <2>1, <2>2
<1>6. QED
  BY <1>1, <1>4, <1>5, Zenon DEF Orderly

LEMMA OrderlyLoadMoves ==
  ASSUME RangeInv, StepInv, ~Stuck, LoadHead \/ LoadWakes, running = TRUE, Orderly
  PROVE  Orderly'
<1>1. /\ load.at \in {"head", "sleep"} /\ rsns' = rsns /\ in_dut' = in_dut /\ bar' = bar
      /\ counter' = counter /\ buffer' = buffer /\ granularity' = granularity
      /\ load.at = "sleep" => counter.at # "judge"
  BY Zenon DEF LoadHead, LoadWakes
<1>2. PICK place \in {"head", "burst"} : Stays(load', load, place)
  BY LoadMovesEffect, Zenon
<1>3. load'.at = place /\ load'.mine = load.mine /\ SameSearch(load', load) /\ load'.count = load.count
  BY <1>2, Zenon DEF Stays, Keeps, SameSearch
<1>4. load'.at # "done" /\ load.at # "done"
  BY <1>1, <1>3
<1>5. Measured(load', buffer, granularity) /\ Measured(counter', buffer, granularity)
  BY <1>1, <1>3, <1>4, MeasuredKept, Zenon DEF Orderly
<1>6. InRound
  BY <1>1 DEF StepInv, AtStart, UsedStart, BothJudge, LoadToJudge, CounterToJudge
<1>7. counter.at # "done"
  BY <1>4, <1>6 DEF Orderly, FramesInv
<1>8. FramesInv'
  BY <1>1, <1>3, <1>7 DEF Orderly, FramesInv
<1>9. QED
  BY <1>1, <1>5, <1>8, Zenon DEF Orderly

LEMMA OrderlyCounterMoves ==
  ASSUME RangeInv, StepInv, CounterHead \/ CounterWakes, running = TRUE, Orderly
  PROVE  Orderly'
<1>1. /\ counter.at \in {"head", "sleep"} /\ rsns' = rsns /\ in_dut' = in_dut /\ bar' = bar
      /\ load' = load /\ buffer' = buffer /\ granularity' = granularity
      /\ counter.at = "sleep" => load.at \notin {"reinit", "judge"} /\ ~(load.at = "waiting_meet" /\ bar = 0)
  BY Zenon DEF CounterHead, CounterWakes
<1>2. PICK place \in {"head", "count"} : Stays(counter', counter, place)
  BY CounterMovesEffect, Zenon
<1>3. /\ counter'.at = place /\ counter'.mine = counter.mine /\ SameSearch(counter', counter)
      /\ counter'.count = counter.count
  BY <1>2, Zenon DEF Stays, Keeps, SameSearch
<1>4. counter'.at # "done" /\ counter.at # "done"
  BY <1>1, <1>3
<1>5. Measured(load', buffer, granularity) /\ Measured(counter', buffer, granularity)
  BY <1>1, <1>3, <1>4, MeasuredKept, Zenon DEF Orderly
<1>6. InRound \/ UsedStart
  BY <1>1 DEF StepInv, AtStart, BothJudge, LoadToJudge, CounterToJudge, Stuck
<1>7. load.at # "done"
  BY <1>4, <1>6 DEF Orderly, FramesInv, UsedStart
<1>8. FramesInv'
  BY <1>1, <1>3, <1>7 DEF Orderly, FramesInv
<1>9. QED
  BY <1>1, <1>5, <1>8, Zenon DEF Orderly

LEMMA OrderlySendBurst ==
  ASSUME RangeInv, StepInv, ~Stuck, SendBurst, running = TRUE, buffer # -1, Orderly
  PROVE  Orderly'
<1>1. /\ load.at = "burst" /\ counter' = counter /\ buffer' = buffer
      /\ granularity' = granularity /\ bar' = bar
  BY Zenon DEF SendBurst
<1>2. InRound
  BY <1>1, Zenon DEF StepInv, AtStart, UsedStart, BothJudge, LoadToJudge, CounterToJudge
<1>3. PICK frames \in 0 .. load.count :
        /\ Keeps(load', load, "meet") /\ load'.mine = frames /\ frames = load.count
        /\ rsns' = [rsns EXCEPT !.sent = frames]
        /\ in_dut' = in_dut + Passes(frames, buffer)
  BY SendBurstEffect, Zenon
<1>4. load'.at = "meet" /\ SameSearch(load', load) /\ load'.count = load.count
  BY <1>3, Zenon DEF Keeps, SameSearch
<1>5. Measured(load', buffer, granularity) /\ Measured(counter', buffer, granularity)
  <2>1. load'.at # "done" /\ load.at # "done"
    BY <1>1, <1>4, Zenon
  <2>2. QED
    BY <1>1, <1>4, <2>1, MeasuredKept, Zenon DEF Orderly
<1>6. counter.at \in {"head", "count", "sleep"} /\ in_dut = 0 /\ bar # 0
  BY <1>1, <1>2 DEF Orderly, FramesInv, InRound, Arrived
<1>7. in_dut' = Passes(load'.count, buffer)
  <2>1. Passes(frames, buffer) \in Nat
    BY DEF Passes, RangeInv
  <2>2. in_dut' = Passes(frames, buffer)
    BY <1>3, <1>6, <2>1
  <2>3. QED
    BY <1>3, <1>4, <2>2, Zenon
<1>8. FramesInv'
  BY <1>1, <1>3, <1>4, <1>6, <1>7 DEF FramesInv
<1>9. QED
  BY <1>1, <1>5, <1>8, Zenon DEF Orderly

LEMMA OrderlyCountBurst ==
  ASSUME RangeInv, StepInv, CountBurst, buffer # -1, Orderly
  PROVE  Orderly'
<1>1. /\ counter.at = "count" /\ load.at \notin {"waiting_start", "reinit_start"}
      /\ load' = load /\ bar' = bar /\ buffer' = buffer /\ granularity' = granularity
  BY Zenon DEF CountBurst
<1>2. InRound /\ load.count = counter.count /\ bar # 0
  <2>1. ~AtStart /\ ~UsedStart /\ ~BothJudge /\ ~LoadToJudge /\ ~CounterToJudge /\ ~Stuck
    BY <1>1 DEF AtStart, UsedStart, BothJudge, LoadToJudge, CounterToJudge, Stuck
  <2>2. InRound /\ SameSearch(load, counter)
    BY <2>1, Zenon DEF StepInv
  <2>3. bar # 0
    BY <2>2 DEF InRound, Arrived
  <2>4. QED
    BY <2>2, <2>3, Zenon DEF SameSearch
<1>3. PICK n \in 0 .. in_dut :
        /\ Keeps(counter', counter, "meet") /\ counter'.mine = n /\ n = in_dut
        /\ n >= counter.count \/ load.at \in {"meet", "waiting_meet", "done"}
        /\ rsns' = [rsns EXCEPT !.received = n] /\ in_dut' = in_dut - n
  BY CountBurstEffect, Zenon
<1>4. /\ counter'.at = "meet" /\ SameSearch(counter', counter)
      /\ counter'.count = counter.count
  BY <1>3, Zenon DEF Keeps, SameSearch
<1>5. Measured(load', buffer, granularity) /\ Measured(counter', buffer, granularity)
  <2>1. counter'.at # "done" /\ counter.at # "done"
    BY <1>1, <1>4, Zenon
  <2>2. QED
    BY <1>1, <1>4, <2>1, MeasuredKept, Zenon DEF Orderly
<1>6. load.at \in {"meet", "waiting_meet"}
  <2>0. counter \in Tasks /\ in_dut \in Nat
    BY Zenon DEF RangeInv, BurstTypeOK
  <2>1. counter.count > 0 /\ counter.count \in Nat
    BY <2>0 DEF Tasks
  <2>2. n >= counter.count => in_dut # 0
    BY <1>3, <2>0, <2>1
  <2>3. load.at # "done"
    BY <1>1, <1>2 DEF Orderly, FramesInv
  <2>4. in_dut # 0 => load.at \in {"meet", "waiting_meet"}
    BY Zenon DEF Orderly, FramesInv
  <2>5. QED
    BY <1>3, <2>2, <2>3, <2>4, Zenon
<1>7. counter'.mine = Passes(counter'.count, buffer) /\ in_dut' = 0
  <2>1. in_dut = Passes(load.count, buffer)
    BY <1>1, <1>2, <1>6 DEF Orderly, FramesInv
  <2>2. in_dut' = 0
    BY <1>3 DEF RangeInv, BurstTypeOK
  <2>3. QED
    BY <1>2, <1>3, <1>4, <2>1, <2>2, Zenon
<1>8. FramesInv'
  BY <1>1, <1>2, <1>4, <1>6, <1>7 DEF Orderly, FramesInv
<1>9. QED
  BY <1>1, <1>5, <1>8, Zenon DEF Orderly

LEMMA OrderlyLoadJudges ==
  ASSUME RangeInv, StepInv, ~Stuck, LoadJudges, buffer # -1, Orderly
  PROVE  Orderly'
<1> DEFINE top == load.mine = rsns.received
<1>1. /\ load.at = "judge" /\ load' = Judged(load, top, granularity)
      /\ rsns' = rsns /\ in_dut' = in_dut /\ counter' = counter
      /\ buffer' = buffer /\ granularity' = granularity
      /\ load \in Tasks /\ counter \in Tasks /\ Interval(load) /\ granularity \in Nat \ {0}
  BY Zenon DEF LoadJudges, RangeInv, BurstTypeOK
<1>2. top \in BOOLEAN /\ buffer \in Nat /\ load.count \in Nat
  BY <1>1 DEF RangeInv, Tasks
<1>3. load'.at \in {"sleep", "done"}
  BY <1>1, <1>2, JudgedRange, Zenon
<1>4. top <=> load.count <= buffer
  BY <1>1, <1>2 DEF Orderly, FramesInv, Passes
<1>5. Measured(load', buffer, granularity) /\ Measured(counter', buffer, granularity)
  BY <1>1, <1>2, <1>4, JudgedMeasures, Zenon DEF Orderly
<1>6. FramesInv'
  <2>1. InRound' => (load'.at = "done" <=> counter'.at = "done")
    <3>1. counter.at = "judge" \/ Ahead(counter, load, top, granularity)
      BY <1>1, Zenon DEF StepInv, AtStart, UsedStart, InRound, BothJudge, LoadToJudge, CounterToJudge
    <3>2. CASE counter.at = "judge"
      BY <1>1, <3>2 DEF InRound
    <3>3. CASE Ahead(counter, load, top, granularity)
      BY <1>1, <3>3, Zenon DEF Ahead
    <3>4. QED
      BY <3>1, <3>2, <3>3
  <2>2. QED
    BY <1>1, <1>3, <2>1 DEF Orderly, FramesInv
<1>7. QED
  BY <1>1, <1>5, <1>6, Zenon DEF Orderly

LEMMA OrderlyCounterJudges ==
  ASSUME RangeInv, StepInv, CounterJudges, buffer # -1, Orderly
  PROVE  Orderly'
<1> DEFINE top == counter.mine = rsns.sent
<1>1. /\ counter.at = "judge" /\ counter' = Judged(counter, top, granularity)
      /\ rsns' = rsns /\ in_dut' = in_dut /\ load' = load /\ bar' = bar
      /\ buffer' = buffer /\ granularity' = granularity
      /\ load \in Tasks /\ counter \in Tasks /\ Interval(counter) /\ granularity \in Nat \ {0}
  BY Zenon DEF CounterJudges, RangeInv, BurstTypeOK
<1>2. top \in BOOLEAN /\ buffer \in Nat /\ counter.count \in Nat
  BY <1>1 DEF RangeInv, Tasks
<1>3. counter'.at \in {"sleep", "done"}
  BY <1>1, <1>2, JudgedRange, Zenon
<1>4. top <=> counter.count <= buffer
  BY <1>1, <1>2 DEF Orderly, FramesInv, Passes
<1>5. Measured(load', buffer, granularity) /\ Measured(counter', buffer, granularity)
  BY <1>1, <1>2, <1>4, JudgedMeasures, Zenon DEF Orderly
<1>6. FramesInv'
  <2>1. \/ load.at \in {"reinit", "judge"} \/ (load.at = "waiting_meet" /\ bar = 0)
        \/ load.at \in {"sleep", "done"} /\ Ahead(load, counter, top, granularity)
    BY <1>1, Zenon DEF StepInv, AtStart, UsedStart, InRound, BothJudge, LoadToJudge, CounterToJudge,
                         Stuck
  <2>2. InRound' => (load'.at = "done" <=> counter'.at = "done")
    <3>1. CASE load.at \in {"reinit", "judge"} \/ (load.at = "waiting_meet" /\ bar = 0)
      BY <1>1, <3>1 DEF InRound, Arrived
    <3>2. CASE Ahead(load, counter, top, granularity)
      BY <1>1, <3>2, Zenon DEF Ahead
    <3>3. QED
      BY <2>1, <3>1, <3>2, Zenon
  <2>3. load.at \in {"reinit", "judge", "sleep", "done"} \/ (load.at = "waiting_meet" /\ bar = 0)
    BY <2>1
  <2>4. QED
    BY <1>1, <1>3, <2>2, <2>3 DEF Orderly, FramesInv
<1>7. QED
  BY <1>1, <1>5, <1>6, Zenon DEF Orderly

LEMMA OrderlyIdle ==
  ASSUME Orderly, UNCHANGED <<load, counter, bar, rsns, in_dut, buffer, granularity>>
  PROVE  Orderly'
BY Zenon DEF Orderly, FramesInv, InRound, Arrived

LEMMA NewMeasured ==
  ASSUME NEW buf \in Nat, NEW g
  PROVE  Measured(Task("start"), buf, g)
<1>1. /\ Task("start").at # "done" /\ Task("start").longest = 0
      /\ Task("start").binSearch.lowerLimit = 0 /\ Task("start").binSearch.upperLimit = MAX_PKTS
      /\ Task("start").count = MAX_PKTS
  BY NewTask
<1>2. Searching(Task("start"), buf)
  BY <1>1 DEF Searching
<1>3. QED
  BY <1>1, <1>2, Zenon DEF Measured

LEMMA OrderlyReport ==
  ASSUME RangeInv, StepInv, Report, buffer # -1, Orderly
  PROVE  Orderly'
<1>1. /\ load.at = "done" /\ counter.at = "done"
      /\ UNCHANGED <<bar, rsns, in_dut, buffer, granularity>>
      /\ \/ load' = Task("start") /\ counter' = Task("start")
         \/ load' = load /\ counter' = counter
  BY Zenon DEF Report
<1>2. CASE load' = Task("start") /\ counter' = Task("start")
  <2>1. load'.at = "start" /\ counter'.at = "start"
    BY <1>2, NewTask, Zenon
  <2>2. buffer \in Nat
    BY DEF RangeInv
  <2>3. Measured(load', buffer, granularity) /\ Measured(counter', buffer, granularity)
    BY <1>2, <2>2, NewMeasured, Zenon
  <2>4. in_dut = 0
    BY <1>1 DEF Orderly, FramesInv
  <2>5. FramesInv'
    BY <1>1, <2>1, <2>4 DEF FramesInv, InRound
  <2>6. QED
    BY <1>1, <2>3, <2>5, Zenon DEF Orderly
<1>3. CASE load' = load /\ counter' = counter
  BY <1>1, <1>3, OrderlyIdle, Zenon
<1>4. QED
  BY <1>1, <1>2, <1>3

LEMMA OrderlyNext ==
  ASSUME RangeInv, StepInv, [BurstNext]_burstVars, running /\ buffer # -1 /\ ~Stuck => Orderly
  PROVE  (running /\ buffer # -1 /\ ~Stuck => Orderly)'
<1> SUFFICES ASSUME running', buffer' # -1, ~Stuck'
             PROVE  Orderly'
  OBVIOUS
<1>1. buffer' = buffer
  BY Zenon DEF BurstNext, LoadSlave, CounterSlave, LoadWaits, LoadLeaves, Reinit, LoadHead, SendBurst,
     LoadJudges, LoadWakes, CounterWaits, CounterLeaves, CounterHead, CountBurst, CounterJudges,
     CounterWakes, LoseLate, Report, BurstStop, burstVars
<1>2. ~BurstStop /\ (running' = running \/ BurstStop)
  BY Zenon DEF BurstNext, LoadSlave, CounterSlave, LoadWaits, LoadLeaves, Reinit, LoadHead, SendBurst,
     LoadJudges, LoadWakes, CounterWaits, CounterLeaves, CounterHead, CountBurst, CounterJudges,
     CounterWakes, LoseLate, Report, BurstStop, burstVars
<1>3. running = TRUE /\ buffer # -1 /\ ~Stuck
  BY <1>1, <1>2, StepStuck, Zenon DEF RangeInv
<1>4. Orderly /\ ~LoseLate
  BY <1>3, Zenon DEF LoseLate
<1>5. CASE UNCHANGED burstVars
  BY <1>4, <1>5, OrderlyIdle, Zenon DEF burstVars
<1>6. QED
  BY <1>2, <1>3, <1>4, <1>5, OrderlyLoadWaits, OrderlyCounterWaits, OrderlyLoadLeaves,
     OrderlyCounterLeaves, OrderlyReinit, OrderlyLoadMoves, OrderlyCounterMoves, OrderlySendBurst,
     OrderlyCountBurst, OrderlyLoadJudges, OrderlyCounterJudges, OrderlyReport, Zenon
  DEF BurstNext, LoadSlave, CounterSlave

LEMMA PreciseReport ==
  ASSUME RangeInv, StepInv, Report, PreciseInv
  PROVE  BurstPrecise'
<1>1. PICK e : /\ results' = Append(results, e)
               /\ e = [value |-> IF NIL # load.longest THEN -1 ELSE load.longest,
                       longestS |-> load.longest, longestR |-> counter.longest,
                       stopped |-> ~running]
  BY Zenon DEF Report
<1>2. e.longestS = load.longest /\ e.longestR = counter.longest /\ e.stopped = ~running
  BY <1>1
<1>3. load.at = "done" /\ counter.at = "done" /\ buffer' = buffer /\ granularity' = granularity
  BY Zenon DEF Report
<1>4. ~Stuck /\ SameSearch(load, counter)
  BY <1>3 DEF StepInv, AtStart, UsedStart, BothJudge, LoadToJudge, CounterToJudge, Stuck
<1>5. e.longestS = e.longestR
  BY <1>2, <1>4, Zenon DEF SameSearch
<1>6. buffer # -1 /\ ~e.stopped => Found(e.longestS, buffer, granularity)
  BY <1>2, <1>3, <1>4, Zenon DEF PreciseInv, Orderly, Measured
<1>7. SUFFICES ASSUME NEW k \in DOMAIN results'
               PROVE  /\ results'[k].longestS = results'[k].longestR
                      /\ buffer # -1 /\ ~results'[k].stopped =>
                           Found(results'[k].longestS, buffer, granularity)
  BY <1>3, Zenon DEF BurstPrecise, Found
<1>8. results \in Seq(Entries)
  BY Zenon DEF RangeInv
<1>9. results'[k] = e \/ (k \in DOMAIN results /\ results'[k] = results[k])
  <2>1. results' = Append(results, e)
    BY <1>1, Zenon
  <2>2. QED
    BY <1>7, <1>8, <2>1
<1>10. QED
  BY <1>5, <1>6, <1>7, <1>9, Zenon DEF PreciseInv, BurstPrecise, Found

LEMMA PreciseNext ==
  ASSUME RangeInv, StepInv, PreciseInv, [BurstNext]_burstVars
  PROVE  PreciseInv'
<1>1. (running /\ buffer # -1 /\ ~Stuck => Orderly)'
  BY OrderlyNext, Zenon DEF PreciseInv
<1>2. CASE Report
  BY <1>1, <1>2, PreciseReport, Zenon DEF PreciseInv
<1>3. CASE UNCHANGED <<results, buffer, granularity>>
  BY <1>1, <1>3, Zenon DEF PreciseInv, BurstPrecise
<1>4. Report \/ UNCHANGED <<results, buffer, granularity>>
  BY Zenon DEF BurstNext, LoadSlave, CounterSlave, LoadWaits, LoadLeaves, Reinit, LoadHead, SendBurst,
     LoadJudges, LoadWakes, CounterWaits, CounterLeaves, CounterHead, CountBurst, CounterJudges,
     CounterWakes, LoseLate, BurstStop, burstVars
<1>5. QED
  BY <1>2, <1>3, <1>4

LEMMA PreciseInit ==
  ASSUME BurstInit, RangeInv
  PROVE  PreciseInv
<1>1. load = Task("start") /\ counter = Task("start") /\ in_dut = 0 /\ results = <<>>
  BY Zenon DEF BurstInit
<1>2. load.at = "start" /\ counter.at = "start"
  BY <1>1, NewTask, Zenon
<1>3. FramesInv
  BY <1>1, <1>2 DEF FramesInv, InRound
<1>4. buffer # -1 => Measured(load, buffer, granularity) /\ Measured(counter, buffer, granularity)
  <2>1. buffer # -1 => buffer \in Nat
    BY DEF RangeInv
  <2>2. QED
    BY <1>1, <2>1, NewMeasured, Zenon
<1>5. BurstPrecise
  BY <1>1 DEF BurstPrecise
<1>6. QED
  BY <1>3, <1>4, <1>5, Zenon DEF PreciseInv, Orderly

\* What the two tasks of backtoback.lua return for a device which forwards bursts
\* up to its buffer is the same length, never more than the buffer and less than
\* two granularities below it, for every buffer, granularity and longest burst
\* tried.
THEOREM BufferMeasured == BurstSpec => []BurstPrecise
<1>1. BurstInit => RangeInv /\ StepInv /\ PreciseInv
  BY RangeInit, StepInit, PreciseInit, Zenon
<1>2. RangeInv /\ StepInv /\ PreciseInv /\ [BurstNext]_burstVars
        => RangeInv' /\ StepInv' /\ PreciseInv'
  BY StepNext, PreciseNext, Zenon
<1>3. PreciseInv => BurstPrecise
  BY Zenon DEF PreciseInv
<1>4. QED
  BY <1>1, <1>2, <1>3, PTL DEF BurstSpec

-----------------------------------------------------------------------------
(* The throughput and frame loss benchmarks: a trial.                       *)

Statuses == {"none", "start", "blocked", "warmup", "run", "done"}
Masters == {"config", "iterate", "trial", "wait", "undo", "done"}
Measurements == [rate : Int, spkts : Nat, rpkts : Nat]

TrialRange ==
  /\ task \in [LoadTasks \union {COUNTER} -> Statuses] /\ sent \in [LoadTasks -> Nat]
  /\ in_dut \in [Ports -> Nat] /\ stats \in [Ports -> Nat]

BenchRange ==
  /\ benchmark \in {"throughput", "frameloss"} /\ at \in Masters /\ running \in BOOLEAN
  /\ step \in Nat \ {0} /\ capacity \in Nat \union {-1}
  /\ port \in UDP_PORT .. UDP_PORT + MAX_LINK_RATE
  /\ iteration \in 0 .. NUM_ITERATIONS /\ results \in Seq(Measurements)
  /\ rate \in Int /\ lastNoLostFrame \in BOOLEAN
  /\ binSearch \in [lowerLimit : Nat, upperLimit : Nat]
  /\ TrialRange

Warmed(t) == IF task[t] \in {"run", "done"} THEN 1 ELSE 0

Clear == in_dut = NoFrames /\ \A t \in LoadTasks : task[t] \in {"none", "done"}

\* Of n frames no more than maxLossRate are lost.
Tolerable(lost, n) == lost * LOSS_DEN <= LOSS_NUM * n

\* The frames of the port of a trial, of those that carry its warm-up, and none
\* elsewhere.
FramesOn(n) ==
  /\ \A p \in Ports : p > port \/ p < port - 1 => in_dut[p] = 0 /\ stats[p] = 0
  /\ stats[port] + in_dut[port] <= n
  /\ capacity # -1 /\ rate <= capacity => Tolerable(n - stats[port] - in_dut[port], n)
  /\ LOSS_NUM < LOSS_DEN /\ Overloaded => stats[port] = 0 \/ ~Tolerable(n - stats[port], n)

WarmupOn(n) == stats[port - 1] + in_dut[port - 1] <= n

InTrial ==
  /\ task[COUNTER] = "done" => Clear
  /\ task[1] # "none"
  /\ \A t \in LoadTasks : task[t] = "done" => sent[t] > 0
  /\ FramesOn(spkts) /\ WarmupOn(Warmed(1) + Warmed(2) + Warmed(3))

BetweenTrials ==
  /\ Clear /\ task[COUNTER] \in {"none", "done"}
  /\ \A p \in Ports : stats[p] <= spkts

TrialInv == IF at = "wait" THEN InTrial ELSE BetweenTrials

LEMMA PortsOfTrial ==
  ASSUME BenchRange
  PROVE  /\ port \in Ports /\ port - 1 \in Ports /\ port \in Nat /\ port - 1 # port
         /\ \A p \in Ports : p \in Int /\ (p = port \/ p = port - 1 \/ p > port \/ p < port - 1)
<1>1. port \in UDP_PORT .. UDP_PORT + MAX_LINK_RATE
  BY Zenon DEF BenchRange
<1>2. QED
  BY <1>1, BenchAssumption DEF Ports

LEMMA TasksOfTrial ==
  LoadTasks = {1, 2, 3} /\ COUNTER = 0 /\ COUNTER \notin LoadTasks
BY DEF LoadTasks, COUNTER

\* What the frames of a trial are bounded by, as numbers.
LEMMA SumsOfTrial ==
  ASSUME TrialRange
  PROVE  /\ spkts \in Nat /\ \A t \in LoadTasks : sent[t] \in Nat /\ Warmed(t) \in {0, 1}
         /\ \A p \in Ports : in_dut[p] \in Nat /\ stats[p] \in Nat
<1>1. /\ sent[1] \in Nat /\ sent[2] \in Nat /\ sent[3] \in Nat
      /\ \A t \in LoadTasks : sent[t] \in Nat
      /\ \A p \in Ports : in_dut[p] \in Nat /\ stats[p] \in Nat
  BY TasksOfTrial, Zenon DEF TrialRange
<1>2. spkts \in Nat
  BY <1>1 DEF spkts
<1>3. \A t \in LoadTasks : Warmed(t) \in {0, 1}
  BY Zenon DEF Warmed
<1>4. QED
  BY <1>1, <1>2, <1>3, Zenon

\* More frames without more loss, more frames that are lost, and no frame.
LEMMA TolerableFacts ==
  ASSUME NEW n \in Nat, NEW lost \in Nat
  PROVE  /\ Tolerable(lost, n) => Tolerable(lost, n + 1)
         /\ LOSS_NUM < LOSS_DEN /\ ~Tolerable(lost, n) => ~Tolerable(lost + 1, n + 1)
         /\ LOSS_NUM < LOSS_DEN /\ n > 0 => ~Tolerable(n, n)
         /\ Tolerable(0, n)
<1>1. LOSS_NUM \in Nat /\ LOSS_DEN \in Nat
  BY BenchAssumption
<1>2. /\ LOSS_NUM * (n + 1) = LOSS_NUM * n + LOSS_NUM
      /\ (lost + 1) * LOSS_DEN = lost * LOSS_DEN + LOSS_DEN
      /\ 0 * LOSS_DEN = 0
  BY <1>1
<1>3. PICK a \in Nat, b \in Nat : a = LOSS_NUM * n /\ b = lost * LOSS_DEN
  BY <1>1
<1>4. LOSS_NUM < LOSS_DEN /\ n > 0 => n * LOSS_DEN > LOSS_NUM * n
  <2>1. SUFFICES ASSUME LOSS_NUM < LOSS_DEN, n > 0 PROVE n * LOSS_DEN > LOSS_NUM * n
    BY Zenon
  <2>2. n * (LOSS_DEN - LOSS_NUM) > 0
    BY <1>1, <2>1
  <2>3. QED
    BY <1>1, <2>1, <2>2
<1>5. n > 0 /\ LOSS_NUM < LOSS_DEN => ~(n * LOSS_DEN <= LOSS_NUM * n)
  <2>1. n * LOSS_DEN \in Nat
    BY <1>1
  <2>2. QED
    BY <1>3, <1>4, <2>1
<1>6. QED
  BY <1>1, <1>2, <1>3, <1>5 DEF Tolerable

\* Tasks move on and no frame does.
LEMMA TasksMove ==
  ASSUME BenchRange, InTrial, UNCHANGED <<port, sent, in_dut, stats, rate, capacity>>, TrialRange',
         task'[COUNTER] = "done" => Clear', task'[1] # "none",
         \A u \in LoadTasks : /\ task[u] \in {"run", "done"} => task'[u] \in {"run", "done"}
                              /\ task'[u] = "done" => sent[u] > 0
  PROVE  InTrial'
<1>1. spkts' = spkts
  BY Zenon DEF spkts
<1>2. FramesOn(spkts)'
  <2>1. FramesOn(spkts)
    BY Zenon DEF InTrial
  <2>2. QED
    BY <1>1, <2>1, Zenon DEF FramesOn, Overloaded
<1>3. WarmupOn(Warmed(1) + Warmed(2) + Warmed(3))'
  <2>1. \A u \in LoadTasks : Warmed(u) = Warmed(u)' \/ (Warmed(u) = 0 /\ Warmed(u)' = 1)
    BY Zenon DEF Warmed
  <2>2. \A u \in LoadTasks : Warmed(u) \in {0, 1} /\ Warmed(u)' \in {0, 1}
    BY Zenon DEF Warmed
  <2>3. \A u \in LoadTasks : Warmed(u) <= Warmed(u)'
    BY <2>1, <2>2
  <2>4. /\ WarmupOn(Warmed(1) + Warmed(2) + Warmed(3))
        /\ stats[port - 1] \in Nat /\ in_dut[port - 1] \in Nat
    BY PortsOfTrial, SumsOfTrial, Zenon DEF InTrial, BenchRange
  <2>5. /\ Warmed(1) <= Warmed(1)' /\ Warmed(2) <= Warmed(2)' /\ Warmed(3) <= Warmed(3)'
        /\ Warmed(1) \in {0, 1} /\ Warmed(2) \in {0, 1} /\ Warmed(3) \in {0, 1}
        /\ Warmed(1)' \in {0, 1} /\ Warmed(2)' \in {0, 1} /\ Warmed(3)' \in {0, 1}
    BY <2>2, <2>3, TasksOfTrial, Zenon
  <2> HIDE DEF Warmed
  <2>6. QED
    BY <2>4, <2>5 DEF WarmupOn
<1>4. QED
  BY <1>2, <1>3, Zenon DEF InTrial

LEMMA ArriveTrial ==
  ASSUME BenchRange, InTrial, UNCHANGED <<rate, capacity>>,
         NEW t \in LoadTasks \union {COUNTER}, Arrive(t)
  PROVE  TrialRange' /\ InTrial'
<1> DEFINE After(u) == IF u = COUNTER THEN "run" ELSE "warmup"
           T == LoadTasks \union {COUNTER}
<1>1. task \in [T -> Statuses] /\ DOMAIN task = T /\ task[t] = "start"
  BY Zenon DEF Arrive, BenchRange, TrialRange
<1>2. \/ task' = [task EXCEPT ![t] = "blocked"]
      \/ task' = [u \in T |-> IF u \in {v \in T : task[v] = "blocked"} \union {t} THEN After(u) ELSE task[u]]
  BY <1>1, Zenon DEF Arrive
<1>3. \A u \in T : \/ task'[u] = task[u]
                   \/ task[u] \in {"start", "blocked"} /\ task'[u] = "blocked"
                   \/ task[u] \in {"start", "blocked"} /\ task'[u] = After(u)
  BY <1>1, <1>2, Zenon
<1>4. task' \in [T -> Statuses]
  <2>1. \A u \in T : After(u) \in Statuses /\ "blocked" \in Statuses /\ task[u] \in Statuses
    BY <1>1, Zenon DEF Statuses
  <2> HIDE DEF After, T
  <2>2. QED
    BY <1>1, <1>2, <2>1, Zenon
<1>5. TrialRange'
  BY <1>4, Zenon DEF Arrive, BenchRange, TrialRange
<1>6. task[COUNTER] # "done"
  BY <1>1, Zenon DEF InTrial, Clear
<1>7. task'[COUNTER] # "done"
  BY <1>3, <1>6, Zenon
<1>8. task'[1] # "none"
  BY <1>3, TasksOfTrial, Zenon DEF InTrial
<1>9. \A u \in LoadTasks : /\ task[u] \in {"run", "done"} => task'[u] \in {"run", "done"}
                           /\ task'[u] = "done" => sent[u] > 0
  BY <1>3, TasksOfTrial, Zenon DEF InTrial
<1>10. UNCHANGED <<port, sent, in_dut, stats>>
  BY Zenon DEF Arrive
<1>11. QED
  BY <1>5, <1>7, <1>8, <1>9, <1>10, TasksMove, Zenon

LEMMA LoadEndTrial ==
  ASSUME BenchRange, InTrial, UNCHANGED <<rate, capacity>>, NEW t \in LoadTasks, LoadEnd(t)
  PROVE  TrialRange' /\ InTrial'
<1>1. /\ task \in [LoadTasks \union {COUNTER} -> Statuses] /\ task[t] = "run" /\ sent[t] > 0
      /\ task' = [task EXCEPT ![t] = "done"] /\ UNCHANGED <<port, sent, in_dut, stats>>
  BY Zenon DEF LoadEnd, BenchRange, TrialRange
<1>2. TrialRange'
  BY <1>1, Zenon DEF BenchRange, TrialRange, Statuses
<1>3. task[COUNTER] # "done" /\ task'[COUNTER] = task[COUNTER]
  BY <1>1, TasksOfTrial, Zenon DEF InTrial, Clear
<1>4. \A u \in LoadTasks : task'[u] = IF u = t THEN "done" ELSE task[u]
  BY <1>1, Zenon
<1>5. /\ task'[1] # "none"
      /\ \A u \in LoadTasks : /\ task[u] \in {"run", "done"} => task'[u] \in {"run", "done"}
                              /\ task'[u] = "done" => sent[u] > 0
  BY <1>1, <1>4, TasksOfTrial, Zenon DEF InTrial
<1>6. QED
  BY <1>1, <1>2, <1>3, <1>5, TasksMove, Zenon

LEMMA CounterEndTrial ==
  ASSUME BenchRange, InTrial, UNCHANGED <<rate, capacity>>, CounterEnd
  PROVE  TrialRange' /\ InTrial'
<1>1. /\ task \in [LoadTasks \union {COUNTER} -> Statuses] /\ Clear
      /\ task' = [task EXCEPT ![COUNTER] = "done"] /\ UNCHANGED <<port, sent, in_dut, stats>>
  BY Zenon DEF CounterEnd, BenchRange, TrialRange, Clear
<1>2. TrialRange'
  BY <1>1, Zenon DEF BenchRange, TrialRange, Statuses
<1>3. \A u \in LoadTasks : task'[u] = task[u]
  BY <1>1, TasksOfTrial, Zenon
<1>4. Clear'
  <2>1. NoFrames' = NoFrames
    BY Zenon DEF NoFrames, Ports
  <2>2. QED
    BY <1>1, <1>3, <2>1, Zenon DEF Clear
<1>5. /\ task'[1] # "none"
      /\ \A u \in LoadTasks : /\ task[u] \in {"run", "done"} => task'[u] \in {"run", "done"}
                              /\ task'[u] = "done" => sent[u] > 0
  BY <1>1, <1>3, TasksOfTrial, Zenon DEF InTrial
<1>6. QED
  BY <1>1, <1>2, <1>4, <1>5, TasksMove, Zenon

\* What the counter and the frames of a trial do to each other.
LEMMA WarmupTrial ==
  ASSUME BenchRange, InTrial, UNCHANGED <<rate, capacity>>, NEW t \in LoadTasks, Warmup(t)
  PROVE  TrialRange' /\ InTrial'
<1> DEFINE q == port - 1
<1>1. /\ task \in [LoadTasks \union {COUNTER} -> Statuses] /\ task[t] = "warmup"
      /\ task' = [task EXCEPT ![t] = "run"] /\ UNCHANGED <<port, sent, stats>>
      /\ in_dut \in [Ports -> Nat] /\ in_dut' = [in_dut EXCEPT ![q] = @ + 1]
  BY Zenon DEF Warmup, BenchRange, TrialRange
<1>2. q \in Ports /\ q # port /\ port \in Ports /\ q' = q /\ Ports' = Ports
  BY <1>1, PortsOfTrial, Zenon DEF Ports
<1>3. /\ in_dut[q] \in Nat /\ stats[q] \in Nat /\ spkts' = spkts /\ in_dut[q] + 1 \in Nat
  BY <1>1, <1>2, SumsOfTrial DEF spkts, BenchRange
<1>4. in_dut' \in [Ports -> Nat] /\ in_dut'[q] = in_dut[q] + 1
      /\ \A p \in Ports : p # q => in_dut'[p] = in_dut[p]
  BY <1>1, <1>2, <1>3, Zenon
<1>5. TrialRange'
  BY <1>1, <1>2, <1>4, Zenon DEF BenchRange, TrialRange, Statuses
<1>6. task[COUNTER] # "done" /\ task'[COUNTER] = task[COUNTER]
  BY <1>1, TasksOfTrial, Zenon DEF InTrial, Clear
<1>7. \A u \in LoadTasks : task'[u] = IF u = t THEN "run" ELSE task[u]
  BY <1>1, Zenon
<1>8. task'[1] # "none" /\ \A u \in LoadTasks : task'[u] = "done" => sent'[u] > 0
  BY <1>1, <1>7, TasksOfTrial, Zenon DEF InTrial
<1>9. FramesOn(spkts)'
  <2>1. FramesOn(spkts) /\ \A p \in Ports : p > port \/ p < q => p # q
    BY <1>2, PortsOfTrial DEF InTrial
  <2>2. QED
    BY <1>1, <1>2, <1>3, <1>4, <2>1, Zenon DEF FramesOn, Overloaded
<1>10. WarmupOn(Warmed(1) + Warmed(2) + Warmed(3))'
  <2>1. Warmed(t)' = 1 /\ Warmed(t) = 0 /\ \A u \in LoadTasks : u # t => Warmed(u)' = Warmed(u)
    BY <1>1, <1>7, Zenon DEF Warmed
  <2>2. /\ t = 1 \/ t = 2 \/ t = 3
        /\ Warmed(1) \in {0, 1} /\ Warmed(2) \in {0, 1} /\ Warmed(3) \in {0, 1}
        /\ stats[q] + in_dut[q] <= Warmed(1) + Warmed(2) + Warmed(3)
    BY <2>1, SumsOfTrial, TasksOfTrial, Zenon DEF BenchRange, InTrial, WarmupOn
  <2> HIDE DEF Warmed, q
  <2>4. stats[q] + in_dut[q] + 1 <= Warmed(1)' + Warmed(2)' + Warmed(3)'
    <3>1. CASE t = 1
      <4>1. Warmed(1)' = 1 /\ Warmed(1) = 0 /\ Warmed(2)' = Warmed(2) /\ Warmed(3)' = Warmed(3)
        BY <2>1, <3>1, TasksOfTrial
      <4>2. QED
        BY <1>3, <2>2, <4>1
    <3>2. CASE t = 2
      <4>1. Warmed(2)' = 1 /\ Warmed(2) = 0 /\ Warmed(1)' = Warmed(1) /\ Warmed(3)' = Warmed(3)
        BY <2>1, <3>2, TasksOfTrial
      <4>2. QED
        BY <1>3, <2>2, <4>1
    <3>3. CASE t = 3
      <4>1. Warmed(3)' = 1 /\ Warmed(3) = 0 /\ Warmed(1)' = Warmed(1) /\ Warmed(2)' = Warmed(2)
        BY <2>1, <3>3, TasksOfTrial
      <4>2. QED
        BY <1>3, <2>2, <4>1
    <3>4. QED
      BY <2>2, <3>1, <3>2, <3>3, Zenon
  <2>5. stats'[q] + in_dut'[q] <= Warmed(1)' + Warmed(2)' + Warmed(3)'
    BY <1>1, <1>3, <1>4, <2>4
  <2>6. QED
    BY <1>2, <2>5, Zenon DEF WarmupOn, q
<1>11. QED
  BY <1>5, <1>6, <1>8, <1>9, <1>10, Zenon DEF InTrial

LEMMA SendFrameTrial ==
  ASSUME BenchRange, InTrial, UNCHANGED <<rate, capacity>>, NEW t \in LoadTasks, SendFrame(t)
  PROVE  TrialRange' /\ InTrial'
<1>1. /\ task[t] = "run" /\ UNCHANGED <<task, port, stats>>
      /\ sent \in [LoadTasks -> Nat] /\ sent' = [sent EXCEPT ![t] = @ + 1]
      /\ in_dut \in [Ports -> Nat] /\ in_dut' = [in_dut EXCEPT ![port] = @ + 1]
  BY Zenon DEF SendFrame, BenchRange, TrialRange
<1>2. port \in Ports /\ port - 1 \in Ports /\ port - 1 # port
  BY PortsOfTrial, Zenon
<1>3. /\ in_dut[port] \in Nat /\ stats[port] \in Nat /\ spkts \in Nat /\ sent[t] \in Nat
      /\ in_dut[port] + 1 \in Nat /\ sent[t] + 1 \in Nat /\ sent[t] + 1 > 0
  BY <1>1, <1>2, SumsOfTrial, SMTT(30) DEF BenchRange
<1>4. /\ in_dut' \in [Ports -> Nat] /\ in_dut'[port] = in_dut[port] + 1
      /\ \A p \in Ports : p # port => in_dut'[p] = in_dut[p]
      /\ sent' \in [LoadTasks -> Nat] /\ sent'[t] = sent[t] + 1
      /\ \A u \in LoadTasks : u # t => sent'[u] = sent[u]
  BY <1>1, <1>2, <1>3, Zenon
<1>5. TrialRange'
  BY <1>1, <1>4, Zenon DEF BenchRange, TrialRange
<1>6. spkts' = spkts + 1
  <2>1. sent[1] \in Nat /\ sent[2] \in Nat /\ sent[3] \in Nat /\ (t = 1 \/ t = 2 \/ t = 3)
    BY <1>1, TasksOfTrial, Zenon
  <2>2. /\ t = 1 => sent'[1] = sent[1] + 1 /\ sent'[2] = sent[2] /\ sent'[3] = sent[3]
        /\ t = 2 => sent'[2] = sent[2] + 1 /\ sent'[1] = sent[1] /\ sent'[3] = sent[3]
        /\ t = 3 => sent'[3] = sent[3] + 1 /\ sent'[1] = sent[1] /\ sent'[2] = sent[2]
    BY <1>4, TasksOfTrial
  <2>3. QED
    BY <2>1, <2>2 DEF spkts
<1>7. task[COUNTER] # "done"
  BY <1>1, Zenon DEF InTrial, Clear
<1>8. \A u \in LoadTasks : task'[u] = "done" => sent'[u] > 0
  BY <1>1, <1>3, <1>4, Zenon DEF InTrial
<1>9. FramesOn(spkts)'
  <2>1. FramesOn(spkts) /\ \A p \in Ports : p > port \/ p < port - 1 => p # port
    BY <1>2, PortsOfTrial DEF InTrial
  <2>2. PICK n, st, d \in Nat : n = spkts /\ st = stats[port] /\ d = in_dut[port] /\ st + d <= n
    BY <1>3, <2>1, Zenon DEF FramesOn
  <2>3. st + (d + 1) <= n + 1
    BY <2>2
  <2>4. Tolerable(n - st - d, n) => Tolerable(n + 1 - st - (d + 1), n + 1)
    <3>1. n - st - d \in Nat /\ n + 1 - st - (d + 1) = n - st - d
      BY <2>2
    <3>2. QED
      BY <3>1, TolerableFacts
  <2>5. LOSS_NUM < LOSS_DEN /\ ~Tolerable(n - st, n) => ~Tolerable(n + 1 - st, n + 1)
    <3>1. n - st \in Nat /\ n + 1 - st = (n - st) + 1
      BY <2>2
    <3>2. QED
      BY <3>1, TolerableFacts
  <2>6. \A p \in Ports : p > port \/ p < port - 1 => in_dut'[p] = 0 /\ stats'[p] = 0
    BY <1>1, <1>4, <2>1, Zenon DEF FramesOn
  <2>7. /\ stats'[port] = st /\ in_dut'[port] = d + 1 /\ spkts' = n + 1 /\ port' = port
        /\ Overloaded' = Overloaded /\ rate' = rate /\ capacity' = capacity
    BY <1>1, <1>4, <1>6, <2>2, Zenon DEF Overloaded
  <2>8. /\ capacity # -1 /\ rate <= capacity => Tolerable(n - st - d, n)
        /\ LOSS_NUM < LOSS_DEN /\ Overloaded => st = 0 \/ ~Tolerable(n - st, n)
    BY <2>1, <2>2, Zenon DEF FramesOn
  <2>9. stats'[port'] + in_dut'[port'] <= spkts'
    BY <2>3, <2>7, Zenon
  <2>10. capacity' # -1 /\ rate' <= capacity' =>
           Tolerable(spkts' - stats'[port'] - in_dut'[port'], spkts')
    BY <2>4, <2>7, <2>8
  <2>11. LOSS_NUM < LOSS_DEN /\ Overloaded' =>
           stats'[port'] = 0 \/ ~Tolerable(spkts' - stats'[port'], spkts')
    BY <2>5, <2>7, <2>8
  <2>12. QED
    BY <2>6, <2>7, <2>9, <2>10, <2>11, Zenon DEF FramesOn, Ports
<1>10. WarmupOn(Warmed(1) + Warmed(2) + Warmed(3))'
  BY <1>1, <1>2, <1>4, Zenon DEF WarmupOn, Warmed, InTrial
<1>11. QED
  BY <1>1, <1>5, <1>7, <1>8, <1>9, <1>10, Zenon DEF InTrial

LEMMA DeviceTrial ==
  ASSUME BenchRange, InTrial, UNCHANGED <<rate, capacity>>, NEW p \in Ports,
         (Count(p) /\ MayCount(p)) \/ (Lose(p) /\ MayLose(p))
  PROVE  TrialRange' /\ InTrial'
<1>1. /\ in_dut[p] > 0 /\ UNCHANGED <<task, port, sent>>
      /\ in_dut \in [Ports -> Nat] /\ in_dut' = [in_dut EXCEPT ![p] = @ - 1]
      /\ stats \in [Ports -> Nat]
      /\ \/ stats' = [stats EXCEPT ![p] = @ + 1] /\ MayCount(p)
         \/ stats' = stats /\ MayLose(p)
  BY Zenon DEF Count, Lose, BenchRange, TrialRange
<1>2. /\ port \in Ports /\ port - 1 \in Ports /\ port - 1 # port
      /\ p = port \/ p = port - 1 \/ p > port \/ p < port - 1
  BY PortsOfTrial, Zenon
<1>3. /\ \A q \in Ports : in_dut[q] \in Nat /\ stats[q] \in Nat
      /\ spkts \in Nat /\ spkts' = spkts /\ in_dut[p] - 1 \in Nat /\ stats[p] + 1 \in Nat
  BY <1>1, SumsOfTrial, SMTT(30) DEF spkts, BenchRange
<1>4. /\ in_dut' \in [Ports -> Nat] /\ in_dut'[p] = in_dut[p] - 1
      /\ \A q \in Ports : q # p => in_dut'[q] = in_dut[q]
  BY <1>1, <1>3, Zenon
<1>5. /\ stats' \in [Ports -> Nat]
      /\ \A q \in Ports : q # p => stats'[q] = stats[q]
      /\ \/ stats'[p] = stats[p] + 1 /\ MayCount(p)
         \/ stats'[p] = stats[p] /\ MayLose(p)
  BY <1>1, <1>3, Zenon
<1>6. TrialRange'
  BY <1>1, <1>4, <1>5, Zenon DEF BenchRange, TrialRange
<1>7. task[COUNTER] # "done"
  <2>1. in_dut # NoFrames
    BY <1>1 DEF NoFrames
  <2>2. QED
    BY <2>1, Zenon DEF InTrial, Clear
<1>8. FramesOn(spkts) /\ (p = port \/ p = port - 1)
  <2>1. FramesOn(spkts)
    BY Zenon DEF InTrial
  <2>2. in_dut[p] # 0
    BY <1>1, <1>3
  <2>3. QED
    BY <1>2, <2>1, <2>2, Zenon DEF FramesOn
<1>9. stats'[p] + in_dut'[p] <= stats[p] + in_dut[p]
  BY <1>3, <1>4, <1>5
<1>10. FramesOn(spkts)'
  <2>1. /\ \A q \in Ports : q > port \/ q < port - 1 => q # p
        /\ capacity # -1 /\ rate <= capacity => ~Overloaded
    BY <1>2, <1>8, PortsOfTrial DEF Overloaded, BenchRange
  <2>2. \A q \in Ports : q > port \/ q < port - 1 => in_dut'[q] = 0 /\ stats'[q] = 0
    BY <1>4, <1>5, <1>8, <2>1, Zenon DEF FramesOn
  <2>3. CASE p = port
    <3>1. PICK n, st, d \in Nat :
            /\ n = spkts /\ st = stats[port] /\ d = in_dut[port] /\ st + d <= n /\ d > 0
      BY <1>1, <1>2, <1>3, <1>8, <2>3, Zenon DEF FramesOn
    <3>2. \/ stats'[port] = st + 1 /\ in_dut'[port] = d - 1 /\ MayCount(port)
          \/ stats'[port] = st /\ in_dut'[port] = d - 1 /\ MayLose(port)
      BY <1>4, <1>5, <2>3, <3>1, Zenon
    <3>3. stats'[port] + in_dut'[port] <= spkts
      BY <3>1, <3>2
    <3>4. ASSUME capacity # -1, rate <= capacity
          PROVE  Tolerable(spkts - stats'[port] - in_dut'[port], spkts)
      <4>1. ~Overloaded /\ Tolerable(n - st - d, n)
        BY <1>8, <2>1, <3>1, <3>4, Zenon DEF FramesOn
      <4>2. MayLose(port) => Tolerable(n - st - d + 1, n)
        <5>1. MayLose(port) => ~TooMany(n - st - d + 1)
          BY <3>1, <3>4, <4>1, Zenon DEF MayLose
        <5>2. (n - st - d + 1) * LOSS_DEN \in Int /\ LOSS_NUM * n \in Int
          BY <3>1, BenchAssumption
        <5>3. QED
          BY <3>1, <5>1, <5>2 DEF TooMany, Tolerable
      <4>3. /\ n - (st + 1) - (d - 1) = n - st - d
            /\ n - st - (d - 1) = n - st - d + 1
        BY <3>1
      <4>4. QED
        BY <3>1, <3>2, <4>1, <4>2, <4>3, Zenon
    <3>5. ASSUME LOSS_NUM < LOSS_DEN, Overloaded
          PROVE  stats'[port] = 0 \/ ~Tolerable(spkts - stats'[port], spkts)
      <4>1. st = 0 \/ ~Tolerable(n - st, n)
        BY <1>8, <3>1, <3>5, Zenon DEF FramesOn
      <4>2. MayCount(port) => ~Tolerable(n - (st + 1), n)
        <5>1. MayCount(port) => TooMany(n - (st + 1))
          BY <3>1, <3>5, Zenon DEF MayCount
        <5>2. (n - (st + 1)) * LOSS_DEN \in Int /\ LOSS_NUM * n \in Int
          BY <3>1, BenchAssumption
        <5>3. QED
          BY <3>1, <5>1, <5>2 DEF TooMany, Tolerable
      <4>3. QED
        BY <3>1, <3>2, <4>1, <4>2, Zenon
    <3>6. QED
      BY <1>1, <1>3, <2>2, <3>3, <3>4, <3>5, Zenon DEF FramesOn, Overloaded, Ports
  <2>4. CASE p # port
    BY <1>1, <1>2, <1>3, <1>4, <1>5, <1>8, <2>2, <2>4, Zenon DEF FramesOn, Overloaded, Ports
  <2>5. QED
    BY <2>3, <2>4, Zenon
<1>11. WarmupOn(Warmed(1) + Warmed(2) + Warmed(3))'
  <2> DEFINE W == Warmed(1) + Warmed(2) + Warmed(3)
             q == port - 1
  <2>1. W' = W /\ W \in Nat
    <3>1. Warmed(1) \in {0, 1} /\ Warmed(2) \in {0, 1} /\ Warmed(3) \in {0, 1}
      BY SumsOfTrial, TasksOfTrial, Zenon DEF BenchRange
    <3>2. W' = W
      BY <1>1, Zenon DEF Warmed
    <3> HIDE DEF Warmed
    <3>3. QED
      BY <3>1, <3>2
  <2>2. stats[q] + in_dut[q] <= W
    BY Zenon DEF InTrial, WarmupOn
  <2>3. stats'[q] + in_dut'[q] <= stats[q] + in_dut[q]
    <3>1. stats'[q] \in Nat /\ in_dut'[q] \in Nat /\ stats[q] \in Nat /\ in_dut[q] \in Nat /\ q \in Ports
      BY <1>2, <1>3, <1>4, <1>5, Zenon
    <3> HIDE DEF q
    <3>2. CASE p = q
      BY <1>9, <3>2
    <3>3. CASE p # q
      BY <1>4, <1>5, <3>1, <3>3
    <3>4. QED
      BY <3>2, <3>3, Zenon
  <2>4. stats'[q] + in_dut'[q] <= W
    <3>1. stats'[q] \in Nat /\ in_dut'[q] \in Nat /\ stats[q] \in Nat /\ in_dut[q] \in Nat
      BY <1>2, <1>3, <1>4, <1>5, Zenon
    <3> HIDE DEF q, W
    <3>2. QED
      BY <2>1, <2>2, <2>3, <3>1, SMTT(30)
  <2>5. QED
    BY <1>1, <2>1, <2>4, Zenon DEF WarmupOn
<1>12. QED
  BY <1>1, <1>6, <1>7, <1>10, <1>11, Zenon DEF InTrial

\* Between trials nothing moves but the master.
LEMMA TrialSteps ==
  ASSUME BenchRange, TrialInv, Device \/ Load \/ Counter
  PROVE  at = "wait" /\ BenchRange' /\ TrialInv' /\ UNCHANGED <<masterVars, running, port>>
<1>1. UNCHANGED <<masterVars, running, port>>
  BY Zenon DEF Device, Load, Counter, Count, Lose, LoadTask, Arrive, Warmup, SendFrame, LoadEnd,
               CounterEnd
<1>2. at = "wait"
  <2>1. SUFFICES ASSUME BetweenTrials PROVE FALSE
    BY Zenon DEF TrialInv
  <2>2. \A p \in Ports : ~(in_dut[p] > 0)
    BY <2>1 DEF BetweenTrials, Clear, NoFrames
  <2>3. /\ \A t \in LoadTasks : task[t] \notin {"start", "warmup", "run"}
        /\ task[COUNTER] \notin {"start", "warmup", "run"}
    BY <2>1, Zenon DEF BetweenTrials, Clear
  <2>4. ~Device
    BY <2>2, Zenon DEF Device, Count, Lose
  <2>5. ~Load
    BY <2>3, Zenon DEF Load, LoadTask, Arrive, Warmup, SendFrame, LoadEnd
  <2>6. ~Counter
    BY <2>3, Zenon DEF Counter, Arrive, CounterEnd
  <2>7. QED
    BY <2>4, <2>5, <2>6, Zenon
<1>3. InTrial /\ UNCHANGED <<rate, capacity, at>>
  BY <1>1, <1>2, Zenon DEF TrialInv, masterVars, config, search
<1>4. TrialRange' /\ InTrial'
  <2>1. CASE Device
    BY <1>3, <2>1, DeviceTrial, Zenon DEF Device
  <2>2. CASE Load
    BY <1>3, <2>2, ArriveTrial, WarmupTrial, SendFrameTrial, LoadEndTrial, Zenon DEF Load, LoadTask
  <2>3. CASE Counter
    BY <1>3, <2>3, ArriveTrial, CounterEndTrial, Zenon DEF Counter
  <2>4. QED
    BY <2>1, <2>2, <2>3, Zenon
<1>5. QED
  BY <1>1, <1>2, <1>3, <1>4, Zenon DEF BenchRange, TrialInv, masterVars, config, search

LEMMA StartsTrial ==
  ASSUME BenchRange, TrialInv, StartTrial
  PROVE  TrialRange' /\ TrialInv'
<1>1. PICK n \in {1, 3} : n = NumQueues(rate, MAX_LINK_RATE)
  BY Zenon DEF NumQueues
<1>2. /\ task' = [t \in LoadTasks \union {COUNTER} |-> IF t <= n THEN "start" ELSE "none"]
      /\ sent' = [t \in LoadTasks |-> 0] /\ stats' = NoFrames /\ in_dut' = in_dut
      /\ at' = "wait" /\ at # "wait" /\ UNCHANGED <<port, rate, capacity>>
  BY <1>1, Zenon DEF StartTrial, Launch, config
<1>3. /\ in_dut' = NoFrames
      /\ \A p \in Ports : in_dut'[p] = 0 /\ stats'[p] = 0
  BY <1>2, Zenon DEF TrialInv, BetweenTrials, Clear, NoFrames
<1>4. TrialRange'
  <2>1. \A t \in LoadTasks \union {COUNTER} : (IF t <= n THEN "start" ELSE "none") \in Statuses
    BY Zenon DEF Statuses
  <2>2. task' \in [LoadTasks \union {COUNTER} -> Statuses]
    BY <1>2, <2>1, Zenon
  <2>3. sent' \in [LoadTasks -> Nat] /\ NoFrames \in [Ports -> Nat]
    BY <1>2 DEF NoFrames
  <2>4. QED
    BY <1>2, <1>3, <2>2, <2>3, Zenon DEF TrialRange
<1>5. /\ task'[COUNTER] # "done" /\ task'[1] # "none" /\ \A t \in LoadTasks : task'[t] # "done"
      /\ \A t \in LoadTasks : Warmed(t)' = 0
  <2>1. 1 <= n
    BY <1>1
  <2>2. QED
    BY <1>2, <2>1, TasksOfTrial, Zenon DEF Warmed
<1>6. spkts' = 0
  BY <1>2, TasksOfTrial DEF spkts
<1>7. /\ port' \in Ports /\ port' - 1 \in Ports
  BY <1>2, PortsOfTrial, Zenon
<1>8. FramesOn(spkts)'
  <2>1. 0 + 0 <= 0 /\ 0 - 0 - 0 = 0 /\ Tolerable(0, 0)
    BY TolerableFacts
  <2>2. QED
    BY <1>3, <1>6, <1>7, <2>1, Zenon DEF FramesOn
<1>9. WarmupOn(Warmed(1) + Warmed(2) + Warmed(3))'
  <2>1. 0 + 0 <= 0 + 0 + 0
    OBVIOUS
  <2>2. Warmed(1)' = 0 /\ Warmed(2)' = 0 /\ Warmed(3)' = 0
    BY <1>5, TasksOfTrial, Zenon
  <2>3. QED
    BY <1>3, <1>7, <2>1, <2>2, Zenon DEF WarmupOn
<1>10. QED
  BY <1>2, <1>4, <1>5, <1>8, <1>9, Zenon DEF TrialInv, InTrial

\* When the tasks of a trial have returned, no port has more frames than the trial
\* counted as sent: there are as many warm-up frames as tasks that sent something.
LEMMA EndsTrial ==
  ASSUME BenchRange, InTrial, TrialDone
  PROVE  /\ BetweenTrials /\ spkts \in Nat /\ rpkts \in Nat /\ rpkts <= spkts /\ spkts > 0
         /\ capacity # -1 /\ rate <= capacity => Tolerable(spkts - rpkts, spkts)
         /\ LOSS_NUM < LOSS_DEN /\ Overloaded => ~Tolerable(spkts - rpkts, spkts)
<1>1. /\ Clear /\ task[COUNTER] = "done" /\ FramesOn(spkts)
      /\ WarmupOn(Warmed(1) + Warmed(2) + Warmed(3))
  BY Zenon DEF InTrial, TrialDone
<1>2. /\ \A p \in Ports : in_dut[p] = 0 /\ stats[p] \in Nat
      /\ spkts \in Nat /\ port \in Ports /\ port - 1 \in Ports
      /\ sent[1] \in Nat /\ sent[2] \in Nat /\ sent[3] \in Nat
  BY <1>1, SumsOfTrial, PortsOfTrial, TasksOfTrial, Zenon DEF Clear, NoFrames, BenchRange
<1>3. stats[port] \in Nat /\ stats[port - 1] \in Nat /\ in_dut[port] = 0 /\ in_dut[port - 1] = 0
  BY <1>2, Zenon
<1>4. /\ stats[port] <= spkts
      /\ capacity # -1 /\ rate <= capacity => Tolerable(spkts - stats[port], spkts)
  <2>1. stats[port] + 0 = stats[port] /\ spkts - stats[port] - 0 = spkts - stats[port]
    BY <1>2, <1>3
  <2>2. QED
    BY <1>1, <1>3, <2>1, Zenon DEF FramesOn
<1>5. \A t \in LoadTasks : Warmed(t) = 0 \/ (Warmed(t) = 1 /\ sent[t] > 0)
  BY <1>1, Zenon DEF Warmed, InTrial, Clear
<1>6. task[1] = "done" /\ sent[1] > 0
  BY <1>1, TasksOfTrial, Zenon DEF InTrial, Clear
<1>7. stats[port - 1] <= spkts
  <2>1. /\ Warmed(1) = 0 \/ (Warmed(1) = 1 /\ sent[1] > 0)
        /\ Warmed(2) = 0 \/ (Warmed(2) = 1 /\ sent[2] > 0)
        /\ Warmed(3) = 0 \/ (Warmed(3) = 1 /\ sent[3] > 0)
    BY <1>5, TasksOfTrial, Zenon
  <2> HIDE DEF Warmed
  <2>2. QED
    BY <1>1, <1>2, <1>3, <2>1 DEF WarmupOn, spkts
<1>8. \A p \in Ports : stats[p] <= spkts
  <2>1. \A p \in Ports : p > port \/ p < port - 1 => stats[p] = 0
    BY <1>1, Zenon DEF FramesOn
  <2>2. 0 <= spkts
    BY <1>2
  <2>3. QED
    BY <1>4, <1>7, <2>1, <2>2, PortsOfTrial, Zenon
<1>9. spkts > 0
  BY <1>2, <1>6 DEF spkts
<1>10. LOSS_NUM < LOSS_DEN /\ Overloaded => ~Tolerable(spkts - stats[port], spkts)
  <2>1. spkts - 0 = spkts
    BY <1>2
  <2>2. LOSS_NUM < LOSS_DEN => ~Tolerable(spkts, spkts)
    BY <1>2, <1>9, TolerableFacts, Zenon
  <2>3. QED
    BY <1>1, <2>1, <2>2, Zenon DEF FramesOn
<1>11. QED
  BY <1>1, <1>2, <1>3, <1>4, <1>8, <1>9, <1>10, Zenon DEF BetweenTrials, rpkts

-----------------------------------------------------------------------------
(* The throughput and frame loss benchmarks: rates and ports.               *)

\* How many more trials the search of an iteration can take.
Room(l, u, r) == u - l + IF r = u /\ u - l > 1 THEN 1 ELSE 0

Narrowing(l, u, r, p) ==
  /\ l < r /\ r <= u /\ u <= MAX_LINK_RATE
  /\ p + Room(l, u, r) <= UDP_PORT + MAX_LINK_RATE + 1

RateInv ==
  /\ benchmark = "throughput" =>
       /\ Len(results) = iteration /\ at # "undo"
       /\ at = "config" => iteration = 0
       /\ at \in {"trial", "wait"} =>
            iteration > 0 /\ Narrowing(binSearch.lowerLimit, binSearch.upperLimit, rate, port)
  /\ benchmark = "frameloss" =>
       /\ at # "iterate" /\ rate <= MAX_LINK_RATE /\ port + rate <= UDP_PORT + MAX_LINK_RATE
       /\ at = "wait" => rate >= 1

BenchInv == BenchRange /\ TrialInv /\ RateInv

\* What a verdict on a throughput trial leads to.
Goes(l, u, r, where, p) ==
  /\ binSearch' = [lowerLimit |-> l, upperLimit |-> u]
  /\ rate' = r /\ at' = where /\ port' = p

ThroughputOutcome(l, u, c, top) ==
  \/ top /\ c = u /\ Goes(l, u, c, "iterate", port)
  \/ top /\ c < u /\ u - c < 2 * step /\ Goes(c, u, c, "iterate", port)
  \/ top /\ \E v \in c + 1 .. u : (v = u => u = c + 1) /\ Goes(c, u, v, "trial", port + 1)
  \/ ~top /\ c - l < 2 * step /\ Goes(l, c, c, "iterate", port)
  \/ ~top /\ \E v \in l + 1 .. c : v # c /\ Goes(l, c, v, "trial", port + 1)

LEMMA SearchInterval ==
  ASSUME BenchRange, RateInv, benchmark = "throughput", at \in {"trial", "wait"}
  PROVE  \E l, u \in Nat :
           /\ binSearch = [lowerLimit |-> l, upperLimit |-> u]
           /\ l = binSearch.lowerLimit /\ u = binSearch.upperLimit
           /\ Narrowing(l, u, rate, port) /\ l < u /\ rate \in Nat
<1>1. /\ binSearch \in [lowerLimit : Nat, upperLimit : Nat] /\ rate \in Int
      /\ Narrowing(binSearch.lowerLimit, binSearch.upperLimit, rate, port)
  BY Zenon DEF BenchRange, RateInv
<1> DEFINE l == binSearch.lowerLimit
           u == binSearch.upperLimit
<1>2. l \in Nat /\ u \in Nat /\ binSearch = [lowerLimit |-> l, upperLimit |-> u]
  BY <1>1
<1> HIDE DEF l, u
<1>3. l < rate /\ rate <= u
  BY <1>1, Zenon DEF Narrowing, l, u
<1>4. l < u /\ rate \in Nat
  BY <1>1, <1>2, <1>3
<1>5. QED
  BY <1>1, <1>2, <1>4, Zenon DEF l, u

LEMMA ThroughputCases ==
  ASSUME BenchInv, at = "wait", JudgeThroughput, NEW l \in Nat, NEW u \in Nat, l < u,
         binSearch = [lowerLimit |-> l, upperLimit |-> u], Narrowing(l, u, rate, port),
         rate \in Nat, TrialDone
  PROVE  ThroughputOutcome(l, u, rate, validRun)
<1> DEFINE n == next(binSearch, rate, validRun, step)
<1>1. spkts \in Nat /\ rpkts \in Nat
  BY EndsTrial, Zenon DEF BenchInv, TrialInv
<1>2. validRun \in BOOLEAN
  BY <1>1, BenchAssumption DEF validRun
<1>3. Outcome(n, l, u, rate, validRun, step)
  BY <1>2, NextOutcome, ZenonT(40) DEF BenchInv, BenchRange, Narrowing
<1>4. /\ binSearch' = n.bs /\ rate' = n.val
      /\ IF n.finished THEN at' = "iterate" /\ port' = port ELSE at' = "trial" /\ port' = port + 1
  BY Zenon DEF JudgeThroughput
<1> HIDE DEF n
<1>5. ASSUME NEW a, NEW b, NEW v, n = Step(a, b, v, TRUE)
      PROVE  Goes(a, b, v, "iterate", port)
  <2>1. n.bs = [lowerLimit |-> a, upperLimit |-> b] /\ n.finished = TRUE /\ n.val = v
    BY <1>5, Zenon DEF Step
  <2>2. QED
    BY <1>4, <2>1, Zenon DEF Goes
<1>6. ASSUME NEW a, NEW b, NEW v, n = Step(a, b, v, FALSE)
      PROVE  Goes(a, b, v, "trial", port + 1)
  <2>1. n.bs = [lowerLimit |-> a, upperLimit |-> b] /\ n.finished = FALSE /\ n.val = v
    BY <1>6, Zenon DEF Step
  <2>2. QED
    BY <1>4, <2>1, Zenon DEF Goes
<1> HIDE DEF validRun
<1>7. QED
  BY <1>3, <1>5, <1>6, Zenon DEF Outcome, ThroughputOutcome

\* A verdict that goes on leaves a port for the next trial.
LEMMA NarrowingGoesOn ==
  ASSUME NEW l \in Nat, NEW u \in Nat, NEW c \in Nat, NEW p \in Nat, Narrowing(l, u, c, p),
         p >= UDP_PORT
  PROVE  /\ \A v \in c + 1 .. u : (v = u => u = c + 1) =>
              Narrowing(c, u, v, p + 1) /\ v \in Nat /\ p + 1 \in UDP_PORT .. UDP_PORT + MAX_LINK_RATE
         /\ \A v \in l + 1 .. c : v # c =>
              Narrowing(l, c, v, p + 1) /\ v \in Nat /\ p + 1 \in UDP_PORT .. UDP_PORT + MAX_LINK_RATE
<1>1. ASSUME NEW v \in c + 1 .. u, v = u => u = c + 1
      PROVE  Narrowing(c, u, v, p + 1) /\ v \in Nat /\ p + 1 \in UDP_PORT .. UDP_PORT + MAX_LINK_RATE
  BY <1>1, BenchAssumption DEF Narrowing, Room
<1>2. ASSUME NEW v \in l + 1 .. c, v # c
      PROVE  Narrowing(l, c, v, p + 1) /\ v \in Nat /\ p + 1 \in UDP_PORT .. UDP_PORT + MAX_LINK_RATE
  BY <1>2, BenchAssumption DEF Narrowing, Room
<1>3. QED
  BY <1>1, <1>2, Zenon

LEMMA IterationStarts ==
  Narrowing(0, MAX_LINK_RATE, MAX_LINK_RATE, UDP_PORT)
BY BenchAssumption DEF Narrowing, Room

LEMMA BetweenTrialsStays ==
  ASSUME BenchRange, BetweenTrials, UNCHANGED <<task, sent, in_dut, stats>>
  PROVE  TrialRange' /\ BetweenTrials'
BY Zenon DEF BenchRange, TrialRange, BetweenTrials, Clear, NoFrames, spkts, Ports

LEMMA BenchInit ==
  ASSUME Init
  PROVE  BenchInv
<1>1. /\ step \in Nat \ {0} /\ capacity \in Nat \union {-1} /\ running \in BOOLEAN
      /\ benchmark \in {"throughput", "frameloss"} /\ at = "config" /\ lastNoLostFrame \in BOOLEAN
      /\ iteration = 0 /\ results = <<>> /\ rate = MAX_LINK_RATE /\ port = UDP_PORT
      /\ binSearch = [lowerLimit |-> 0, upperLimit |-> MAX_LINK_RATE]
  BY BenchAssumption, Zenon DEF Init, TrialInit, create
<1>2. /\ task = [t \in LoadTasks \union {COUNTER} |-> "none"] /\ sent = [t \in LoadTasks |-> 0]
      /\ in_dut = NoFrames /\ stats = NoFrames
  BY Zenon DEF Init, TrialInit
<1>3. /\ port \in UDP_PORT .. UDP_PORT + MAX_LINK_RATE /\ iteration \in 0 .. NUM_ITERATIONS
      /\ rate \in Int /\ results \in Seq(Measurements) /\ Len(results) = 0
      /\ binSearch \in [lowerLimit : Nat, upperLimit : Nat]
      /\ rate <= MAX_LINK_RATE /\ port + rate <= UDP_PORT + MAX_LINK_RATE
  BY <1>1, BenchAssumption
<1>4. sent \in [LoadTasks -> Nat] /\ NoFrames \in [Ports -> Nat]
  BY <1>2 DEF NoFrames
<1>5. task \in [LoadTasks \union {COUNTER} -> Statuses]
  BY <1>2, Zenon DEF Statuses
<1>6. BenchRange
  BY <1>1, <1>2, <1>3, <1>4, <1>5, Zenon DEF BenchRange, TrialRange, Masters
<1>7. BetweenTrials
  <2>1. spkts = 0
    BY <1>2, TasksOfTrial DEF spkts
  <2>2. 0 <= 0
    OBVIOUS
  <2>3. QED
    BY <1>2, <2>1, <2>2, Zenon DEF BetweenTrials, Clear, NoFrames
<1>8. QED
  BY <1>1, <1>3, <1>6, <1>7, Zenon DEF BenchInv, TrialInv, RateInv

LEMMA BenchConfig ==
  ASSUME BenchInv, Config
  PROVE  BenchInv'
<1>1. /\ UNCHANGED <<task, sent, in_dut, stats, port, running, benchmark, step, capacity>>
      /\ UNCHANGED <<iteration, rate, binSearch, lastNoLostFrame, results>>
      /\ at = "config" /\ at' = IF benchmark = "throughput" THEN "iterate" ELSE "trial"
  BY Zenon DEF Config, trialVars, config, search
<1>2. TrialRange' /\ BetweenTrials'
  BY <1>1, BetweenTrialsStays, Zenon DEF BenchInv, TrialInv
<1>3. BenchRange'
  BY <1>1, <1>2, Zenon DEF BenchInv, BenchRange, Masters
<1>4. QED
  BY <1>1, <1>2, <1>3, Zenon DEF BenchInv, TrialInv, RateInv

LEMMA BenchNextIteration ==
  ASSUME BenchInv, NextIteration
  PROVE  BenchInv'
<1>1. /\ UNCHANGED <<task, sent, in_dut, stats, running, benchmark, step, capacity, lastNoLostFrame>>
      /\ at = "iterate" /\ at' = "trial" /\ iteration < NUM_ITERATIONS /\ iteration' = iteration + 1
      /\ binSearch' = [lowerLimit |-> 0, upperLimit |-> MAX_LINK_RATE] /\ rate' = MAX_LINK_RATE
      /\ port' = UDP_PORT
      /\ results' = Append(results, [rate |-> 0, spkts |-> 0, rpkts |-> 0])
  BY Zenon DEF NextIteration, config, create
<1>2. /\ iteration \in 0 .. NUM_ITERATIONS /\ results \in Seq(Measurements)
      /\ benchmark = "throughput" /\ Len(results) = iteration
  BY <1>1, Zenon DEF BenchInv, BenchRange, RateInv
<1>3. TrialRange' /\ BetweenTrials'
  BY <1>1, BetweenTrialsStays, Zenon DEF BenchInv, TrialInv
<1>4. /\ iteration' \in 0 .. NUM_ITERATIONS /\ iteration' > 0
      /\ port' \in UDP_PORT .. UDP_PORT + MAX_LINK_RATE /\ rate' \in Int
      /\ binSearch' \in [lowerLimit : Nat, upperLimit : Nat]
  BY <1>1, <1>2, BenchAssumption, SMTT(30)
<1>5. results' \in Seq(Measurements) /\ Len(results') = iteration'
  BY <1>1, <1>2 DEF Measurements
<1>6. BenchRange'
  BY <1>1, <1>3, <1>4, <1>5, Zenon DEF BenchInv, BenchRange, Masters
<1>7. Narrowing(binSearch'.lowerLimit, binSearch'.upperLimit, rate', port')
  <2>1. binSearch'.lowerLimit = 0 /\ binSearch'.upperLimit = MAX_LINK_RATE
    BY <1>1, Zenon
  <2>2. QED
    BY <1>1, <2>1, IterationStarts, Zenon
<1>8. RateInv'
  <2>1. benchmark' = "throughput" /\ at' = "trial"
    BY <1>1, <1>2, Zenon
  <2>2. QED
    BY <1>4, <1>5, <1>7, <2>1, Zenon DEF RateInv
<1>9. QED
  BY <1>1, <1>3, <1>6, <1>8, Zenon DEF BenchInv, TrialInv

LEMMA BenchStartTrial ==
  ASSUME BenchInv, StartTrial
  PROVE  BenchInv'
<1>1. /\ UNCHANGED <<port, running, benchmark, step, capacity>>
      /\ UNCHANGED <<iteration, rate, binSearch, lastNoLostFrame, results>>
      /\ at = "trial" /\ at' = "wait" /\ RateLeft
  BY Zenon DEF StartTrial, config
<1>2. TrialRange' /\ TrialInv'
  BY StartsTrial, Zenon DEF BenchInv
<1>3. BenchRange'
  BY <1>1, <1>2, Zenon DEF BenchInv, BenchRange, Masters
<1>4. benchmark = "frameloss" => rate >= 1
  <2>1. rate \in Int
    BY Zenon DEF BenchInv, BenchRange
  <2>2. QED
    BY <1>1, <2>1, BenchAssumption DEF RateLeft
<1>5. QED
  BY <1>1, <1>2, <1>3, <1>4, Zenon DEF BenchInv, RateInv

LEMMA BenchLeaveLoop ==
  ASSUME BenchInv, LeaveLoop
  PROVE  BenchInv'
<1>1. /\ UNCHANGED <<task, sent, in_dut, stats, port, running, benchmark, step, capacity>>
      /\ UNCHANGED <<iteration, rate, binSearch, lastNoLostFrame, results>>
      /\ at = "trial" /\ at' = IF benchmark = "throughput" THEN "iterate" ELSE "undo"
  BY Zenon DEF LeaveLoop, trialVars, config, search
<1>2. TrialRange' /\ BetweenTrials'
  BY <1>1, BetweenTrialsStays, Zenon DEF BenchInv, TrialInv
<1>3. BenchRange'
  BY <1>1, <1>2, Zenon DEF BenchInv, BenchRange, Masters
<1>4. QED
  BY <1>1, <1>2, <1>3, Zenon DEF BenchInv, TrialInv, RateInv

LEMMA BenchUndoConfig ==
  ASSUME BenchInv, UndoConfig
  PROVE  BenchInv'
<1>1. /\ UNCHANGED <<task, sent, in_dut, stats, port, running, benchmark, step, capacity>>
      /\ UNCHANGED <<iteration, rate, binSearch, lastNoLostFrame, results>>
      /\ at \in {"undo", "iterate"} /\ at' = "done"
  BY Zenon DEF UndoConfig, trialVars, config, search
<1>2. TrialRange' /\ BetweenTrials'
  BY <1>1, BetweenTrialsStays, Zenon DEF BenchInv, TrialInv
<1>3. BenchRange'
  BY <1>1, <1>2, Zenon DEF BenchInv, BenchRange, Masters
<1>4. QED
  BY <1>1, <1>2, <1>3, Zenon DEF BenchInv, TrialInv, RateInv

LEMMA BenchStop ==
  ASSUME BenchInv, Stop
  PROVE  BenchInv'
<1>1. /\ UNCHANGED <<task, sent, in_dut, stats, port, benchmark, step, capacity, at>>
      /\ UNCHANGED <<iteration, rate, binSearch, lastNoLostFrame, results>> /\ running' = FALSE
  BY Zenon DEF Stop, trialVars, masterVars, config, search
<1>2. BenchRange'
  BY <1>1, Zenon DEF BenchInv, BenchRange, TrialRange, Ports
<1>3. TrialInv'
  BY <1>1, Zenon DEF BenchInv, TrialInv, InTrial, BetweenTrials, Clear, FramesOn, WarmupOn, Warmed,
                     spkts, NoFrames, Overloaded, Ports
<1>4. QED
  BY <1>1, <1>2, <1>3, Zenon DEF BenchInv, RateInv

LEMMA BenchTrialStep ==
  ASSUME BenchInv, Device \/ Load \/ Counter
  PROVE  BenchInv'
<1>1. BenchRange' /\ TrialInv' /\ UNCHANGED <<masterVars, running, port>>
  BY TrialSteps, Zenon DEF BenchInv
<1>2. UNCHANGED <<benchmark, at, iteration, rate, binSearch, results, port>>
  BY <1>1, Zenon DEF masterVars, config, search
<1>3. QED
  BY <1>1, <1>2, Zenon DEF BenchInv, RateInv

\* A trial as results records it.
LEMMA TrialRecorded ==
  ASSUME BenchInv, at = "wait", TrialDone
  PROVE  /\ Trial \in Measurements /\ BetweenTrials
         /\ Trial.rate = rate /\ Trial.spkts = spkts /\ Trial.rpkts = rpkts
<1>1. spkts \in Nat /\ rpkts \in Nat /\ BetweenTrials
  BY EndsTrial, Zenon DEF BenchInv, TrialInv
<1>2. rate \in Int
  BY Zenon DEF BenchInv, BenchRange
<1>3. QED
  BY <1>1, <1>2, Zenon DEF Trial, Measurements

LEMMA KeptAt ==
  ASSUME NEW s \in Seq(Measurements), NEW i \in 1 .. Len(s), NEW e \in Measurements
  PROVE  /\ [s EXCEPT ![i] = e] \in Seq(Measurements) /\ Len([s EXCEPT ![i] = e]) = Len(s)
         /\ DOMAIN [s EXCEPT ![i] = e] = DOMAIN s
         /\ \A k \in DOMAIN s : [s EXCEPT ![i] = e][k] = IF k = i THEN e ELSE s[k]
OBVIOUS

LEMMA ThroughputResults ==
  ASSUME BenchInv, at = "wait", TrialDone, JudgeThroughput
  PROVE  /\ results' \in Seq(Measurements) /\ Len(results') = iteration /\ iteration \in DOMAIN results
         /\ DOMAIN results' = DOMAIN results
         /\ \A k \in DOMAIN results :
              results'[k] = IF validRun /\ k = iteration THEN Trial ELSE results[k]
<1>1. results \in Seq(Measurements) /\ Len(results) = iteration /\ iteration > 0
  BY Zenon DEF BenchInv, BenchRange, RateInv, JudgeThroughput
<1>2. iteration \in 1 .. Len(results) /\ DOMAIN results = 1 .. Len(results)
  BY <1>1
<1>3. results' = IF validRun THEN [results EXCEPT ![iteration] = Trial] ELSE results
  BY Zenon DEF JudgeThroughput
<1>4. Trial \in Measurements
  BY TrialRecorded, Zenon
<1>5. CASE validRun
  BY <1>1, <1>2, <1>3, <1>4, <1>5, KeptAt, Zenon
<1>6. CASE ~validRun
  BY <1>1, <1>2, <1>3, <1>6, Zenon
<1>7. QED
  BY <1>5, <1>6, Zenon

LEMMA BenchJudgeThroughput ==
  ASSUME BenchInv, EndTrial, JudgeThroughput
  PROVE  BenchInv'
<1>1. /\ UNCHANGED <<task, sent, in_dut, stats, running, benchmark, step, capacity, iteration>>
      /\ at = "wait" /\ TrialDone /\ benchmark = "throughput" /\ lastNoLostFrame' = lastNoLostFrame
  BY Zenon DEF EndTrial, config, JudgeThroughput
<1>2. TrialRange' /\ BetweenTrials'
  BY <1>1, TrialRecorded, BetweenTrialsStays, Zenon DEF BenchInv
<1>3. results' \in Seq(Measurements) /\ Len(results') = iteration
  BY <1>1, ThroughputResults, Zenon
<1>4. PICK l, u \in Nat : /\ binSearch = [lowerLimit |-> l, upperLimit |-> u]
                          /\ Narrowing(l, u, rate, port) /\ l < u /\ rate \in Nat
  BY <1>1, SearchInterval, Zenon DEF BenchInv
<1>5. ThroughputOutcome(l, u, rate, validRun)
  BY <1>1, <1>4, ThroughputCases, Zenon
<1>6. port \in Nat /\ port >= UDP_PORT /\ port \in UDP_PORT .. UDP_PORT + MAX_LINK_RATE
  <2>1. port \in UDP_PORT .. UDP_PORT + MAX_LINK_RATE
    BY Zenon DEF BenchInv, BenchRange
  <2>2. QED
    BY <2>1, BenchAssumption
<1>7. \E a, b, v \in Nat : \E p \in UDP_PORT .. UDP_PORT + MAX_LINK_RATE :
        \/ Goes(a, b, v, "iterate", p)
        \/ Goes(a, b, v, "trial", p) /\ Narrowing(a, b, v, p)
  <2> HIDE DEF validRun
  <2>1. /\ \A v \in rate + 1 .. u : (v = u => u = rate + 1) =>
             /\ Narrowing(rate, u, v, port + 1) /\ v \in Nat
             /\ port + 1 \in UDP_PORT .. UDP_PORT + MAX_LINK_RATE
        /\ \A v \in l + 1 .. rate : v # rate =>
             /\ Narrowing(l, rate, v, port + 1) /\ v \in Nat
             /\ port + 1 \in UDP_PORT .. UDP_PORT + MAX_LINK_RATE
    BY <1>4, <1>6, NarrowingGoesOn, Zenon
  <2>2. QED
    BY <1>4, <1>5, <1>6, <2>1, Zenon DEF ThroughputOutcome
<1>8. PICK a \in Nat, b \in Nat, v \in Nat, p \in UDP_PORT .. UDP_PORT + MAX_LINK_RATE :
        \/ Goes(a, b, v, "iterate", p)
        \/ Goes(a, b, v, "trial", p) /\ Narrowing(a, b, v, p)
  BY <1>7, Zenon
<1>9. /\ binSearch' = [lowerLimit |-> a, upperLimit |-> b] /\ rate' = v /\ port' = p
      /\ at' = "iterate" \/ (at' = "trial" /\ Narrowing(a, b, v, p))
  BY <1>8, Zenon DEF Goes
<1>10. /\ binSearch' \in [lowerLimit : Nat, upperLimit : Nat] /\ rate' \in Int
       /\ binSearch'.lowerLimit = a /\ binSearch'.upperLimit = b
  BY <1>9
<1>11. BenchRange'
  BY <1>1, <1>2, <1>3, <1>9, <1>10, Zenon DEF BenchInv, BenchRange, Masters
<1>12. RateInv'
  <2>1. iteration > 0 /\ benchmark' = "throughput"
    BY <1>1, Zenon DEF BenchInv, RateInv
  <2>2. QED
    BY <1>1, <1>3, <1>9, <1>10, <2>1, Zenon DEF RateInv
<1>13. QED
  BY <1>2, <1>9, <1>11, <1>12, Zenon DEF BenchInv, TrialInv

LEMMA BenchJudgeFrameLoss ==
  ASSUME BenchInv, EndTrial, JudgeFrameLoss
  PROVE  BenchInv'
<1>1. /\ UNCHANGED <<task, sent, in_dut, stats, running, benchmark, step, capacity, iteration>>
      /\ at = "wait" /\ TrialDone /\ benchmark = "frameloss" /\ binSearch' = binSearch
      /\ results' = Append(results, Trial)
      /\ \/ at' = "undo" /\ UNCHANGED <<lastNoLostFrame, rate, port>>
         \/ /\ lastNoLostFrame' = noLostFrame /\ rate' = rate - step /\ port' = port + 1
            /\ at' = "trial"
  BY Zenon DEF EndTrial, config, JudgeFrameLoss
<1>2. TrialRange' /\ BetweenTrials'
  BY <1>1, TrialRecorded, BetweenTrialsStays, Zenon DEF BenchInv
<1>3. results' \in Seq(Measurements)
  <2>1. results \in Seq(Measurements) /\ Trial \in Measurements
    BY <1>1, TrialRecorded, Zenon DEF BenchInv, BenchRange
  <2>2. QED
    BY <1>1, <2>1
<1>4. /\ rate \in Int /\ rate >= 1 /\ rate <= MAX_LINK_RATE /\ port + rate <= UDP_PORT + MAX_LINK_RATE
      /\ port \in UDP_PORT .. UDP_PORT + MAX_LINK_RATE /\ step \in Nat \ {0}
  BY <1>1, Zenon DEF BenchInv, BenchRange, RateInv
<1>5. /\ rate' \in Int /\ rate' <= MAX_LINK_RATE /\ port' + rate' <= UDP_PORT + MAX_LINK_RATE
      /\ port' \in UDP_PORT .. UDP_PORT + MAX_LINK_RATE
  BY <1>1, <1>4, BenchAssumption
<1>6. lastNoLostFrame' \in BOOLEAN
  BY <1>1, Zenon DEF BenchInv, BenchRange, noLostFrame
<1>7. BenchRange'
  BY <1>1, <1>2, <1>3, <1>5, <1>6, Zenon DEF BenchInv, BenchRange, Masters
<1>8. RateInv'
  BY <1>1, <1>5, Zenon DEF RateInv
<1>9. QED
  BY <1>1, <1>2, <1>7, <1>8, Zenon DEF BenchInv, TrialInv

LEMMA BenchInductive ==
  ASSUME BenchInv, [Next]_vars
  PROVE  BenchInv'
<1>1. CASE UNCHANGED vars
  <2>1. /\ UNCHANGED <<task, sent, in_dut, stats, port, benchmark, step, capacity, at, running>>
        /\ UNCHANGED <<iteration, rate, binSearch, lastNoLostFrame, results>>
    BY <1>1, Zenon DEF vars, trialVars, masterVars, config, search
  <2>2. BenchRange'
    BY <2>1, Zenon DEF BenchInv, BenchRange, TrialRange, Ports
  <2>3. TrialInv'
    BY <2>1, Zenon DEF BenchInv, TrialInv, InTrial, BetweenTrials, Clear, FramesOn, WarmupOn,
                       Warmed, spkts, NoFrames, Overloaded, Ports
  <2>4. QED
    BY <2>1, <2>2, <2>3, Zenon DEF BenchInv, RateInv
<1>2. CASE EndTrial
  BY <1>2, BenchJudgeThroughput, BenchJudgeFrameLoss, Zenon DEF EndTrial
<1>3. CASE Master /\ ~EndTrial
  BY <1>3, BenchConfig, BenchNextIteration, BenchStartTrial, BenchLeaveLoop, BenchUndoConfig,
     Zenon DEF Master
<1>4. CASE Stop
  BY <1>4, BenchStop, Zenon
<1>5. CASE Device \/ Load \/ Counter
  BY <1>5, BenchTrialStep, Zenon
<1>6. QED
  BY <1>1, <1>2, <1>3, <1>4, <1>5, Zenon DEF Next

-----------------------------------------------------------------------------
(* What the throughput and frame loss benchmarks report.                    *)

Valid(r) == (r.spkts - r.rpkts) * LOSS_DEN <= LOSS_NUM * r.spkts

ValidInv == benchmark = "throughput" => \A k \in DOMAIN results : Valid(results[k])

LEMMA ValidInductive ==
  ASSUME BenchInv, ValidInv, [Next]_vars
  PROVE  ValidInv'
<1>1. CASE NextIteration
  <2>1. /\ results' = Append(results, [rate |-> 0, spkts |-> 0, rpkts |-> 0])
        /\ benchmark' = benchmark /\ results \in Seq(Measurements)
    BY <1>1, Zenon DEF NextIteration, config, BenchInv, BenchRange
  <2>2. \A k \in DOMAIN results' :
          (k \in DOMAIN results /\ results'[k] = results[k])
          \/ results'[k] = [rate |-> 0, spkts |-> 0, rpkts |-> 0]
    BY <2>1, SMTT(30)
  <2>3. Valid([rate |-> 0, spkts |-> 0, rpkts |-> 0])
    BY BenchAssumption DEF Valid
  <2>4. QED
    BY <2>1, <2>2, <2>3, Zenon DEF ValidInv
<1>2. CASE EndTrial /\ JudgeThroughput
  <2>1. /\ DOMAIN results' = DOMAIN results /\ benchmark' = benchmark /\ benchmark = "throughput"
        /\ \A k \in DOMAIN results :
             results'[k] = IF validRun /\ k = iteration THEN Trial ELSE results[k]
    BY <1>2, ThroughputResults, Zenon DEF EndTrial, config, JudgeThroughput
  <2>2. validRun => Valid(Trial)
    BY Zenon DEF validRun, Valid, Trial
  <2>3. QED
    BY <2>1, <2>2, Zenon DEF ValidInv
<1>3. CASE EndTrial /\ JudgeFrameLoss
  BY <1>3, Zenon DEF EndTrial, JudgeFrameLoss, config, ValidInv
<1>4. CASE UNCHANGED <<benchmark, results>>
  BY <1>4, Zenon DEF ValidInv
<1>5. (Config \/ StartTrial \/ LeaveLoop \/ UndoConfig) => UNCHANGED <<benchmark, results>>
  BY Zenon DEF Config, StartTrial, LeaveLoop, UndoConfig, config, search
<1>6. (Stop \/ Device \/ Load \/ Counter \/ UNCHANGED vars) => UNCHANGED <<benchmark, results>>
  BY Zenon DEF Stop, Device, Load, Counter, vars, masterVars, config, search
<1>7. QED
  BY <1>1, <1>2, <1>3, <1>4, <1>5, <1>6, Zenon DEF Next, Master, EndTrial

\* ResultsValid: throughput.lua:208-217 keeps a trial as the result of an iteration
\* only when it met the loss limit; and no trial counts more frames than it sent
\* (throughput.lua:200-206, :253-259), whatever the warm-up of its successor does on
\* its port.
THEOREM ResultsAreValid == Spec => []ResultsValid
<1>1. Init => BenchInv /\ ValidInv
  <2>1. DOMAIN <<>> = {}
    OBVIOUS
  <2>2. QED
    BY <2>1, BenchInit, Zenon DEF Init, ValidInv
<1>2. BenchInv /\ ValidInv /\ [Next]_vars => BenchInv' /\ ValidInv'
  BY BenchInductive, ValidInductive, Zenon
<1>3. BenchInv /\ ValidInv => ResultsValid
  <2>1. SUFFICES ASSUME BenchInv, ValidInv PROVE ResultsValid
    OBVIOUS
  <2>2. /\ port \in Ports /\ spkts \in Nat
        /\ \A p \in Ports : in_dut[p] \in Nat /\ stats[p] \in Nat
    BY <2>1, PortsOfTrial, SumsOfTrial, Zenon DEF BenchInv, BenchRange
  <2>3. stats[port] + in_dut[port] <= spkts \/ stats[port] <= spkts
    BY <2>1, <2>2, Zenon DEF BenchInv, TrialInv, InTrial, FramesOn, BetweenTrials
  <2>4. stats[port] <= spkts
    BY <2>2, <2>3
  <2>5. QED
    BY <2>1, <2>4, Zenon DEF ResultsValid, ValidInv, Valid, rpkts
<1>4. QED
  BY <1>1, <1>2, <1>3, PTL DEF Spec

\* For a device that forwards rates up to its capacity, a search that is under way
\* has the highest rate it forwarded so far in its result and keeps the capacity
\* inside its interval.
Reported(r, cap, g) ==
  /\ r <= cap
  /\ (IF cap > MAX_LINK_RATE THEN MAX_LINK_RATE ELSE cap) - r < 2 * g

Bracketed(l, u, r, cap) == r = l /\ l <= cap /\ (u = MAX_LINK_RATE \/ cap < u)

SearchInv ==
  benchmark = "throughput" /\ capacity # -1 /\ running =>
    /\ \A k \in DOMAIN results :
         (k < iteration \/ at \in {"iterate", "done"}) => Reported(results[k].rate, capacity, step)
    /\ at \in {"trial", "wait"} =>
         Bracketed(binSearch.lowerLimit, binSearch.upperLimit, results[iteration].rate, capacity)

\* A trial is valid exactly when the device can forward its rate.
LEMMA ValidBelowCapacity ==
  ASSUME LOSS_NUM < LOSS_DEN, BenchInv, at = "wait", TrialDone, capacity # -1
  PROVE  validRun <=> rate <= capacity
<1>1. /\ rate <= capacity => Tolerable(spkts - rpkts, spkts)
      /\ Overloaded => ~Tolerable(spkts - rpkts, spkts)
  BY EndsTrial, Zenon DEF BenchInv, TrialInv
<1>2. rate <= capacity \/ Overloaded
  BY DEF BenchInv, BenchRange, Overloaded
<1>3. validRun <=> Tolerable(spkts - rpkts, spkts)
  BY Zenon DEF validRun, Tolerable
<1>4. Overloaded => ~(rate <= capacity)
  BY DEF BenchInv, BenchRange, Overloaded
<1>5. QED
  BY <1>1, <1>2, <1>3, <1>4, Zenon

\* What the verdicts of a search lead to, as numbers.
LEMMA SearchNumbers ==
  ASSUME NEW l \in Nat, NEW u \in Nat, NEW c \in Nat, NEW cap \in Nat, NEW g \in Nat \ {0},
         l < c, c <= u, u <= MAX_LINK_RATE, Bracketed(l, u, l, cap)
  PROVE  /\ c <= cap => /\ c = u => Reported(c, cap, g)
                        /\ u - c < 2 * g => Reported(c, cap, g)
                        /\ Bracketed(c, u, c, cap)
         /\ ~(c <= cap) => /\ c - l < 2 * g => Reported(l, cap, g)
                           /\ Bracketed(l, c, l, cap)
<1>1. MAX_LINK_RATE \in Nat
  BY BenchAssumption
<1>2. ASSUME c <= cap PROVE (c = u \/ u - c < 2 * g => Reported(c, cap, g)) /\ Bracketed(c, u, c, cap)
  BY <1>1, <1>2 DEF Reported, Bracketed
<1>3. ASSUME ~(c <= cap) PROVE (c - l < 2 * g => Reported(l, cap, g)) /\ Bracketed(l, c, l, cap)
  BY <1>1, <1>3 DEF Reported, Bracketed
<1>4. QED
  BY <1>2, <1>3, Zenon

LEMMA SearchJudge ==
  ASSUME LOSS_NUM < LOSS_DEN, BenchInv, SearchInv, EndTrial, JudgeThroughput
  PROVE  SearchInv'
<1>1. SUFFICES ASSUME capacity # -1, running PROVE SearchInv'
  BY Zenon DEF SearchInv, EndTrial, config
<1>2. /\ UNCHANGED <<running, benchmark, step, capacity, iteration>> /\ at = "wait" /\ TrialDone
      /\ benchmark = "throughput"
  BY Zenon DEF EndTrial, config, JudgeThroughput
<1>3. /\ step \in Nat \ {0} /\ capacity \in Nat /\ results \in Seq(Measurements)
      /\ Len(results) = iteration
  BY <1>1, <1>2, Zenon DEF BenchInv, BenchRange, RateInv
<1>4. PICK l, u \in Nat : /\ binSearch = [lowerLimit |-> l, upperLimit |-> u]
                          /\ l = binSearch.lowerLimit /\ u = binSearch.upperLimit
                          /\ Narrowing(l, u, rate, port) /\ l < u /\ rate \in Nat
  BY <1>2, SearchInterval, Zenon DEF BenchInv
<1>5. ThroughputOutcome(l, u, rate, rate <= capacity)
  <2>1. ThroughputOutcome(l, u, rate, validRun)
    BY <1>2, <1>4, ThroughputCases, Zenon
  <2>2. validRun <=> rate <= capacity
    BY <1>1, <1>2, ValidBelowCapacity, Zenon
  <2> HIDE DEF validRun
  <2>3. QED
    BY <2>1, <2>2, Zenon DEF ThroughputOutcome
<1>6. /\ iteration \in DOMAIN results /\ DOMAIN results' = DOMAIN results
      /\ \A k \in DOMAIN results : k # iteration => results'[k].rate = results[k].rate
      /\ rate <= capacity => results'[iteration].rate = rate
      /\ ~(rate <= capacity) => results'[iteration].rate = results[iteration].rate
  <2>1. /\ iteration \in DOMAIN results /\ DOMAIN results' = DOMAIN results
        /\ \A k \in DOMAIN results :
             results'[k] = IF validRun /\ k = iteration THEN Trial ELSE results[k]
    BY <1>2, ThroughputResults, Zenon
  <2>2. (validRun <=> rate <= capacity) /\ Trial.rate = rate
    BY <1>1, <1>2, ValidBelowCapacity, TrialRecorded, Zenon
  <2> HIDE DEF validRun, Trial
  <2>3. QED
    BY <2>1, <2>2, Zenon
<1>7. /\ Bracketed(l, u, results[iteration].rate, capacity)
      /\ \A k \in DOMAIN results : k < iteration => Reported(results[k].rate, capacity, step)
  BY <1>1, <1>2, <1>4, Zenon DEF SearchInv
<1>8. results[iteration].rate = l /\ Bracketed(l, u, l, capacity)
  BY <1>7, Zenon DEF Bracketed
<1>9. /\ rate <= capacity => /\ rate = u => Reported(rate, capacity, step)
                             /\ u - rate < 2 * step => Reported(rate, capacity, step)
                             /\ Bracketed(rate, u, rate, capacity)
      /\ ~(rate <= capacity) => /\ rate - l < 2 * step => Reported(l, capacity, step)
                                /\ Bracketed(l, rate, l, capacity)
  BY <1>3, <1>4, <1>8, SearchNumbers, Zenon DEF Narrowing
<1>10. \/ at' = "iterate" /\ Reported(results'[iteration].rate, capacity, step)
       \/ /\ at' = "trial"
          /\ \E a, b \in Nat : /\ binSearch' = [lowerLimit |-> a, upperLimit |-> b]
                               /\ Bracketed(a, b, results'[iteration].rate, capacity)
  BY <1>4, <1>5, <1>6, <1>8, <1>9, Zenon DEF ThroughputOutcome, Goes
<1>11. \A k \in DOMAIN results : k < iteration \/ k = iteration
  BY <1>3
<1>12. \A k \in DOMAIN results : k < iteration => k # iteration
  BY <1>3
<1>13. \A k \in DOMAIN results' : k < iteration => Reported(results'[k].rate, capacity, step)
  BY <1>6, <1>7, <1>12, Zenon
<1>14. CASE at' = "iterate" /\ Reported(results'[iteration].rate, capacity, step)
  BY <1>2, <1>6, <1>11, <1>13, <1>14, Zenon DEF SearchInv
<1>15. CASE /\ at' = "trial"
            /\ \E a, b \in Nat : /\ binSearch' = [lowerLimit |-> a, upperLimit |-> b]
                                 /\ Bracketed(a, b, results'[iteration].rate, capacity)
  <2>1. PICK a, b \in Nat : /\ binSearch' = [lowerLimit |-> a, upperLimit |-> b]
                            /\ Bracketed(a, b, results'[iteration].rate, capacity)
    BY <1>15, Zenon
  <2>2. binSearch'.lowerLimit = a /\ binSearch'.upperLimit = b
    BY <2>1, Zenon
  <2>3. QED
    BY <1>2, <1>13, <1>15, <2>1, <2>2, Zenon DEF SearchInv
<1>16. QED
  BY <1>10, <1>14, <1>15, Zenon

LEMMA SearchNextIteration ==
  ASSUME BenchInv, SearchInv, NextIteration
  PROVE  SearchInv'
<1>1. SUFFICES ASSUME benchmark = "throughput", capacity # -1, running PROVE SearchInv'
  BY Zenon DEF SearchInv, NextIteration, config
<1>2. /\ UNCHANGED <<running, benchmark, step, capacity>> /\ at = "iterate" /\ at' = "trial"
      /\ iteration' = iteration + 1
      /\ binSearch' = [lowerLimit |-> 0, upperLimit |-> MAX_LINK_RATE]
      /\ results' = Append(results, [rate |-> 0, spkts |-> 0, rpkts |-> 0])
  BY Zenon DEF NextIteration, config, create
<1>3. /\ capacity \in Nat /\ results \in Seq(Measurements) /\ Len(results) = iteration
  BY <1>1, <1>2, Zenon DEF BenchInv, BenchRange, RateInv
<1>4. /\ results'[iteration'] = [rate |-> 0, spkts |-> 0, rpkts |-> 0]
      /\ \A k \in DOMAIN results' : k < iteration' => k \in DOMAIN results /\ results'[k] = results[k]
  BY <1>2, <1>3
<1>5. \A k \in DOMAIN results : Reported(results[k].rate, capacity, step)
  BY <1>1, <1>2, Zenon DEF SearchInv
<1>6. /\ binSearch'.lowerLimit = 0 /\ binSearch'.upperLimit = MAX_LINK_RATE
      /\ results'[iteration'].rate = 0
  <2>1. binSearch'.lowerLimit = 0 /\ binSearch'.upperLimit = MAX_LINK_RATE
    BY <1>2, Zenon
  <2>2. results'[iteration'].rate = 0
    BY <1>4
  <2>3. QED
    BY <2>1, <2>2, Zenon
<1>7. Bracketed(0, MAX_LINK_RATE, 0, capacity)
  BY <1>3 DEF Bracketed
<1>8. QED
  BY <1>2, <1>4, <1>5, <1>6, <1>7, Zenon DEF SearchInv

LEMMA SearchInductive ==
  ASSUME LOSS_NUM < LOSS_DEN, BenchInv, SearchInv, [Next]_vars
  PROVE  SearchInv'
<1>1. CASE Config
  <2>1. /\ UNCHANGED <<running, benchmark, capacity, step, results, iteration>> /\ at = "config"
        /\ at' = IF benchmark = "throughput" THEN "iterate" ELSE "trial"
    BY <1>1, Zenon DEF Config, config, search
  <2>2. benchmark = "throughput" => Len(results) = 0 /\ results \in Seq(Measurements)
    BY <2>1, Zenon DEF BenchInv, BenchRange, RateInv
  <2>3. benchmark = "throughput" => DOMAIN results = {}
    BY <2>2
  <2>4. QED
    BY <2>1, <2>3, Zenon DEF SearchInv
<1>2. CASE StartTrial
  BY <1>2, Zenon DEF StartTrial, config, SearchInv
<1>3. CASE LeaveLoop
  <2>1. /\ UNCHANGED <<running, benchmark>> /\ at = "trial" /\ (~running \/ benchmark = "frameloss")
    BY <1>3, Zenon DEF LeaveLoop, config, RateOut
  <2>2. QED
    BY <2>1, Zenon DEF SearchInv
<1>4. CASE UndoConfig
  <2>1. /\ UNCHANGED <<running, benchmark, capacity, step, results, iteration>>
        /\ at' = "done" /\ at \in {"undo", "iterate"}
    BY <1>4, Zenon DEF UndoConfig, config, search
  <2>2. benchmark = "throughput" => at = "iterate"
    BY <2>1, Zenon DEF BenchInv, RateInv
  <2>3. QED
    BY <2>1, <2>2, Zenon DEF SearchInv
<1>5. CASE EndTrial /\ JudgeFrameLoss
  BY <1>5, Zenon DEF EndTrial, JudgeFrameLoss, config, SearchInv
<1>6. CASE Stop
  BY <1>6, Zenon DEF Stop, SearchInv
<1>7. CASE Device \/ Load \/ Counter \/ UNCHANGED vars
  <2>1. UNCHANGED <<running, benchmark, capacity, step, results, iteration, at, binSearch>>
    BY <1>7, Zenon DEF Device, Load, Counter, vars, masterVars, config, search
  <2>2. QED
    BY <2>1, Zenon DEF SearchInv
<1>8. QED
  BY <1>1, <1>2, <1>3, <1>4, <1>5, <1>6, <1>7, SearchNextIteration, SearchJudge,
     Zenon DEF Next, Master, EndTrial

\* SearchPrecise, for a loss limit below 100 percent: binarySearch:next (utils.lua)
\* brings throughput within two thresholds of the highest rate the device forwards.
THEOREM SearchIsPrecise ==
  ASSUME LOSS_NUM < LOSS_DEN
  PROVE  Spec => []SearchPrecise
<1>1. Init => BenchInv /\ SearchInv
  <2>1. DOMAIN <<>> = {}
    OBVIOUS
  <2>2. QED
    BY <2>1, BenchInit, Zenon DEF Init, SearchInv
<1>2. BenchInv /\ SearchInv /\ [Next]_vars => BenchInv' /\ SearchInv'
  BY BenchInductive, SearchInductive, Zenon
<1>3. SearchInv => SearchPrecise
  BY Zenon DEF SearchInv, SearchPrecise, Reported
<1>4. QED
  BY <1>1, <1>2, <1>3, PTL DEF Spec

\* The k-th trial of a sweep has the rate k - 1 steps below the link's, and no two
\* in a row but the last were without loss.
SweepInv ==
  LET n == Len(results) IN
  benchmark = "frameloss" =>
    /\ \A k \in 1 .. n : results[k].rate = MAX_LINK_RATE - (k - 1) * step
    /\ \A k \in 1 .. n - 2 : ~(Clean(k) /\ Clean(k + 1))
    /\ at \in {"config", "trial", "wait"} =>
         /\ rate = MAX_LINK_RATE - n * step
         /\ lastNoLostFrame <=> n > 0 /\ Clean(n)
         /\ \A k \in 1 .. n - 1 : ~(Clean(k) /\ Clean(k + 1))
    /\ at \in {"undo", "done"} /\ running =>
         \/ n > 1 /\ Clean(n - 1) /\ Clean(n)
         \/ rate = MAX_LINK_RATE - n * step /\ rate * 20 <= MAX_LINK_RATE

LEMMA SweepJudge ==
  ASSUME BenchInv, SweepInv, EndTrial, JudgeFrameLoss
  PROVE  SweepInv'
<1> DEFINE n == Len(results)
           IsClean(r) == r.spkts = r.rpkts
<1>1. /\ UNCHANGED <<running, benchmark, step>> /\ at = "wait" /\ TrialDone
      /\ benchmark = "frameloss" /\ results' = Append(results, Trial)
      /\ IF BothClean THEN at' = "undo" /\ UNCHANGED <<lastNoLostFrame, rate>>
         ELSE lastNoLostFrame' = noLostFrame /\ rate' = rate - step /\ at' = "trial"
  BY Zenon DEF EndTrial, config, JudgeFrameLoss
<1>2. /\ results \in Seq(Measurements) /\ rate \in Int /\ step \in Nat \ {0}
      /\ lastNoLostFrame \in BOOLEAN
  BY Zenon DEF BenchInv, BenchRange
<1>3. /\ n \in Nat /\ Len(results') = n + 1 /\ results'[n + 1] = Trial
      /\ \A k \in 1 .. n : results'[k] = results[k]
  BY <1>1, <1>2
<1>4. Trial.rate = rate /\ (IsClean(Trial) <=> noLostFrame)
  BY <1>1, TrialRecorded, Zenon DEF noLostFrame
<1>5. /\ \A k \in 1 .. n : results[k].rate = MAX_LINK_RATE - (k - 1) * step
      /\ rate = MAX_LINK_RATE - n * step
      /\ lastNoLostFrame <=> n > 0 /\ IsClean(results[n])
      /\ \A k \in 1 .. n - 1 : ~(IsClean(results[k]) /\ IsClean(results[k + 1]))
  BY <1>1, Zenon DEF SweepInv, Clean
<1> HIDE DEF n, IsClean
<1>6. \A k \in 1 .. n + 1 : results'[k].rate = MAX_LINK_RATE - (k - 1) * step
  <2>1. SUFFICES ASSUME NEW k \in 1 .. n + 1
                 PROVE  results'[k].rate = MAX_LINK_RATE - (k - 1) * step
    OBVIOUS
  <2>2. CASE k = n + 1
    <3>1. k - 1 = n
      BY <1>3, <2>2
    <3>2. QED
      BY <1>3, <1>4, <1>5, <2>2, <3>1, Zenon
  <2>3. CASE k # n + 1
    <3>1. k \in 1 .. n
      BY <1>3, <2>3
    <3>2. QED
      BY <1>3, <1>5, <3>1, Zenon
  <2>4. QED
    BY <2>2, <2>3, Zenon
<1>7. \A k \in 1 .. n - 1 : ~(IsClean(results'[k]) /\ IsClean(results'[k + 1]))
  <2>1. \A k \in 1 .. n - 1 : k \in 1 .. n /\ k + 1 \in 1 .. n
    BY <1>3
  <2>2. QED
    BY <1>3, <1>5, <2>1, Zenon
<1>8. lastNoLostFrame <=> n > 0 /\ IsClean(results'[n])
  <2>1. n > 0 => n \in 1 .. n
    BY <1>3
  <2>2. QED
    BY <1>3, <1>5, <2>1, Zenon
<1>9. /\ (n + 1) - 2 = n - 1 /\ (n + 1) - 1 = n /\ n + 1 > 0 /\ (n > 0 => n + 1 > 1)
      /\ \A k \in 1 .. n : k \in 1 .. n - 1 \/ (k = n /\ n > 0)
  BY <1>3
<1>10. CASE BothClean
  <2>1. at' = "undo" /\ IsClean(Trial) /\ n > 0 /\ IsClean(results'[n])
    BY <1>1, <1>4, <1>8, <1>10, Zenon DEF BothClean
  <2>2. QED
    BY <1>1, <1>3, <1>6, <1>7, <1>9, <2>1, Zenon DEF SweepInv, Clean, IsClean
<1>11. CASE ~BothClean
  <2>1. /\ at' = "trial" /\ (lastNoLostFrame' <=> IsClean(results'[n + 1]))
        /\ ~(n > 0 /\ IsClean(results'[n]) /\ IsClean(results'[n + 1]))
    BY <1>1, <1>3, <1>4, <1>8, <1>11, Zenon DEF BothClean
  <2>2. rate' = MAX_LINK_RATE - (n + 1) * step
    <3>1. PICK m \in Int : m = n * step /\ (n + 1) * step = m + step
      BY <1>2, <1>3
    <3>2. rate' = MAX_LINK_RATE - m - step
      BY <1>1, <1>5, <1>11, <3>1, Zenon
    <3>3. QED
      BY <1>2, <3>1, <3>2, BenchAssumption
  <2>3. \A k \in 1 .. n : ~(IsClean(results'[k]) /\ IsClean(results'[k + 1]))
    BY <1>7, <1>9, <2>1, Zenon
  <2>4. QED
    BY <1>1, <1>3, <1>6, <1>7, <1>9, <2>1, <2>2, <2>3, Zenon DEF SweepInv, Clean, IsClean
<1>12. QED
  BY <1>10, <1>11, Zenon

LEMMA SweepInductive ==
  ASSUME BenchInv, SweepInv, [Next]_vars
  PROVE  SweepInv'
<1>1. CASE Config
  BY <1>1, Zenon DEF Config, config, search, SweepInv, Clean
<1>2. CASE StartTrial
  BY <1>2, Zenon DEF StartTrial, config, SweepInv, Clean
<1>3. CASE LeaveLoop
  BY <1>3, Zenon DEF LeaveLoop, config, search, SweepInv, Clean, RateOut
<1>4. CASE UndoConfig
  <2>1. /\ UNCHANGED <<running, benchmark, step, rate, results>> /\ at' = "done"
        /\ at = "undo" \/ at = "iterate"
    BY <1>4, Zenon DEF UndoConfig, config, search
  <2>2. benchmark = "frameloss" => at # "iterate"
    BY Zenon DEF BenchInv, RateInv
  <2>3. QED
    BY <2>1, <2>2, Zenon DEF SweepInv, Clean
<1>5. CASE NextIteration
  BY <1>5, Zenon DEF NextIteration, config, SweepInv, BenchInv, RateInv
<1>6. CASE EndTrial /\ JudgeThroughput
  BY <1>6, Zenon DEF EndTrial, JudgeThroughput, config, SweepInv
<1>7. CASE Stop
  BY <1>7, Zenon DEF Stop, masterVars, config, search, SweepInv, Clean
<1>8. CASE Device \/ Load \/ Counter \/ UNCHANGED vars
  <2>1. UNCHANGED <<running, benchmark, step, results, at, rate, lastNoLostFrame>>
    BY <1>8, Zenon DEF Device, Load, Counter, vars, masterVars, config, search
  <2>2. QED
    BY <2>1, Zenon DEF SweepInv, Clean
<1>9. QED
  BY <1>1, <1>2, <1>3, <1>4, <1>5, <1>6, <1>7, <1>8, SweepJudge, Zenon DEF Next, Master, EndTrial

\* A rate above the last one of a sweep that is a number of steps below the link's
\* is the rate of one of its trials.
LEMMA RateHasTrial ==
  ASSUME NEW n \in Nat, NEW s \in Nat \ {0}, NEW r \in 1 .. MAX_LINK_RATE,
         (MAX_LINK_RATE - r) % s = 0, r > MAX_LINK_RATE - n * s
  PROVE  \E k \in 1 .. n : MAX_LINK_RATE - (k - 1) * s = r
<1>1. PICK a \in Nat : a = MAX_LINK_RATE - r
  BY BenchAssumption
<1>2. a % s = 0
  BY <1>1, Zenon
<1>3. PICK q \in Nat : a = s * q
  <2>1. a \div s \in Nat /\ a = s * (a \div s) + (a % s)
    OBVIOUS
  <2>2. a = s * (a \div s)
    BY <1>2, <2>1
  <2>3. QED
    BY <2>1, <2>2, Zenon
<1>4. q < n
  <2>1. n * s \in Int /\ s * q < n * s
    BY <1>1, <1>3, BenchAssumption
  <2>2. SUFFICES ASSUME q >= n PROVE FALSE
    OBVIOUS
  <2>3. PICK d \in Nat : q = n + d
    BY <2>2
  <2>4. s * q = n * s + s * d /\ s * d \in Nat
    BY <2>3
  <2>5. QED
    BY <2>1, <2>4
<1>5. q + 1 \in 1 .. n /\ MAX_LINK_RATE - ((q + 1) - 1) * s = r
  <2>1. (q + 1) - 1 = q /\ q * s = a
    BY <1>3
  <2>2. MAX_LINK_RATE - a = r /\ q + 1 \in 1 .. n
    BY <1>1, <1>4, BenchAssumption
  <2>3. QED
    BY <2>1, <2>2, Zenon
<1>6. QED
  BY <1>5, Zenon

\* SweepComplete: frameloss.lua:95-144 ends its sweep with the first two trials in a
\* row without loss or below 5 percent of the link rate, and skips no rate.
THEOREM SweepIsComplete == Spec => []SweepComplete
<1>1. Init => BenchInv /\ SweepInv
  <2>1. SUFFICES ASSUME Init PROVE SweepInv
    BY BenchInit, Zenon
  <2>2. /\ results = <<>> /\ at = "config" /\ rate = MAX_LINK_RATE /\ lastNoLostFrame = FALSE
    BY <2>1, Zenon DEF Init
  <2>3. step \in Nat
    BY <2>1, BenchInit, Zenon DEF BenchInv, BenchRange
  <2>4. Len(results) = 0 /\ 0 * step = 0 /\ MAX_LINK_RATE - 0 = MAX_LINK_RATE
    BY <2>2, <2>3, BenchAssumption
  <2>5. /\ 1 .. 0 = {} /\ 1 .. 0 - 1 = {} /\ 1 .. 0 - 2 = {} /\ ~(0 > 0)
    OBVIOUS
  <2>6. QED
    BY <2>2, <2>4, <2>5, Zenon DEF SweepInv
<1>2. BenchInv /\ SweepInv /\ [Next]_vars => BenchInv' /\ SweepInv'
  BY BenchInductive, SweepInductive, Zenon
<1>3. BenchInv /\ SweepInv => SweepComplete
  <2> SUFFICES ASSUME BenchInv, SweepInv, benchmark = "frameloss" PROVE SweepComplete
    BY Zenon DEF SweepComplete
  <2> DEFINE n == Len(results)
  <2>1. /\ results \in Seq(Measurements) /\ rate \in Int /\ step \in Nat \ {0} /\ at \in Masters
        /\ at # "iterate"
    BY Zenon DEF BenchInv, BenchRange, RateInv
  <2>2. n \in Nat
    BY <2>1
  <2>3. ASSUME NEW k \in 1 .. n - 1, Clean(k), Clean(k + 1)
        PROVE  k + 1 = n /\ at \in {"undo", "done"}
    <3>1. k \notin 1 .. n - 2
      BY <2>3, Zenon DEF SweepInv
    <3>2. k + 1 = n
      BY <2>2, <3>1
    <3>3. at \notin {"config", "trial", "wait"}
      BY <2>3, Zenon DEF SweepInv
    <3>4. QED
      BY <2>1, <3>2, <3>3, Zenon DEF Masters
  <2>4. ASSUME at = "done", running, ~(n > 1 /\ Clean(n - 1) /\ Clean(n)),
               NEW r \in 1 .. MAX_LINK_RATE, r * 20 > MAX_LINK_RATE, (MAX_LINK_RATE - r) % step = 0
        PROVE  \E k \in 1 .. n : results[k].rate = r
    <3>1. /\ rate = MAX_LINK_RATE - n * step /\ rate * 20 <= MAX_LINK_RATE
          /\ \A k \in 1 .. n : results[k].rate = MAX_LINK_RATE - (k - 1) * step
      BY <2>4, Zenon DEF SweepInv
    <3>2. r > rate
      BY <2>1, <2>4, <3>1, BenchAssumption
    <3>3. \E k \in 1 .. n : MAX_LINK_RATE - (k - 1) * step = r
      BY <2>1, <2>2, <2>4, <3>1, <3>2, RateHasTrial, ZenonT(40)
    <3>4. QED
      BY <3>1, <3>3, Zenon
  <2>5. QED
    BY <2>3, <2>4, Zenon DEF SweepComplete
<1>4. QED
  BY <1>1, <1>2, <1>3, PTL DEF Spec

=============================================================================
