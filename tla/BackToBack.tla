----------------------------- MODULE BackToBack -----------------------------
(***************************************************************************)
(* The RFC 2544 back-to-back benchmark                                      *)
(* (rfc2544/benchmarks/backtoback.lua): a load and a counter task each run  *)
(* the same binary search for the longest burst without loss.  They meet at *)
(* a barrier after every burst and exchange their counts through a shared   *)
(* namespace.  The load task re-initialises the barrier after each use.     *)
(***************************************************************************)
EXTENDS Rfc2544, BinarySearch, Sequences

CONSTANTS
  MAX_PKTS,       \* maxPkts, the longest burst tried
  ARRAY,          \* frames in an array of buffers, 64 in the code
  BUFFERS         \* longest bursts the device under test can take

ASSUME BackToBackAssumption ==
  /\ MAX_PKTS \in Nat \ {0} /\ ARRAY \in Nat \ {0}
  /\ GRANULARITIES \subseteq Nat \ {0}
  /\ NUM_ITERATIONS \in Nat \ {0} /\ BUFFERS \subseteq Nat

VARIABLES
  granularity,
  buffer,     \* of the device; -1 when its losses follow no rule
  bar,        \* arrivals the barrier waits for
  rsns,       \* the namespace: [sent, received]
  load, counter
    \* a task: [at, count, binSearch, first, longest, mine (its count of the
    \* burst), round (history: bursts judged)]

burstVars == <<running, granularity, buffer, bar, rsns, in_dut, load, counter,
          iteration, results>>

Task(at) ==
  [at |-> at, count |-> MAX_PKTS, binSearch |-> create(0, MAX_PKTS), first |-> TRUE,
   longest |-> 0, mine |-> 0, round |-> 0]

BurstInit ==
  /\ running = TRUE
  /\ granularity \in GRANULARITIES /\ buffer \in BUFFERS \union {-1}
  /\ bar = 2 /\ rsns = [sent |-> 0, received |-> 0] /\ in_dut = 0
  /\ load = Task("start") /\ counter = Task("start")
  /\ iteration = 1 /\ results = <<>>

-----------------------------------------------------------------------------
(* The barrier counts arrivals down.  bar:wait passes at once for the task   *)
(* that brings the count to 0; the other one wakes up later and leaves if   *)
(* the count is still 0.  Both tasks wait as "start" (before the first      *)
(* burst) and as "meet" (after a burst).                                    *)

Waiting(at) == IF at = "start" THEN "waiting_start" ELSE "waiting_meet"

\* Where a task goes on after the barrier.
LoadPassed(at) == IF at \in {"start", "waiting_start"} THEN "reinit_start" ELSE "reinit"
CounterPassed(at) == IF at \in {"start", "waiting_start"} THEN "head" ELSE "judge"

LoadWaits ==
  /\ load.at \in {"start", "meet"}
  /\ bar' = bar - 1
  /\ load' = [load EXCEPT !.at = IF bar = 1 THEN LoadPassed(@) ELSE Waiting(@)]
  /\ UNCHANGED <<running, granularity, buffer, rsns, in_dut, counter, iteration, results>>

LoadLeaves ==
  /\ load.at \in {"waiting_start", "waiting_meet"} /\ bar = 0
  /\ load' = [load EXCEPT !.at = LoadPassed(@)]
  /\ UNCHANGED <<running, granularity, buffer, bar, rsns, in_dut, counter, iteration, results>>

\* Before the first burst the counter discards what arrives for half a second.
CounterWaits ==
  /\ counter.at \in {"start", "meet"}
  /\ IF counter.at = "start"
     THEN \E kept \in 0 .. in_dut : (buffer # -1 => kept = 0) /\ in_dut' = kept
     ELSE UNCHANGED in_dut
  /\ bar' = bar - 1
  /\ counter' = [counter EXCEPT !.at = IF bar = 1 THEN CounterPassed(@) ELSE Waiting(@)]
  /\ UNCHANGED <<running, granularity, buffer, rsns, load, iteration, results>>

CounterLeaves ==
  /\ counter.at \in {"waiting_start", "waiting_meet"} /\ bar = 0
  /\ counter' = [counter EXCEPT !.at = CounterPassed(@)]
  /\ UNCHANGED <<running, granularity, buffer, bar, rsns, in_dut, load, iteration, results>>

\* 100 microseconds later, bar:reinit(2), whether the counter has left the
\* barrier by then or not.
Reinit ==
  /\ load.at \in {"reinit_start", "reinit"}
  /\ bar' = 2
  /\ load' = [load EXCEPT !.at = IF @ = "reinit_start" THEN "head" ELSE "judge"]
  /\ UNCHANGED <<running, granularity, buffer, rsns, in_dut, counter, iteration, results>>

-----------------------------------------------------------------------------
(* One round.                                                               *)

\* while dpdk.running()
LoadHead ==
  /\ load.at = "head"
  /\ load' = [load EXCEPT !.at = IF running THEN "burst" ELSE "done"]
  /\ UNCHANGED <<running, granularity, buffer, bar, rsns, in_dut, counter, iteration, results>>

CounterHead ==
  /\ counter.at = "head"
  /\ counter' = [counter EXCEPT !.at = IF running THEN "count" ELSE "done"]
  /\ UNCHANGED <<running, granularity, buffer, bar, rsns, in_dut, load, iteration, results>>

\* sendBurst sends full arrays while dpdk.running holds, then the remainder in
\* any case; the warm-up before goes to a port the counter ignores.  The device
\* lets pass what it can.
SendBurst ==
  /\ load.at = "burst"
  /\ \E sent \in 0 .. load.count :
       /\ sent % ARRAY = load.count % ARRAY
       /\ running => sent = load.count
       /\ load' = [load EXCEPT !.mine = sent, !.at = "meet"]
       /\ rsns' = [rsns EXCEPT !.sent = sent]
       /\ \E passed \in 0 .. sent :
            /\ buffer # -1 => passed = IF sent < buffer THEN sent ELSE buffer
            /\ in_dut' = in_dut + passed
  /\ UNCHANGED <<running, granularity, buffer, bar, counter, iteration, results>>

\* The counter takes frames until it has enough or its timer expires, which
\* outlasts the load task's burst.  An orderly device delivers every frame by
\* then; another one may keep some back.  Counting the first burst's frames takes
\* seconds at line rate, so the load task has left the barrier and its 100
\* microseconds are over before.
CountBurst ==
  /\ counter.at = "count" /\ load.at \notin {"waiting_start", "reinit_start"}
  /\ \E n \in 0 .. in_dut :
       /\ n >= counter.count \/ load.at \in {"meet", "waiting_meet", "done"}
       /\ buffer # -1 => n = in_dut
       /\ counter' = [counter EXCEPT !.mine = n, !.at = "meet"]
       /\ rsns' = [rsns EXCEPT !.received = n]
       /\ in_dut' = in_dut - n
  /\ UNCHANGED <<running, granularity, buffer, bar, load, iteration, results>>

\* The device loses a frame it kept back.
LoseLate ==
  /\ buffer = -1 /\ in_dut > 0
  /\ in_dut' = in_dut - 1
  /\ UNCHANGED <<running, granularity, buffer, bar, rsns, load, counter, iteration, results>>

\* What a task does with the outcome of a burst; the first one is thrown away.
Judged(t, top, threshold) ==
  LET n == next(t.binSearch, t.count, top, threshold) IN
  IF t.first
  THEN [t EXCEPT !.first = FALSE, !.at = "sleep", !.round = @ + 1]
  ELSE [t EXCEPT !.binSearch = n.bs,
                 !.longest = IF top THEN t.count ELSE @,
                 !.count = IF n.finished THEN @ ELSE n.val,
                 !.at = IF n.finished THEN "done" ELSE "sleep",
                 !.round = @ + 1]

LoadJudges_GivesUp ==
  /\ load.at = "judge"
  /\ LET top == load.mine = rsns.received
         t == Judged(load, top, granularity)
     IN load' = [t EXCEPT !.at = IF top \/ load.first THEN @ ELSE "done"]
  /\ UNCHANGED <<running, granularity, buffer, bar, rsns, in_dut, counter, iteration, results>>

LoadJudges ==
  /\ load.at = "judge"
  /\ load' = Judged(load, load.mine = rsns.received, granularity)
  /\ UNCHANGED <<running, granularity, buffer, bar, rsns, in_dut, counter, iteration, results>>

CounterJudges_OwnCount ==
  /\ counter.at = "judge"
  /\ counter' = Judged(counter, counter.mine = counter.count, granularity)
  /\ UNCHANGED <<running, granularity, buffer, bar, rsns, in_dut, load, iteration, results>>

CounterJudges ==
  /\ counter.at = "judge"
  /\ counter' = Judged(counter, counter.mine = rsns.sent, granularity)
  /\ UNCHANGED <<running, granularity, buffer, bar, rsns, in_dut, load, iteration, results>>

\* dpdk.sleepMillis(2000): long enough for the other task to get out of the
\* barrier, once the count is 0, and through its verdict.
LoadWakes ==
  /\ load.at = "sleep" /\ counter.at # "judge"
  /\ load' = [load EXCEPT !.at = "head"]
  /\ UNCHANGED <<running, granularity, buffer, bar, rsns, in_dut, counter, iteration, results>>

CounterWakes ==
  /\ counter.at = "sleep" /\ load.at \notin {"reinit", "judge"}
  /\ ~(load.at = "waiting_meet" /\ bar = 0)
  /\ counter' = [counter EXCEPT !.at = "head"]
  /\ UNCHANGED <<running, granularity, buffer, bar, rsns, in_dut, load, iteration, results>>

LoadSlave ==
  LoadWaits \/ LoadLeaves \/ Reinit \/ LoadHead \/ SendBurst \/ LoadJudges \/ LoadWakes
CounterSlave ==
  CounterWaits \/ CounterLeaves \/ CounterHead \/ CountBurst \/ CounterJudges \/ CounterWakes

-----------------------------------------------------------------------------
NIL == -2  \* the global variable longest, which nothing assigns

\* bench: both tasks returned; note the result and start the next iteration
\* with the same barrier and namespace.
Report ==
  /\ load.at = "done" /\ counter.at = "done" /\ Len(results) < iteration
  /\ results' = Append(results,
       [value |-> IF NIL # load.longest THEN -1 ELSE load.longest,
        longestS |-> load.longest, longestR |-> counter.longest,
        stopped |-> ~running])
  /\ IF iteration < NUM_ITERATIONS
     THEN /\ iteration' = iteration + 1
          /\ load' = Task("start") /\ counter' = Task("start")
     ELSE UNCHANGED <<iteration, load, counter>>
  /\ UNCHANGED <<running, granularity, buffer, bar, rsns, in_dut>>

BurstStop ==
  /\ running /\ running' = FALSE
  /\ UNCHANGED <<granularity, buffer, bar, rsns, in_dut, load, counter, iteration, results>>

BurstNext == LoadSlave \/ CounterSlave \/ LoseLate \/ Report \/ BurstStop

\* Every task has a core; timers and sleeps end.
BurstFairness == WF_burstVars(LoadSlave) /\ WF_burstVars(CounterSlave) /\ WF_burstVars(Report)

BurstSpec == BurstInit /\ [][BurstNext]_burstVars /\ BurstFairness

-----------------------------------------------------------------------------
Tasks == [at : {"start", "waiting_start", "reinit_start", "head", "burst", "count",
                "meet", "waiting_meet", "reinit", "judge", "sleep", "done"},
          count : 1 .. MAX_PKTS,
          binSearch : [lowerLimit : 0 .. MAX_PKTS, upperLimit : 1 .. MAX_PKTS],
          first : BOOLEAN, longest : 0 .. MAX_PKTS, mine : Nat, round : Nat]

\* Variables stay in range: a burst is never empty, and nobody arrives at a
\* barrier that was used and not re-initialised yet.
BurstTypeOK ==
  /\ load \in Tasks /\ counter \in Tasks
  /\ bar \in 0 .. 2 /\ in_dut \in Nat
  /\ rsns \in [sent : 0 .. MAX_PKTS, received : Nat]
  /\ iteration \in 1 .. NUM_ITERATIONS /\ Len(results) <= iteration

\* Two tasks that have judged the same number of bursts are at the same place of
\* the search, although each computes its verdict from the other's count, frames
\* come late and stray into the next round, and they are never more than one
\* burst apart.
LockStep ==
  /\ load.round - counter.round \in {-1, 0, 1}
  /\ load.round = counter.round =>
       /\ load.count = counter.count /\ load.binSearch = counter.binSearch
       /\ load.longest = counter.longest /\ load.first = counter.first

\* What the two tasks return to bench: the same length, from every device; and
\* from one that forwards bursts up to its buffer, a length never more than it
\* can take and less than two granularities below.  (bench compares the load
\* task's value with a variable nothing assigns instead of the counter's and
\* notes value, -1, so this length does not get into the report.)
BurstPrecise ==
  \A k \in DOMAIN results :
    /\ results[k].longestS = results[k].longestR
    /\ buffer # -1 /\ ~results[k].stopped =>
         /\ results[k].longestS <= buffer
         /\ (IF buffer > MAX_PKTS THEN MAX_PKTS ELSE buffer) - results[k].longestS
              < 2 * granularity

\* "reinit interferes with wait": the barrier was re-initialised before the
\* counter had left it.
Overtaken == bar = 2 /\ counter.at \in {"waiting_start", "waiting_meet"}

\* Unless MoonGen is stopped, or the counter needs longer than 100 microseconds
\* to get out of the barrier, the tasks never wait for each other forever: every
\* iteration is reported.
BackToBackEnds == [](running /\ ~Overtaken) => <>(Len(results) = NUM_ITERATIONS)

=============================================================================
