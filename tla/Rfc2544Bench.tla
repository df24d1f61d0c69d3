---------------------------- MODULE Rfc2544Bench ----------------------------
(***************************************************************************)
(* bench of the RFC 2544 throughput and frame loss benchmarks               *)
(* (rfc2544/benchmarks/throughput.lua, frameloss.lua).  Both configure the  *)
(* device under test, run trials at changing rates and undo the             *)
(* configuration.  Throughput searches the highest rate at which no more    *)
(* than maxLossRate is lost; frame loss lowers the rate step by step until  *)
(* two trials in a row lose nothing.                                        *)
(***************************************************************************)
EXTENDS Rfc2544Trial, BinarySearch, Sequences

\* Throughput repeats its search NUM_ITERATIONS times; frame loss sweeps once, and
\* its GRANULARITIES are multiplied by MAX_LINK_RATE.
CONSTANTS
  MAX_LINK_RATE,
  THRESHOLDS,            \* values of rateThreshold (throughput)
  LOSS_NUM, LOSS_DEN,    \* maxLossRate = LOSS_NUM / LOSS_DEN (throughput)
  CAPACITIES             \* highest rates at which a device meets maxLossRate

ASSUME BenchAssumption ==
  /\ MAX_LINK_RATE \in Nat \ {0} /\ THRESHOLDS \subseteq Nat \ {0}
  /\ LOSS_NUM \in Nat /\ LOSS_DEN \in Nat \ {0}
  /\ NUM_ITERATIONS \in Nat \ {0} /\ GRANULARITIES \subseteq Nat \ {0}
  /\ CAPACITIES \subseteq Nat /\ FRAMES \in Nat /\ UDP_PORT \in Nat \ {0}
  /\ MAX_PORT \in Nat /\ MAX_PORT >= UDP_PORT + MAX_LINK_RATE   \* a port for every trial

\* results has a record [rate, spkts, rpkts] per iteration or frame loss trial.
VARIABLES
  benchmark,      \* "throughput" or "frameloss"
  at,             \* master: "config", "iterate", "trial", "wait", "undo", "done"
  skipConf,
  step,           \* rateThreshold or granularity
  capacity,       \* of the device; -1 when its losses follow no rule
  addresses,      \* interface addresses set on the device
  undoStack,
  rate, binSearch, lastNoLostFrame

config == <<benchmark, skipConf, step, capacity>>
search == <<iteration, rate, binSearch, lastNoLostFrame, results>>
masterVars == <<config, at, addresses, undoStack, search>>
vars == <<trialVars, masterVars, running>>

Interfaces == {"ifIn", "ifOut"}

Init ==
  /\ TrialInit
  /\ \/ benchmark = "throughput" /\ step \in THRESHOLDS
     \/ benchmark = "frameloss" /\ step \in GRANULARITIES
  /\ at = "config" /\ running = TRUE /\ skipConf \in BOOLEAN
  /\ capacity \in CAPACITIES \union {-1}
  /\ addresses = {} /\ undoStack = <<>>
  /\ iteration = 0 /\ rate = MAX_LINK_RATE /\ binSearch = create(0, MAX_LINK_RATE)
  /\ lastNoLostFrame = FALSE /\ results = <<>>

\* benchmark:config adds an address to both interfaces and notes how to undo it.
Config ==
  /\ at = "config"
  /\ IF skipConf THEN UNCHANGED <<addresses, undoStack>>
     ELSE addresses' = Interfaces /\ undoStack' = <<"ifIn", "ifOut">>
  /\ at' = IF benchmark = "throughput" THEN "iterate" ELSE "trial"
  /\ UNCHANGED <<trialVars, running, config, search>>

\* The head of throughput's loop over the iterations.
NextIteration ==
  /\ at = "iterate" /\ iteration < NUM_ITERATIONS
  /\ iteration' = iteration + 1
  /\ binSearch' = create(0, MAX_LINK_RATE)
  /\ rate' = MAX_LINK_RATE
  /\ port' = UDP_PORT
  /\ results' = Append(results, [rate |-> 0, spkts |-> 0, rpkts |-> 0])
  /\ at' = "trial"
  /\ UNCHANGED <<barrier, task, sent, in_dut, stats, running, config, addresses,
                 undoStack, lastNoLostFrame>>

\* rateMulti >= 0.05.  The code gets there by subtraction in floating point, so
\* what should be exactly 5 percent may lie on either side.
RateLeft == benchmark = "frameloss" => rate * 20 >= MAX_LINK_RATE
RateOut == benchmark = "frameloss" /\ rate * 20 <= MAX_LINK_RATE

\* The loop condition holds: start the tasks of a trial.
StartTrial ==
  /\ at = "trial" /\ running /\ RateLeft
  /\ Launch(rate, MAX_LINK_RATE)
  /\ at' = "wait"
  /\ UNCHANGED <<port, in_dut, running, config, addresses, undoStack, iteration,
                 rate, binSearch, lastNoLostFrame, results>>

\* It does not: throughput still walks its iterations.
LeaveLoop ==
  /\ at = "trial" /\ (~running \/ RateOut)
  /\ at' = IF benchmark = "throughput" THEN "iterate" ELSE "undo"
  /\ UNCHANGED <<trialVars, running, config, addresses, undoStack, search>>

Trial == [rate |-> rate, spkts |-> spkts, rpkts |-> rpkts]

validRun == (spkts - rpkts) * LOSS_DEN <= LOSS_NUM * spkts

\* Throughput: keep a valid trial, narrow the search, maybe finish.  (The code
\* keeps its counts and what it computes from them; the rate is kept for the
\* properties.)
JudgeThroughput ==
  LET n == next(binSearch, rate, validRun, step) IN
  /\ benchmark = "throughput"
  /\ results' = IF validRun THEN [results EXCEPT ![iteration] = Trial] ELSE results
  /\ binSearch' = n.bs /\ rate' = n.val
  /\ IF n.finished THEN at' = "iterate" /\ UNCHANGED port
     ELSE at' = "trial" /\ port' = port + 1
  /\ UNCHANGED lastNoLostFrame

noLostFrame == spkts = rpkts

BothClean_ThisOne == noLostFrame

BothClean == noLostFrame /\ lastNoLostFrame

\* Frame loss: note the trial; break, or go on with the next rate.
JudgeFrameLoss ==
  /\ benchmark = "frameloss"
  /\ results' = Append(results, Trial)
  /\ IF BothClean THEN at' = "undo" /\ UNCHANGED <<lastNoLostFrame, rate, port>>
     ELSE /\ lastNoLostFrame' = noLostFrame
          /\ rate' = rate - step
          /\ port' = port + 1
          /\ at' = "trial"
  /\ UNCHANGED binSearch

\* All tasks returned.
EndTrial ==
  /\ at = "wait" /\ TrialDone
  /\ JudgeThroughput \/ JudgeFrameLoss
  /\ UNCHANGED <<barrier, task, sent, in_dut, stats, running, config, addresses,
                 undoStack, iteration>>

\* undoConfig runs the stack from its end and clears it.
UndoConfig ==
  /\ at = "undo" \/ (at = "iterate" /\ iteration = NUM_ITERATIONS)
  /\ IF skipConf THEN UNCHANGED <<addresses, undoStack>>
     ELSE /\ addresses' = addresses \ {undoStack[k] : k \in DOMAIN undoStack}
          /\ undoStack' = <<>>
  /\ at' = "done"
  /\ UNCHANGED <<trialVars, running, config, search>>

Master == Config \/ NextIteration \/ StartTrial \/ LeaveLoop \/ EndTrial \/ UndoConfig

Stop ==
  /\ running /\ running' = FALSE
  /\ UNCHANGED <<trialVars, masterVars>>

\* A device with a capacity may lose frames of a trial at any rate: up to the
\* capacity never more than maxLossRate of them, beyond it always more.  Another
\* device loses what it likes.
Overloaded == capacity # -1 /\ rate > capacity

TooMany(lost) == lost * LOSS_DEN > LOSS_NUM * spkts

MayCount(p) == Overloaded /\ p = port => TooMany(spkts - (stats[port] + 1))

MayLose(p) ==
  capacity # -1 /\ ~Overloaded /\ p = port => ~TooMany(spkts - stats[port] - in_dut[port] + 1)

Device ==
  /\ \E p \in Ports : (Count(p) /\ MayCount(p)) \/ (Lose(p) /\ MayLose(p))
  /\ UNCHANGED <<masterVars, running>>

Load ==
  /\ \E t \in LoadTasks : LoadTask(t)
  /\ UNCHANGED <<masterVars, running>>

Counter ==
  /\ Arrive(COUNTER) \/ CounterEnd
  /\ UNCHANGED <<masterVars, running>>

Next == Master \/ Stop \/ Device \/ Load \/ Counter

\* Tasks have cores of their own, their timers expire, and the device does not
\* keep a frame.
Fairness == WF_vars(Master) /\ WF_vars(Device) /\ WF_vars(Load) /\ WF_vars(Counter)

Spec == Init /\ [][Next]_vars /\ Fairness

-----------------------------------------------------------------------------
\* Variables stay in range; the search keeps a proper interval with the rate to
\* try next inside it; a bench that returned has undone its configuration.
TypeOK ==
  /\ at \in {"config", "iterate", "trial", "wait", "undo", "done"}
  /\ barrier \in 0 .. 4 /\ port \in UDP_PORT .. MAX_PORT
  /\ \A p \in Ports : in_dut[p] \in Nat /\ stats[p] \in Nat
  /\ benchmark = "throughput" =>
       /\ iteration \in 0 .. NUM_ITERATIONS /\ Len(results) = iteration
       /\ 0 <= binSearch.lowerLimit /\ binSearch.lowerLimit <= rate
       /\ rate <= binSearch.upperLimit /\ binSearch.upperLimit <= MAX_LINK_RATE
       /\ rate > 0
  /\ at = "done" => addresses = {} /\ undoStack = <<>>

\* What a throughput iteration reports is a trial that met the loss limit,
\* whatever the device did in the trials after it; and the counter attributes to
\* a trial only frames its load tasks counted as sent, although every trial's
\* warm-up uses the port of the trial before.
ResultsValid ==
  /\ rpkts <= spkts
  /\ benchmark = "throughput" =>
       \A k \in DOMAIN results :
         (results[k].spkts - results[k].rpkts) * LOSS_DEN <= LOSS_NUM * results[k].spkts

\* For a device whose losses exceed maxLossRate beyond its capacity only, a
\* finished search reports a trial at a rate it can forward, less than two
\* thresholds below the highest, whichever and however many frames it loses.
SearchPrecise ==
  benchmark = "throughput" /\ capacity # -1 /\ running =>
    \A k \in DOMAIN results :
      (k < iteration \/ at \in {"iterate", "done"}) =>
        /\ results[k].rate <= capacity
        /\ (IF capacity > MAX_LINK_RATE THEN MAX_LINK_RATE ELSE capacity)
             - results[k].rate < 2 * step

Clean(k) == results[k].spkts = results[k].rpkts

\* The frame loss sweep ends with the first two trials in a row without loss or,
\* unless it is stopped, below 5 percent of the link rate, and not before: every
\* rate down to there has its trial.
SweepComplete ==
  LET n == Len(results) IN
  benchmark = "frameloss" =>
    /\ \A k \in 1 .. n - 1 :
         Clean(k) /\ Clean(k + 1) => k + 1 = n /\ at \in {"undo", "done"}
    /\ at = "done" /\ running =>
         \/ n > 1 /\ Clean(n - 1) /\ Clean(n)
         \/ \A r \in 1 .. MAX_LINK_RATE :
              r * 20 > MAX_LINK_RATE /\ (MAX_LINK_RATE - r) % step = 0 =>
                \E k \in 1 .. n : results[k].rate = r

\* bench returns: no task waits for ever at a barrier made for another number of
\* tasks, and every search and sweep is finite.
BenchEnds == <>(at = "done")
=============================================================================
