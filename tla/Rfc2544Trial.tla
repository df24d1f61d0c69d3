---------------------------- MODULE Rfc2544Trial ----------------------------
(***************************************************************************)
(* One trial of the RFC 2544 throughput and frame loss benchmarks           *)
(* (rfc2544/benchmarks/throughput.lua, frameloss.lua): load tasks and a     *)
(* counter task that start together at a barrier, and the device under test *)
(* between them.  The tasks of the two benchmarks are the same code.        *)
(***************************************************************************)
EXTENDS Rfc2544, Integers

CONSTANTS UDP_PORT, MAX_PORT, \* first port, and a bound on the ports
          FRAMES              \* frames a load task can send in a trial

\* in_dut is a number of frames per port.
VARIABLES
  barrier,    \* arrivals the barrier still waits for
  task,       \* per task: "none", "start", "blocked", "warmup", "run", "done"
  port,       \* UDP port of the trial
  sent,       \* totalSent per load task
  stats       \* the counter's frames per port

trialVars == <<barrier, task, port, sent, in_dut, stats>>

COUNTER == 0
LoadTasks == 1 .. 3
Ports == UDP_PORT - 1 .. MAX_PORT

NoFrames == [p \in Ports |-> 0]

TrialInit ==
  /\ barrier = 0 /\ task = [t \in LoadTasks \union {COUNTER} |-> "none"]
  /\ port = UDP_PORT /\ sent = [t \in LoadTasks |-> 0]
  /\ in_dut = NoFrames /\ stats = NoFrames

\* "workaround for rate bug": between 58 percent and the maximum, three queues
\* share the rate.
NumQueues(rate, maxLinkRate) ==
  IF rate * 84 * 84 > 64 * 64 * maxLinkRate /\ rate < maxLinkRate THEN 3 ELSE 1

BarrierSize_WithMaster(numQueues) == numQueues + 2

BarrierSize(numQueues) == numQueues + 1

\* bar:reinit and dpdk.launchLua for every task of the trial.
Launch(rate, maxLinkRate) ==
  LET numQueues == NumQueues(rate, maxLinkRate) IN
  /\ barrier' = BarrierSize(numQueues)
  /\ task' = [t \in LoadTasks \union {COUNTER} |->
                IF t <= numQueues THEN "start" ELSE "none"]
  /\ sent' = [t \in LoadTasks |-> 0]
  /\ stats' = NoFrames

\* bar:wait; the last one to arrive lets all go.
Arrive(t) ==
  LET waiting == {u \in DOMAIN task : task[u] = "blocked"} \union {t}
      After(u) == IF u = COUNTER THEN "run" ELSE "warmup"
  IN
  /\ task[t] = "start"
  /\ barrier' = barrier - 1
  /\ task' = IF barrier = 1
             THEN [u \in DOMAIN task |-> IF u \in waiting THEN After(u) ELSE task[u]]
             ELSE [task EXCEPT ![t] = "blocked"]
  /\ UNCHANGED <<port, sent, in_dut, stats>>

\* The warm-up sends to the port below; one frame stands for all.
Warmup_SamePort(t) ==
  /\ task[t] = "warmup"
  /\ in_dut' = [in_dut EXCEPT ![port] = @ + 1]
  /\ task' = [task EXCEPT ![t] = "run"]
  /\ UNCHANGED <<barrier, port, sent, stats>>

Warmup(t) ==
  /\ task[t] = "warmup"
  /\ in_dut' = [in_dut EXCEPT ![port - 1] = @ + 1]
  /\ task' = [task EXCEPT ![t] = "run"]
  /\ UNCHANGED <<barrier, port, sent, stats>>

SendFrame(t) ==
  /\ task[t] = "run" /\ sent[t] < FRAMES
  /\ in_dut' = [in_dut EXCEPT ![port] = @ + 1]
  /\ sent' = [sent EXCEPT ![t] = @ + 1]
  /\ UNCHANGED <<barrier, task, port, stats>>

\* timer:running turns false; the duration is long enough to send something.
LoadEnd(t) ==
  /\ task[t] = "run" /\ sent[t] > 0
  /\ task' = [task EXCEPT ![t] = "done"]
  /\ UNCHANGED <<barrier, port, sent, in_dut, stats>>

LoadTask(t) == Arrive(t) \/ Warmup(t) \/ SendFrame(t) \/ LoadEnd(t)

\* The device forwards a frame and the counter takes it from the queue.
Count(p) ==
  /\ in_dut[p] > 0 /\ task[COUNTER] = "run"
  /\ in_dut' = [in_dut EXCEPT ![p] = @ - 1]
  /\ stats' = [stats EXCEPT ![p] = @ + 1]
  /\ UNCHANGED <<barrier, task, port, sent>>

\* The device drops a frame.
Lose(p) ==
  /\ in_dut[p] > 0
  /\ in_dut' = [in_dut EXCEPT ![p] = @ - 1]
  /\ UNCHANGED <<barrier, task, port, sent, stats>>

\* The counter's timer runs three seconds longer than the load: by then the load
\* tasks are done and the device is empty.
CounterEnd ==
  /\ task[COUNTER] = "run"
  /\ \A t \in LoadTasks : task[t] \in {"none", "done"}
  /\ in_dut = NoFrames
  /\ task' = [task EXCEPT ![COUNTER] = "done"]
  /\ UNCHANGED <<barrier, port, sent, in_dut, stats>>

\* What the tasks return to the master.
spkts == sent[1] + sent[2] + sent[3]
rpkts == stats[port]

TrialDone == task[COUNTER] = "done"
=============================================================================
