----------------------------- MODULE FlowTasks ------------------------------
(***************************************************************************)
(* The tasks of the flow interface (interface/threads, counter.lua) from    *)
(* their start by the master to their end: load tasks count themselves in a *)
(* counter per flow, and the tasks that count packets, answer ARP requests, *)
(* measure latencies and print device statistics look at it to know when    *)
(* the flow is over.  The lock of the counter is taken for writing only.    *)
(***************************************************************************)
EXTENDS Devmgr

VARIABLES
  watched,      \* watched[m]: the flows that task or device counter m looks at
  running,      \* "yes"; "grace" while mg.running(delay) still holds; "no"
  counter,      \* counter[f]: [active, count]
  lock,         \* lock[f]: the task that holds it, or Free
  tmp,          \* tmp[t]: the value of count that inc or dec read
  load,         \* load[t]: where a load task stands
  cnt,          \* cnt[t]: "run", "timed" (runtime is set) or "done"
  arp,          \* arpManagerThread: [at, scan, active]
  ts,           \* timestampThread: [at, scan, active]
  stats,        \* deviceStatsThread: [at, len, i, offset, scan]
  counters,     \* its list of device counters, Nil where it was cleared
  finalized,    \* device counters that were finalized
  ended         \* history: flows whose counter has been back at zero

sending == <<counter, lock, tmp, load, ended>>
devStats == <<stats, counters, finalized>>
taskVars == <<watched, running, sending, cnt, arp, ts, devStats>>
vars == <<mgrVars, taskVars>>
setup == <<mgrVars, watched>>

Free == <<"free", 0, 0>>
Nil == <<"nil", 0>>

\* A counter of deviceStats is a direction and a device, for the flows on it.
DevOf(dir, f) == Dev(IF dir = "tx" THEN flows[f].tx ELSE flows[f].rx)
CounterOf(dir) == {<<dir, d>> : d \in UNION {DevOf(dir, f) : f \in Flows}}
DevCounters == CounterOf("tx") \union CounterOf("rx")

Monitors == {Arp, Timestamp} \union CountTasks \union DevCounters
WatchedBy(m) ==
  IF m = Arp THEN ArpFlows ELSE IF m = Timestamp THEN TsFlows
  ELSE IF m \in CountTasks THEN {m[2]} ELSE {f \in Flows : m[2] \in DevOf(m[1], f)}

\* The list the task begins with: Tx before Rx, devices in any order.
Lists ==
  {l \in [1 .. Cardinality(DevCounters) -> DevCounters] :
     \A j, k \in DOMAIN l : j < k => l[j] # l[k] /\ (l[j][1] = "rx" => l[k][1] = "rx")}

Init ==
  /\ MgrInit
  /\ watched = [m \in Monitors |-> WatchedBy(m)]
  /\ running = "yes"
  /\ counter = [f \in Flows |-> [active |-> 0, count |-> 0]]
  /\ lock = [f \in Flows |-> Free]
  /\ tmp = [t \in LoadTasks |-> 0]
  /\ load = [t \in LoadTasks |-> "begin"]
  /\ cnt = [t \in CountTasks |-> "run"]
  /\ arp = [at |-> "scan", scan |-> Len(flows) + 1, active |-> TRUE]
  /\ ts = arp
  /\ counters \in Lists
  /\ stats = [at |-> "head", len |-> Len(counters), i |-> 1, offset |-> 0, scan |-> 1]
  /\ finalized = {} /\ ended = {}

-----------------------------------------------------------------------------
(* The master, and the end of the program.                                  *)

Master ==
  /\ Prepare \/ PrepareFails \/ Configure
     \/ (master = "start" /\ \E t \in Tasks : Start(t))
  /\ UNCHANGED taskVars

Stop ==
  /\ running = "yes" /\ running' = "grace"
  /\ UNCHANGED <<setup, sending, cnt, arp, ts, devStats>>

GraceEnds ==
  /\ running = "grace" /\ running' = "no"
  /\ UNCHANGED <<setup, sending, cnt, arp, ts, devStats>>

-----------------------------------------------------------------------------
(* loadThread and the counter.                                              *)

\* active is never reset, so the two reads of isZero are as good as one.
isZero(f) == counter[f].active = 1 /\ counter[f].count = 0

loadUnchanged == <<setup, running, cnt, arp, ts, devStats>>

LockAndRead_NoLock(t, from, to) ==
  /\ load[t] = from
  /\ tmp' = [tmp EXCEPT ![t] = counter[t[2]].count]
  /\ load' = [load EXCEPT ![t] = to]
  /\ UNCHANGED <<loadUnchanged, counter, lock, ended>>

\* inc and dec take the lock, then read count.
LockAndRead(t, from, to) ==
  /\ load[t] = from /\ lock[t[2]] = Free
  /\ lock' = [lock EXCEPT ![t[2]] = t]
  /\ tmp' = [tmp EXCEPT ![t] = counter[t[2]].count]
  /\ load' = [load EXCEPT ![t] = to]
  /\ UNCHANGED <<loadUnchanged, counter, ended>>

IncOrder_ActiveFirst == <<"active", "count">>

\* The assignments of inc, one after the other.
IncOrder == <<"count", "active">>

Assigned(t, field) ==
  IF field = "count" THEN [counter EXCEPT ![t[2]].count = tmp[t] + 1]
  ELSE [counter EXCEPT ![t[2]].active = 1]

IncFirst(t) ==
  /\ load[t] = "inc"
  /\ counter' = Assigned(t, IncOrder[1])
  /\ load' = [load EXCEPT ![t] = "inc2"]
  /\ UNCHANGED <<loadUnchanged, lock, tmp, ended>>

IncSecond(t) ==
  /\ load[t] = "inc2"
  /\ counter' = Assigned(t, IncOrder[2])
  /\ lock' = [lock EXCEPT ![t[2]] = Free]
  /\ load' = [load EXCEPT ![t] = "send"]
  /\ UNCHANGED <<loadUnchanged, tmp, ended>>

\* The loop ends with the program, or at a limit of data or time.
LoadEnds(t) ==
  /\ load[t] = "send"
  /\ running # "yes" \/ flows[t[2]].limit
  /\ load' = [load EXCEPT ![t] = "leave"]
  /\ UNCHANGED <<loadUnchanged, counter, lock, tmp, ended>>

\* The assignment of dec; what follows ends the limiter and the statistics.
Dec(t) ==
  /\ load[t] = "dec"
  /\ counter' = [counter EXCEPT ![t[2]].count = tmp[t] - 1]
  /\ lock' = [lock EXCEPT ![t[2]] = Free]
  /\ ended' = IF tmp[t] = 1 THEN ended \union {t[2]} ELSE ended
  /\ load' = [load EXCEPT ![t] = "done"]
  /\ UNCHANGED <<loadUnchanged, tmp>>

Load(t) ==
  /\ t \in started
  /\ \/ LockAndRead(t, "begin", "inc") \/ IncFirst(t) \/ IncSecond(t)
     \/ LoadEnds(t)
     \/ LockAndRead(t, "leave", "dec") \/ Dec(t)

-----------------------------------------------------------------------------
(* countThread: recv returns with a packet, or because the program ends.    *)

CountSees(t) ==
  /\ cnt[t] = "run" /\ t \in started /\ running # "no"
  /\ isZero(t[2])
  /\ cnt' = [cnt EXCEPT ![t] = "timed"]
  /\ UNCHANGED <<setup, running, sending, arp, ts, devStats>>

\* The loop goes on while runtime is not running, so it ends as soon as it is.
CountEnds(t) ==
  /\ cnt[t] = "timed" \/ (cnt[t] = "run" /\ t \in started /\ running = "no")
  /\ cnt' = [cnt EXCEPT ![t] = "done"]
  /\ UNCHANGED <<setup, running, sending, arp, ts, devStats>>

-----------------------------------------------------------------------------
(* Tasks that go through flows, in the order of the command line.           *)

\* The flow of S to look at next, when those before n are done, and that none is left.
IsNext(f, S, n) == f \in S /\ f >= n /\ \A g \in S : g >= n => f <= g
NoneLeft(S, n) == \A g \in S : g < n

\* One flow of a round, task being the loop's variables before and next behind it.
Look(task, next, S) ==
  \E f \in S :
    /\ IsNext(f, S, task.scan)
    /\ next = [task EXCEPT !.scan = f + 1, !.active = @ \/ ~isZero(f)]

Round_NoReset(task, next, S, runs) ==
  /\ NoneLeft(S, task.scan)
  /\ next = IF task.active /\ runs THEN [task EXCEPT !.scan = 1]
            ELSE [task EXCEPT !.at = "done"]

\* A round is over: another one, or the end.
Round(task, next, S, runs) ==
  /\ NoneLeft(S, task.scan)
  /\ next = IF task.active /\ runs THEN [task EXCEPT !.scan = 1, !.active = FALSE]
            ELSE [task EXCEPT !.at = "done"]

\* Both tasks begin as behind a round in which a flow was active.
\* arpManagerThread does not ask whether the program is running.
ArpManager ==
  /\ arp.at = "scan" /\ Arp \in started
  /\ Look(arp, arp', watched[Arp]) \/ Round(arp, arp', watched[Arp], TRUE)
  /\ UNCHANGED <<setup, running, sending, cnt, ts, devStats>>

\* timestampThread: an assertion ends it at once when its flows do not go together.
Timestamping ==
  /\ ts.at = "scan" /\ Timestamp \in started
  /\ \/ TsMixed /\ ts' = [ts EXCEPT !.at = "done"]
     \/ ~TsMixed /\ Look(ts, ts', watched[Timestamp])
     \/ ~TsMixed /\ Round(ts, ts', watched[Timestamp], running = "yes")
  /\ UNCHANGED <<setup, running, sending, cnt, arp, devStats>>

-----------------------------------------------------------------------------
(* deviceStatsThread.                                                       *)

statsUnchanged == <<setup, running, sending, cnt, arp, ts>>

StatsHead ==
  /\ stats.at = "head" /\ Stats \in started
  /\ stats' = IF running # "no" /\ stats.len > 0
              THEN [stats EXCEPT !.at = "scan", !.i = 1, !.offset = 0, !.scan = 1]
              ELSE [stats EXCEPT !.at = "done"]
  /\ UNCHANGED <<statsUnchanged, counters, finalized>>

Turn == [stats EXCEPT !.i = @ + 1, !.scan = 1]

\* isActive for counter i: a flow that is over, one that is not, or none left.
StatsSkip ==
  /\ stats.at = "scan" /\ stats.i <= stats.len
  /\ \E f \in watched[counters[stats.i]] :
       /\ IsNext(f, watched[counters[stats.i]], stats.scan) /\ isZero(f)
       /\ stats' = [stats EXCEPT !.scan = f + 1]
  /\ UNCHANGED <<statsUnchanged, counters, finalized>>

StatsUpdate ==
  /\ stats.at = "scan" /\ stats.i <= stats.len
  /\ \E f \in watched[counters[stats.i]] :
       IsNext(f, watched[counters[stats.i]], stats.scan) /\ ~isZero(f)
  /\ counters' = IF stats.offset > 0
                 THEN [counters EXCEPT ![stats.i] = Nil,
                                       ![stats.i - stats.offset] = counters[stats.i]]
                 ELSE counters
  /\ stats' = Turn
  /\ UNCHANGED <<statsUnchanged, finalized>>

StatsFinalize_OneHole ==
  /\ stats.at = "scan" /\ stats.i <= stats.len
  /\ NoneLeft(watched[counters[stats.i]], stats.scan)
  /\ finalized' = finalized \union {counters[stats.i]}
  /\ counters' = [counters EXCEPT ![stats.i] = Nil]
  /\ stats' = [Turn EXCEPT !.offset = 1]
  /\ UNCHANGED statsUnchanged

StatsFinalize ==
  /\ stats.at = "scan" /\ stats.i <= stats.len
  /\ NoneLeft(watched[counters[stats.i]], stats.scan)
  /\ finalized' = finalized \union {counters[stats.i]}
  /\ counters' = [counters EXCEPT ![stats.i] = Nil]
  /\ stats' = [Turn EXCEPT !.offset = @ + 1]
  /\ UNCHANGED statsUnchanged

StatsRound ==
  /\ stats.at = "scan" /\ stats.i > stats.len
  /\ stats' = [stats EXCEPT !.at = "head", !.len = @ - stats.offset]
  /\ UNCHANGED <<statsUnchanged, counters, finalized>>

DeviceStats == StatsHead \/ StatsSkip \/ StatsUpdate \/ StatsFinalize \/ StatsRound

-----------------------------------------------------------------------------
Next ==
  \/ Master \/ Stop \/ GraceEnds
  \/ \E t \in DOMAIN load : Load(t)
  \/ \E t \in DOMAIN cnt : CountSees(t) \/ CountEnds(t)
  \/ ArpManager \/ Timestamping \/ DeviceStats

\* A load or count task takes finitely many steps here and never waits for
\* another but at a lock, which is held for two assignments: it is enough that
\* some of them goes on.  Nothing makes recv return while the program runs, and
\* nothing has to stop it.
Fairness ==
  /\ WF_vars(Master) /\ WF_vars(GraceEnds)
  /\ WF_vars(\E t \in DOMAIN load : Load(t))
  /\ WF_vars(\E t \in DOMAIN cnt : CountEnds(t))
  /\ WF_vars(ArpManager) /\ WF_vars(Timestamping) /\ WF_vars(DeviceStats)

Spec == Init /\ [][Next]_vars /\ Fairness

-----------------------------------------------------------------------------
TasksTypeOK ==
  /\ running \in {"yes", "grace", "no"}
  /\ counter \in [Flows -> [active : {0, 1}, count : Nat]]
  /\ lock \in [Flows -> LoadTasks \union {Free}]
  /\ tmp \in [LoadTasks -> Nat]
  /\ load \in [LoadTasks -> {"begin", "inc", "inc2", "send", "leave", "dec", "done"}]
  /\ cnt \in [CountTasks -> {"run", "timed", "done"}]
  /\ arp \in [at : {"scan", "done"}, scan : Nat, active : BOOLEAN]
  /\ ts \in [at : {"scan", "done"}, scan : Nat, active : BOOLEAN]
  /\ stats \in [at : {"head", "scan", "done"}, len : Nat, i : Nat, offset : Nat,
                scan : Nat]
  /\ counters \in Seq(DevCounters \union {Nil})
  /\ finalized \subseteq DevCounters /\ ended \subseteq Flows

\* While nobody is writing it, the counter of a flow is the number of load tasks
\* that are sending it, however the tasks' updates interleave.
CounterExact ==
  \A f \in Flows : lock[f] = Free =>
    counter[f].count =
      Cardinality({t \in DOMAIN load : t[2] = f /\ load[t] \in {"send", "leave"}})

\* The list of deviceStatsThread has no holes when a round begins, and holds
\* every counter that is not finalized exactly once: none is dropped from the
\* statistics or moved twice while the list is compacted.
StatsKept ==
  stats.at = "head" =>
    /\ {counters[k] : k \in 1 .. stats.len} = DevCounters \ finalized
    /\ Cardinality(DevCounters \ finalized) = stats.len

\* The tasks implement FlowLife: flows begin and end once if they have one
\* sender, and nobody who counts, measures, answers or prints leaves before each
\* of its flows has ended, unless the program is stopped.  A timestamp task whose
\* flows do not go together measures nothing and does not count.
Life ==
  INSTANCE FlowLife WITH
    Stubborn <- {Arp},
    several <- {f \in Flows : Len(flows[f].tx) > 1},
    life <- [f \in Flows |-> IF counter[f].active = 0 THEN "idle"
                             ELSE IF counter[f].count = 0 THEN "over" ELSE "active"],
    watching <- {t \in DOMAIN cnt \cap started : cnt[t] # "done"}
                \union (IF Arp \in started /\ arp.at # "done" THEN {Arp} ELSE {})
                \union (IF Timestamp \in started /\ ts.at # "done" /\ ~TsMixed
                        THEN {Timestamp} ELSE {})
                \union (IF Stats \in started /\ stats.at # "done"
                        THEN DevCounters \ finalized ELSE {}),
    stopped <- running # "yes"

LifeSpec == Life!Spec

AllSend == \A f \in Flows : flows[f].tx # << >>
ArpSends == \A f \in ArpFlows : flows[f].tx # << >>

MonitorsDone ==
  /\ stats.at = "done"
  /\ Arp \in Tasks => arp.at = "done"
  /\ Timestamp \in Tasks => ts.at = "done"

\* When every flow has a limit, the tasks that look at the counters end without
\* the program being stopped (a count task needs a packet to arrive).  When it is
\* stopped, at any time and whatever the limits, the master has given up or all
\* tasks end, and waitForTasks returns; of the ARP manager this is true only with
\* a sender in every flow with ARP, as it waits for their counters and for
\* nothing else.
TasksEnd ==
  /\ master = "start" /\ AllSend /\ (\A f \in Flows : flows[f].limit)
       ~> MonitorsDone
  /\ running # "yes" ~>
       \/ master = "abort"
       \/ /\ \A t \in LoadTasks : load[t] = "done"
          /\ \A t \in CountTasks : cnt[t] = "done"
          /\ stats.at = "done" /\ (Timestamp \in Tasks => ts.at = "done")
          /\ Arp \in Tasks /\ ArpSends => arp.at = "done"
=============================================================================
