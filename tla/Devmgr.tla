------------------------------- MODULE Devmgr -------------------------------
(***************************************************************************)
(* The master task of the flow interface (interface/init.lua) with the      *)
(* device manager (devmgr.lua): the prepare functions of the threads        *)
(* reserve queues, the devices are configured with as many, and the start   *)
(* functions hand them out, one task after another.                         *)
(*                                                                          *)
(* A task is <<kind, flow, position>>: one load task for every position in  *)
(* the tx list of a flow, one count task for every position in its rx list, *)
(* and at most one shared task of each other kind, for flow 0.              *)
(***************************************************************************)
EXTENDS Integers, Sequences, FiniteSets

CONSTANTS
  Devices,
  CONFIGS    \* the flows of the command line: sequences of FlowType

FlowType == [tx : Seq(Devices), rx : Seq(Devices), arp : BOOLEAN, ts : BOOLEAN,
             limit : BOOLEAN,
             udp : BOOLEAN,    \* the packets are UDP
             mac : BOOLEAN]    \* ethSrc is a number

ASSUME DevmgrAssumption ==
  /\ IsFiniteSet(Devices)
  /\ CONFIGS \subseteq Seq(FlowType)
  /\ \A c \in CONFIGS : \A f \in DOMAIN c :
       c[f].ts => Len(c[f].tx) = 1 /\ Len(c[f].rx) = 1

VARIABLES
  flows,
  master,             \* "prepare", "configure", "start", "wait" or "abort"
  prepared,           \* number of prepare functions that have been called
  txq, rxq, rsq,      \* queues reserved per device; rsq of rxq are for RSS
  txqi, rxqi, rsqi,   \* queues handed out
  rings,              \* rings[d]: queues the device was configured with
  started,            \* tasks started
  queues              \* history: who was given which queue

reserved == <<prepared, txq, rxq, rsq>>
handed == <<txqi, rxqi, rsqi, queues>>
mgrVars == <<flows, master, reserved, rings, started, handed>>

-----------------------------------------------------------------------------
Arp == <<"arp", 0, 0>>
Stats == <<"stats", 0, 0>>
Timestamp == <<"ts", 0, 0>>

Flows == DOMAIN flows
Dev(list) == {list[n] : n \in DOMAIN list}
ArpFlows == {f \in Flows : flows[f].arp}
TsFlows == {f \in Flows : flows[f].ts}
ArpDevices == UNION {Dev(flows[f].tx) \union Dev(flows[f].rx) : f \in ArpFlows}

\* Timestamps for UDP and for other packets.
TsMixed == \E f, g \in TsFlows : flows[f].udp # flows[g].udp

\* The first ARP flow on a device does not say which MAC the device is to have.
MacMissing ==
  \E f \in ArpFlows : \E d \in Dev(flows[f].tx) :
    ~flows[f].mac /\ \A g \in ArpFlows : g < f => d \notin Dev(flows[g].tx)

LoadTasks == UNION {{<<"load", f, n>> : n \in DOMAIN flows[f].tx} : f \in Flows}
CountTasks == UNION {{<<"count", f, n>> : n \in DOMAIN flows[f].rx} : f \in Flows}
Tasks ==
  LoadTasks \union CountTasks \union {Stats}
    \union (IF ArpFlows = {} THEN {} ELSE {Arp})
    \union (IF TsFlows = {} THEN {} ELSE {Timestamp})

\* Devices on which a task sends, receives, or receives what RSS spreads.
TxOf(t) ==
  IF t \in LoadTasks THEN {flows[t[2]].tx[t[3]]}
  ELSE IF t = Arp THEN ArpDevices
  ELSE IF t = Timestamp THEN UNION {Dev(flows[f].tx) : f \in TsFlows}
  ELSE {}
RxOf(t) ==
  IF t = Arp THEN ArpDevices
  ELSE IF t = Timestamp THEN UNION {Dev(flows[f].rx) : f \in TsFlows}
  ELSE {}
RssOf(t) == IF t \in CountTasks THEN {flows[t[2]].rx[t[3]]} ELSE {}

TxUsers(T, d) == {t \in T : d \in TxOf(t)}
RxUsers(T, d) == {t \in T : d \in RxOf(t)}
RssUsers(T, d) == {t \in T : d \in RssOf(t)}

\* The order in which the start functions are called, and each goes on.
Rank(t) ==
  CASE t[1] = "arp" -> 1 [] t[1] = "stats" -> 2 [] t[1] = "count" -> 3
    [] t[1] = "load" -> 4 [] t[1] = "ts" -> 5
Before(t, u) ==
  \/ Rank(t) < Rank(u)
  \/ Rank(t) = Rank(u) /\ (t[2] < u[2] \/ (t[2] = u[2] /\ t[3] < u[3]))

None == [d \in Devices |-> 0]

MgrInit ==
  /\ flows \in CONFIGS
  /\ master = "prepare" /\ prepared = 0
  /\ txq = None /\ rxq = None /\ rsq = None
  /\ txqi = None /\ rxqi = None /\ rsqi = None
  /\ rings = [d \in Devices |-> [tx |-> 0, rx |-> 0]]
  /\ started = {} /\ queues = {}

\* The order of the prepare functions that reserve queues.
Kinds == <<"arp", "load", "count", "ts">>

\* The next of them: every task of its kind reserves its queues.
Prepare ==
  LET T == {t \in Tasks : t[1] = Kinds[prepared + 1]} IN
  /\ master = "prepare" /\ prepared < Len(Kinds)
  /\ Kinds[prepared + 1] = "arp" => ~MacMissing
  /\ prepared' = prepared + 1
  /\ txq' = [d \in Devices |-> txq[d] + Cardinality(TxUsers(T, d))]
  /\ rxq' = [d \in Devices |-> rxq[d] + Cardinality(RxUsers(T, d))
                                      + Cardinality(RssUsers(T, d))]
  /\ rsq' = [d \in Devices |-> rsq[d] + Cardinality(RssUsers(T, d))]
  /\ UNCHANGED <<flows, master, rings, started, handed>>

\* The assertion of the ARP thread's prepare function ends the master.
PrepareFails ==
  /\ master = "prepare" /\ prepared < Len(Kinds)
  /\ Kinds[prepared + 1] = "arp" /\ MacMissing
  /\ master' = "abort"
  /\ UNCHANGED <<flows, reserved, rings, started, handed>>

\* devices:configure, unless there is nothing to send.
Configure ==
  /\ master = "prepare" /\ prepared = Len(Kinds)
  /\ IF LoadTasks = {} THEN master' = "abort" /\ UNCHANGED rings
     ELSE /\ master' = "start"
          /\ rings' = [d \in Devices |->
                         [tx |-> IF txq[d] = 0 THEN 1 ELSE txq[d],
                          rx |-> IF rxq[d] = 0 THEN 1 ELSE rxq[d]]]
  /\ UNCHANGED <<flows, reserved, started, handed>>

rxQueue_NotBehindRss(d) == rxqi[d]

\* Indices of the queues txQueue, rxQueue and rssQueue return.
txQueue(d) == txqi[d]
rxQueue(d) == rsq[d] + rxqi[d]
rssQueue(d) == rsqi[d]

\* The next task is given its queues and started.
Start(t) ==
  /\ master = "start" /\ t \in Tasks \ started
  /\ \A u \in Tasks \ started : u = t \/ Before(t, u)
  /\ started' = started \union {t}
  /\ queues' = queues
       \union {[task |-> t, dir |-> "tx", dev |-> d, idx |-> txQueue(d)] : d \in TxOf(t)}
       \union {[task |-> t, dir |-> "rx", dev |-> d, idx |-> rxQueue(d)] : d \in RxOf(t)}
       \union {[task |-> t, dir |-> "rx", dev |-> d, idx |-> rssQueue(d)] : d \in RssOf(t)}
  /\ txqi' = [d \in Devices |-> IF d \in TxOf(t) THEN txqi[d] + 1 ELSE txqi[d]]
  /\ rxqi' = [d \in Devices |-> IF d \in RxOf(t) THEN rxqi[d] + 1 ELSE rxqi[d]]
  /\ rsqi' = [d \in Devices |-> IF d \in RssOf(t) THEN rsqi[d] + 1 ELSE rsqi[d]]
  /\ master' = IF started' = Tasks THEN "wait" ELSE "start"
  /\ UNCHANGED <<flows, reserved, rings>>

-----------------------------------------------------------------------------
\* No two tasks are given the same queue of a device, and none is given a queue
\* the device was not configured with, although four threads count reservations
\* and queues on their own, and RSS and plain receive queues share the indices.
QueuesOwned ==
  \A p \in queues :
    /\ p.idx \in 0 .. (IF p.dir = "tx" THEN rings[p.dev].tx ELSE rings[p.dev].rx) - 1
    /\ \A q \in queues :
         p.dir = q.dir /\ p.dev = q.dev /\ p.idx = q.idx => p.task = q.task
=============================================================================
