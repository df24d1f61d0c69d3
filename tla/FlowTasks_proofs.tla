-------------------------- MODULE FlowTasks_proofs ---------------------------
(***************************************************************************)
(* Proofs about the device manager and the tasks of the flow interface, for *)
(* every command line: queues are reserved and handed out as often as there *)
(* are tasks that use them, so every queue has one owner; the counters of   *)
(* the flows are exact; the list of the device statistics keeps every       *)
(* counter it has not finalized; and a monitor that has found a flow over   *)
(* was right.  Together this is Inv, the invariant of the whole             *)
(* specification, and with Inv the tasks implement FlowLife.                *)
(***************************************************************************)
EXTENDS FlowTasks, FiniteSetTheorems, TLAPS

-----------------------------------------------------------------------------
(* Flows and tasks.                                                         *)

\* A configured flow has lists of devices, and its number is positive.
LEMMA FlowShape ==
  ASSUME flows \in CONFIGS
  PROVE  /\ flows \in Seq(FlowType)
         /\ Flows = 1 .. Len(flows) /\ Len(flows) \in Nat
         /\ \A f \in Flows : /\ flows[f].tx \in Seq(Devices)
                             /\ flows[f].rx \in Seq(Devices)
<1>1. flows \in Seq(FlowType)
  BY DevmgrAssumption, Zenon
<1>2. Flows = 1 .. Len(flows) /\ Len(flows) \in Nat
  BY <1>1 DEF Flows
<1>3. ASSUME NEW f \in Flows PROVE flows[f] \in FlowType
  BY <1>1, <1>2
<1>4. ASSUME NEW f \in Flows
      PROVE  flows[f].tx \in Seq(Devices) /\ flows[f].rx \in Seq(Devices)
  BY <1>3, Zenon DEF FlowType
<1> QED BY <1>1, <1>2, <1>4, Zenon

\* What the parts of a load task and of a count task are.
LEMMA LoadTaskShape ==
  ASSUME NEW t \in LoadTasks
  PROVE  /\ t[1] = "load" /\ t[2] \in Flows /\ t[3] \in DOMAIN flows[t[2]].tx
         /\ t = <<"load", t[2], t[3]>>
BY DEF LoadTasks

LEMMA CountTaskShape ==
  ASSUME NEW t \in CountTasks
  PROVE  /\ t[1] = "count" /\ t[2] \in Flows /\ t[3] \in DOMAIN flows[t[2]].rx
         /\ t = <<"count", t[2], t[3]>>
BY DEF CountTasks

\* There are finitely many tasks.
LEMMA TasksFinite ==
  ASSUME flows \in CONFIGS
  PROVE  IsFiniteSet(LoadTasks) /\ IsFiniteSet(CountTasks) /\ IsFiniteSet(Tasks)
<1>0. IsFiniteSet(Flows)
  BY FlowShape, FS_Interval
<1>1. IsFiniteSet(LoadTasks)
  <2> DEFINE Of(f) == {<<"load", f, n>> : n \in DOMAIN flows[f].tx}
  <2>1. ASSUME NEW f \in Flows PROVE IsFiniteSet(Of(f))
    <3> DEFINE g == [n \in DOMAIN flows[f].tx |-> <<"load", f, n>>]
    <3>1. DOMAIN flows[f].tx = 1 .. Len(flows[f].tx) /\ Len(flows[f].tx) \in Nat
      BY FlowShape
    <3>2. IsFiniteSet(DOMAIN flows[f].tx)
      BY <3>1, FS_Interval
    <3>3. g \in Surjection(DOMAIN flows[f].tx, Of(f))
      BY Zenon DEF Surjection
    <3> QED BY <3>2, <3>3, FS_Surjection
  <2> DEFINE h == [f \in Flows |-> Of(f)]
             S == {Of(f) : f \in Flows}
  <2>2. h \in Surjection(Flows, S)
    BY Zenon DEF Surjection
  <2>3. IsFiniteSet(S)
    BY <1>0, <2>2, FS_Surjection, Zenon
  <2>4. \A T \in S : IsFiniteSet(T)
    BY <2>1, Zenon
  <2>5. IsFiniteSet(UNION S)
    BY <2>3, <2>4, FS_UNION, Zenon
  <2> QED BY <2>5, Zenon DEF LoadTasks
<1>2. IsFiniteSet(CountTasks)
  <2> DEFINE Of(f) == {<<"count", f, n>> : n \in DOMAIN flows[f].rx}
  <2>1. ASSUME NEW f \in Flows PROVE IsFiniteSet(Of(f))
    <3> DEFINE g == [n \in DOMAIN flows[f].rx |-> <<"count", f, n>>]
    <3>1. DOMAIN flows[f].rx = 1 .. Len(flows[f].rx) /\ Len(flows[f].rx) \in Nat
      BY FlowShape
    <3>2. IsFiniteSet(DOMAIN flows[f].rx)
      BY <3>1, FS_Interval
    <3>3. g \in Surjection(DOMAIN flows[f].rx, Of(f))
      BY Zenon DEF Surjection
    <3> QED BY <3>2, <3>3, FS_Surjection
  <2> DEFINE h == [f \in Flows |-> Of(f)]
             S == {Of(f) : f \in Flows}
  <2>2. h \in Surjection(Flows, S)
    BY Zenon DEF Surjection
  <2>3. IsFiniteSet(S)
    BY <1>0, <2>2, FS_Surjection, Zenon
  <2>4. \A T \in S : IsFiniteSet(T)
    BY <2>1, Zenon
  <2>5. IsFiniteSet(UNION S)
    BY <2>3, <2>4, FS_UNION, Zenon
  <2> QED BY <2>5, Zenon DEF CountTasks
<1>3. IsFiniteSet({Stats, Arp, Timestamp})
  <2>1. IsFiniteSet({Stats}) /\ IsFiniteSet({Arp}) /\ IsFiniteSet({Timestamp})
    BY FS_Singleton, Zenon
  <2>2. IsFiniteSet({Stats} \union {Arp})
    BY <2>1, FS_Union, Zenon
  <2>3. IsFiniteSet(({Stats} \union {Arp}) \union {Timestamp})
    BY <2>1, <2>2, FS_Union, Zenon
  <2>4. ({Stats} \union {Arp}) \union {Timestamp} = {Stats, Arp, Timestamp}
    BY Zenon
  <2> QED BY <2>3, <2>4, Zenon
<1>4. IsFiniteSet(LoadTasks \union CountTasks)
  BY <1>1, <1>2, FS_Union, Zenon
<1>5. IsFiniteSet((LoadTasks \union CountTasks) \union {Stats, Arp, Timestamp})
  BY <1>3, <1>4, FS_Union, Zenon
<1>6. Tasks \subseteq (LoadTasks \union CountTasks) \union {Stats, Arp, Timestamp}
  BY Zenon DEF Tasks
<1>7. IsFiniteSet(Tasks)
  BY <1>5, <1>6, FS_Subset, Zenon
<1> QED BY <1>1, <1>2, <1>7, Zenon

\* The devices a task uses are devices; what it sends and receives on depends on
\* its kind, and the statistics task uses none.
LEMMA UsesShape ==
  ASSUME flows \in CONFIGS, NEW t \in Tasks
  PROVE  /\ TxOf(t) \subseteq Devices /\ RxOf(t) \subseteq Devices
         /\ RssOf(t) \subseteq Devices
         /\ t[1] \in {"arp", "load", "count", "ts", "stats"}
         /\ t[1] = "stats" => TxOf(t) = {} /\ RxOf(t) = {} /\ RssOf(t) = {}
<1>1. ASSUME NEW f \in Flows
      PROVE  Dev(flows[f].tx) \subseteq Devices /\ Dev(flows[f].rx) \subseteq Devices
  BY FlowShape DEF Dev
<1>2. ArpDevices \subseteq Devices
  BY <1>1, Zenon DEF ArpDevices, ArpFlows
<1>3. UNION {Dev(flows[f].tx) : f \in TsFlows} \subseteq Devices
  BY <1>1, Zenon DEF TsFlows
<1>4. UNION {Dev(flows[f].rx) : f \in TsFlows} \subseteq Devices
  BY <1>1, Zenon DEF TsFlows
<1>5. TxOf(t) \subseteq Devices
  <2>1. CASE t \in LoadTasks
    <3>1. flows[t[2]].tx[t[3]] \in Devices
      BY <2>1, LoadTaskShape, FlowShape
    <3> QED BY <2>1, <3>1, Zenon DEF TxOf
  <2> QED BY <2>1, <1>2, <1>3, Zenon DEF TxOf
<1>6. RxOf(t) \subseteq Devices
  BY <1>2, <1>4, Zenon DEF RxOf
<1>7. RssOf(t) \subseteq Devices
  <2>1. CASE t \in CountTasks
    <3>1. flows[t[2]].rx[t[3]] \in Devices
      BY <2>1, CountTaskShape, FlowShape
    <3> QED BY <2>1, <3>1, Zenon DEF RssOf
  <2> QED BY <2>1, Zenon DEF RssOf
<1>8. t \in LoadTasks \/ t \in CountTasks \/ t \in {Stats, Arp, Timestamp}
  BY Zenon DEF Tasks
<1>9. Stats[1] = "stats" /\ Arp[1] = "arp" /\ Timestamp[1] = "ts"
  BY Zenon DEF Stats, Arp, Timestamp
<1>10. t[1] \in {"arp", "load", "count", "ts", "stats"}
  BY <1>8, <1>9, LoadTaskShape, CountTaskShape, Zenon
<1>11. ASSUME t[1] = "stats"
       PROVE  TxOf(t) = {} /\ RxOf(t) = {} /\ RssOf(t) = {}
  <2>1. t \notin LoadTasks /\ t \notin CountTasks /\ t # Arp /\ t # Timestamp
    BY <1>11, <1>9, LoadTaskShape, CountTaskShape, Zenon
  <2> QED BY <2>1, Zenon DEF TxOf, RxOf, RssOf
<1> QED BY <1>5, <1>6, <1>7, <1>10, <1>11, Zenon

\* Nothing that is computed from the flows changes.
LEMMA Static ==
  ASSUME flows' = flows
  PROVE  /\ Flows' = Flows /\ LoadTasks' = LoadTasks /\ CountTasks' = CountTasks
         /\ Tasks' = Tasks /\ ArpFlows' = ArpFlows /\ TsFlows' = TsFlows
         /\ TsMixed' = TsMixed
BY DEF Flows, LoadTasks, CountTasks, Tasks, ArpFlows, TsFlows, TsMixed

-----------------------------------------------------------------------------
(* The device manager.                                                      *)

\* Tasks of the kinds whose prepare functions have been called.
Reserving(n) == {t \in Tasks : \E k \in 1 .. n : t[1] = Kinds[k]}

\* A device has as many queues reserved as tasks that asked for one, as many
\* handed out as tasks that were started, and is configured with what is
\* reserved; a queue handed out has an index below the next one of its kind.
MgrInv ==
  /\ flows \in CONFIGS /\ started \subseteq Tasks /\ prepared \in 0 .. 4
  /\ txq \in [Devices -> Nat] /\ rxq \in [Devices -> Nat] /\ rsq \in [Devices -> Nat]
  /\ txqi \in [Devices -> Nat] /\ rxqi \in [Devices -> Nat] /\ rsqi \in [Devices -> Nat]
  /\ rings \in [Devices -> [tx : Nat, rx : Nat]]
  /\ master \notin {"start", "wait"} => started = {} /\ queues = {}
  /\ \A d \in Devices :
       /\ txq[d] = Cardinality(TxUsers(Reserving(prepared), d))
       /\ rsq[d] = Cardinality(RssUsers(Reserving(prepared), d))
       /\ rxq[d] = Cardinality(RxUsers(Reserving(prepared), d)) + rsq[d]
       /\ txqi[d] = Cardinality(TxUsers(started, d))
       /\ rxqi[d] = Cardinality(RxUsers(started, d))
       /\ rsqi[d] = Cardinality(RssUsers(started, d))
       /\ master \in {"start", "wait"} =>
            prepared = 4 /\ rings[d].tx >= txq[d] /\ rings[d].rx >= rxq[d]
  /\ \A p \in queues :
       /\ p.dev \in Devices /\ p.dir \in {"tx", "rx"} /\ p.idx \in Nat
       /\ p.dir = "tx" => p.idx < txqi[p.dev]
       /\ p.dir = "rx" => \/ p.idx < rsqi[p.dev]
                          \/ rsq[p.dev] <= p.idx /\ p.idx < rsq[p.dev] + rxqi[p.dev]
  /\ \A p, q \in queues :
       p.dir = q.dir /\ p.dev = q.dev /\ p.idx = q.idx => p.task = q.task

\* The users of a device are finitely many, and more among more tasks.
LEMMA UsersFinite ==
  ASSUME flows \in CONFIGS, NEW d, NEW S \in SUBSET Tasks
  PROVE  /\ IsFiniteSet(TxUsers(S, d)) /\ Cardinality(TxUsers(S, d)) \in Nat
         /\ IsFiniteSet(RxUsers(S, d)) /\ Cardinality(RxUsers(S, d)) \in Nat
         /\ IsFiniteSet(RssUsers(S, d)) /\ Cardinality(RssUsers(S, d)) \in Nat
         /\ Cardinality(TxUsers(S, d)) <= Cardinality(TxUsers(Tasks, d))
         /\ Cardinality(RxUsers(S, d)) <= Cardinality(RxUsers(Tasks, d))
         /\ Cardinality(RssUsers(S, d)) <= Cardinality(RssUsers(Tasks, d))
<1>1. IsFiniteSet(Tasks)
  BY TasksFinite, Zenon
<1>2. TxUsers(Tasks, d) \in SUBSET Tasks /\ RxUsers(Tasks, d) \in SUBSET Tasks
      /\ RssUsers(Tasks, d) \in SUBSET Tasks
  BY Zenon DEF TxUsers, RxUsers, RssUsers
<1>3. TxUsers(S, d) \in SUBSET TxUsers(Tasks, d) /\ RxUsers(S, d) \in SUBSET RxUsers(Tasks, d)
      /\ RssUsers(S, d) \in SUBSET RssUsers(Tasks, d)
  BY Zenon DEF TxUsers, RxUsers, RssUsers
<1>4. IsFiniteSet(TxUsers(Tasks, d)) /\ IsFiniteSet(RxUsers(Tasks, d))
      /\ IsFiniteSet(RssUsers(Tasks, d))
  BY <1>1, <1>2, FS_Subset, Zenon
<1>5. /\ IsFiniteSet(TxUsers(S, d))
      /\ Cardinality(TxUsers(S, d)) <= Cardinality(TxUsers(Tasks, d))
  BY <1>3, <1>4, FS_Subset, Zenon
<1>6. /\ IsFiniteSet(RxUsers(S, d))
      /\ Cardinality(RxUsers(S, d)) <= Cardinality(RxUsers(Tasks, d))
  BY <1>3, <1>4, FS_Subset, Zenon
<1>7. /\ IsFiniteSet(RssUsers(S, d))
      /\ Cardinality(RssUsers(S, d)) <= Cardinality(RssUsers(Tasks, d))
  BY <1>3, <1>4, FS_Subset, Zenon
<1> QED BY <1>5, <1>6, <1>7, FS_CardinalityType, Zenon

\* The cardinalities of disjoint finite sets add up.
LEMMA DisjointAdd ==
  ASSUME NEW A, NEW B, IsFiniteSet(A), IsFiniteSet(B), A \cap B = {}
  PROVE  Cardinality(A \union B) = Cardinality(A) + Cardinality(B)
<1>1. Cardinality(A \union B) = Cardinality(A) + Cardinality(B) - Cardinality(A \cap B)
  BY FS_Union, Zenon
<1>2. Cardinality(A \cap B) = 0
  BY FS_EmptySet, Zenon
<1>3. Cardinality(A) \in Nat /\ Cardinality(B) \in Nat
  BY FS_CardinalityType, Zenon
<1> QED BY <1>1, <1>2, <1>3

\* Users of disjoint sets of tasks add up.
LEMMA UsersAdd ==
  ASSUME flows \in CONFIGS, NEW d, NEW S \in SUBSET Tasks, NEW T \in SUBSET Tasks,
         S \cap T = {}
  PROVE  /\ Cardinality(TxUsers(S \union T, d))
              = Cardinality(TxUsers(S, d)) + Cardinality(TxUsers(T, d))
         /\ Cardinality(RxUsers(S \union T, d))
              = Cardinality(RxUsers(S, d)) + Cardinality(RxUsers(T, d))
         /\ Cardinality(RssUsers(S \union T, d))
              = Cardinality(RssUsers(S, d)) + Cardinality(RssUsers(T, d))
<1>1. Cardinality(TxUsers(S \union T, d))
        = Cardinality(TxUsers(S, d)) + Cardinality(TxUsers(T, d))
  <2>1. TxUsers(S \union T, d) = TxUsers(S, d) \union TxUsers(T, d)
        /\ TxUsers(S, d) \cap TxUsers(T, d) = {}
    BY Zenon DEF TxUsers
  <2>2. IsFiniteSet(TxUsers(S, d)) /\ IsFiniteSet(TxUsers(T, d))
    BY UsersFinite, Zenon
  <2> QED BY <2>1, <2>2, DisjointAdd, Zenon
<1>2. Cardinality(RxUsers(S \union T, d))
        = Cardinality(RxUsers(S, d)) + Cardinality(RxUsers(T, d))
  <2>1. RxUsers(S \union T, d) = RxUsers(S, d) \union RxUsers(T, d)
        /\ RxUsers(S, d) \cap RxUsers(T, d) = {}
    BY Zenon DEF RxUsers
  <2>2. IsFiniteSet(RxUsers(S, d)) /\ IsFiniteSet(RxUsers(T, d))
    BY UsersFinite, Zenon
  <2> QED BY <2>1, <2>2, DisjointAdd, Zenon
<1>3. Cardinality(RssUsers(S \union T, d))
        = Cardinality(RssUsers(S, d)) + Cardinality(RssUsers(T, d))
  <2>1. RssUsers(S \union T, d) = RssUsers(S, d) \union RssUsers(T, d)
        /\ RssUsers(S, d) \cap RssUsers(T, d) = {}
    BY Zenon DEF RssUsers
  <2>2. IsFiniteSet(RssUsers(S, d)) /\ IsFiniteSet(RssUsers(T, d))
    BY UsersFinite, Zenon
  <2> QED BY <2>1, <2>2, DisjointAdd, Zenon
<1> QED BY <1>1, <1>2, <1>3, Zenon

\* One more task is one more user of the devices it uses.
LEMMA UsersOneMore ==
  ASSUME flows \in CONFIGS, NEW d, NEW S \in SUBSET Tasks, NEW t \in Tasks \ S
  PROVE  /\ Cardinality(TxUsers(S \union {t}, d))
              = IF d \in TxOf(t) THEN Cardinality(TxUsers(S, d)) + 1
                ELSE Cardinality(TxUsers(S, d))
         /\ Cardinality(RxUsers(S \union {t}, d))
              = IF d \in RxOf(t) THEN Cardinality(RxUsers(S, d)) + 1
                ELSE Cardinality(RxUsers(S, d))
         /\ Cardinality(RssUsers(S \union {t}, d))
              = IF d \in RssOf(t) THEN Cardinality(RssUsers(S, d)) + 1
                ELSE Cardinality(RssUsers(S, d))
<1>1. /\ TxUsers(S \union {t}, d)
           = IF d \in TxOf(t) THEN TxUsers(S, d) \union {t} ELSE TxUsers(S, d)
      /\ t \notin TxUsers(S, d)
  BY Zenon DEF TxUsers
<1>2. /\ RxUsers(S \union {t}, d)
           = IF d \in RxOf(t) THEN RxUsers(S, d) \union {t} ELSE RxUsers(S, d)
      /\ t \notin RxUsers(S, d)
  BY Zenon DEF RxUsers
<1>3. /\ RssUsers(S \union {t}, d)
           = IF d \in RssOf(t) THEN RssUsers(S, d) \union {t} ELSE RssUsers(S, d)
      /\ t \notin RssUsers(S, d)
  BY Zenon DEF RssUsers
<1>4. IsFiniteSet(TxUsers(S, d)) /\ IsFiniteSet(RxUsers(S, d)) /\ IsFiniteSet(RssUsers(S, d))
  BY UsersFinite, Zenon
<1>5. Cardinality(TxUsers(S, d) \union {t}) = Cardinality(TxUsers(S, d)) + 1
  BY <1>1, <1>4, FS_AddElement, Zenon
<1>6. Cardinality(RxUsers(S, d) \union {t}) = Cardinality(RxUsers(S, d)) + 1
  BY <1>2, <1>4, FS_AddElement, Zenon
<1>7. Cardinality(RssUsers(S, d) \union {t}) = Cardinality(RssUsers(S, d)) + 1
  BY <1>3, <1>4, FS_AddElement, Zenon
<1> QED BY <1>1, <1>2, <1>3, <1>5, <1>6, <1>7, Zenon

\* What a task uses does not change with time.
LEMMA StaticUses ==
  ASSUME flows' = flows, NEW d
  PROVE  /\ \A t : TxOf(t)' = TxOf(t) /\ RxOf(t)' = RxOf(t) /\ RssOf(t)' = RssOf(t)
         /\ \A S : /\ TxUsers(S, d)' = TxUsers(S, d) /\ RxUsers(S, d)' = RxUsers(S, d)
                   /\ RssUsers(S, d)' = RssUsers(S, d)
         /\ \A n : Reserving(n)' = Reserving(n)
<1>1. ArpDevices' = ArpDevices
  BY Zenon DEF ArpDevices, ArpFlows, Flows
<1>2. \A t : TxOf(t)' = TxOf(t) /\ RxOf(t)' = RxOf(t) /\ RssOf(t)' = RssOf(t)
  BY <1>1, Static, Zenon DEF TxOf, RxOf, RssOf
<1>3. \A S : /\ TxUsers(S, d)' = TxUsers(S, d) /\ RxUsers(S, d)' = RxUsers(S, d)
             /\ RssUsers(S, d)' = RssUsers(S, d)
  BY <1>2, Zenon DEF TxUsers, RxUsers, RssUsers
<1> QED BY <1>2, <1>3, Static, Zenon DEF Reserving

LEMMA MgrInit_Inv ==
  MgrInit => MgrInv
<1> SUFFICES ASSUME MgrInit PROVE MgrInv
  BY Zenon
<1> USE DEF MgrInit
<1>1. Reserving(0) = {}
  BY DEF Reserving
<1>2. ASSUME NEW d
      PROVE  /\ Cardinality(TxUsers({}, d)) = 0 /\ Cardinality(RxUsers({}, d)) = 0
             /\ Cardinality(RssUsers({}, d)) = 0
  BY FS_EmptySet, Zenon DEF TxUsers, RxUsers, RssUsers
<1> QED BY <1>1, <1>2 DEF MgrInv, None

LEMMA Prepare_Inv ==
  ASSUME MgrInv, Prepare
  PROVE  MgrInv'
<1> DEFINE T == {t \in Tasks : t[1] = Kinds[prepared + 1]}
           R == Reserving(prepared)
<1>0. /\ flows \in CONFIGS /\ prepared \in 0 .. 4 /\ flows' = flows
      /\ prepared' = prepared + 1 /\ prepared < 4 /\ master = "prepare"
  BY Zenon DEF MgrInv, Prepare, Kinds
<1>1. R \subseteq Tasks /\ T \subseteq Tasks /\ R \cap T = {}
      /\ Reserving(prepared + 1) = R \union T
  BY <1>0 DEF Reserving, Kinds
<1>2. Reserving(prepared)' = R \union T
  BY <1>0, <1>1, StaticUses, Zenon
<1>3. ASSUME NEW d \in Devices
      PROVE  /\ TxUsers(Reserving(prepared), d)' = TxUsers(R \union T, d)
             /\ RxUsers(Reserving(prepared), d)' = RxUsers(R \union T, d)
             /\ RssUsers(Reserving(prepared), d)' = RssUsers(R \union T, d)
             /\ TxUsers(started, d)' = TxUsers(started, d)
             /\ RxUsers(started, d)' = RxUsers(started, d)
             /\ RssUsers(started, d)' = RssUsers(started, d)
  <2> HIDE DEF T, R
  <2>1. started' = started
    BY Zenon DEF Prepare
  <2>2. \A t : TxOf(t)' = TxOf(t) /\ RxOf(t)' = RxOf(t) /\ RssOf(t)' = RssOf(t)
    BY <1>0, StaticUses, Zenon
  <2> QED BY <1>2, <2>1, <2>2, Zenon DEF TxUsers, RxUsers, RssUsers
<1>4. ASSUME NEW d \in Devices
      PROVE  /\ txq'[d] = Cardinality(TxUsers(R \union T, d))
             /\ rsq'[d] = Cardinality(RssUsers(R \union T, d))
             /\ rxq'[d] = Cardinality(RxUsers(R \union T, d)) + rsq'[d]
             /\ txq'[d] \in Nat /\ rsq'[d] \in Nat /\ rxq'[d] \in Nat
  <2>1. /\ txq'[d] = txq[d] + Cardinality(TxUsers(T, d))
        /\ rxq'[d] = rxq[d] + Cardinality(RxUsers(T, d)) + Cardinality(RssUsers(T, d))
        /\ rsq'[d] = rsq[d] + Cardinality(RssUsers(T, d))
    BY Zenon DEF Prepare
  <2>2. /\ txq[d] = Cardinality(TxUsers(R, d)) /\ rsq[d] = Cardinality(RssUsers(R, d))
        /\ rxq[d] = Cardinality(RxUsers(R, d)) + rsq[d]
    BY Zenon DEF MgrInv
  <2> HIDE DEF T, R
  <2>3. /\ Cardinality(TxUsers(T, d)) \in Nat /\ Cardinality(RxUsers(T, d)) \in Nat
        /\ Cardinality(RssUsers(T, d)) \in Nat
        /\ Cardinality(TxUsers(R, d)) \in Nat /\ Cardinality(RxUsers(R, d)) \in Nat
        /\ Cardinality(RssUsers(R, d)) \in Nat
    BY <1>0, <1>1, UsersFinite, Zenon
  <2>4. /\ Cardinality(TxUsers(R \union T, d))
             = Cardinality(TxUsers(R, d)) + Cardinality(TxUsers(T, d))
        /\ Cardinality(RxUsers(R \union T, d))
             = Cardinality(RxUsers(R, d)) + Cardinality(RxUsers(T, d))
        /\ Cardinality(RssUsers(R \union T, d))
             = Cardinality(RssUsers(R, d)) + Cardinality(RssUsers(T, d))
    BY <1>0, <1>1, UsersAdd, Zenon
  <2> QED BY <2>1, <2>2, <2>3, <2>4
<1> HIDE DEF T, R
<1>5. txq' \in [Devices -> Nat] /\ rxq' \in [Devices -> Nat] /\ rsq' \in [Devices -> Nat]
  BY <1>4, Zenon DEF Prepare
<1>6. /\ master' = master /\ rings' = rings /\ started' = started /\ queues' = queues
      /\ txqi' = txqi /\ rxqi' = rxqi /\ rsqi' = rsqi /\ started = {} /\ queues = {}
  BY <1>0, Zenon DEF Prepare, handed, MgrInv
<1>7. ASSUME NEW d \in Devices
      PROVE  /\ txqi'[d] = Cardinality(TxUsers(started, d))'
             /\ rxqi'[d] = Cardinality(RxUsers(started, d))'
             /\ rsqi'[d] = Cardinality(RssUsers(started, d))'
  BY <1>3, <1>6, Zenon DEF MgrInv
<1>8. ASSUME NEW d \in Devices
      PROVE  /\ txq'[d] = Cardinality(TxUsers(Reserving(prepared), d))'
             /\ rsq'[d] = Cardinality(RssUsers(Reserving(prepared), d))'
             /\ rxq'[d] = Cardinality(RxUsers(Reserving(prepared), d))' + rsq'[d]
  BY <1>3, <1>4, Zenon
<1>9. /\ prepared' \in 0 .. 4 /\ started' \subseteq Tasks' /\ flows' \in CONFIGS
  BY <1>0, <1>6
<1>10. /\ txqi' \in [Devices -> Nat] /\ rxqi' \in [Devices -> Nat]
       /\ rsqi' \in [Devices -> Nat] /\ rings' \in [Devices -> [tx : Nat, rx : Nat]]
  BY <1>6, Zenon DEF MgrInv
<1> QED BY <1>0, <1>5, <1>6, <1>7, <1>8, <1>9, <1>10, Zenon DEF MgrInv

LEMMA PrepareFails_Inv ==
  ASSUME MgrInv, PrepareFails
  PROVE  MgrInv'
<1>1. /\ flows' = flows /\ prepared' = prepared /\ txq' = txq /\ rxq' = rxq /\ rsq' = rsq
      /\ txqi' = txqi /\ rxqi' = rxqi /\ rsqi' = rsqi /\ queues' = queues
      /\ rings' = rings /\ started' = started /\ master = "prepare" /\ master' = "abort"
  BY Zenon DEF PrepareFails, reserved, handed
<1>2. started = {} /\ queues = {} /\ flows \in CONFIGS /\ prepared \in 0 .. 4
  BY <1>1, Zenon DEF MgrInv
<1>3. Tasks' = Tasks /\ Reserving(prepared)' = Reserving(prepared)
  BY <1>1, Static, StaticUses, Zenon
<1>4. ASSUME NEW d \in Devices
      PROVE  /\ TxUsers(Reserving(prepared), d)' = TxUsers(Reserving(prepared), d)
             /\ RxUsers(Reserving(prepared), d)' = RxUsers(Reserving(prepared), d)
             /\ RssUsers(Reserving(prepared), d)' = RssUsers(Reserving(prepared), d)
             /\ TxUsers(started, d)' = TxUsers(started, d)
             /\ RxUsers(started, d)' = RxUsers(started, d)
             /\ RssUsers(started, d)' = RssUsers(started, d)
  <2>1. \A t : TxOf(t)' = TxOf(t) /\ RxOf(t)' = RxOf(t) /\ RssOf(t)' = RssOf(t)
    BY <1>1, StaticUses, Zenon
  <2> QED BY <1>1, <1>3, <2>1, Zenon DEF TxUsers, RxUsers, RssUsers
<1> QED BY <1>1, <1>2, <1>3, <1>4, Zenon DEF MgrInv

\* Stats uses no queue: the reservations are for all the tasks.
LEMMA AllReserved ==
  ASSUME flows \in CONFIGS, NEW d
  PROVE  /\ TxUsers(Reserving(4), d) = TxUsers(Tasks, d)
         /\ RxUsers(Reserving(4), d) = RxUsers(Tasks, d)
         /\ RssUsers(Reserving(4), d) = RssUsers(Tasks, d)
<1>1. ASSUME NEW t \in Tasks, t[1] # "stats" PROVE t \in Reserving(4)
  <2>1. Kinds[1] = "arp" /\ Kinds[2] = "load" /\ Kinds[3] = "count" /\ Kinds[4] = "ts"
    BY Zenon DEF Kinds
  <2>2. t[1] \in {"arp", "load", "count", "ts"}
    BY <1>1, UsesShape, Zenon
  <2> QED BY <2>1, <2>2 DEF Reserving
<1>2. \A t \in Tasks : t[1] = "stats" => TxOf(t) = {} /\ RxOf(t) = {} /\ RssOf(t) = {}
  BY UsesShape, Zenon
<1>3. Reserving(4) \subseteq Tasks
  BY Zenon DEF Reserving
<1> QED BY <1>1, <1>2, <1>3, Zenon DEF TxUsers, RxUsers, RssUsers

LEMMA Configure_Inv ==
  ASSUME MgrInv, Configure
  PROVE  MgrInv'
<1>1. /\ flows' = flows /\ prepared' = prepared /\ txq' = txq /\ rxq' = rxq /\ rsq' = rsq
      /\ txqi' = txqi /\ rxqi' = rxqi /\ rsqi' = rsqi /\ queues' = queues
      /\ started' = started /\ prepared = 4 /\ master = "prepare"
  BY Zenon DEF Configure, reserved, handed, Kinds
<1>2. started = {} /\ queues = {} /\ flows \in CONFIGS /\ prepared \in 0 .. 4
  BY <1>1, Zenon DEF MgrInv
<1>3. \A d \in Devices : txq[d] \in Nat /\ rxq[d] \in Nat
  BY Zenon DEF MgrInv
<1>4. /\ rings' \in [Devices -> [tx : Nat, rx : Nat]]
      /\ master' \in {"start", "wait"} =>
           \A d \in Devices : rings'[d].tx >= txq[d] /\ rings'[d].rx >= rxq[d]
  <2>1. CASE LoadTasks = {}
    BY <2>1, Zenon DEF Configure, MgrInv
  <2>2. CASE LoadTasks # {}
    <3>1. rings' = [d \in Devices |-> [tx |-> IF txq[d] = 0 THEN 1 ELSE txq[d],
                                       rx |-> IF rxq[d] = 0 THEN 1 ELSE rxq[d]]]
      BY <2>2, Zenon DEF Configure
    <3>2. ASSUME NEW d \in Devices
          PROVE  /\ rings'[d].tx = (IF txq[d] = 0 THEN 1 ELSE txq[d])
                 /\ rings'[d].rx = (IF rxq[d] = 0 THEN 1 ELSE rxq[d])
                 /\ rings'[d] \in [tx : Nat, rx : Nat]
      BY <3>1, <1>3, Zenon
    <3>3. ASSUME NEW d \in Devices
          PROVE  rings'[d].tx >= txq[d] /\ rings'[d].rx >= rxq[d]
      BY <3>2, <1>3
    <3> QED BY <3>1, <3>2, <3>3, Zenon
  <2> QED BY <2>1, <2>2, Zenon
<1>5. ASSUME NEW d \in Devices
      PROVE  /\ TxUsers(Reserving(prepared), d)' = TxUsers(Reserving(prepared), d)
             /\ RxUsers(Reserving(prepared), d)' = RxUsers(Reserving(prepared), d)
             /\ RssUsers(Reserving(prepared), d)' = RssUsers(Reserving(prepared), d)
             /\ TxUsers(started, d)' = TxUsers(started, d)
             /\ RxUsers(started, d)' = RxUsers(started, d)
             /\ RssUsers(started, d)' = RssUsers(started, d)
  <2>1. \A t : TxOf(t)' = TxOf(t) /\ RxOf(t)' = RxOf(t) /\ RssOf(t)' = RssOf(t)
    BY <1>1, StaticUses, Zenon
  <2>2. Reserving(prepared)' = Reserving(prepared)
    BY <1>1, StaticUses, Zenon
  <2> QED BY <1>1, <2>1, <2>2, Zenon DEF TxUsers, RxUsers, RssUsers
<1> QED BY <1>1, <1>2, <1>4, <1>5 DEF MgrInv

LEMMA Start_Inv ==
  ASSUME MgrInv, NEW t, Start(t)
  PROVE  MgrInv'
<1>1. /\ flows' = flows /\ prepared' = prepared /\ txq' = txq /\ rxq' = rxq /\ rsq' = rsq
      /\ rings' = rings /\ started' = started \union {t} /\ t \in Tasks \ started
      /\ master = "start" /\ master' \in {"start", "wait"}
  BY Zenon DEF Start, reserved
<1>2. /\ flows \in CONFIGS /\ started \subseteq Tasks /\ Tasks' = Tasks
  BY <1>1, Static, Zenon DEF MgrInv
<1>3. TxOf(t) \subseteq Devices /\ RxOf(t) \subseteq Devices /\ RssOf(t) \subseteq Devices
  BY <1>1, <1>2, UsesShape, Zenon
<1>4. \A u : TxOf(u)' = TxOf(u) /\ RxOf(u)' = RxOf(u) /\ RssOf(u)' = RssOf(u)
  BY <1>1, StaticUses, Zenon
<1>5. ASSUME NEW d \in Devices
      PROVE  /\ txqi'[d] = IF d \in TxOf(t) THEN txqi[d] + 1 ELSE txqi[d]
             /\ rxqi'[d] = IF d \in RxOf(t) THEN rxqi[d] + 1 ELSE rxqi[d]
             /\ rsqi'[d] = IF d \in RssOf(t) THEN rsqi[d] + 1 ELSE rsqi[d]
             /\ txqi[d] \in Nat /\ rxqi[d] \in Nat /\ rsqi[d] \in Nat
             /\ txq[d] \in Nat /\ rxq[d] \in Nat /\ rsq[d] \in Nat
  BY Zenon DEF Start, MgrInv
<1>6. ASSUME NEW d \in Devices
      PROVE  /\ TxUsers(started, d)' = TxUsers(started \union {t}, d)
             /\ RxUsers(started, d)' = RxUsers(started \union {t}, d)
             /\ RssUsers(started, d)' = RssUsers(started \union {t}, d)
  BY <1>1, <1>4, Zenon DEF TxUsers, RxUsers, RssUsers
<1>7. ASSUME NEW d \in Devices
      PROVE  /\ txqi'[d] = Cardinality(TxUsers(started, d))'
             /\ rxqi'[d] = Cardinality(RxUsers(started, d))'
             /\ rsqi'[d] = Cardinality(RssUsers(started, d))'
  <2>1. /\ txqi[d] = Cardinality(TxUsers(started, d))
        /\ rxqi[d] = Cardinality(RxUsers(started, d))
        /\ rsqi[d] = Cardinality(RssUsers(started, d))
    BY Zenon DEF MgrInv
  <2>2. /\ Cardinality(TxUsers(started \union {t}, d))
              = IF d \in TxOf(t) THEN Cardinality(TxUsers(started, d)) + 1
                ELSE Cardinality(TxUsers(started, d))
        /\ Cardinality(RxUsers(started \union {t}, d))
              = IF d \in RxOf(t) THEN Cardinality(RxUsers(started, d)) + 1
                ELSE Cardinality(RxUsers(started, d))
        /\ Cardinality(RssUsers(started \union {t}, d))
              = IF d \in RssOf(t) THEN Cardinality(RssUsers(started, d)) + 1
                ELSE Cardinality(RssUsers(started, d))
    BY <1>1, <1>2, UsersOneMore, Zenon
  <2> QED BY <1>5, <1>6, <2>1, <2>2, Zenon
<1>8. ASSUME NEW d \in Devices
      PROVE  /\ TxUsers(Reserving(prepared), d)' = TxUsers(Reserving(prepared), d)
             /\ RxUsers(Reserving(prepared), d)' = RxUsers(Reserving(prepared), d)
             /\ RssUsers(Reserving(prepared), d)' = RssUsers(Reserving(prepared), d)
  <2>1. Reserving(prepared)' = Reserving(prepared)
    BY <1>1, StaticUses, Zenon
  <2> QED BY <1>4, <2>1, Zenon DEF TxUsers, RxUsers, RssUsers
\* There is room among the reserved queues for one more.
<1>9. ASSUME NEW d \in Devices
      PROVE  rsqi'[d] <= rsq[d]
  <2>1. prepared = 4 /\ rsq[d] = Cardinality(RssUsers(Reserving(prepared), d))
    BY <1>1, Zenon DEF MgrInv
  <2>2. rsq[d] = Cardinality(RssUsers(Tasks, d))
    BY <1>2, <2>1, AllReserved, Zenon
  <2>3. started \union {t} \in SUBSET Tasks
    BY <1>1, <1>2, Zenon
  <2> HIDE DEF RssUsers
  <2> QED BY <1>2, <1>6, <1>7, <2>2, <2>3, UsersFinite, Zenon
\* The queues that are handed out now.
<1> DEFINE new(q) ==
             /\ q.task = t /\ q.dev \in Devices /\ q.idx \in Nat
             /\ \/ q.dir = "tx" /\ q.dev \in TxOf(t) /\ q.idx = txqi[q.dev]
                \/ q.dir = "rx" /\ q.dev \in RxOf(t) /\ q.idx = rsq[q.dev] + rxqi[q.dev]
                \/ q.dir = "rx" /\ q.dev \in RssOf(t) /\ q.idx = rsqi[q.dev]
<1>10. ASSUME NEW q \in queues' PROVE q \in queues \/ new(q)
  <2> DEFINE A == {[task |-> t, dir |-> "tx", dev |-> d, idx |-> txqi[d]] : d \in TxOf(t)}
             B == {[task |-> t, dir |-> "rx", dev |-> d, idx |-> rsq[d] + rxqi[d]]
                     : d \in RxOf(t)}
             C == {[task |-> t, dir |-> "rx", dev |-> d, idx |-> rsqi[d]] : d \in RssOf(t)}
  <2>1. queues' = queues \union A \union B \union C
    BY Zenon DEF Start, txQueue, rxQueue, rssQueue
  <2>2. CASE q \in A
    <3>1. PICK d \in TxOf(t) : q = [task |-> t, dir |-> "tx", dev |-> d, idx |-> txqi[d]]
      BY <2>2, Zenon
    <3>2. d \in Devices /\ txqi[d] \in Nat
      BY <1>3, <1>5, Zenon
    <3> QED BY <3>1, <3>2, Zenon
  <2>3. CASE q \in B
    <3>1. PICK d \in RxOf(t) : q = [task |-> t, dir |-> "rx", dev |-> d, idx |-> rsq[d] + rxqi[d]]
      BY <2>3, Zenon
    <3>2. d \in Devices /\ rsq[d] + rxqi[d] \in Nat
      BY <1>3, <1>5
    <3> QED BY <3>1, <3>2, Zenon
  <2>4. CASE q \in C
    <3>1. PICK d \in RssOf(t) : q = [task |-> t, dir |-> "rx", dev |-> d, idx |-> rsqi[d]]
      BY <2>4, Zenon
    <3>2. d \in Devices /\ rsqi[d] \in Nat
      BY <1>3, <1>5, Zenon
    <3> QED BY <3>1, <3>2, Zenon
  <2> QED BY <2>1, <2>2, <2>3, <2>4, Zenon
<1>11. ASSUME NEW q \in queues'
       PROVE  /\ q.dev \in Devices /\ q.dir \in {"tx", "rx"} /\ q.idx \in Nat
              /\ q.dir = "tx" => q.idx < txqi'[q.dev]
              /\ q.dir = "rx" => \/ q.idx < rsqi'[q.dev]
                                 \/ /\ rsq[q.dev] <= q.idx
                                    /\ q.idx < rsq[q.dev] + rxqi'[q.dev]
  <2>1. CASE q \in queues
    <3>1. /\ q.dev \in Devices /\ q.dir \in {"tx", "rx"} /\ q.idx \in Nat
          /\ q.dir = "tx" => q.idx < txqi[q.dev]
          /\ q.dir = "rx" => \/ q.idx < rsqi[q.dev]
                             \/ rsq[q.dev] <= q.idx /\ q.idx < rsq[q.dev] + rxqi[q.dev]
      BY <2>1, Zenon DEF MgrInv
    <3> QED BY <3>1, <1>5
  <2>2. CASE new(q)
    BY <2>2, <1>5
  <2> QED BY <1>10, <2>1, <2>2, Zenon
<1>12. ASSUME NEW p \in queues, NEW q, new(q),
              p.dir = q.dir, p.dev = q.dev, p.idx = q.idx
       PROVE  FALSE
  <2>1. /\ p.dev \in Devices /\ p.dir \in {"tx", "rx"} /\ p.idx \in Nat
        /\ p.dir = "tx" => p.idx < txqi[p.dev]
        /\ p.dir = "rx" => \/ p.idx < rsqi[p.dev]
                           \/ rsq[p.dev] <= p.idx /\ p.idx < rsq[p.dev] + rxqi[p.dev]
    BY Zenon DEF MgrInv
  <2> QED BY <1>12, <2>1, <1>5, <1>9
<1>13. ASSUME NEW p \in queues', NEW q \in queues',
              p.dir = q.dir, p.dev = q.dev, p.idx = q.idx
       PROVE  p.task = q.task
  <2>1. CASE p \in queues /\ q \in queues
    BY <1>13, <2>1, Zenon DEF MgrInv
  <2>2. CASE new(p) /\ new(q)
    BY <2>2, Zenon
  <2>3. CASE p \in queues /\ new(q)
    BY <1>12, <1>13, <2>3, Zenon
  <2>4. CASE q \in queues /\ new(p)
    BY <1>12, <1>13, <2>4, Zenon
  <2> HIDE DEF new
  <2> QED BY <1>10, <2>1, <2>2, <2>3, <2>4, Zenon
<1> HIDE DEF new
<1>14. /\ txqi' \in [Devices -> Nat] /\ rxqi' \in [Devices -> Nat]
       /\ rsqi' \in [Devices -> Nat]
  BY <1>5 DEF Start
<1>15. ASSUME NEW d \in Devices
       PROVE  /\ txq'[d] = Cardinality(TxUsers(Reserving(prepared), d))'
              /\ rsq'[d] = Cardinality(RssUsers(Reserving(prepared), d))'
              /\ rxq'[d] = Cardinality(RxUsers(Reserving(prepared), d))' + rsq'[d]
              /\ prepared' = 4 /\ rings'[d].tx >= txq'[d] /\ rings'[d].rx >= rxq'[d]
  BY <1>1, <1>8, Zenon DEF MgrInv
<1>16. /\ flows' \in CONFIGS /\ started' \subseteq Tasks' /\ prepared' \in 0 .. 4
       /\ txq' \in [Devices -> Nat] /\ rxq' \in [Devices -> Nat] /\ rsq' \in [Devices -> Nat]
       /\ rings' \in [Devices -> [tx : Nat, rx : Nat]]
  BY <1>1, <1>2, Zenon DEF MgrInv
<1> QED BY <1>1, <1>7, <1>11, <1>13, <1>14, <1>15, <1>16, Zenon DEF MgrInv

LEMMA MgrStutter_Inv ==
  ASSUME MgrInv, UNCHANGED mgrVars
  PROVE  MgrInv'
<1>1. /\ flows' = flows /\ master' = master /\ prepared' = prepared /\ txq' = txq
      /\ rxq' = rxq /\ rsq' = rsq /\ txqi' = txqi /\ rxqi' = rxqi /\ rsqi' = rsqi
      /\ queues' = queues /\ rings' = rings /\ started' = started
  BY Zenon DEF mgrVars, reserved, handed
<1>2. \A u : TxOf(u)' = TxOf(u) /\ RxOf(u)' = RxOf(u) /\ RssOf(u)' = RssOf(u)
  BY <1>1, StaticUses, Zenon
<1>3. Reserving(prepared)' = Reserving(prepared) /\ Tasks' = Tasks
  BY <1>1, StaticUses, Static, Zenon
<1>4. ASSUME NEW d \in Devices
      PROVE  /\ TxUsers(Reserving(prepared), d)' = TxUsers(Reserving(prepared), d)
             /\ RxUsers(Reserving(prepared), d)' = RxUsers(Reserving(prepared), d)
             /\ RssUsers(Reserving(prepared), d)' = RssUsers(Reserving(prepared), d)
             /\ TxUsers(started, d)' = TxUsers(started, d)
             /\ RxUsers(started, d)' = RxUsers(started, d)
             /\ RssUsers(started, d)' = RssUsers(started, d)
  BY <1>1, <1>2, <1>3, Zenon DEF TxUsers, RxUsers, RssUsers
<1> QED BY <1>1, <1>3, <1>4, Zenon DEF MgrInv

LEMMA MgrInv_QueuesOwned ==
  MgrInv => QueuesOwned
<1> SUFFICES ASSUME MgrInv, NEW p \in queues
             PROVE  p.idx \in 0 .. (IF p.dir = "tx" THEN rings[p.dev].tx
                                    ELSE rings[p.dev].rx) - 1
  BY Zenon DEF MgrInv, QueuesOwned
<1> DEFINE d == p.dev
<1>1. /\ d \in Devices /\ p.dir \in {"tx", "rx"} /\ p.idx \in Nat
      /\ p.dir = "tx" => p.idx < txqi[d]
      /\ p.dir = "rx" => \/ p.idx < rsqi[d]
                         \/ rsq[d] <= p.idx /\ p.idx < rsq[d] + rxqi[d]
  BY Zenon DEF MgrInv
<1> HIDE DEF d
<1>2. master \in {"start", "wait"} /\ flows \in CONFIGS /\ started \in SUBSET Tasks
  BY Zenon DEF MgrInv
<1>3. /\ prepared = 4 /\ rings[d].tx >= txq[d] /\ rings[d].rx >= rxq[d]
      /\ txq[d] = Cardinality(TxUsers(Reserving(prepared), d))
      /\ rsq[d] = Cardinality(RssUsers(Reserving(prepared), d))
      /\ rxq[d] = Cardinality(RxUsers(Reserving(prepared), d)) + rsq[d]
      /\ txqi[d] = Cardinality(TxUsers(started, d))
      /\ rxqi[d] = Cardinality(RxUsers(started, d))
      /\ rsqi[d] = Cardinality(RssUsers(started, d))
      /\ rings[d].tx \in Nat /\ rings[d].rx \in Nat
      /\ txq[d] \in Nat /\ rsq[d] \in Nat /\ rxq[d] \in Nat
  BY <1>1, <1>2, Zenon DEF MgrInv
<1>4. /\ txq[d] = Cardinality(TxUsers(Tasks, d)) /\ rsq[d] = Cardinality(RssUsers(Tasks, d))
      /\ rxq[d] = Cardinality(RxUsers(Tasks, d)) + rsq[d]
  BY <1>2, <1>3, AllReserved, Zenon
<1>5. /\ txqi[d] \in Nat /\ rxqi[d] \in Nat /\ rsqi[d] \in Nat
      /\ Cardinality(RxUsers(Tasks, d)) \in Nat
      /\ txqi[d] <= txq[d] /\ rsqi[d] <= rsq[d]
      /\ rxqi[d] <= Cardinality(RxUsers(Tasks, d))
  <2>1. Tasks \in SUBSET Tasks
    BY Zenon
  <2> QED BY <1>2, <1>3, <1>4, <2>1, UsersFinite, Zenon
<1>6. CASE p.dir = "tx"
  BY <1>1, <1>3, <1>5, <1>6, SMTT(30) DEF d
<1>7. CASE p.dir = "rx"
  <2>1. p.idx < rings[d].rx
    BY <1>1, <1>3, <1>4, <1>5, <1>7
  <2> QED BY <2>1, <1>1, <1>3, <1>7 DEF d
<1> QED BY <1>1, <1>6, <1>7, Zenon

-----------------------------------------------------------------------------
(* The tasks.                                                               *)

\* Nor do the counters of the statistics change with time.
LEMMA StaticMonitors ==
  ASSUME flows' = flows
  PROVE  DevCounters' = DevCounters /\ Monitors' = Monitors
<1>1. DevCounters' = DevCounters
  BY DEF Flows, DevCounters, CounterOf, DevOf, Dev
<1> QED BY <1>1, Static, Zenon DEF Monitors

\* The steps of the tasks leave the master's variables and what is watched alone.
LEMMA SetupKept ==
  ASSUME Next, ~Master
  PROVE  UNCHANGED setup
<1>1. ASSUME NEW t, Load(t) PROVE UNCHANGED setup
  BY <1>1, Zenon DEF Load, LockAndRead, IncFirst, IncSecond, LoadEnds, Dec, loadUnchanged
<1>2. ASSUME NEW t, CountSees(t) \/ CountEnds(t) PROVE UNCHANGED setup
  BY <1>2, Zenon DEF CountSees, CountEnds
<1>3. CASE ArpManager \/ Timestamping
  BY <1>3, Zenon DEF ArpManager, Timestamping
<1>4. CASE DeviceStats
  BY <1>4, Zenon DEF DeviceStats, StatsHead, StatsSkip, StatsUpdate, StatsFinalize, StatsRound,
              statsUnchanged
<1>5. CASE Stop \/ GraceEnds
  BY <1>5, Zenon DEF Stop, GraceEnds
<1> QED BY <1>1, <1>2, <1>3, <1>4, <1>5, Zenon DEF Next

LEMMA MgrInv_Step ==
  ASSUME MgrInv, [Next]_vars
  PROVE  MgrInv'
<1>1. CASE Master
  <2>1. CASE Prepare
    BY <2>1, Prepare_Inv, Zenon
  <2>2. CASE Configure
    BY <2>2, Configure_Inv, Zenon
  <2>4. CASE PrepareFails
    BY <2>4, PrepareFails_Inv, Zenon
  <2>3. ASSUME NEW t \in Tasks, Start(t) PROVE MgrInv'
    BY <2>3, Start_Inv, Zenon
  <2> QED BY <1>1, <2>1, <2>2, <2>3, <2>4, Zenon DEF Master
<1>2. CASE UNCHANGED setup
  BY <1>2, MgrStutter_Inv, Zenon DEF setup
<1>3. CASE UNCHANGED vars
  BY <1>3, MgrStutter_Inv, Zenon DEF vars
<1> QED BY <1>1, <1>2, <1>3, SetupKept, Zenon

\* Four threads reserve and take queues on their own, with RSS and plain receive
\* queues in one range of indices: for every command line no two tasks are given
\* the same queue, and no queue is beyond what its device was configured with.
THEOREM QueuesAreOwned ==
  Spec => []QueuesOwned
<1>1. Init => MgrInv
  BY MgrInit_Inv, Zenon DEF Init
<1>2. MgrInv /\ [Next]_vars => MgrInv'
  BY MgrInv_Step, Zenon
<1>3. MgrInv => QueuesOwned
  BY MgrInv_QueuesOwned, Zenon
<1> QED BY <1>1, <1>2, <1>3, PTL DEF Spec

-----------------------------------------------------------------------------
(* The counters of the flows.                                               *)

Places == {"begin", "inc", "inc2", "send", "leave", "dec", "done"}

\* Load tasks of a flow between the assignments of inc and dec to its count.
Counted(f) == {t \in LoadTasks : t[2] = f /\ load[t] \in {"inc2", "send", "leave", "dec"}}

\* Load tasks that have made the second assignment of inc, which marks the flow active.
Begun(f) == {t \in LoadTasks : t[2] = f /\ load[t] \in {"send", "leave", "dec", "done"}}

\* Who is in inc or dec holds the lock and what it read is still true, so that the
\* count of a flow is the number of tasks between the two assignments to it.
CounterInv ==
  /\ counter \in [Flows -> [active : {0, 1}, count : Nat]]
  /\ lock \in [Flows -> LoadTasks \union {Free}]
  /\ tmp \in [LoadTasks -> Nat]
  /\ load \in [LoadTasks -> Places]
  /\ \A t \in LoadTasks :
       /\ load[t] \in {"inc", "inc2", "dec"} => lock[t[2]] = t
       /\ load[t] \in {"inc", "dec"} => tmp[t] = counter[t[2]].count
       /\ load[t] = "inc2" => counter[t[2]].count = tmp[t] + 1
  /\ \A f \in Flows :
       /\ counter[f].count = Cardinality(Counted(f))
       /\ counter[f].active = IF Begun(f) = {} THEN 0 ELSE 1
       /\ isZero(f) => f \in ended

LEMMA CounterInv_Init ==
  Init => CounterInv
<1> SUFFICES ASSUME Init PROVE CounterInv
  BY Zenon
<1>1. flows \in CONFIGS
  BY Zenon DEF Init, MgrInit
<1>2. \A t \in LoadTasks : load[t] = "begin" /\ t[2] \in Flows
  BY LoadTaskShape, Zenon DEF Init
<1>3. \A f \in Flows : Counted(f) = {} /\ Begun(f) = {}
  BY <1>2, Zenon DEF Counted, Begun
<1>4. /\ counter \in [Flows -> [active : {0, 1}, count : Nat]]
      /\ \A f \in Flows : counter[f].count = 0 /\ counter[f].active = 0
  BY Zenon DEF Init
<1>5. lock \in [Flows -> LoadTasks \union {Free}] /\ tmp \in [LoadTasks -> Nat]
      /\ load \in [LoadTasks -> Places]
  BY Zenon DEF Init, Places
<1>6. \A f \in Flows : counter[f].count = Cardinality(Counted(f))
  BY <1>3, <1>4, FS_EmptySet, Zenon
<1> QED BY <1>2, <1>3, <1>4, <1>5, <1>6 DEF CounterInv, isZero

\* A load task that goes on is counted, and has begun, according to its new place.
LEMMA LoadMoves ==
  ASSUME flows' = flows, load \in [LoadTasks -> Places], NEW t \in LoadTasks,
         NEW to \in Places, load' = [load EXCEPT ![t] = to], NEW f
  PROVE  /\ load' \in [LoadTasks' -> Places]
         /\ Counted(f)' = IF t[2] = f
                          THEN IF to \in {"inc2", "send", "leave", "dec"}
                               THEN Counted(f) \union {t} ELSE Counted(f) \ {t}
                          ELSE Counted(f)
         /\ Begun(f)' = IF t[2] = f
                        THEN IF to \in {"send", "leave", "dec", "done"}
                             THEN Begun(f) \union {t} ELSE Begun(f) \ {t}
                        ELSE Begun(f)
<1>1. LoadTasks' = LoadTasks
  BY Static, Zenon
<1>2. load' \in [LoadTasks -> Places]
      /\ \A u \in LoadTasks : load'[u] = IF u = t THEN to ELSE load[u]
  BY Zenon
<1>3. Counted(f)' = {u \in LoadTasks : u[2] = f /\ load'[u] \in {"inc2", "send", "leave", "dec"}}
  BY <1>1, Zenon DEF Counted
<1>4. Begun(f)' = {u \in LoadTasks : u[2] = f /\ load'[u] \in {"send", "leave", "dec", "done"}}
  BY <1>1, Zenon DEF Begun
<1>5. Counted(f)' = IF t[2] = f
                    THEN IF to \in {"inc2", "send", "leave", "dec"}
                         THEN Counted(f) \union {t} ELSE Counted(f) \ {t}
                    ELSE Counted(f)
  BY <1>2, <1>3, Zenon DEF Counted
<1>6. Begun(f)' = IF t[2] = f
                  THEN IF to \in {"send", "leave", "dec", "done"}
                       THEN Begun(f) \union {t} ELSE Begun(f) \ {t}
                  ELSE Begun(f)
  BY <1>2, <1>4, Zenon DEF Begun
<1> QED BY <1>1, <1>2, <1>5, <1>6, Zenon

\* The tasks that are counted are finitely many.
LEMMA CountedFinite ==
  ASSUME flows \in CONFIGS, NEW f
  PROVE  IsFiniteSet(Counted(f)) /\ Cardinality(Counted(f)) \in Nat
<1>1. Counted(f) \in SUBSET LoadTasks
  BY Zenon DEF Counted
<1>2. IsFiniteSet(Counted(f))
  BY <1>1, TasksFinite, FS_Subset, Zenon
<1> QED BY <1>2, FS_CardinalityType, Zenon

LEMMA CounterInv_Lock ==
  ASSUME CounterInv, flows \in CONFIGS, NEW t \in LoadTasks,
         NEW from \in Places, NEW to \in Places, LockAndRead(t, from, to),
         <<from, to>> \in {<<"begin", "inc">>, <<"leave", "dec">>}
  PROVE  CounterInv'
<1>1. /\ flows' = flows /\ counter' = counter /\ ended' = ended
      /\ load' = [load EXCEPT ![t] = to] /\ load[t] = from
      /\ lock' = [lock EXCEPT ![t[2]] = t] /\ lock[t[2]] = Free
      /\ tmp' = [tmp EXCEPT ![t] = counter[t[2]].count]
  BY Zenon DEF LockAndRead, loadUnchanged, setup, mgrVars
<1>2. /\ Flows' = Flows /\ LoadTasks' = LoadTasks /\ t[2] \in Flows
  BY <1>1, Static, LoadTaskShape, Zenon
<1>3. /\ counter \in [Flows -> [active : {0, 1}, count : Nat]]
      /\ lock \in [Flows -> LoadTasks \union {Free}]
      /\ tmp \in [LoadTasks -> Nat] /\ load \in [LoadTasks -> Places]
  BY Zenon DEF CounterInv
<1>4. Free \notin LoadTasks
  BY LoadTaskShape, Zenon DEF Free
<1>5. \A u \in LoadTasks : load'[u] = IF u = t THEN to ELSE load[u]
  BY <1>1, <1>3, Zenon
<1>6. \A u \in LoadTasks : tmp'[u] = IF u = t THEN counter[t[2]].count ELSE tmp[u]
  BY <1>1, <1>3, Zenon
<1>7. \A f \in Flows : lock'[f] = IF f = t[2] THEN t ELSE lock[f]
  BY <1>1, <1>3, Zenon
<1>8. /\ counter[t[2]].count \in Nat
      /\ lock' \in [Flows -> LoadTasks \union {Free}] /\ tmp' \in [LoadTasks -> Nat]
      /\ load' \in [LoadTasks -> Places]
  BY <1>1, <1>2, <1>3, Zenon
<1>9. ASSUME NEW u \in LoadTasks
      PROVE  /\ load'[u] \in {"inc", "inc2", "dec"} => lock'[u[2]] = u
             /\ load'[u] \in {"inc", "dec"} => tmp'[u] = counter[u[2]].count
             /\ load'[u] = "inc2" => counter[u[2]].count = tmp'[u] + 1
  <2>1. u[2] \in Flows
    BY LoadTaskShape, Zenon
  <2>2. CASE u = t
    <3>1. load'[u] = to /\ lock'[u[2]] = u /\ tmp'[u] = counter[u[2]].count
      BY <1>5, <1>6, <1>7, <2>1, <2>2, Zenon
    <3>2. to # "inc2"
      BY Zenon
    <3> QED BY <3>1, <3>2, Zenon
  <2>3. CASE u # t
    <3>1. load'[u] = load[u] /\ tmp'[u] = tmp[u]
      BY <1>5, <1>6, <2>3, Zenon
    <3>2. /\ load[u] \in {"inc", "inc2", "dec"} => lock[u[2]] = u
          /\ load[u] \in {"inc", "dec"} => tmp[u] = counter[u[2]].count
          /\ load[u] = "inc2" => counter[u[2]].count = tmp[u] + 1
      BY Zenon DEF CounterInv
    <3>3. load[u] \in {"inc", "inc2", "dec"} => u[2] # t[2]
      BY <1>1, <1>4, <3>2, Zenon
    <3> QED BY <3>1, <3>2, <3>3, <1>7, <2>1, Zenon
  <2> QED BY <2>2, <2>3, Zenon
<1>10. ASSUME NEW f \in Flows
       PROVE  Counted(f)' = Counted(f) /\ Begun(f)' = Begun(f)
  <2>1. t[2] = f => (t \in Counted(f) <=> from = "leave") /\ (t \in Begun(f) <=> from = "leave")
    BY <1>1, Zenon DEF Counted, Begun
  <2>2. /\ Counted(f)' = IF t[2] = f
                         THEN IF to \in {"inc2", "send", "leave", "dec"}
                              THEN Counted(f) \union {t} ELSE Counted(f) \ {t}
                         ELSE Counted(f)
        /\ Begun(f)' = IF t[2] = f
                       THEN IF to \in {"send", "leave", "dec", "done"}
                            THEN Begun(f) \union {t} ELSE Begun(f) \ {t}
                       ELSE Begun(f)
    BY <1>1, <1>3, LoadMoves, Zenon
  <2>3. CASE from = "leave" /\ to = "dec"
    BY <2>1, <2>2, <2>3, Zenon
  <2>4. CASE from = "begin" /\ to = "inc"
    BY <2>1, <2>2, <2>4, Zenon
  <2> QED BY <2>3, <2>4, Zenon
<1>11. ASSUME NEW f \in Flows
       PROVE  /\ counter'[f].count = Cardinality(Counted(f)')
              /\ counter'[f].active = IF Begun(f)' = {} THEN 0 ELSE 1
              /\ isZero(f)' => f \in ended'
  BY <1>1, <1>10, Zenon DEF CounterInv, isZero
<1> QED BY <1>1, <1>2, <1>3, <1>8, <1>9, <1>11, Zenon DEF CounterInv

\* A step of a load task to a place where it does not hold the lock, or holds it
\* since before, leaves the promises to the other tasks alone when only the count
\* of its own flow changes, and then only because it holds the lock.
LEMMA CounterInv_Others ==
  ASSUME CounterInv, NEW t \in LoadTasks, NEW u \in LoadTasks, u # t,
         load[t] \in {"inc", "inc2", "dec"} \/ counter' = counter,
         tmp' = tmp, load'[u] = load[u],
         \A f \in Flows : f # t[2] => counter'[f] = counter[f],
         lock' = lock \/ (load[t] \in {"inc2", "dec"} /\ lock' = [lock EXCEPT ![t[2]] = Free])
  PROVE  /\ load'[u] \in {"inc", "inc2", "dec"} => lock'[u[2]] = u
         /\ load'[u] \in {"inc", "dec"} => tmp'[u] = counter'[u[2]].count
         /\ load'[u] = "inc2" => counter'[u[2]].count = tmp'[u] + 1
<1>1. /\ load[u] \in {"inc", "inc2", "dec"} => lock[u[2]] = u
      /\ load[u] \in {"inc", "dec"} => tmp[u] = counter[u[2]].count
      /\ load[u] = "inc2" => counter[u[2]].count = tmp[u] + 1
      /\ load[t] \in {"inc", "inc2", "dec"} => lock[t[2]] = t
      /\ lock \in [Flows -> LoadTasks \union {Free}]
  BY Zenon DEF CounterInv
<1>2. u[2] \in Flows /\ t[2] \in Flows
  BY LoadTaskShape, Zenon
<1>3. CASE load[u] \in {"inc", "inc2", "dec"}
  <2>1. load[t] \in {"inc", "inc2", "dec"} => u[2] # t[2]
    BY <1>1, <1>3, Zenon
  <2>2. counter'[u[2]] = counter[u[2]]
    BY <1>2, <2>1, Zenon
  <2>3. lock'[u[2]] = lock[u[2]]
    BY <1>1, <1>2, <2>1, Zenon
  <2> QED BY <1>1, <2>2, <2>3, Zenon
<1>4. CASE load[u] \notin {"inc", "inc2", "dec"}
  BY <1>4, Zenon
<1> QED BY <1>3, <1>4, Zenon

LEMMA CounterInv_IncFirst ==
  ASSUME CounterInv, flows \in CONFIGS, NEW t \in LoadTasks, IncFirst(t)
  PROVE  CounterInv'
<1>1. /\ flows' = flows /\ ended' = ended /\ lock' = lock /\ tmp' = tmp
      /\ load' = [load EXCEPT ![t] = "inc2"] /\ load[t] = "inc"
      /\ counter' = [counter EXCEPT ![t[2]].count = tmp[t] + 1]
  BY Zenon DEF IncFirst, loadUnchanged, setup, mgrVars, Assigned, IncOrder
<1>2. /\ Flows' = Flows /\ LoadTasks' = LoadTasks /\ t[2] \in Flows
  BY <1>1, Static, LoadTaskShape, Zenon
<1>3. /\ counter \in [Flows -> [active : {0, 1}, count : Nat]]
      /\ lock \in [Flows -> LoadTasks \union {Free}]
      /\ tmp \in [LoadTasks -> Nat] /\ load \in [LoadTasks -> Places]
      /\ tmp[t] = counter[t[2]].count /\ lock[t[2]] = t
  BY <1>1, Zenon DEF CounterInv
<1>4. /\ counter' \in [Flows -> [active : {0, 1}, count : Nat]]
      /\ \A f \in Flows : /\ f # t[2] => counter'[f] = counter[f]
                          /\ counter'[f].active = counter[f].active
      /\ counter'[t[2]].count = tmp[t] + 1
  BY <1>1, <1>2, <1>3
<1>5. load' \in [LoadTasks -> Places] /\ load'[t] = "inc2"
      /\ \A u \in LoadTasks \ {t} : load'[u] = load[u]
  BY <1>1, <1>3, Zenon DEF Places
<1>6. ASSUME NEW u \in LoadTasks
      PROVE  /\ load'[u] \in {"inc", "inc2", "dec"} => lock'[u[2]] = u
             /\ load'[u] \in {"inc", "dec"} => tmp'[u] = counter'[u[2]].count
             /\ load'[u] = "inc2" => counter'[u[2]].count = tmp'[u] + 1
  <2>1. CASE u = t
    BY <1>1, <1>3, <1>4, <1>5, <2>1, Zenon
  <2>2. CASE u # t
    BY <1>1, <1>4, <1>5, <2>2, CounterInv_Others, Zenon
  <2> QED BY <2>1, <2>2, Zenon
<1>7. ASSUME NEW f \in Flows
      PROVE  /\ Counted(f)' = IF t[2] = f THEN Counted(f) \union {t} ELSE Counted(f)
             /\ Begun(f)' = Begun(f) /\ t \notin Counted(f)
  <2>1. t \notin Counted(f) /\ t \notin Begun(f)
    BY <1>1, Zenon DEF Counted, Begun
  <2>2. "inc2" \in Places
    BY Zenon DEF Places
  <2>3. /\ Counted(f)' = IF t[2] = f
                         THEN IF "inc2" \in {"inc2", "send", "leave", "dec"}
                              THEN Counted(f) \union {t} ELSE Counted(f) \ {t}
                         ELSE Counted(f)
        /\ Begun(f)' = IF t[2] = f
                       THEN IF "inc2" \in {"send", "leave", "dec", "done"}
                            THEN Begun(f) \union {t} ELSE Begun(f) \ {t}
                       ELSE Begun(f)
    BY <1>1, <1>3, <2>2, LoadMoves, Zenon
  <2> QED BY <2>1, <2>3, Zenon
<1>8. ASSUME NEW f \in Flows
      PROVE  counter'[f].count = Cardinality(Counted(f)')
  <2>1. counter[f].count = Cardinality(Counted(f)) /\ IsFiniteSet(Counted(f))
    BY CountedFinite, Zenon DEF CounterInv
  <2>2. CASE f = t[2]
    <3>1. Cardinality(Counted(f) \union {t}) = Cardinality(Counted(f)) + 1
      BY <1>7, <2>1, FS_AddElement, Zenon
    <3> QED BY <1>3, <1>4, <1>7, <2>1, <2>2, <3>1, Zenon
  <2>3. CASE f # t[2]
    BY <1>4, <1>7, <2>1, <2>3, Zenon
  <2> QED BY <2>2, <2>3, Zenon
<1>9. ASSUME NEW f \in Flows
      PROVE  /\ counter'[f].active = IF Begun(f)' = {} THEN 0 ELSE 1
             /\ isZero(f)' => f \in ended'
  <2>1. counter'[f].active = IF Begun(f)' = {} THEN 0 ELSE 1
    BY <1>4, <1>7 DEF CounterInv
  <2>2. CASE f = t[2]
    <3>1. counter'[f].count # 0
      BY <1>3, <1>4, <2>2
    <3> QED BY <2>1, <3>1, Zenon DEF isZero
  <2>3. CASE f # t[2]
    BY <1>1, <1>4, <2>1, <2>3, Zenon DEF CounterInv, isZero
  <2> QED BY <2>2, <2>3, Zenon
<1> QED BY <1>1, <1>2, <1>3, <1>4, <1>5, <1>6, <1>8, <1>9, Zenon DEF CounterInv

LEMMA CounterInv_IncSecond ==
  ASSUME CounterInv, flows \in CONFIGS, NEW t \in LoadTasks, IncSecond(t)
  PROVE  CounterInv'
<1>1. /\ flows' = flows /\ ended' = ended /\ tmp' = tmp
      /\ lock' = [lock EXCEPT ![t[2]] = Free]
      /\ load' = [load EXCEPT ![t] = "send"] /\ load[t] = "inc2"
      /\ counter' = [counter EXCEPT ![t[2]].active = 1]
  BY Zenon DEF IncSecond, loadUnchanged, setup, mgrVars, Assigned, IncOrder
<1>2. /\ Flows' = Flows /\ LoadTasks' = LoadTasks /\ t[2] \in Flows
  BY <1>1, Static, LoadTaskShape, Zenon
<1>3. /\ counter \in [Flows -> [active : {0, 1}, count : Nat]]
      /\ lock \in [Flows -> LoadTasks \union {Free}]
      /\ tmp \in [LoadTasks -> Nat] /\ load \in [LoadTasks -> Places]
      /\ counter[t[2]].count = tmp[t] + 1 /\ lock[t[2]] = t
  BY <1>1, Zenon DEF CounterInv
<1>4. /\ counter' \in [Flows -> [active : {0, 1}, count : Nat]]
      /\ \A f \in Flows : /\ f # t[2] => counter'[f] = counter[f]
                          /\ counter'[f].count = counter[f].count
      /\ counter'[t[2]].active = 1
  BY <1>1, <1>2, <1>3, Zenon
<1>5. /\ load' \in [LoadTasks -> Places] /\ load'[t] = "send"
      /\ \A u \in LoadTasks \ {t} : load'[u] = load[u]
      /\ lock' \in [Flows -> LoadTasks \union {Free}]
  BY <1>1, <1>3, Zenon DEF Places
<1>6. ASSUME NEW u \in LoadTasks
      PROVE  /\ load'[u] \in {"inc", "inc2", "dec"} => lock'[u[2]] = u
             /\ load'[u] \in {"inc", "dec"} => tmp'[u] = counter'[u[2]].count
             /\ load'[u] = "inc2" => counter'[u[2]].count = tmp'[u] + 1
  <2>1. CASE u = t
    BY <1>5, <2>1, Zenon
  <2>2. CASE u # t
    BY <1>1, <1>4, <1>5, <2>2, CounterInv_Others, Zenon
  <2> QED BY <2>1, <2>2, Zenon
<1>7. ASSUME NEW f \in Flows
      PROVE  /\ Counted(f)' = Counted(f)
             /\ Begun(f)' = IF t[2] = f THEN Begun(f) \union {t} ELSE Begun(f)
  <2>1. t[2] = f => t \in Counted(f)
    BY <1>1, Zenon DEF Counted
  <2>2. "send" \in Places
    BY Zenon DEF Places
  <2>3. /\ Counted(f)' = IF t[2] = f
                         THEN IF "send" \in {"inc2", "send", "leave", "dec"}
                              THEN Counted(f) \union {t} ELSE Counted(f) \ {t}
                         ELSE Counted(f)
        /\ Begun(f)' = IF t[2] = f
                       THEN IF "send" \in {"send", "leave", "dec", "done"}
                            THEN Begun(f) \union {t} ELSE Begun(f) \ {t}
                       ELSE Begun(f)
    BY <1>1, <1>3, <2>2, LoadMoves, Zenon
  <2> QED BY <2>1, <2>3, Zenon
<1>8. ASSUME NEW f \in Flows
      PROVE  counter'[f].count = Cardinality(Counted(f)')
  BY <1>4, <1>7 DEF CounterInv
<1>9. ASSUME NEW f \in Flows
      PROVE  /\ counter'[f].active = IF Begun(f)' = {} THEN 0 ELSE 1
             /\ isZero(f)' => f \in ended'
  <2>2. CASE f = t[2]
    <3>1. counter'[f].count # 0
      BY <1>3, <1>4, <2>2
    <3>2. t \in Begun(f)'
      BY <1>7, <2>2, Zenon
    <3> QED BY <1>4, <2>2, <3>1, <3>2, Zenon DEF isZero
  <2>3. CASE f # t[2]
    BY <1>1, <1>4, <1>7, <2>3 DEF CounterInv, isZero
  <2> QED BY <2>2, <2>3, Zenon
<1> QED BY <1>1, <1>2, <1>3, <1>4, <1>5, <1>6, <1>8, <1>9, Zenon DEF CounterInv

LEMMA CounterInv_LoadEnds ==
  ASSUME CounterInv, flows \in CONFIGS, NEW t \in LoadTasks, LoadEnds(t)
  PROVE  CounterInv'
<1>1. /\ flows' = flows /\ ended' = ended /\ tmp' = tmp /\ lock' = lock
      /\ load' = [load EXCEPT ![t] = "leave"] /\ load[t] = "send" /\ counter' = counter
  BY Zenon DEF LoadEnds, loadUnchanged, setup, mgrVars
<1>2. /\ Flows' = Flows /\ LoadTasks' = LoadTasks
  BY <1>1, Static, Zenon
<1>3. /\ counter \in [Flows -> [active : {0, 1}, count : Nat]]
      /\ lock \in [Flows -> LoadTasks \union {Free}]
      /\ tmp \in [LoadTasks -> Nat] /\ load \in [LoadTasks -> Places]
  BY Zenon DEF CounterInv
<1>4. /\ load' \in [LoadTasks -> Places] /\ load'[t] = "leave"
      /\ \A u \in LoadTasks \ {t} : load'[u] = load[u]
  BY <1>1, <1>3, Zenon DEF Places
<1>5. ASSUME NEW u \in LoadTasks
      PROVE  /\ load'[u] \in {"inc", "inc2", "dec"} => lock'[u[2]] = u
             /\ load'[u] \in {"inc", "dec"} => tmp'[u] = counter'[u[2]].count
             /\ load'[u] = "inc2" => counter'[u[2]].count = tmp'[u] + 1
  <2>1. CASE u = t
    BY <1>4, <2>1, Zenon
  <2>2. CASE u # t
    BY <1>1, <1>4, <2>2, Zenon DEF CounterInv
  <2> QED BY <2>1, <2>2, Zenon
<1>6. ASSUME NEW f \in Flows
      PROVE  Counted(f)' = Counted(f) /\ Begun(f)' = Begun(f)
  <2>1. t[2] = f => t \in Counted(f) /\ t \in Begun(f)
    BY <1>1, Zenon DEF Counted, Begun
  <2>2. "leave" \in Places
    BY Zenon DEF Places
  <2>3. /\ Counted(f)' = IF t[2] = f
                         THEN IF "leave" \in {"inc2", "send", "leave", "dec"}
                              THEN Counted(f) \union {t} ELSE Counted(f) \ {t}
                         ELSE Counted(f)
        /\ Begun(f)' = IF t[2] = f
                       THEN IF "leave" \in {"send", "leave", "dec", "done"}
                            THEN Begun(f) \union {t} ELSE Begun(f) \ {t}
                       ELSE Begun(f)
    BY <1>1, <1>3, <2>2, LoadMoves, Zenon
  <2> QED BY <2>1, <2>3, Zenon
<1>7. ASSUME NEW f \in Flows
      PROVE  /\ counter'[f].count = Cardinality(Counted(f)')
             /\ counter'[f].active = IF Begun(f)' = {} THEN 0 ELSE 1
             /\ isZero(f)' => f \in ended'
  BY <1>1, <1>6, Zenon DEF CounterInv, isZero
<1> QED BY <1>1, <1>2, <1>3, <1>4, <1>5, <1>7, Zenon DEF CounterInv

LEMMA CounterInv_Dec ==
  ASSUME CounterInv, flows \in CONFIGS, NEW t \in LoadTasks, Dec(t)
  PROVE  CounterInv' /\ tmp[t] = counter[t[2]].count /\ tmp[t] # 0
<1>1. /\ flows' = flows /\ tmp' = tmp
      /\ ended' = IF tmp[t] = 1 THEN ended \union {t[2]} ELSE ended
      /\ lock' = [lock EXCEPT ![t[2]] = Free]
      /\ load' = [load EXCEPT ![t] = "done"] /\ load[t] = "dec"
      /\ counter' = [counter EXCEPT ![t[2]].count = tmp[t] - 1]
  BY Zenon DEF Dec, loadUnchanged, setup, mgrVars
<1>2. /\ Flows' = Flows /\ LoadTasks' = LoadTasks /\ t[2] \in Flows
  BY <1>1, Static, LoadTaskShape, Zenon
<1>3. /\ counter \in [Flows -> [active : {0, 1}, count : Nat]]
      /\ lock \in [Flows -> LoadTasks \union {Free}]
      /\ tmp \in [LoadTasks -> Nat] /\ load \in [LoadTasks -> Places]
      /\ counter[t[2]].count = tmp[t] /\ lock[t[2]] = t
      /\ counter[t[2]].count = Cardinality(Counted(t[2]))
  BY <1>1, <1>2, Zenon DEF CounterInv
<1>4. ASSUME NEW f \in Flows
      PROVE  /\ Counted(f)' = IF t[2] = f THEN Counted(f) \ {t} ELSE Counted(f)
             /\ Begun(f)' = Begun(f)
             /\ t[2] = f => t \in Counted(f) /\ t \in Begun(f)
  <2>1. t[2] = f => t \in Counted(f) /\ t \in Begun(f)
    BY <1>1, Zenon DEF Counted, Begun
  <2>2. "done" \in Places
    BY Zenon DEF Places
  <2>3. /\ Counted(f)' = IF t[2] = f
                         THEN IF "done" \in {"inc2", "send", "leave", "dec"}
                              THEN Counted(f) \union {t} ELSE Counted(f) \ {t}
                         ELSE Counted(f)
        /\ Begun(f)' = IF t[2] = f
                       THEN IF "done" \in {"send", "leave", "dec", "done"}
                            THEN Begun(f) \union {t} ELSE Begun(f) \ {t}
                       ELSE Begun(f)
    BY <1>1, <1>3, <2>2, LoadMoves, Zenon
  <2> QED BY <2>1, <2>3, Zenon
<1>5. tmp[t] \in Nat /\ tmp[t] # 0
  <2>1. IsFiniteSet(Counted(t[2])) /\ t \in Counted(t[2])
    BY <1>2, <1>4, CountedFinite, Zenon
  <2>2. Cardinality(Counted(t[2])) # 0
    BY <2>1, FS_EmptySet, Zenon
  <2> QED BY <1>3, <2>2, Zenon
<1>6. /\ counter' \in [Flows -> [active : {0, 1}, count : Nat]]
      /\ \A f \in Flows : /\ f # t[2] => counter'[f] = counter[f]
                          /\ counter'[f].active = counter[f].active
      /\ counter'[t[2]].count = tmp[t] - 1
  BY <1>1, <1>2, <1>3, <1>5
<1>7. /\ load' \in [LoadTasks -> Places] /\ load'[t] = "done"
      /\ \A u \in LoadTasks \ {t} : load'[u] = load[u]
      /\ lock' \in [Flows -> LoadTasks \union {Free}]
  BY <1>1, <1>3, Zenon DEF Places
<1>8. ASSUME NEW u \in LoadTasks
      PROVE  /\ load'[u] \in {"inc", "inc2", "dec"} => lock'[u[2]] = u
             /\ load'[u] \in {"inc", "dec"} => tmp'[u] = counter'[u[2]].count
             /\ load'[u] = "inc2" => counter'[u[2]].count = tmp'[u] + 1
  <2>1. CASE u = t
    BY <1>7, <2>1, Zenon
  <2>2. CASE u # t
    BY <1>1, <1>6, <1>7, <2>2, CounterInv_Others, Zenon
  <2> QED BY <2>1, <2>2, Zenon
<1>9. ASSUME NEW f \in Flows
      PROVE  counter'[f].count = Cardinality(Counted(f)')
  <2>1. counter[f].count = Cardinality(Counted(f)) /\ IsFiniteSet(Counted(f))
    BY CountedFinite, Zenon DEF CounterInv
  <2>2. CASE f = t[2]
    <3>1. Cardinality(Counted(f) \ {t}) = Cardinality(Counted(f)) - 1
      BY <1>4, <2>1, <2>2, FS_RemoveElement, Zenon
    <3> QED BY <1>3, <1>4, <1>6, <2>1, <2>2, <3>1, Zenon
  <2>3. CASE f # t[2]
    BY <1>4, <1>6, <2>1, <2>3, Zenon
  <2> QED BY <2>2, <2>3, Zenon
<1>10. ASSUME NEW f \in Flows
       PROVE  /\ counter'[f].active = IF Begun(f)' = {} THEN 0 ELSE 1
              /\ isZero(f)' => f \in ended'
  <2>1. counter'[f].active = IF Begun(f)' = {} THEN 0 ELSE 1
    BY <1>4, <1>6 DEF CounterInv
  <2>2. CASE f = t[2]
    <3>1. counter'[f].count = 0 => f \in ended'
      BY <1>1, <1>5, <1>6, <2>2
    <3> QED BY <2>1, <3>1, Zenon DEF isZero
  <2>3. CASE f # t[2]
    <3>1. f \in ended => f \in ended'
      BY <1>1, Zenon
    <3> QED BY <1>6, <2>1, <2>3, <3>1, Zenon DEF CounterInv, isZero
  <2> QED BY <2>2, <2>3, Zenon
<1> QED BY <1>1, <1>2, <1>3, <1>5, <1>6, <1>7, <1>8, <1>9, <1>10, Zenon DEF CounterInv

\* A task's state is left alone by everything but the steps of the load tasks.
LEMMA CounterInv_Stutter ==
  ASSUME CounterInv, UNCHANGED <<flows, sending>>
  PROVE  CounterInv'
<1>1. /\ flows' = flows /\ counter' = counter /\ lock' = lock /\ tmp' = tmp
      /\ load' = load /\ ended' = ended
  BY Zenon DEF sending
<1>2. Flows' = Flows /\ LoadTasks' = LoadTasks
  BY <1>1, Static, Zenon
<1>3. \A f : Counted(f)' = Counted(f) /\ Begun(f)' = Begun(f)
  BY <1>1, <1>2, Zenon DEF Counted, Begun
<1>4. \A f \in Flows : isZero(f)' => f \in ended'
  BY <1>1, Zenon DEF CounterInv, isZero
<1> QED BY <1>1, <1>2, <1>3, <1>4, Zenon DEF CounterInv

LEMMA SendingKept ==
  ASSUME Next, \A t \in DOMAIN load : ~Load(t)
  PROVE  UNCHANGED <<flows, sending>>
<1>1. CASE Master
  BY <1>1, Zenon DEF Master, taskVars, Prepare, PrepareFails, Configure, Start
<1>2. ASSUME NEW t, CountSees(t) \/ CountEnds(t) PROVE UNCHANGED <<flows, sending>>
  BY <1>2, Zenon DEF CountSees, CountEnds, setup, mgrVars
<1>3. CASE ArpManager \/ Timestamping
  BY <1>3, Zenon DEF ArpManager, Timestamping, setup, mgrVars
<1>4. CASE DeviceStats
  BY <1>4, Zenon DEF DeviceStats, StatsHead, StatsSkip, StatsUpdate, StatsFinalize, StatsRound,
              statsUnchanged, setup, mgrVars
<1>5. CASE Stop \/ GraceEnds
  BY <1>5, Zenon DEF Stop, GraceEnds, setup, mgrVars
<1> QED BY <1>1, <1>2, <1>3, <1>4, <1>5, Zenon DEF Next

LEMMA CounterInv_Step ==
  ASSUME CounterInv, flows \in CONFIGS, [Next]_vars
  PROVE  CounterInv'
<1>1. ASSUME NEW t \in DOMAIN load, Load(t) PROVE CounterInv'
  <2>1. t \in LoadTasks
    BY Zenon DEF CounterInv
  <2>2. {"begin", "inc", "leave", "dec"} \subseteq Places
    BY Zenon DEF Places
  <2>3. CASE LockAndRead(t, "begin", "inc")
    BY <2>1, <2>2, <2>3, CounterInv_Lock, Zenon
  <2>4. CASE LockAndRead(t, "leave", "dec")
    BY <2>1, <2>2, <2>4, CounterInv_Lock, Zenon
  <2>5. CASE IncFirst(t)
    BY <2>1, <2>5, CounterInv_IncFirst, Zenon
  <2>6. CASE IncSecond(t)
    BY <2>1, <2>6, CounterInv_IncSecond, Zenon
  <2>7. CASE LoadEnds(t)
    BY <2>1, <2>7, CounterInv_LoadEnds, Zenon
  <2>8. CASE Dec(t)
    BY <2>1, <2>8, CounterInv_Dec, Zenon
  <2> QED BY <1>1, <2>3, <2>4, <2>5, <2>6, <2>7, <2>8, Zenon DEF Load
<1>2. CASE UNCHANGED <<flows, sending>>
  BY <1>2, CounterInv_Stutter, Zenon
<1>3. CASE UNCHANGED vars
  BY <1>3, CounterInv_Stutter, Zenon DEF vars, mgrVars, taskVars
<1> QED BY <1>1, <1>2, <1>3, SendingKept, Zenon

LEMMA CounterInv_Exact ==
  CounterInv => CounterExact
<1> SUFFICES ASSUME CounterInv, NEW f \in Flows, lock[f] = Free
             PROVE  counter[f].count =
                      Cardinality({t \in DOMAIN load :
                                     t[2] = f /\ load[t] \in {"send", "leave"}})
  BY Zenon DEF CounterExact
<1>1. DOMAIN load = LoadTasks /\ counter[f].count = Cardinality(Counted(f))
  BY Zenon DEF CounterInv
<1>2. ASSUME NEW t \in LoadTasks, t[2] = f PROVE load[t] \notin {"inc", "inc2", "dec"}
  <2>1. t # Free
    BY LoadTaskShape DEF Free
  <2> QED BY <1>2, <2>1, Zenon DEF CounterInv
<1>3. Counted(f) = {t \in LoadTasks : t[2] = f /\ load[t] \in {"send", "leave"}}
  BY <1>2, Zenon DEF Counted
<1> QED BY <1>1, <1>3, Zenon

\* However many tasks send a flow and however inc and dec interleave, the counter
\* is the number of tasks that are sending whenever its lock is free.
THEOREM CountersAreExact ==
  Spec => []CounterExact
<1>1. Init => MgrInv /\ CounterInv
  BY MgrInit_Inv, CounterInv_Init, Zenon DEF Init
<1>2. MgrInv /\ CounterInv /\ [Next]_vars => MgrInv' /\ CounterInv'
  BY MgrInv_Step, CounterInv_Step, Zenon DEF MgrInv
<1>3. CounterInv => CounterExact
  BY CounterInv_Exact, Zenon
<1> QED BY <1>1, <1>2, <1>3, PTL DEF Spec

-----------------------------------------------------------------------------
(* The list of the device statistics.                                       *)

N == Cardinality(DevCounters)

\* Positions that hold a counter: while the list is compacted there is a gap of
\* offset entries before entry i.
Live ==
  IF stats.at = "scan" THEN 1 .. stats.i - 1 - stats.offset \union stats.i .. stats.len
  ELSE 1 .. stats.len

\* The live positions hold every counter that is not finalized, each once.
StatsInv ==
  /\ stats \in [at : {"head", "scan", "done"}, len : Nat, i : Nat, offset : Nat, scan : Nat]
  /\ counters \in [1 .. N -> DevCounters \union {Nil}]
  /\ stats.len <= N
  /\ stats.at = "scan" =>
       1 <= stats.i /\ stats.i <= stats.len + 1 /\ stats.offset <= stats.i - 1
  /\ \A k \in Live : counters[k] \in DevCounters \ finalized
  /\ \A c \in DevCounters \ finalized : \E k \in Live : counters[k] = c
  /\ \A j, k \in Live : counters[j] = counters[k] => j = k

LEMMA DevCountersFinite ==
  ASSUME flows \in CONFIGS
  PROVE  IsFiniteSet(DevCounters) /\ N \in Nat
<1>1. ASSUME NEW f \in Flows, NEW dir PROVE DevOf(dir, f) \subseteq Devices
  BY FlowShape DEF DevOf, Dev
<1>2. DevCounters \subseteq {"tx", "rx"} \X Devices
  BY <1>1 DEF DevCounters, CounterOf
<1>3. IsFiniteSet({"tx", "rx"})
  <2>1. IsFiniteSet({"tx"} \union {"rx"})
    BY FS_Singleton, FS_Union, Zenon
  <2>2. {"tx"} \union {"rx"} = {"tx", "rx"}
    BY Zenon
  <2> QED BY <2>1, <2>2, Zenon
<1>4. IsFiniteSet({"tx", "rx"} \X Devices)
  BY <1>3, DevmgrAssumption, FS_Product, Zenon
<1>5. IsFiniteSet(DevCounters)
  BY <1>2, <1>4, FS_Subset, Zenon
<1> QED BY <1>5, FS_CardinalityType, Zenon DEF N

LEMMA StatsInv_Init ==
  Init => StatsInv
<1> SUFFICES ASSUME Init PROVE StatsInv
  BY Zenon
<1>1. flows \in CONFIGS
  BY Zenon DEF Init, MgrInit
<1>2. IsFiniteSet(DevCounters) /\ N \in Nat
  BY <1>1, DevCountersFinite, Zenon
<1>3. /\ counters \in [1 .. N -> DevCounters]
      /\ \A j, k \in 1 .. N : j < k => counters[j] # counters[k]
  BY Zenon DEF Init, Lists, N
<1>4. \A j, k \in 1 .. N : counters[j] = counters[k] => j = k
  BY <1>2, <1>3
<1>5. counters \in Injection(1 .. N, DevCounters)
  BY <1>3, <1>4, Zenon DEF Injection, IsInjective
<1>6. Cardinality(1 .. N) = N
  BY <1>2, FS_Interval
<1>7. counters \in Surjection(1 .. N, DevCounters)
  BY <1>2, <1>5, <1>6, FS_Injection, Zenon DEF N
<1>8. /\ stats.at = "head" /\ stats.len = N /\ finalized = {}
      /\ stats \in [at : {"head", "scan", "done"}, len : Nat, i : Nat, offset : Nat, scan : Nat]
  <2>1. Len(counters) = N
    BY <1>2, <1>3
  <2> QED BY <1>2, <2>1, Zenon DEF Init
<1>9. Live = 1 .. N
  BY <1>8, Zenon DEF Live
<1>10. \A c \in DevCounters : \E k \in 1 .. N : counters[k] = c
  BY <1>7, Zenon DEF Surjection
<1> QED BY <1>2, <1>3, <1>4, <1>8, <1>9, <1>10 DEF StatsInv

\* The invariant follows for the next state from facts about the positions.
LEMMA StatsInv_From ==
  ASSUME StatsInv, flows \in CONFIGS, flows' = flows,
         stats' \in [at : {"head", "scan", "done"}, len : Nat, i : Nat, offset : Nat,
                     scan : Nat],
         stats'.len <= stats.len,
         stats'.at = "scan" =>
           1 <= stats'.i /\ stats'.i <= stats'.len + 1 /\ stats'.offset <= stats'.i - 1,
         counters' \in [1 .. N -> DevCounters \union {Nil}],
         \A k \in Live' : counters'[k] \in DevCounters \ finalized',
         \A c \in DevCounters \ finalized' : \E k \in Live' : counters'[k] = c,
         \A j, k \in Live' : counters'[j] = counters'[k] => j = k
  PROVE  StatsInv'
<1>1. DevCounters' = DevCounters
  BY StaticMonitors, Zenon
<1>2. N' = N
  BY <1>1, Zenon DEF N
<1>3. stats'.len <= N
  <2>1. stats.len \in Nat /\ stats'.len \in Nat /\ stats.len <= N /\ N \in Nat
    BY DevCountersFinite, Zenon DEF StatsInv
  <2> QED BY <2>1
<1> QED BY <1>1, <1>2, <1>3, Zenon DEF StatsInv

LEMMA StatsInv_Head ==
  ASSUME StatsInv, flows \in CONFIGS, StatsHead
  PROVE  StatsInv'
<1>1. /\ flows' = flows /\ counters' = counters /\ finalized' = finalized
      /\ stats.at = "head"
      /\ \/ stats' = [stats EXCEPT !.at = "scan", !.i = 1, !.offset = 0, !.scan = 1]
         \/ stats' = [stats EXCEPT !.at = "done"]
  BY Zenon DEF StatsHead, statsUnchanged, setup, mgrVars
<1>2. /\ stats \in [at : {"head", "scan", "done"}, len : Nat, i : Nat, offset : Nat, scan : Nat]
      /\ counters \in [1 .. N -> DevCounters \union {Nil}]
  BY Zenon DEF StatsInv
<1>3. /\ stats' \in [at : {"head", "scan", "done"}, len : Nat, i : Nat, offset : Nat,
                     scan : Nat]
      /\ stats'.len = stats.len /\ stats'.at # "head"
      /\ stats'.at = "scan" => stats'.i = 1 /\ stats'.offset = 0
      /\ stats.len \in Nat
  <2>1. CASE stats' = [stats EXCEPT !.at = "scan", !.i = 1, !.offset = 0, !.scan = 1]
    BY <1>2, <2>1, Zenon
  <2>2. CASE stats' = [stats EXCEPT !.at = "done"]
    BY <1>2, <2>2, Zenon
  <2> QED BY <1>1, <2>1, <2>2, Zenon
<1>4. Live' = Live
  <2>1. Live = 1 .. stats.len
    BY <1>1, Zenon DEF Live
  <2>2. CASE stats'.at = "scan"
    <3>1. Live' = 1 .. 0 \union 1 .. stats.len
      BY <1>3, <2>2 DEF Live
    <3> QED BY <2>1, <3>1
  <2>3. CASE stats'.at # "scan"
    BY <1>3, <2>1, <2>3, Zenon DEF Live
  <2> QED BY <2>2, <2>3, Zenon
<1>5. /\ \A k \in Live' : counters'[k] \in DevCounters \ finalized'
      /\ \A c \in DevCounters \ finalized' : \E k \in Live' : counters'[k] = c
      /\ \A j, k \in Live' : counters'[j] = counters'[k] => j = k
  BY <1>1, <1>4, Zenon DEF StatsInv
<1> QED BY <1>1, <1>2, <1>3, <1>5, StatsInv_From

LEMMA StatsInv_Skip ==
  ASSUME StatsInv, flows \in CONFIGS, StatsSkip, watched[counters[stats.i]] \subseteq Nat
  PROVE  StatsInv'
<1>1. PICK f \in watched[counters[stats.i]] : stats' = [stats EXCEPT !.scan = f + 1]
  BY Zenon DEF StatsSkip
<1>2. /\ flows' = flows /\ counters' = counters /\ finalized' = finalized
  BY Zenon DEF StatsSkip, statsUnchanged, setup, mgrVars
<1>3. /\ stats \in [at : {"head", "scan", "done"}, len : Nat, i : Nat, offset : Nat, scan : Nat]
      /\ counters \in [1 .. N -> DevCounters \union {Nil}]
      /\ stats.at = "scan" =>
           1 <= stats.i /\ stats.i <= stats.len + 1 /\ stats.offset <= stats.i - 1
  BY Zenon DEF StatsInv
<1>4. f + 1 \in Nat
  OBVIOUS
<1>5. /\ stats' \in [at : {"head", "scan", "done"}, len : Nat, i : Nat, offset : Nat,
                     scan : Nat]
      /\ stats'.len = stats.len /\ stats'.at = stats.at /\ stats'.i = stats.i
      /\ stats'.offset = stats.offset /\ stats.len \in Nat
  BY <1>1, <1>3, <1>4, Zenon
<1>6. Live' = Live
  BY <1>5, Zenon DEF Live
<1>7. /\ \A k \in Live' : counters'[k] \in DevCounters \ finalized'
      /\ \A c \in DevCounters \ finalized' : \E k \in Live' : counters'[k] = c
      /\ \A j, k \in Live' : counters'[j] = counters'[k] => j = k
  BY <1>2, <1>6, Zenon DEF StatsInv
<1> QED BY <1>2, <1>3, <1>5, <1>7, StatsInv_From

LEMMA StatsInv_Round ==
  ASSUME StatsInv, flows \in CONFIGS, StatsRound
  PROVE  StatsInv'
<1>1. /\ flows' = flows /\ counters' = counters /\ finalized' = finalized
      /\ stats.at = "scan" /\ stats.i > stats.len
      /\ stats' = [stats EXCEPT !.at = "head", !.len = @ - stats.offset]
  BY Zenon DEF StatsRound, statsUnchanged, setup, mgrVars
<1>2. /\ stats \in [at : {"head", "scan", "done"}, len : Nat, i : Nat, offset : Nat, scan : Nat]
      /\ counters \in [1 .. N -> DevCounters \union {Nil}]
      /\ 1 <= stats.i /\ stats.i <= stats.len + 1 /\ stats.offset <= stats.i - 1
  BY <1>1, Zenon DEF StatsInv
<1>3. /\ stats.len \in Nat /\ stats.i \in Nat /\ stats.offset \in Nat
      /\ stats.i = stats.len + 1 /\ stats.len - stats.offset \in Nat
  BY <1>1, <1>2
<1>4. /\ stats' \in [at : {"head", "scan", "done"}, len : Nat, i : Nat, offset : Nat,
                     scan : Nat]
      /\ stats'.len = stats.len - stats.offset /\ stats'.at = "head"
  BY <1>1, <1>2, <1>3, Zenon
<1>5. Live' = Live
  <2>1. Live = 1 .. stats.i - 1 - stats.offset \union stats.i .. stats.len
    BY <1>1, Zenon DEF Live
  <2>2. Live' = 1 .. stats.len - stats.offset
    BY <1>4, Zenon DEF Live
  <2> QED BY <1>3, <2>1, <2>2
<1>6. /\ \A k \in Live' : counters'[k] \in DevCounters \ finalized'
      /\ \A c \in DevCounters \ finalized' : \E k \in Live' : counters'[k] = c
      /\ \A j, k \in Live' : counters'[j] = counters'[k] => j = k
  BY <1>1, <1>5, Zenon DEF StatsInv
<1>7. stats'.len <= stats.len
  BY <1>3, <1>4
<1> QED BY <1>1, <1>2, <1>4, <1>6, <1>7, StatsInv_From, Zenon

LEMMA StatsInv_Update ==
  ASSUME StatsInv, flows \in CONFIGS, StatsUpdate
  PROVE  StatsInv'
<1> DEFINE i == stats.i
           o == stats.offset
           l == stats.len
<1>1. /\ flows' = flows /\ finalized' = finalized /\ stats.at = "scan" /\ i <= l
      /\ counters' = IF o > 0 THEN [counters EXCEPT ![i] = Nil, ![i - o] = counters[i]]
                     ELSE counters
      /\ stats' = [stats EXCEPT !.i = @ + 1, !.scan = 1]
  BY Zenon DEF StatsUpdate, statsUnchanged, setup, mgrVars, Turn
<1>2. /\ stats \in [at : {"head", "scan", "done"}, len : Nat, i : Nat, offset : Nat, scan : Nat]
      /\ counters \in [1 .. N -> DevCounters \union {Nil}] /\ l <= N
      /\ 1 <= i /\ i <= l + 1 /\ o <= i - 1
  BY <1>1, Zenon DEF StatsInv
<1>3. /\ l \in Nat /\ i \in Nat /\ o \in Nat /\ N \in Nat
  BY <1>2, DevCountersFinite, Zenon
<1>4. /\ stats' \in [at : {"head", "scan", "done"}, len : Nat, i : Nat, offset : Nat,
                     scan : Nat]
      /\ stats'.at = "scan" /\ stats'.len = l /\ stats'.i = i + 1 /\ stats'.offset = o
  <2>1. i + 1 \in Nat
    BY <1>3
  <2>2. /\ stats' \in [at : {"head", "scan", "done"}, len : Nat, i : Nat, offset : Nat,
                       scan : Nat]
    BY <1>1, <1>2, <2>1, Zenon
  <2>3. stats'.at = "scan" /\ stats'.len = l /\ stats'.i = i + 1 /\ stats'.offset = o
    BY <1>1, <1>2, Zenon
  <2> QED BY <2>2, <2>3, Zenon
<1>5. Live = 1 .. i - 1 - o \union i .. l
  BY <1>1, Zenon DEF Live
<1>6. Live' = 1 .. i + 1 - 1 - o \union i + 1 .. l
  <2>1. Live' = 1 .. stats'.i - 1 - stats'.offset \union stats'.i .. stats'.len
    BY <1>4, Zenon DEF Live
  <2> HIDE DEF i, o, l
  <2> QED BY <1>3, <1>4, <2>1
<1>7. /\ \A k \in Live : counters[k] \in DevCounters \ finalized
      /\ \A c \in DevCounters \ finalized : \E k \in Live : counters[k] = c
      /\ \A j, k \in Live : counters[j] = counters[k] => j = k
  BY Zenon DEF StatsInv
<1>0. /\ l \in Nat /\ i \in Nat /\ o \in Nat /\ N \in Nat /\ i <= l /\ l <= N
      /\ 1 <= i /\ o <= i - 1
  BY <1>1, <1>2, <1>3, Zenon
<1>f. stats'.len = l /\ stats'.i = i + 1 /\ stats'.offset = o
  BY <1>4, Zenon
<1> HIDE DEF i, o, l
<1>8. i \in Live /\ i \in 1 .. N /\ i - o \in 1 .. N
  BY <1>0, <1>5
<1>9. CASE o = 0
  <2>1. Live' = Live
    BY <1>0, <1>5, <1>6, <1>9
  <2>2. counters' = counters
    BY <1>1, <1>9
  <2>3. /\ \A k \in Live' : counters'[k] \in DevCounters \ finalized'
        /\ \A c \in DevCounters \ finalized' : \E k \in Live' : counters'[k] = c
        /\ \A j, k \in Live' : counters'[j] = counters'[k] => j = k
    BY <1>1, <1>7, <2>1, <2>2, Zenon
  <2>4. 1 <= stats'.i /\ stats'.i <= stats'.len + 1 /\ stats'.offset <= stats'.i - 1
    BY <1>0, <1>f
  <2>5. stats'.len <= stats.len
    BY <1>0, <1>f DEF l
  <2> QED BY <1>1, <1>2, <1>4, <2>2, <2>3, <2>4, <2>5, StatsInv_From, Zenon
<1>10. CASE o > 0
  <2>1. counters' = [counters EXCEPT ![i] = Nil, ![i - o] = counters[i]]
    BY <1>1, <1>10, Zenon
  <2>2. /\ counters' \in [1 .. N -> DevCounters \union {Nil}]
        /\ counters'[i - o] = counters[i]
        /\ \A k \in 1 .. N : k # i /\ k # i - o => counters'[k] = counters[k]
    BY <1>2, <1>0, <1>8, <1>10, <2>1, Zenon
  <2>3. ASSUME NEW k \in Live'
        PROVE  k \in 1 .. N /\ (k = i - o \/ (k \in Live /\ k # i /\ k # i - o))
    BY <1>0, <1>5, <1>6, <1>10
  <2>4. ASSUME NEW k \in Live, k # i PROVE k \in Live' /\ k # i - o /\ k \in 1 .. N
    BY <1>0, <1>5, <1>6, <1>10, <2>4
  <2>5. i - o \in Live'
    BY <1>0, <1>6
  \* Where the counter of a live position was before the step.
  <2> DEFINE was(k) == IF k = i - o THEN i ELSE k
  <2>6. ASSUME NEW k \in Live' PROVE was(k) \in Live /\ counters'[k] = counters[was(k)]
    BY <1>8, <2>2, <2>3, Zenon
  <2>7. \A j, k \in Live' : was(j) = was(k) => j = k
    BY <1>10, <2>3, <1>3, Zenon
  <2> HIDE DEF was
  <2>8. \A k \in Live' : counters'[k] \in DevCounters \ finalized'
    BY <1>1, <1>7, <2>6, Zenon
  <2>9. \A j, k \in Live' : counters'[j] = counters'[k] => j = k
    BY <1>7, <2>6, <2>7
  <2>10. ASSUME NEW c \in DevCounters \ finalized'
         PROVE  \E k \in Live' : counters'[k] = c
    <3>1. PICK k \in Live : counters[k] = c
      BY <1>1, <1>7, Zenon
    <3>2. CASE k = i
      BY <2>2, <2>5, <3>1, <3>2, Zenon
    <3>3. CASE k # i
      BY <2>2, <2>4, <3>1, <3>3, Zenon
    <3> QED BY <3>2, <3>3, Zenon
  <2>11. 1 <= stats'.i /\ stats'.i <= stats'.len + 1 /\ stats'.offset <= stats'.i - 1
    BY <1>0, <1>f
  <2>12. stats'.len <= stats.len
    BY <1>0, <1>f DEF l
  <2> QED BY <1>1, <1>4, <2>2, <2>8, <2>9, <2>10, <2>11, <2>12, StatsInv_From, Zenon
<1> QED BY <1>3, <1>9, <1>10

LEMMA StatsInv_Finalize ==
  ASSUME StatsInv, flows \in CONFIGS, StatsFinalize
  PROVE  StatsInv'
<1> DEFINE i == stats.i
           o == stats.offset
           l == stats.len
<1>1. /\ flows' = flows /\ stats.at = "scan" /\ i <= l
      /\ finalized' = finalized \union {counters[i]}
      /\ counters' = [counters EXCEPT ![i] = Nil]
      /\ stats' = [[stats EXCEPT !.i = @ + 1, !.scan = 1] EXCEPT !.offset = @ + 1]
  BY Zenon DEF StatsFinalize, statsUnchanged, setup, mgrVars, Turn
<1>2. /\ stats \in [at : {"head", "scan", "done"}, len : Nat, i : Nat, offset : Nat, scan : Nat]
      /\ counters \in [1 .. N -> DevCounters \union {Nil}] /\ l <= N
      /\ 1 <= i /\ i <= l + 1 /\ o <= i - 1
  BY <1>1, Zenon DEF StatsInv
<1>3. /\ l \in Nat /\ i \in Nat /\ o \in Nat /\ N \in Nat
  BY <1>2, DevCountersFinite, Zenon
<1>4. /\ stats' \in [at : {"head", "scan", "done"}, len : Nat, i : Nat, offset : Nat,
                     scan : Nat]
      /\ stats'.at = "scan" /\ stats'.len = l /\ stats'.i = i + 1 /\ stats'.offset = o + 1
  <2>1. i + 1 \in Nat /\ o + 1 \in Nat
    BY <1>3
  <2>2. /\ stats' \in [at : {"head", "scan", "done"}, len : Nat, i : Nat, offset : Nat,
                       scan : Nat]
    BY <1>1, <1>2, <2>1, Zenon
  <2>3. stats'.at = "scan" /\ stats'.len = l /\ stats'.i = i + 1 /\ stats'.offset = o + 1
    BY <1>1, <1>2, Zenon
  <2> QED BY <2>2, <2>3, Zenon
<1>5. Live = 1 .. i - 1 - o \union i .. l
  BY <1>1, Zenon DEF Live
<1>6. Live' = 1 .. i + 1 - 1 - (o + 1) \union i + 1 .. l
  <2>1. Live' = 1 .. stats'.i - 1 - stats'.offset \union stats'.i .. stats'.len
    BY <1>4, Zenon DEF Live
  <2> HIDE DEF i, o, l
  <2> QED BY <1>3, <1>4, <2>1
<1>7. /\ \A k \in Live : counters[k] \in DevCounters \ finalized
      /\ \A c \in DevCounters \ finalized : \E k \in Live : counters[k] = c
      /\ \A j, k \in Live : counters[j] = counters[k] => j = k
  BY Zenon DEF StatsInv
<1>0. /\ l \in Nat /\ i \in Nat /\ o \in Nat /\ N \in Nat /\ i <= l /\ l <= N
      /\ 1 <= i /\ o <= i - 1
  BY <1>1, <1>2, <1>3, Zenon
<1>f. stats'.len = l /\ stats'.i = i + 1 /\ stats'.offset = o + 1
  BY <1>4, Zenon
<1> HIDE DEF i, o, l
<1>8. Live' = Live \ {i} /\ i \in Live /\ Live \subseteq 1 .. N
  <2>1. i + 1 - 1 - (o + 1) = i - 1 - o
    BY <1>0
  <2>2. Live' = 1 .. i - 1 - o \union i + 1 .. l
    BY <1>6, <2>1, Zenon
  <2>3. i .. l = {i} \union i + 1 .. l /\ i \notin i + 1 .. l /\ i \notin 1 .. i - 1 - o
    BY <1>0
  <2>4. 1 .. i - 1 - o \subseteq 1 .. N /\ i .. l \subseteq 1 .. N
    BY <1>0
  <2> QED BY <1>5, <2>2, <2>3, <2>4, Zenon
<1>9. /\ counters' \in [1 .. N -> DevCounters \union {Nil}]
      /\ \A k \in Live' : counters'[k] = counters[k]
  BY <1>1, <1>2, <1>8, Zenon
<1>10. \A k \in Live' : counters'[k] \in DevCounters \ finalized'
  BY <1>1, <1>7, <1>8, <1>9
<1>11. \A c \in DevCounters \ finalized' : \E k \in Live' : counters'[k] = c
  BY <1>1, <1>7, <1>8, <1>9, Zenon
<1>12. \A j, k \in Live' : counters'[j] = counters'[k] => j = k
  BY <1>7, <1>8, <1>9
<1>13. 1 <= stats'.i /\ stats'.i <= stats'.len + 1 /\ stats'.offset <= stats'.i - 1
  BY <1>0, <1>f
<1>14. stats'.len <= stats.len
  BY <1>0, <1>f DEF l
<1> QED BY <1>1, <1>4, <1>9, <1>10, <1>11, <1>12, <1>13, <1>14, StatsInv_From, Zenon

LEMMA StatsInv_Kept ==
  ASSUME StatsInv, flows \in CONFIGS
  PROVE  StatsKept
<1> SUFFICES ASSUME stats.at = "head"
             PROVE  /\ {counters[k] : k \in 1 .. stats.len} = DevCounters \ finalized
                    /\ Cardinality(DevCounters \ finalized) = stats.len
  BY Zenon DEF StatsKept
<1> DEFINE D == DevCounters \ finalized
           g == [k \in 1 .. stats.len |-> counters[k]]
<1>1. Live = 1 .. stats.len /\ stats.len \in Nat
  BY Zenon DEF Live, StatsInv
<1>2. /\ \A k \in 1 .. stats.len : counters[k] \in D
      /\ \A c \in D : \E k \in 1 .. stats.len : counters[k] = c
      /\ \A j, k \in 1 .. stats.len : counters[j] = counters[k] => j = k
  BY <1>1, Zenon DEF StatsInv
<1> HIDE DEF D
<1>3. g \in Injection(1 .. stats.len, D) /\ g \in Surjection(1 .. stats.len, D)
  BY <1>2, Zenon DEF Injection, IsInjective, Surjection
<1>4. ExistsBijection(1 .. stats.len, D)
  BY <1>3, Zenon DEF ExistsBijection, Bijection
<1>5. IsFiniteSet(1 .. stats.len) /\ Cardinality(1 .. stats.len) = stats.len
  BY <1>1, FS_Interval
<1>6. Cardinality(D) = stats.len
  BY <1>4, <1>5, FS_Bijection, Zenon
<1>7. {counters[k] : k \in 1 .. stats.len} = D
  BY <1>2
<1> QED BY <1>6, <1>7, Zenon DEF D

-----------------------------------------------------------------------------
(* What the monitors have seen.                                             *)

TaskRec == [at : {"scan", "done"}, scan : Nat, active : BOOLEAN]

\* When a round has found no active flow so far, those behind it have ended.
Seen(task, S) == task.active = FALSE => \A f \in S : f < task.scan => f \in ended

\* What a monitor concludes from a counter that was back at zero stays true, even
\* if the flow is active again: the flow has ended.
CntSeen ==
  /\ cnt \in [CountTasks -> {"run", "timed", "done"}]
  /\ \A t \in CountTasks : cnt[t] = "timed" => t[2] \in ended

StatsSeen ==
  stats.at = "scan" /\ stats.i <= stats.len =>
    \A f \in watched[counters[stats.i]] : f < stats.scan => f \in ended

WatchInv ==
  /\ watched = [m \in Monitors |-> WatchedBy(m)]
  /\ CntSeen /\ StatsSeen
  /\ arp \in TaskRec /\ Seen(arp, watched[Arp])
  /\ ts \in TaskRec /\ Seen(ts, watched[Timestamp])

\* Monitors look at flows, and flows are positive numbers.
LEMMA WatchedShape ==
  ASSUME flows \in CONFIGS, watched = [m \in Monitors |-> WatchedBy(m)]
  PROVE  /\ \A m \in Monitors : watched[m] \subseteq Flows
         /\ Flows \subseteq Nat \ {0}
         /\ \A t \in CountTasks : t \in Monitors /\ watched[t] = {t[2]}
         /\ Arp \in Monitors /\ Timestamp \in Monitors
         /\ DevCounters \subseteq Monitors
<1>1. Flows \subseteq Nat \ {0}
  BY FlowShape
<1>2. \A m \in Monitors : WatchedBy(m) \subseteq Flows
  BY CountTaskShape, Zenon DEF WatchedBy, ArpFlows, TsFlows
<1>3. ASSUME NEW t \in CountTasks PROVE t # Arp /\ t # Timestamp
  BY CountTaskShape DEF Arp, Timestamp
<1>4. \A t \in CountTasks : WatchedBy(t) = {t[2]}
  BY <1>3, Zenon DEF WatchedBy
<1> QED BY <1>1, <1>2, <1>4, Zenon DEF Monitors

LEMMA Look_Seen ==
  ASSUME NEW task \in TaskRec, NEW next, NEW S \in SUBSET Nat, Look(task, next, S),
         Seen(task, S), \A f \in S : isZero(f) => f \in ended
  PROVE  next \in TaskRec /\ next.at = task.at /\ Seen(next, S)
<1>1. PICK f \in S : /\ IsNext(f, S, task.scan)
                     /\ next = [task EXCEPT !.scan = f + 1, !.active = @ \/ ~isZero(f)]
  BY Zenon DEF Look
<1>a. f + 1 \in Nat
  OBVIOUS
<1>0. PICK n \in Nat : n = f + 1
  BY <1>a, Zenon
<1>2. task.scan \in Nat /\ task.active \in BOOLEAN /\ f \in Nat
  BY Zenon DEF TaskRec
<1>3. CASE task.active = TRUE
  <2>1. next = [task EXCEPT !.scan = n, !.active = TRUE]
    BY <1>0, <1>1, <1>3, Zenon
  <2>2. next \in TaskRec /\ next.at = task.at /\ next.active = TRUE
    BY <2>1, Zenon DEF TaskRec
  <2> QED BY <2>2, Zenon DEF Seen
<1>4. CASE ~isZero(f)
  <2>1. next = [task EXCEPT !.scan = n, !.active = TRUE]
    BY <1>0, <1>1, <1>4, Zenon
  <2>2. next \in TaskRec /\ next.at = task.at /\ next.active = TRUE
    BY <2>1, Zenon DEF TaskRec
  <2> QED BY <2>2, Zenon DEF Seen
<1>5. CASE task.active = FALSE /\ isZero(f)
  <2>1. next = [task EXCEPT !.scan = n, !.active = FALSE]
    BY <1>0, <1>1, <1>5, Zenon
  <2>2. next \in TaskRec /\ next.at = task.at /\ next.scan = n
    BY <2>1, Zenon DEF TaskRec
  <2>3. ASSUME NEW g \in S, g < f + 1 PROVE g \in ended
    <3>1. CASE g < task.scan
      BY <1>5, <3>1, Zenon DEF Seen
    <3>2. CASE g >= task.scan
      <4>1. f <= g /\ g \in Nat
        BY <1>1, <3>2, Zenon DEF IsNext
      <4>2. g = f
        BY <1>2, <2>3, <4>1
      <4> QED BY <1>5, <4>2, Zenon
    <3> QED BY <1>2, <3>1, <3>2
  <2> QED BY <1>0, <2>2, <2>3, Zenon DEF Seen
<1> QED BY <1>2, <1>3, <1>4, <1>5, Zenon

LEMMA Round_Seen ==
  ASSUME NEW task \in TaskRec, NEW next, NEW S \in SUBSET (Nat \ {0}),
         NEW runs \in BOOLEAN, Round(task, next, S, runs), Seen(task, S)
  PROVE  /\ next \in TaskRec /\ Seen(next, S)
         /\ next.at = task.at \/ (next.at = "done" /\ (S \subseteq ended \/ ~runs))
<1>1. CASE task.active /\ runs
  <2>1. next = [task EXCEPT !.scan = 1, !.active = FALSE]
    BY <1>1, Zenon DEF Round
  <2>2. next \in TaskRec /\ next.at = task.at /\ next.scan = 1
    BY <2>1, Zenon DEF TaskRec
  <2>3. \A f \in S : ~(f < 1)
    OBVIOUS
  <2> QED BY <2>2, <2>3, Zenon DEF Seen
<1>2. CASE ~(task.active /\ runs)
  <2>1. next = [task EXCEPT !.at = "done"]
    BY <1>2, Zenon DEF Round
  <2>2. /\ next \in TaskRec /\ next.at = "done" /\ next.scan = task.scan
        /\ next.active = task.active
    BY <2>1, Zenon DEF TaskRec
  <2>3. Seen(next, S)
    BY <2>2, Zenon DEF Seen
  <2>4. CASE ~runs
    BY <2>2, <2>3, <2>4, Zenon
  <2>5. CASE task.active = FALSE
    <3>1. \A f \in S : f < task.scan
      BY Zenon DEF Round, NoneLeft
    <3>2. S \subseteq ended
      BY <2>5, <3>1, Zenon DEF Seen
    <3> QED BY <2>2, <2>3, <3>2, Zenon
  <2>6. task.active \in BOOLEAN
    BY Zenon DEF TaskRec
  <2> QED BY <1>2, <2>4, <2>5, <2>6, Zenon
<1> QED BY <1>1, <1>2, Zenon

LEMMA WatchInv_Init ==
  Init => WatchInv
<1> SUFFICES ASSUME Init PROVE WatchInv
  BY Zenon
<1>1. flows \in CONFIGS /\ Len(flows) + 1 \in Nat
  <2>1. flows \in CONFIGS
    BY Zenon DEF Init, MgrInit
  <2> QED BY <2>1, FlowShape
<1>2. CntSeen /\ StatsSeen
  BY Zenon DEF Init, CntSeen, StatsSeen
<1>3. arp \in TaskRec /\ arp.active = TRUE /\ ts = arp
  BY <1>1, Zenon DEF Init, TaskRec
<1>4. watched = [m \in Monitors |-> WatchedBy(m)]
  BY Zenon DEF Init
<1> QED BY <1>2, <1>3, <1>4, Zenon DEF WatchInv, Seen

\* What is watched stays the same.
LEMMA WatchedStatic ==
  ASSUME flows' = flows, watched' = watched, watched = [m \in Monitors |-> WatchedBy(m)]
  PROVE  watched' = [m \in Monitors |-> WatchedBy(m)]'
<1>1. Monitors' = Monitors
  BY StaticMonitors, Zenon
<1>2. \A m : WatchedBy(m)' = WatchedBy(m)
  BY Static, Zenon DEF WatchedBy, DevOf, Dev
<1> QED BY <1>1, <1>2, Zenon

\* Steps of others than monitors add to what has ended at most.
LEMMA WatchInv_Grows ==
  ASSUME WatchInv, UNCHANGED <<flows, watched, cnt, arp, ts, stats, counters>>,
         ended \subseteq ended'
  PROVE  WatchInv'
<1>1. watched' = [m \in Monitors |-> WatchedBy(m)]'
  BY WatchedStatic, Zenon DEF WatchInv
<1>2. CntSeen'
  BY Static, Zenon DEF WatchInv, CntSeen
<1>3. StatsSeen'
  BY Zenon DEF WatchInv, StatsSeen
<1>4. /\ arp' \in TaskRec /\ Seen(arp, watched[Arp])'
      /\ ts' \in TaskRec /\ Seen(ts, watched[Timestamp])'
  BY Zenon DEF WatchInv, Seen
<1> QED BY <1>1, <1>2, <1>3, <1>4, Zenon DEF WatchInv

LEMMA WatchInv_Load ==
  ASSUME WatchInv, NEW t, Load(t)
  PROVE  WatchInv'
<1>1. ended \subseteq ended'
  BY Zenon DEF Load, LockAndRead, IncFirst, IncSecond, LoadEnds, Dec
<1>2. UNCHANGED <<flows, watched, cnt, arp, ts, stats, counters>>
  BY Zenon DEF Load, LockAndRead, IncFirst, IncSecond, LoadEnds, Dec, loadUnchanged, setup, mgrVars,
         devStats
<1> QED BY <1>1, <1>2, WatchInv_Grows, Zenon

LEMMA WatchInv_Count ==
  ASSUME WatchInv, CounterInv, flows \in CONFIGS,
         NEW t \in CountTasks, CountSees(t) \/ CountEnds(t)
  PROVE  WatchInv'
<1>1. UNCHANGED <<flows, watched, arp, ts, stats, counters, ended>>
  BY Zenon DEF CountSees, CountEnds, setup, mgrVars, devStats, sending
<1>2. watched' = [m \in Monitors |-> WatchedBy(m)]'
  BY <1>1, WatchedStatic, Zenon DEF WatchInv
<1>3. CntSeen'
  <2>1. CountTasks' = CountTasks
    BY <1>1, Static, Zenon
  <2>2. t[2] \in Flows
    BY CountTaskShape, Zenon
  <2>3. CASE CountSees(t)
    <3>1. t[2] \in ended
      BY <2>2, <2>3, Zenon DEF CountSees, CounterInv
    <3> QED BY <1>1, <2>1, <2>3, <3>1, Zenon DEF CountSees, CntSeen, WatchInv
  <2>4. CASE CountEnds(t)
    BY <1>1, <2>1, <2>4, Zenon DEF CountEnds, CntSeen, WatchInv
  <2> QED BY <2>3, <2>4, Zenon
<1>4. StatsSeen'
  BY <1>1, Zenon DEF WatchInv, StatsSeen
<1>5. /\ arp' \in TaskRec /\ Seen(arp, watched[Arp])'
      /\ ts' \in TaskRec /\ Seen(ts, watched[Timestamp])'
  BY <1>1 DEF WatchInv, Seen
<1> QED BY <1>2, <1>3, <1>4, <1>5, Zenon DEF WatchInv

\* arpManagerThread leaves when all its flows have ended.
LEMMA WatchInv_Arp ==
  ASSUME WatchInv, CounterInv, flows \in CONFIGS, ArpManager
  PROVE  WatchInv' /\ (arp'.at = arp.at \/ watched[Arp] \subseteq ended)
<1>1. UNCHANGED <<flows, watched, cnt, ts, stats, counters, ended>>
  BY Zenon DEF ArpManager, setup, mgrVars, devStats, sending
<1>2. watched' = [m \in Monitors |-> WatchedBy(m)]'
  BY <1>1, WatchedStatic, Zenon DEF WatchInv
<1>3. CntSeen' /\ StatsSeen'
  BY <1>1, Static, Zenon DEF WatchInv, CntSeen, StatsSeen
<1>4. ts' \in TaskRec /\ Seen(ts, watched[Timestamp])'
  BY <1>1, Zenon DEF WatchInv, Seen
<1> DEFINE S == watched[Arp]
<1>5. S \subseteq Nat \ {0} /\ S \subseteq Flows
  BY WatchedShape, Zenon DEF WatchInv
<1>6. arp \in TaskRec /\ Seen(arp, S) /\ \A f \in S : isZero(f) => f \in ended
  BY <1>5, Zenon DEF WatchInv, CounterInv
<1>7. Look(arp, arp', S) \/ Round(arp, arp', S, TRUE)
  BY Zenon DEF ArpManager
<1> HIDE DEF S
<1>8. arp' \in TaskRec /\ Seen(arp', S) /\ (arp'.at = arp.at \/ S \subseteq ended)
  <2>1. CASE Look(arp, arp', S)
    BY <1>5, <1>6, <2>1, Look_Seen, Zenon
  <2>2. CASE Round(arp, arp', S, TRUE)
    BY <1>5, <1>6, <2>2, Round_Seen, Zenon
  <2> QED BY <1>7, <2>1, <2>2, Zenon
<1>9. Seen(arp, watched[Arp])'
  BY <1>1, <1>8, Zenon DEF Seen, S
<1> QED BY <1>2, <1>3, <1>4, <1>8, <1>9, Zenon DEF WatchInv, S

\* timestampThread leaves when all its flows have ended, or with the program, or
\* at once when they do not go together.
LEMMA WatchInv_Timestamping ==
  ASSUME WatchInv, CounterInv, flows \in CONFIGS, Timestamping
  PROVE  /\ WatchInv'
         /\ ts'.at = ts.at \/ watched[Timestamp] \subseteq ended \/ running # "yes" \/ TsMixed
<1>1. UNCHANGED <<flows, watched, cnt, arp, stats, counters, ended>>
  BY Zenon DEF Timestamping, setup, mgrVars, devStats, sending
<1>2. watched' = [m \in Monitors |-> WatchedBy(m)]'
  BY <1>1, WatchedStatic, Zenon DEF WatchInv
<1>3. CntSeen' /\ StatsSeen'
  BY <1>1, Static, Zenon DEF WatchInv, CntSeen, StatsSeen
<1>4. arp' \in TaskRec /\ Seen(arp, watched[Arp])'
  BY <1>1, Zenon DEF WatchInv, Seen
<1> DEFINE S == watched[Timestamp]
<1>5. S \subseteq Nat \ {0} /\ S \subseteq Flows
  BY WatchedShape, Zenon DEF WatchInv
<1>6. ts \in TaskRec /\ Seen(ts, S) /\ \A f \in S : isZero(f) => f \in ended
  BY <1>5, Zenon DEF WatchInv, CounterInv
<1>7. \/ Look(ts, ts', S) \/ Round(ts, ts', S, running = "yes")
      \/ TsMixed /\ ts' = [ts EXCEPT !.at = "done"]
  BY Zenon DEF Timestamping
<1> HIDE DEF S
<1>8. /\ ts' \in TaskRec /\ Seen(ts', S)
      /\ ts'.at = ts.at \/ S \subseteq ended \/ running # "yes" \/ TsMixed
  <2>1. CASE Look(ts, ts', S)
    BY <1>5, <1>6, <2>1, Look_Seen
  <2>2. CASE Round(ts, ts', S, running = "yes")
    <3>1. (running = "yes") \in BOOLEAN
      BY Zenon
    <3> QED BY <1>5, <1>6, <2>2, <3>1, Round_Seen, Zenon
  <2>3. CASE TsMixed /\ ts' = [ts EXCEPT !.at = "done"]
    <3>1. ts' \in TaskRec /\ ts'.scan = ts.scan /\ ts'.active = ts.active
      BY <1>6, <2>3, Zenon DEF TaskRec
    <3> QED BY <1>6, <2>3, <3>1, Zenon DEF Seen
  <2> QED BY <1>7, <2>1, <2>2, <2>3, Zenon
<1>9. Seen(ts, watched[Timestamp])'
  BY <1>1, <1>8, Zenon DEF Seen, S
<1> QED BY <1>2, <1>3, <1>4, <1>8, <1>9, Zenon DEF WatchInv, S

\* deviceStatsThread finalizes a counter when all its flows have ended.
LEMMA Stats_Step ==
  ASSUME StatsInv, WatchInv, CounterInv, flows \in CONFIGS, DeviceStats
  PROVE  /\ StatsInv' /\ WatchInv'
         /\ finalized' = finalized \/
              /\ stats.at = "scan" /\ stats'.at = "scan"
              /\ \E c \in DevCounters : /\ finalized' = finalized \union {c}
                                        /\ watched[c] \subseteq ended
<1>1. UNCHANGED <<flows, watched, cnt, arp, ts, ended>>
  BY Zenon DEF DeviceStats, StatsHead, StatsSkip, StatsUpdate, StatsFinalize, StatsRound,
         statsUnchanged, setup, mgrVars, sending
<1>2. /\ watched' = [m \in Monitors |-> WatchedBy(m)]'
      /\ watched = [m \in Monitors |-> WatchedBy(m)]
  BY <1>1, WatchedStatic, Zenon DEF WatchInv
<1>3. CntSeen'
  BY <1>1, Static, Zenon DEF WatchInv, CntSeen
<1>4. /\ arp' \in TaskRec /\ Seen(arp, watched[Arp])'
      /\ ts' \in TaskRec /\ Seen(ts, watched[Timestamp])'
  BY <1>1, Zenon DEF WatchInv, Seen
<1>5. /\ \A m \in Monitors : watched[m] \subseteq Flows
      /\ Flows \subseteq Nat \ {0} /\ DevCounters \subseteq Monitors
  BY <1>2, WatchedShape, Zenon
<1>6. ASSUME stats.at = "scan", stats.i <= stats.len
      PROVE  counters[stats.i] \in DevCounters
  <2>1. stats.i \in Live
    <3>1. stats.i \in Nat /\ stats.len \in Nat
      BY Zenon DEF StatsInv
    <3> QED BY <1>6, <3>1 DEF Live
  <2> QED BY <2>1, Zenon DEF StatsInv
<1>7. ASSUME StatsInv', stats'.scan = 1 PROVE StatsSeen'
  <2> SUFFICES ASSUME stats'.at = "scan", stats'.i <= stats'.len,
                      NEW f \in watched'[counters'[stats'.i]], f < stats'.scan
               PROVE  f \in ended'
    BY Zenon DEF StatsSeen
  <2>1. DevCounters' = DevCounters
    BY <1>1, StaticMonitors, Zenon
  <2>2. stats'.i \in Live'
    <3>1. stats'.i \in Nat /\ stats'.len \in Nat
      BY <1>7, Zenon DEF StatsInv
    <3> QED BY <3>1 DEF Live
  <2>3. counters'[stats'.i] \in DevCounters
    BY <1>7, <2>1, <2>2, Zenon DEF StatsInv
  <2>4. f \in Nat \ {0}
    BY <1>1, <1>5, <2>3, Zenon
  <2> QED BY <1>7, <2>4
<1>8. CASE StatsHead
  <2>1. StatsInv' /\ finalized' = finalized
    BY <1>8, StatsInv_Head, Zenon DEF StatsHead
  <2>2. CASE stats' = [stats EXCEPT !.at = "done"]
    <3>1. stats'.at # "scan"
      BY <2>2, Zenon DEF StatsInv
    <3>2. StatsSeen'
      BY <3>1 DEF StatsSeen
    <3> QED BY <1>2, <1>3, <1>4, <2>1, <3>2, Zenon DEF WatchInv
  <2>3. CASE stats' = [stats EXCEPT !.at = "scan", !.i = 1, !.offset = 0, !.scan = 1]
    <3>1. stats'.scan = 1
      BY <2>3, Zenon DEF StatsInv
    <3>2. StatsSeen'
      BY <1>7, <2>1, <3>1
    <3> QED BY <1>2, <1>3, <1>4, <2>1, <3>2, Zenon DEF WatchInv
  <2> QED BY <1>8, <2>2, <2>3, Zenon DEF StatsHead
<1>9. CASE StatsSkip
  <2>1. PICK f \in watched[counters[stats.i]] :
          /\ IsNext(f, watched[counters[stats.i]], stats.scan) /\ isZero(f)
          /\ stats' = [stats EXCEPT !.scan = f + 1]
    BY <1>9, Zenon DEF StatsSkip
  <2>2. counters' = counters /\ finalized' = finalized /\ stats.at = "scan" /\ stats.i <= stats.len
    BY <1>9, Zenon DEF StatsSkip
  <2> DEFINE W == watched[counters[stats.i]]
  <2>3. W \subseteq Flows /\ W \subseteq Nat /\ f \in W
    BY <1>5, <1>6, <2>2, Zenon
  <2>4. StatsInv'
    BY <1>9, <2>3, StatsInv_Skip, Zenon
  <2>5. stats'.i = stats.i /\ stats'.scan = f + 1 /\ stats.scan \in Nat
    BY <2>1, Zenon DEF StatsInv
  <2>6. f \in ended /\ \A g \in W : g < stats.scan => g \in ended
    BY <2>1, <2>2, <2>3, Zenon DEF CounterInv, WatchInv, StatsSeen
  <2>7. \A g \in W : g >= stats.scan => f <= g
    BY <2>1, Zenon DEF IsNext
  <2> HIDE DEF W
  <2>8. ASSUME NEW g \in W, g < f + 1 PROVE g \in ended
    <3>1. CASE g < stats.scan
      BY <2>6, <3>1, Zenon
    <3>2. CASE g >= stats.scan
      <4>1. g = f
        BY <2>3, <2>7, <2>8, <3>2
      <4> QED BY <2>6, <4>1, Zenon
    <3> QED BY <2>3, <2>5, <3>1, <3>2
  <2>9. StatsSeen'
    BY <1>1, <2>2, <2>5, <2>8 DEF StatsSeen, W
  <2> QED BY <1>2, <1>3, <1>4, <2>2, <2>4, <2>9, Zenon DEF WatchInv
<1>10. CASE StatsUpdate
  <2>1. StatsInv' /\ finalized' = finalized
    BY <1>10, StatsInv_Update DEF StatsUpdate
  <2>2. stats'.scan = 1
    BY <1>10, Zenon DEF StatsUpdate, Turn, StatsInv
  <2>3. StatsSeen'
    BY <1>7, <2>1, <2>2, Zenon
  <2> QED BY <1>2, <1>3, <1>4, <2>1, <2>3, Zenon DEF WatchInv
<1>11. CASE StatsFinalize
  <2>1. StatsInv'
    BY <1>11, StatsInv_Finalize, Zenon
  <2>2. stats'.scan = 1 /\ stats'.at = "scan" /\ stats.at = "scan" /\ stats.i <= stats.len
    BY <1>11, Zenon DEF StatsFinalize, Turn, StatsInv
  <2>3. StatsSeen'
    BY <1>7, <2>1, <2>2, Zenon
  <2>4. \A f \in watched[counters[stats.i]] : f < stats.scan
    BY <1>11, Zenon DEF StatsFinalize, NoneLeft
  <2>5. watched[counters[stats.i]] \subseteq ended
    BY <2>2, <2>4, Zenon DEF WatchInv, StatsSeen
  <2>6. finalized' = finalized \union {counters[stats.i]}
    BY <1>11, Zenon DEF StatsFinalize
  <2>7. counters[stats.i] \in DevCounters
    BY <1>6, <2>2, Zenon
  <2>8. WatchInv'
    BY <1>2, <1>3, <1>4, <2>3 DEF WatchInv
  <2> QED BY <2>1, <2>2, <2>5, <2>6, <2>7, <2>8
<1>12. CASE StatsRound
  <2>1. StatsInv' /\ finalized' = finalized
    BY <1>12, StatsInv_Round, Zenon DEF StatsRound
  <2>2. stats'.at = "head"
    BY <1>12, Zenon DEF StatsRound, StatsInv
  <2>3. StatsSeen'
    BY <2>2, Zenon DEF StatsSeen
  <2> QED BY <1>2, <1>3, <1>4, <2>1, <2>3, Zenon DEF WatchInv
<1> QED BY <1>8, <1>9, <1>10, <1>11, <1>12, Zenon DEF DeviceStats

LEMMA StatsInv_Stutter ==
  ASSUME StatsInv, UNCHANGED <<flows, devStats>>
  PROVE  StatsInv'
<1>1. stats' = stats /\ counters' = counters /\ finalized' = finalized
  BY Zenon DEF devStats
<1>2. DevCounters' = DevCounters
  BY StaticMonitors, Zenon
<1>3. N' = N /\ Live' = Live
  BY <1>1, <1>2, Zenon DEF N, Live
<1> QED BY <1>1, <1>2, <1>3, Zenon DEF StatsInv

-----------------------------------------------------------------------------
(* The invariant of the specification.                                      *)

Inv == MgrInv /\ CounterInv /\ StatsInv /\ WatchInv

LEMMA Inv_Init ==
  Init => Inv
BY MgrInit_Inv, CounterInv_Init, StatsInv_Init, WatchInv_Init DEF Init, Inv

LEMMA Inv_Step ==
  ASSUME Inv, [Next]_vars
  PROVE  Inv'
<1>1. MgrInv' /\ CounterInv'
  BY MgrInv_Step, CounterInv_Step, Zenon DEF Inv, MgrInv
<1>2. MgrInv /\ CounterInv /\ StatsInv /\ WatchInv /\ flows \in CONFIGS
  BY Zenon DEF Inv, MgrInv
<1>3. CASE Master
  <2>1. UNCHANGED <<flows, devStats>> /\ UNCHANGED <<watched, cnt, arp, ts, stats, counters, ended>>
    BY <1>3, Zenon DEF Master, taskVars, devStats, sending, Prepare, PrepareFails, Configure, Start
  <2> QED BY <1>1, <1>2, <2>1, StatsInv_Stutter, WatchInv_Grows, Zenon DEF Inv
<1>4. CASE Stop \/ GraceEnds
  <2>1. UNCHANGED <<flows, devStats>> /\ UNCHANGED <<watched, cnt, arp, ts, stats, counters, ended>>
    BY <1>4, Zenon DEF Stop, GraceEnds, setup, mgrVars, devStats, sending
  <2> QED BY <1>1, <1>2, <2>1, StatsInv_Stutter, WatchInv_Grows, Zenon DEF Inv
<1>5. ASSUME NEW t, Load(t) PROVE Inv'
  <2>1. UNCHANGED <<flows, devStats>>
    BY <1>5, Zenon DEF Load, LockAndRead, IncFirst, IncSecond, LoadEnds, Dec, loadUnchanged, setup,
                mgrVars
  <2> QED BY <1>1, <1>2, <1>5, <2>1, StatsInv_Stutter, WatchInv_Load DEF Inv
<1>6. ASSUME NEW t \in DOMAIN cnt, CountSees(t) \/ CountEnds(t) PROVE Inv'
  <2>1. UNCHANGED <<flows, devStats>>
    BY <1>6, Zenon DEF CountSees, CountEnds, setup, mgrVars
  <2>2. t \in CountTasks
    BY <1>2, Zenon DEF WatchInv, CntSeen
  <2> QED BY <1>1, <1>2, <1>6, <2>1, <2>2, StatsInv_Stutter, WatchInv_Count DEF Inv
<1>7. CASE ArpManager
  <2>1. UNCHANGED <<flows, devStats>>
    BY <1>7, Zenon DEF ArpManager, setup, mgrVars
  <2> QED BY <1>1, <1>2, <1>7, <2>1, StatsInv_Stutter, WatchInv_Arp, Zenon DEF Inv
<1>8. CASE Timestamping
  <2>1. UNCHANGED <<flows, devStats>>
    BY <1>8 DEF Timestamping, setup, mgrVars
  <2> QED BY <1>1, <1>2, <1>8, <2>1, StatsInv_Stutter, WatchInv_Timestamping, Zenon DEF Inv
<1>9. CASE DeviceStats
  BY <1>1, <1>2, <1>9, Stats_Step, Zenon DEF Inv
<1>10. CASE UNCHANGED vars
  <2>1. UNCHANGED <<flows, devStats>> /\ UNCHANGED <<watched, cnt, arp, ts, stats, counters, ended>>
    BY <1>10, Zenon DEF vars, mgrVars, taskVars, devStats, sending
  <2> QED BY <1>1, <1>2, <2>1, StatsInv_Stutter, WatchInv_Grows, Zenon DEF Inv
<1> QED BY <1>3, <1>4, <1>5, <1>6, <1>7, <1>8, <1>9, <1>10 DEF Next

\* The list of the statistics holds every counter that is not finalized exactly
\* once at the head of a round, for any number of devices, whatever is finalized
\* and moved in a round.
THEOREM StatsAreKept ==
  Spec => []StatsKept
<1>1. Inv => StatsKept
  BY StatsInv_Kept DEF Inv, MgrInv
<1> QED BY <1>1, Inv_Init, Inv_Step, PTL DEF Spec

-----------------------------------------------------------------------------
(* The refinement: the values FlowLife's variables have in FlowTasks.        *)

LifeOf(f) ==
  IF counter[f].active = 0 THEN "idle" ELSE IF counter[f].count = 0 THEN "over" ELSE "active"
MLife == [f \in Flows |-> LifeOf(f)]
MSeveral == {f \in Flows : Len(flows[f].tx) > 1}
MCounting == {t \in DOMAIN cnt \cap started : cnt[t] # "done"}
MArp == IF Arp \in started /\ arp.at # "done" THEN {Arp} ELSE {}
MTimestamp ==
  IF Timestamp \in started /\ ts.at # "done" /\ ~TsMixed THEN {Timestamp} ELSE {}
MStats == IF Stats \in started /\ stats.at # "done" THEN DevCounters \ finalized ELSE {}
MWatching == MCounting \union MArp \union MTimestamp \union MStats
MStopped == running # "yes"

\* The actions of FlowLife in these terms.
LEMMA LifeActions ==
  /\ Life!Init <=> /\ MLife = [f \in DOMAIN MLife |-> "idle"]
                   /\ ended = {} /\ MWatching = {} /\ MStopped = FALSE
  /\ \A f : Life!Begin(f) <=>
       /\ MLife[f] = "idle" \/ (f \in MSeveral /\ MLife[f] = "over")
       /\ MLife' = [MLife EXCEPT ![f] = "active"]
       /\ watched' = watched /\ MSeveral' = MSeveral /\ ended' = ended
       /\ MWatching' = MWatching /\ MStopped' = MStopped
  /\ \A f : Life!End(f) <=>
       /\ MLife[f] = "active"
       /\ MLife' = [MLife EXCEPT ![f] = "over"]
       /\ ended' = ended \union {f}
       /\ watched' = watched /\ MSeveral' = MSeveral
       /\ MWatching' = MWatching /\ MStopped' = MStopped
  /\ Life!Join <=>
       /\ MWatching \subseteq MWatching' /\ MWatching' \subseteq DOMAIN watched
       /\ watched' = watched /\ MSeveral' = MSeveral /\ MLife' = MLife
       /\ ended' = ended /\ MStopped' = MStopped
  /\ Life!Leave <=>
       /\ MWatching' \subseteq MWatching
       /\ \A m \in MWatching \ MWatching' :
            watched[m] \subseteq ended \/ (MStopped /\ m \notin {Arp})
       /\ watched' = watched /\ MSeveral' = MSeveral /\ MLife' = MLife
       /\ ended' = ended /\ MStopped' = MStopped
  /\ Life!Stop <=>
       /\ MStopped' = TRUE
       /\ watched' = watched /\ MSeveral' = MSeveral /\ MLife' = MLife
       /\ ended' = ended /\ MWatching' = MWatching
  /\ (Life!vars' = Life!vars) <=>
       /\ watched' = watched /\ MSeveral' = MSeveral /\ MLife' = MLife
       /\ ended' = ended /\ MWatching' = MWatching /\ MStopped' = MStopped
  /\ Life!Next <=> \/ \E f \in DOMAIN MLife : Life!Begin(f) \/ Life!End(f)
                   \/ Life!Join \/ Life!Leave \/ Life!Stop
<1> USE DEF LifeOf, MLife, MSeveral, MCounting, MArp, MTimestamp, MStats, MWatching, MStopped,
            Life!setup
<1>1. Life!Init <=> /\ MLife = [f \in DOMAIN MLife |-> "idle"]
                   /\ ended = {} /\ MWatching = {} /\ MStopped = FALSE
  BY Zenon DEF Life!Init
<1>2. \A f : Life!Begin(f) <=>
       /\ MLife[f] = "idle" \/ (f \in MSeveral /\ MLife[f] = "over")
       /\ MLife' = [MLife EXCEPT ![f] = "active"]
       /\ watched' = watched /\ MSeveral' = MSeveral /\ ended' = ended
       /\ MWatching' = MWatching /\ MStopped' = MStopped
  BY Zenon DEF Life!Begin
<1>3. \A f : Life!End(f) <=>
       /\ MLife[f] = "active"
       /\ MLife' = [MLife EXCEPT ![f] = "over"]
       /\ ended' = ended \union {f}
       /\ watched' = watched /\ MSeveral' = MSeveral
       /\ MWatching' = MWatching /\ MStopped' = MStopped
  BY Zenon DEF Life!End
<1>4. Life!Join <=>
       /\ MWatching \subseteq MWatching' /\ MWatching' \subseteq DOMAIN watched
       /\ watched' = watched /\ MSeveral' = MSeveral /\ MLife' = MLife
       /\ ended' = ended /\ MStopped' = MStopped
  BY Zenon DEF Life!Join
<1>5. Life!Leave <=>
       /\ MWatching' \subseteq MWatching
       /\ \A m \in MWatching \ MWatching' :
            watched[m] \subseteq ended \/ (MStopped /\ m \notin {Arp})
       /\ watched' = watched /\ MSeveral' = MSeveral /\ MLife' = MLife
       /\ ended' = ended /\ MStopped' = MStopped
  BY Zenon DEF Life!Leave
<1>6. Life!Stop <=>
       /\ MStopped' = TRUE
       /\ watched' = watched /\ MSeveral' = MSeveral /\ MLife' = MLife
       /\ ended' = ended /\ MWatching' = MWatching
  BY Zenon DEF Life!Stop
<1>7. (Life!vars' = Life!vars) <=>
       /\ watched' = watched /\ MSeveral' = MSeveral /\ MLife' = MLife
       /\ ended' = ended /\ MWatching' = MWatching /\ MStopped' = MStopped
  BY SMTT(30) DEF Life!vars
<1>8. Life!Next <=> \/ \E f \in DOMAIN MLife : Life!Begin(f) \/ Life!End(f)
                    \/ Life!Join \/ Life!Leave \/ Life!Stop
  BY Zenon DEF Life!Next
<1> QED BY <1>1, <1>2, <1>3, <1>4, <1>5, <1>6, <1>7, <1>8, Zenon

LEMMA LifeInit ==
  Init => Life!Init
<1> SUFFICES ASSUME Init PROVE Life!Init
  BY Zenon
<1>1. started = {} /\ ended = {} /\ running = "yes"
  BY Zenon DEF Init, MgrInit
<1>2. MWatching = {}
  BY <1>1, Zenon DEF MWatching, MCounting, MArp, MTimestamp, MStats
<1>3. \A f \in Flows : LifeOf(f) = "idle"
  BY Zenon DEF Init, LifeOf
<1>4. MLife = [f \in DOMAIN MLife |-> "idle"]
  BY <1>3, Zenon DEF MLife
<1>5. MStopped = FALSE
  BY <1>1, Zenon DEF MStopped
<1> QED BY <1>1, <1>2, <1>4, <1>5, LifeActions, Zenon

\* A flow's life depends on its counter, and who watches on the other variables.
LEMMA LifeSame ==
  ASSUME flows' = flows
  PROVE  /\ MSeveral' = MSeveral
         /\ counter' = counter => MLife' = MLife
         /\ UNCHANGED <<started, cnt, arp, ts, stats, finalized>> => MWatching' = MWatching
         /\ running' = running => MStopped' = MStopped
<1>1. Flows' = Flows /\ DevCounters' = DevCounters /\ TsMixed' = TsMixed
  BY Static, StaticMonitors, Zenon
<1>2. MSeveral' = MSeveral
  BY <1>1, Zenon DEF MSeveral
<1>3. counter' = counter => MLife' = MLife
  BY <1>1, Zenon DEF MLife, LifeOf
<1>4. UNCHANGED <<started, cnt, arp, ts, stats, finalized>> => MWatching' = MWatching
  BY <1>1, Zenon DEF MWatching, MCounting, MArp, MTimestamp, MStats
<1> QED BY <1>2, <1>3, <1>4, Zenon DEF MStopped

\* The steps of a load task: the first assignment of inc brings a flow back that
\* other tasks have sent, the second begins it, and the one of dec ends it.
LEMMA LifeLoad ==
  ASSUME Inv, NEW t \in LoadTasks, Load(t)
  PROVE  Life!Next \/ Life!vars' = Life!vars
<1>1. UNCHANGED <<flows, watched, running, started, cnt, arp, ts, stats, finalized>>
  BY Zenon DEF Load, LockAndRead, IncFirst, IncSecond, LoadEnds, Dec, loadUnchanged, setup, mgrVars,
         devStats
<1>2. MSeveral' = MSeveral /\ MWatching' = MWatching /\ MStopped' = MStopped /\ Flows' = Flows
  BY <1>1, LifeSame, Static, Zenon
<1>3. t[2] \in Flows /\ t = <<"load", t[2], t[3]>> /\ t[3] \in DOMAIN flows[t[2]].tx
  BY LoadTaskShape, Zenon
<1>4. CounterInv /\ flows \in CONFIGS
  BY Zenon DEF Inv, MgrInv
<1>5. /\ counter \in [Flows -> [active : {0, 1}, count : Nat]]
      /\ tmp \in [LoadTasks -> Nat] /\ load \in [LoadTasks -> Places]
      /\ \A f \in Flows : counter[f].active = IF Begun(f) = {} THEN 0 ELSE 1
  BY <1>4, Zenon DEF CounterInv
<1> DEFINE f == t[2]
<1>6. ASSUME NEW c \in {"idle", "active", "over"},
             \A g \in Flows : LifeOf(g)' = IF g = f THEN c ELSE LifeOf(g)
      PROVE  MLife' = [MLife EXCEPT ![f] = c]
  BY <1>2, <1>6, Zenon DEF MLife
<1>7. ASSUME \A g \in Flows : LifeOf(g)' = LifeOf(g), ended' = ended
      PROVE  Life!vars' = Life!vars
  <2>1. MLife' = MLife
    BY <1>2, <1>7, Zenon DEF MLife
  <2> QED BY <1>1, <1>2, <1>7, <2>1, LifeActions, Zenon
<1>8. MLife[f] = LifeOf(f) /\ f \in DOMAIN MLife
  BY <1>3, Zenon DEF MLife
<1>9. CASE counter' = counter /\ ended' = ended
  BY <1>7, <1>9, Zenon DEF LifeOf
<1>10. CASE IncFirst(t)
  <2>1. /\ counter' = [counter EXCEPT ![f].count = tmp[t] + 1] /\ ended' = ended
        /\ load[t] = "inc"
    BY <1>10, Zenon DEF IncFirst, Assigned, IncOrder
  <2>2. /\ counter'[f].count = tmp[t] + 1 /\ counter'[f].active = counter[f].active
        /\ \A g \in Flows : g # f => counter'[g] = counter[g]
    BY <1>3, <1>5, <2>1, Zenon
  <2>3. tmp[t] + 1 # 0
    BY <1>5
  <2>4. LifeOf(f)' = IF counter[f].active = 0 THEN "idle" ELSE "active"
    BY <2>2, <2>3, Zenon DEF LifeOf
  <2>5. \A g \in Flows : g # f => LifeOf(g)' = LifeOf(g)
    BY <2>2, Zenon DEF LifeOf
  <2>6. CASE LifeOf(f) # "over"
    <3>1. LifeOf(f)' = LifeOf(f)
      BY <2>4, <2>6, Zenon DEF LifeOf
    <3> QED BY <1>7, <2>1, <2>5, <3>1, Zenon
  <2>7. CASE LifeOf(f) = "over"
    <3>1. counter[f].active # 0
      BY <2>7, Zenon DEF LifeOf
    <3>2. PICK u \in Begun(f) : TRUE
      BY <1>3, <1>5, <3>1, Zenon
    <3>3. u \in LoadTasks /\ u[2] = f /\ u # t
      BY <2>1, <3>2, Zenon DEF Begun
    <3>4. u = <<"load", f, u[3]>> /\ u[3] \in DOMAIN flows[f].tx /\ t = <<"load", f, t[3]>>
      BY <1>3, <3>3, LoadTaskShape
    <3>5. u[3] # t[3]
      BY <3>3, <3>4, Zenon
    <3>6. Len(flows[f].tx) > 1
      <4>1. DOMAIN flows[f].tx = 1 .. Len(flows[f].tx) /\ Len(flows[f].tx) \in Nat
        BY <1>3, <1>4, FlowShape
      <4>2. t[3] \in DOMAIN flows[f].tx
        BY <1>3, Zenon
      <4> HIDE DEF f
      <4> QED BY <3>4, <3>5, <4>1, <4>2
    <3>7. f \in MSeveral
      BY <1>3, <3>6, Zenon DEF MSeveral
    <3>8. LifeOf(f)' = "active"
      BY <2>4, <3>1, Zenon
    <3>9. MLife' = [MLife EXCEPT ![f] = "active"]
      BY <1>6, <2>5, <3>8, Zenon
    <3>10. Life!Begin(f)
      BY <1>1, <1>2, <1>8, <2>1, <2>7, <3>7, <3>9, LifeActions, Zenon
    <3> QED BY <1>8, <3>10, LifeActions, Zenon
  <2> QED BY <2>6, <2>7, Zenon
<1>11. CASE IncSecond(t)
  <2>1. /\ counter' = [counter EXCEPT ![f].active = 1] /\ ended' = ended /\ load[t] = "inc2"
    BY <1>11, Zenon DEF IncSecond, Assigned, IncOrder
  <2>2. /\ counter'[f].active = 1 /\ counter'[f].count = counter[f].count
        /\ \A g \in Flows : g # f => counter'[g] = counter[g]
    BY <1>3, <1>5, <2>1, Zenon
  <2>3. counter[f].count # 0
    <3>1. counter[f].count = tmp[t] + 1
      BY <1>4, <2>1, Zenon DEF CounterInv
    <3> QED BY <1>5, <3>1
  <2>4. LifeOf(f)' = "active" /\ LifeOf(f) \in {"idle", "active"}
    BY <2>2, <2>3 DEF LifeOf
  <2>5. \A g \in Flows : g # f => LifeOf(g)' = LifeOf(g)
    BY <2>2, Zenon DEF LifeOf
  <2>6. CASE LifeOf(f) = "active"
    BY <1>7, <2>1, <2>4, <2>5, <2>6, Zenon
  <2>7. CASE LifeOf(f) = "idle"
    <3>1. MLife' = [MLife EXCEPT ![f] = "active"]
      BY <1>6, <2>4, <2>5, Zenon
    <3>2. Life!Begin(f)
      BY <1>1, <1>2, <1>8, <2>1, <2>7, <3>1, LifeActions, Zenon
    <3> QED BY <1>8, <3>2, LifeActions, Zenon
  <2> QED BY <2>4, <2>6, <2>7, Zenon
<1>12. CASE Dec(t)
  <2>1. /\ counter' = [counter EXCEPT ![f].count = tmp[t] - 1] /\ load[t] = "dec"
        /\ ended' = IF tmp[t] = 1 THEN ended \union {f} ELSE ended
    BY <1>12, Zenon DEF Dec
  <2>2. /\ counter'[f].active = counter[f].active /\ counter'[f].count = tmp[t] - 1
        /\ \A g \in Flows : g # f => counter'[g] = counter[g]
    BY <1>3, <1>5, <2>1, Zenon
  <2>3. tmp[t] = counter[f].count /\ tmp[t] # 0 /\ tmp[t] \in Nat
    BY <1>4, <1>5, <1>12, CounterInv_Dec
  <2>4. counter[f].active = 1
    <3>1. t \in Begun(f)
      BY <2>1, Zenon DEF Begun
    <3> QED BY <1>3, <1>5, <3>1, Zenon
  <2>5. LifeOf(f) = "active"
    BY <2>3, <2>4 DEF LifeOf
  <2>6. \A g \in Flows : g # f => LifeOf(g)' = LifeOf(g)
    BY <2>2, Zenon DEF LifeOf
  <2>7. CASE tmp[t] = 1
    <3>0. counter'[f].count = 0 /\ counter'[f].active # 0
      BY <2>2, <2>4, <2>7
    <3>1. LifeOf(f)' = "over"
      BY <3>0, Zenon DEF LifeOf
    <3>2. MLife' = [MLife EXCEPT ![f] = "over"]
      BY <1>6, <2>6, <3>1
    <3>3. Life!End(f)
      BY <1>1, <1>2, <1>8, <2>1, <2>5, <2>7, <3>2, LifeActions, Zenon
    <3> QED BY <1>8, <3>3, LifeActions
  <2>8. CASE tmp[t] # 1
    <3>1. counter'[f].count # 0 /\ counter'[f].active # 0
      BY <2>2, <2>3, <2>4, <2>8, SMTT(30)
    <3>2. LifeOf(f)' = "active"
      BY <3>1, Zenon DEF LifeOf
    <3> QED BY <1>7, <2>1, <2>5, <2>6, <2>8, <3>2
  <2> QED BY <2>7, <2>8, Zenon
<1> QED BY <1>9, <1>10, <1>11, <1>12, Zenon DEF Load, LockAndRead, LoadEnds

\* Monitors join when their task is started.
LEMMA LifeMaster ==
  ASSUME Inv, Master
  PROVE  Life!Next \/ Life!vars' = Life!vars
<1>1. UNCHANGED <<flows, watched, running, counter, ended, cnt, arp, ts, stats, finalized>>
      /\ started \subseteq started'
  BY Zenon DEF Master, taskVars, sending, devStats, Prepare, PrepareFails, Configure, Start
<1>2. MSeveral' = MSeveral /\ MLife' = MLife /\ MStopped' = MStopped
  BY <1>1, LifeSame, Zenon
<1>3. flows \in CONFIGS /\ watched = [m \in Monitors |-> WatchedBy(m)] /\ DOMAIN cnt = CountTasks
  BY Zenon DEF Inv, MgrInv, WatchInv, CntSeen
<1>4. DevCounters' = DevCounters /\ TsMixed' = TsMixed
  BY <1>1, Static, StaticMonitors, Zenon
<1>5. /\ MCounting \subseteq MCounting' /\ MArp \subseteq MArp'
      /\ MTimestamp \subseteq MTimestamp' /\ MStats \subseteq MStats'
  BY <1>1, <1>4, Zenon DEF MCounting, MArp, MTimestamp, MStats
<1>6. /\ MCounting' \subseteq CountTasks /\ MArp' \subseteq {Arp}
      /\ MTimestamp' \subseteq {Timestamp} /\ MStats' \subseteq DevCounters
  BY <1>1, <1>3, <1>4, Zenon DEF MCounting, MArp, MTimestamp, MStats
<1>7. MWatching \subseteq MWatching' /\ MWatching' \subseteq DOMAIN watched
  BY <1>3, <1>5, <1>6, Zenon DEF MWatching, Monitors
<1>8. Life!Join
  BY <1>1, <1>2, <1>7, LifeActions, Zenon
<1> QED BY <1>8, LifeActions, Zenon

LEMMA LifeStop ==
  ASSUME Stop \/ GraceEnds
  PROVE  Life!Next \/ Life!vars' = Life!vars
<1>1. UNCHANGED <<flows, watched, counter, ended, started, cnt, arp, ts, stats, finalized>>
  BY Zenon DEF Stop, GraceEnds, setup, mgrVars, sending, devStats
<1>2. MSeveral' = MSeveral /\ MLife' = MLife /\ MWatching' = MWatching
  BY <1>1, LifeSame, Zenon
<1>3. running' # "yes"
  BY Zenon DEF Stop, GraceEnds
<1>4. MStopped' = TRUE
  BY <1>3, Zenon DEF MStopped
<1>5. Life!Stop
  BY <1>1, <1>2, <1>4, LifeActions, Zenon
<1> QED BY <1>5, LifeActions, Zenon

LEMMA LifeCount ==
  ASSUME Inv, NEW t \in CountTasks, CountSees(t) \/ CountEnds(t)
  PROVE  Life!Next \/ Life!vars' = Life!vars
<1>1. UNCHANGED <<flows, watched, running, counter, ended, started, arp, ts, stats, finalized>>
  BY Zenon DEF CountSees, CountEnds, setup, mgrVars, sending, devStats
<1>2. MSeveral' = MSeveral /\ MLife' = MLife /\ MStopped' = MStopped
  BY <1>1, LifeSame, Zenon
<1>3. DevCounters' = DevCounters /\ TsMixed' = TsMixed
  BY <1>1, Static, StaticMonitors, Zenon
<1>4. MArp' = MArp /\ MTimestamp' = MTimestamp /\ MStats' = MStats
  BY <1>1, <1>3, Zenon DEF MArp, MTimestamp, MStats
<1>5. /\ cnt \in [CountTasks -> {"run", "timed", "done"}]
      /\ cnt[t] = "timed" => t[2] \in ended
      /\ watched[t] = {t[2]}
  BY WatchedShape, Zenon DEF Inv, MgrInv, WatchInv, CntSeen
<1>6. MCounting' \subseteq MCounting /\ MCounting \ MCounting' \subseteq {t}
  BY <1>1, <1>5, Zenon DEF MCounting, CountSees, CountEnds
<1>7. CASE CountSees(t)
  <2>1. MCounting' = MCounting
    BY <1>1, <1>5, <1>7, Zenon DEF MCounting, CountSees
  <2>2. MWatching' = MWatching
    BY <1>4, <2>1, Zenon DEF MWatching
  <2> QED BY <1>1, <1>2, <2>2, LifeActions, Zenon
<1>8. CASE CountEnds(t)
  <2>1. watched[t] \subseteq ended \/ (MStopped /\ t \notin {Arp})
    <3>1. t # Arp
      BY CountTaskShape DEF Arp
    <3>2. CASE cnt[t] = "timed"
      BY <1>5, <3>2, Zenon
    <3>3. CASE running = "no"
      BY <3>1, <3>3, Zenon DEF MStopped
    <3> QED BY <1>8, <3>2, <3>3, Zenon DEF CountEnds
  <2>2. MWatching' \subseteq MWatching /\ MWatching \ MWatching' \subseteq {t}
    BY <1>4, <1>6, Zenon DEF MWatching
  <2>3. \A m \in MWatching \ MWatching' :
          watched[m] \subseteq ended \/ (MStopped /\ m \notin {Arp})
    BY <2>1, <2>2, Zenon
  <2>4. Life!Leave
    BY <1>1, <1>2, <2>2, <2>3, LifeActions
  <2> QED BY <2>4, LifeActions, Zenon
<1> QED BY <1>7, <1>8, Zenon

LEMMA LifeArp ==
  ASSUME Inv, ArpManager
  PROVE  Life!Next \/ Life!vars' = Life!vars
<1>1. UNCHANGED <<flows, watched, running, counter, ended, started, cnt, ts, stats, finalized>>
  BY Zenon DEF ArpManager, setup, mgrVars, sending, devStats
<1>2. MSeveral' = MSeveral /\ MLife' = MLife /\ MStopped' = MStopped
  BY <1>1, LifeSame, Zenon
<1>3. DevCounters' = DevCounters /\ TsMixed' = TsMixed
  BY <1>1, Static, StaticMonitors, Zenon
<1>4. MCounting' = MCounting /\ MTimestamp' = MTimestamp /\ MStats' = MStats
  BY <1>1, <1>3, Zenon DEF MCounting, MTimestamp, MStats
<1>5. arp'.at = arp.at \/ watched[Arp] \subseteq ended
  BY WatchInv_Arp, Zenon DEF Inv, MgrInv
<1>6. arp.at = "scan"
  BY Zenon DEF ArpManager
<1>7. MArp' \subseteq MArp /\ (arp'.at = arp.at => MArp' = MArp) /\ MArp \subseteq {Arp}
  BY <1>1, <1>6 DEF MArp
<1>8. CASE arp'.at = arp.at
  <2>1. MWatching' = MWatching
    BY <1>4, <1>7, <1>8, Zenon DEF MWatching
  <2> QED BY <1>1, <1>2, <2>1, LifeActions, Zenon
<1>9. CASE watched[Arp] \subseteq ended
  <2>1. MWatching' \subseteq MWatching /\ MWatching \ MWatching' \subseteq {Arp}
    BY <1>4, <1>7, Zenon DEF MWatching
  <2>2. \A m \in MWatching \ MWatching' :
          watched[m] \subseteq ended \/ (MStopped /\ m \notin {Arp})
    BY <1>9, <2>1, Zenon
  <2>3. Life!Leave
    BY <1>1, <1>2, <2>1, <2>2, LifeActions
  <2> QED BY <2>3, LifeActions, Zenon
<1> QED BY <1>5, <1>8, <1>9, Zenon

LEMMA LifeTimestamping ==
  ASSUME Inv, Timestamping
  PROVE  Life!Next \/ Life!vars' = Life!vars
<1>1. UNCHANGED <<flows, watched, running, counter, ended, started, cnt, arp, stats, finalized>>
  BY Zenon DEF Timestamping, setup, mgrVars, sending, devStats
<1>2. MSeveral' = MSeveral /\ MLife' = MLife /\ MStopped' = MStopped
  BY <1>1, LifeSame, Zenon
<1>3. DevCounters' = DevCounters /\ TsMixed' = TsMixed
  BY <1>1, Static, StaticMonitors, Zenon
<1>4. MCounting' = MCounting /\ MArp' = MArp /\ MStats' = MStats
  BY <1>1, <1>3, Zenon DEF MCounting, MArp, MStats
<1>5. ts'.at = ts.at \/ watched[Timestamp] \subseteq ended \/ running # "yes" \/ TsMixed
  BY WatchInv_Timestamping, Zenon DEF Inv, MgrInv
<1>6. ts.at = "scan"
  BY DEF Timestamping
<1>7. /\ MTimestamp' \subseteq MTimestamp /\ (ts'.at = ts.at => MTimestamp' = MTimestamp)
      /\ MTimestamp \subseteq {Timestamp} /\ (TsMixed => MTimestamp' = MTimestamp)
  BY <1>1, <1>3, <1>6, Zenon DEF MTimestamp
<1>8. CASE ts'.at = ts.at \/ TsMixed
  <2>1. MWatching' = MWatching
    BY <1>4, <1>7, <1>8, Zenon DEF MWatching
  <2> QED BY <1>1, <1>2, <2>1, LifeActions, Zenon
<1>9. CASE watched[Timestamp] \subseteq ended \/ running # "yes"
  <2>1. MWatching' \subseteq MWatching /\ MWatching \ MWatching' \subseteq {Timestamp}
    BY <1>4, <1>7, Zenon DEF MWatching
  <2>2. Timestamp # Arp
    BY Zenon DEF Timestamp, Arp
  <2>3. watched[Timestamp] \subseteq ended \/ (MStopped /\ Timestamp \notin {Arp})
    BY <1>9, <2>2, Zenon DEF MStopped
  <2>4. \A m \in MWatching \ MWatching' :
          watched[m] \subseteq ended \/ (MStopped /\ m \notin {Arp})
    BY <2>1, <2>3, Zenon
  <2>5. Life!Leave
    BY <1>1, <1>2, <2>1, <2>4, LifeActions, Zenon
  <2> QED BY <2>5, LifeActions, Zenon
<1> QED BY <1>5, <1>8, <1>9, Zenon

LEMMA LifeStats ==
  ASSUME Inv, DeviceStats
  PROVE  Life!Next \/ Life!vars' = Life!vars
<1>1. UNCHANGED <<flows, watched, running, counter, ended, started, cnt, arp, ts>>
  BY Zenon DEF DeviceStats, StatsHead, StatsSkip, StatsUpdate, StatsFinalize, StatsRound,
         statsUnchanged, setup, mgrVars, sending
<1>2. MSeveral' = MSeveral /\ MLife' = MLife /\ MStopped' = MStopped
  BY <1>1, LifeSame, Zenon
<1>3. DevCounters' = DevCounters /\ TsMixed' = TsMixed
  BY <1>1, Static, StaticMonitors, Zenon
<1>4. MCounting' = MCounting /\ MArp' = MArp /\ MTimestamp' = MTimestamp
  BY <1>1, <1>3, Zenon DEF MCounting, MArp, MTimestamp
<1>5. StatsInv /\ flows \in CONFIGS
  BY Zenon DEF Inv, MgrInv
<1>6. ASSUME NEW c \in DevCounters PROVE c # Arp
  <2>1. c[1] \in {"tx", "rx"}
    BY DEF DevCounters, CounterOf
  <2> QED BY <2>1 DEF Arp
<1>7. ASSUME MStats' \subseteq MStats,
             \A m \in MStats \ MStats' : watched[m] \subseteq ended \/ (MStopped /\ m \notin {Arp})
      PROVE  Life!Next
  <2>1. MWatching' \subseteq MWatching /\ MWatching \ MWatching' \subseteq MStats \ MStats'
    BY <1>4, <1>7, Zenon DEF MWatching
  <2>2. \A m \in MWatching \ MWatching' :
          watched[m] \subseteq ended \/ (MStopped /\ m \notin {Arp})
    BY <1>7, <2>1, Zenon
  <2>3. Life!Leave
    BY <1>1, <1>2, <2>1, <2>2, LifeActions, Zenon
  <2> QED BY <2>3, LifeActions, Zenon
<1>8. ASSUME finalized' = finalized, stats.at # "done", stats'.at # "done"
      PROVE  Life!vars' = Life!vars
  <2>1. MStats' = MStats
    BY <1>1, <1>3, <1>8, Zenon DEF MStats
  <2>2. MWatching' = MWatching
    BY <1>4, <2>1, Zenon DEF MWatching
  <2> QED BY <1>1, <1>2, <2>2, LifeActions, Zenon
<1>9. CASE StatsHead
  <2>1. stats.at = "head" /\ finalized' = finalized
    BY <1>9, Zenon DEF StatsHead
  <2>2. CASE running # "no" /\ stats.len > 0
    <3>1. stats'.at = "scan"
      BY <1>5, <1>9, <2>2, Zenon DEF StatsHead, StatsInv
    <3> QED BY <1>8, <2>1, <3>1
  <2>3. CASE running = "no"
    <3>1. stats'.at = "done"
      BY <1>5, <1>9, <2>3, Zenon DEF StatsHead, StatsInv
    <3>2. MStats' = {} /\ MStats \subseteq DevCounters
      BY <3>1, Zenon DEF MStats
    <3>3. MStopped
      BY <2>3, Zenon DEF MStopped
    <3> QED BY <1>6, <1>7, <3>2, <3>3, Zenon
  <2>4. CASE ~(stats.len > 0)
    <3>1. stats.len = 0
      BY <1>5, <2>4 DEF StatsInv
    <3>2. {counters[k] : k \in 1 .. stats.len} = DevCounters \ finalized
      BY <1>5, <2>1, StatsInv_Kept, Zenon DEF StatsKept
    <3>3. DevCounters \ finalized = {}
      BY <3>1, <3>2
    <3>4. MStats = {} /\ MStats' = {}
      BY <1>3, <2>1, <3>3, Zenon DEF MStats
    <3> QED BY <1>7, <3>4, Zenon
  <2> QED BY <2>2, <2>3, <2>4, Zenon
<1>10. CASE StatsSkip \/ StatsUpdate \/ StatsRound
  <2>1. finalized' = finalized /\ stats.at # "done"
    BY <1>10, Zenon DEF StatsSkip, StatsUpdate, StatsRound
  <2>2. stats'.at # "done"
    BY <1>5, <1>10, Zenon DEF StatsSkip, StatsUpdate, StatsRound, Turn, StatsInv
  <2> QED BY <1>8, <2>1, <2>2, Zenon
<1>11. CASE StatsFinalize
  <2>1. \/ finalized' = finalized
        \/ \E c \in DevCounters : /\ finalized' = finalized \union {c}
                                  /\ watched[c] \subseteq ended
    BY <1>5, Stats_Step, Zenon DEF Inv
  <2>2. stats.at = "scan" /\ stats'.at = "scan"
    BY <1>5, <1>11, Zenon DEF StatsFinalize, Turn, StatsInv
  <2>3. PICK c : MStats' \subseteq MStats /\ MStats \ MStats' \subseteq {c}
                 /\ (watched[c] \subseteq ended \/ MStats' = MStats)
    BY <1>1, <1>3, <2>1, <2>2 DEF MStats
  <2>4. \A m \in MStats \ MStats' : watched[m] \subseteq ended \/ (MStopped /\ m \notin {Arp})
    BY <2>3, Zenon
  <2> QED BY <1>7, <2>3, <2>4, Zenon
<1> QED BY <1>9, <1>10, <1>11, Zenon DEF DeviceStats

LEMMA LifeStep ==
  ASSUME Inv, [Next]_vars
  PROVE  [Life!Next]_(Life!vars)
<1> SUFFICES Life!Next \/ Life!vars' = Life!vars
  BY Zenon
<1>1. ASSUME NEW t \in DOMAIN load, Load(t) PROVE Life!Next \/ Life!vars' = Life!vars
  <2>1. t \in LoadTasks
    BY Zenon DEF Inv, CounterInv
  <2> QED BY <1>1, <2>1, LifeLoad, Zenon
<1>2. ASSUME NEW t \in DOMAIN cnt, CountSees(t) \/ CountEnds(t)
      PROVE  Life!Next \/ Life!vars' = Life!vars
  <2>1. t \in CountTasks
    BY Zenon DEF Inv, WatchInv, CntSeen
  <2> QED BY <1>2, <2>1, LifeCount, Zenon
<1>3. CASE UNCHANGED vars
  <2>1. UNCHANGED <<flows, watched, running, counter, ended, started, cnt, arp, ts, stats,
                    finalized>>
    BY <1>3, Zenon DEF vars, mgrVars, taskVars, sending, devStats
  <2> QED BY <2>1, LifeSame, LifeActions, Zenon
<1> QED BY <1>1, <1>2, <1>3, LifeMaster, LifeStop, LifeArp, LifeTimestamping, LifeStats, Zenon DEF Next

\* The tasks implement FlowLife for every command line: a monitor leaves only when
\* each of its flows has ended or the program is stopped, although it reads the
\* counters without their locks while load tasks assign to them.
THEOREM TasksImplementLife ==
  Spec => LifeSpec
<1>1. Init => Life!Init
  BY LifeInit, Zenon
<1>2. Inv /\ [Next]_vars => [Life!Next]_(Life!vars)
  BY LifeStep, Zenon
<1> QED BY <1>1, <1>2, Inv_Init, Inv_Step, PTL DEF Spec, LifeSpec, Life!Spec

=============================================================================
