------------------------ MODULE MoonSniffLive_proofs ------------------------
(***************************************************************************)
(* The mutexes of hit_list do what they are for: entries are whole and every *)
(* sample pairs packets of the same identifier, for any number of slots,    *)
(* identifiers and packets.                                                 *)
(***************************************************************************)
EXTENDS MoonSniffLive, TLAPS, SequenceTheorems, FiniteSetTheorems

PreInside == {"timestamp", "identifier", "unlock"}
PostInside == {"read", "clear", "unlock"}

\* The entry of slot s was written by one call of add_entry, or is empty.
Whole(s) ==
  \/ hit_list[s] = Empty
  \/ \E p \in added : /\ Index(p.id) = s
                      /\ hit_list[s] = [timestamp |-> p.ts, identifier |-> p.id]

\* What the wire changes.
QueuesOK ==
  /\ pre_rx \in Seq(Pkt) /\ post_rx \in Seq(Pkt) /\ expired \in BOOLEAN
  /\ dut \subseteq passed /\ passed \subseteq Pkt /\ IsFiniteSet(passed)

\* The inductive invariant: a mutex is held by exactly the task that is between
\* lock and unlock on its slot, and only the entry being written is not whole.
LiveIInv ==
  /\ LiveTypeOK
  /\ IsFiniteSet(passed)
  /\ \A s \in Slots : mtx[s] = "pre" <=> pre \in PreInside /\ s = PreSlot
  /\ \A s \in Slots : mtx[s] = "post" <=> post \in PostInside /\ s = PostSlot
  /\ \A s \in Slots : Whole(s) \/ (pre = "identifier" /\ s = PreSlot)
  /\ pre = "identifier" => hit_list[PreSlot].timestamp = Head(pre_bufs).ts
  /\ post \in {"clear", "unlock", "stats"} =>
       old_ts = 0 \/ \E p \in added : p.id = Head(post_bufs).id /\ p.ts = old_ts
  /\ SamplesPaired
  /\ hits + misses = tested /\ hits = Len(samples)
  /\ report # NoReport =>
       /\ post = "done"
       /\ report = [hits |-> hits, misses |-> misses, count |-> Len(samples)]

-----------------------------------------------------------------------------
LEMMA RecvSeq ==
  ASSUME NEW S, NEW s \in Seq(S), s # <<>>
  PROVE  /\ SubSeq(s, 1, NumRecv(s)) \in Seq(S)
         /\ SubSeq(s, 1, NumRecv(s)) # <<>>
         /\ SubSeq(s, NumRecv(s) + 1, Len(s)) \in Seq(S)
<1>1. NumRecv(s) \in 1 .. Len(s)
  BY LiveAssumption DEF NumRecv
<1> DEFINE r == NumRecv(s)
<1>2. r \in Int /\ r + 1 \in Int /\ Len(s) \in Int /\ r >= 1
  BY <1>1
<1>3. /\ \A m \in 1 .. r : s[m] \in S
      /\ \A m \in r + 1 .. Len(s) : s[m] \in S
  BY <1>1
<1> HIDE DEF r
<1>4. SubSeq(s, 1, r) \in Seq(S) /\ Len(SubSeq(s, 1, r)) = IF 1 <= r THEN r - 1 + 1 ELSE 0
  BY <1>2, <1>3, SubSeqProperties
<1>5. SubSeq(s, r + 1, Len(s)) \in Seq(S)
  BY <1>2, <1>3, SubSeqProperties
<1>6. SubSeq(s, 1, r) # <<>>
  BY <1>2, <1>4, EmptySeq
<1>7. QED
  BY <1>4, <1>5, <1>6 DEF r

LEMMA SlotOf ==
  ASSUME NEW id \in Nat
  PROVE  Index(id) \in Slots
<1>1. SLOTS \in Nat \ {0}
  BY LiveAssumption
<1>2. id % SLOTS \in 0 .. SLOTS - 1
  BY <1>1
<1>3. QED
  BY <1>2 DEF Index, Slots

\* The slots the tasks work on.
LEMMA TaskSlots ==
  ASSUME LiveTypeOK
  PROVE  /\ pre \notin {"recv", "done"} =>
              Head(pre_bufs) \in Pkt /\ Head(pre_bufs).id \in Nat
              /\ Head(pre_bufs).ts \in Int /\ PreSlot \in Slots
         /\ post \notin {"recv", "done"} =>
              Head(post_bufs) \in Pkt /\ Head(post_bufs).id \in Nat
              /\ PostSlot \in Slots
<1>1. ASSUME pre \notin {"recv", "done"}
      PROVE  Head(pre_bufs) \in Pkt
  BY <1>1, HeadTailProperties DEF LiveTypeOK
<1>2. ASSUME post \notin {"recv", "done"}
      PROVE  Head(post_bufs) \in Pkt
  BY <1>2, HeadTailProperties DEF LiveTypeOK
<1>3. \A p \in Pkt : p.id \in Nat /\ p.ts \in Int
  BY DEF Pkt
<1>4. QED
  BY <1>1, <1>2, <1>3, SlotOf DEF PreSlot, PostSlot

-----------------------------------------------------------------------------
LEMMA LiveInitInv == Init => LiveIInv
<1> SUFFICES ASSUME Init PROVE LiveIInv
  OBVIOUS
<1>1. LiveTypeOK
  <2>1. hit_list \in [Slots -> [timestamp : Int, identifier : Nat]]
    BY DEF Init, Empty
  <2>2. mtx \in [Slots -> {"free", "pre", "post"}]
    BY DEF Init
  <2>3. /\ pre_rx \in Seq(Pkt) /\ post_rx \in Seq(Pkt)
        /\ pre_bufs \in Seq(Pkt) /\ post_bufs \in Seq(Pkt)
        /\ samples \in Seq([post : Pkt, old_ts : Int])
    BY EmptySeq DEF Init
  <2>4. /\ expired \in BOOLEAN
        /\ dut \subseteq passed /\ passed \subseteq Pkt /\ added \subseteq Pkt
    BY Zenon DEF Init
  <2>5. /\ pre = "recv" /\ pre_bufs = <<>> /\ post = "recv" /\ post_bufs = <<>>
        /\ old_ts \in Int /\ hits \in Nat /\ misses \in Nat /\ tested \in Nat
    BY DEF Init
  <2>6. QED
    BY <2>1, <2>2, <2>3, <2>4, <2>5 DEF LiveTypeOK
<1>2. IsFiniteSet(passed)
  BY FS_EmptySet DEF Init
<1>3. \A s \in Slots : hit_list[s] = Empty /\ mtx[s] = "free"
  BY DEF Init
<1>4. SamplesPaired
  BY DEF Init, SamplesPaired
<1>5. QED
  BY <1>1, <1>2, <1>3, <1>4 DEF Init, LiveIInv, Whole, PreInside, PostInside

\* The wire only fills the queues.
LEMMA WireInv ==
  ASSUME LiveIInv,
         \/ \E id \in Ids : Arrive(id)
         \/ \E p \in dut : \E latency \in Latencies : Forward(p, latency)
         \/ \E p \in dut : Drop(p)
         \/ Expire
  PROVE  LiveIInv'
<1>u. UNCHANGED <<hit_list, mtx, preVars, postVars, report>>
  BY Zenon DEF Arrive, Forward, Drop, Expire
<1>t. LiveTypeOK /\ IsFiniteSet(passed)
  BY DEF LiveIInv
<1>1. QueuesOK'
  <2>1. ASSUME NEW id \in Ids, Arrive(id)
        PROVE  QueuesOK'
    <3> DEFINE n == Cardinality(passed) + 1
               p == [n |-> n, id |-> id, ts |-> PreTs[n]]
    <3>1. n \in Nat /\ n >= 1
      BY <1>t, FS_CardinalityType
    <3>2. n <= MaxPackets /\ pre_rx' = Append(pre_rx, p) /\ dut' = dut \cup {p}
          /\ passed' = passed \cup {p} /\ UNCHANGED <<expired, post_rx>>
      BY <2>1 DEF Arrive
    <3>3. PreTs[n] \in Int
      BY <3>1, <3>2, LiveAssumption
    <3>4. p \in Pkt
      BY <3>1, <3>3, LiveAssumption DEF Pkt
    <3> HIDE DEF p
    <3>5. pre_rx' \in Seq(Pkt)
      BY <1>t, <3>2, <3>4, AppendProperties DEF LiveTypeOK
    <3>6. IsFiniteSet(passed')
      BY <1>t, <3>2, FS_AddElement
    <3>7. QED
      BY <1>t, <3>2, <3>4, <3>5, <3>6 DEF LiveTypeOK, QueuesOK
  <2>2. ASSUME NEW p \in dut, NEW latency \in Latencies, Forward(p, latency)
        PROVE  QueuesOK'
    <3> DEFINE q == [p EXCEPT !.ts = @ + latency]
    <3>1. post_rx' = Append(post_rx, q) /\ dut' = dut \ {p}
          /\ UNCHANGED <<expired, passed, pre_rx>>
      BY <2>2 DEF Forward
    <3>2. p \in Pkt /\ latency \in Int
      BY <1>t, LiveAssumption DEF LiveTypeOK
    <3>3. q \in Pkt
      BY <3>2 DEF Pkt
    <3> HIDE DEF q
    <3>4. post_rx' \in Seq(Pkt)
      BY <1>t, <3>1, <3>3, AppendProperties DEF LiveTypeOK
    <3>5. QED
      BY <1>t, <3>1, <3>4 DEF LiveTypeOK, QueuesOK
  <2>3. ASSUME NEW p \in dut, Drop(p)
        PROVE  QueuesOK'
    BY <1>t, <2>3 DEF LiveTypeOK, QueuesOK, Drop
  <2>4. ASSUME Expire
        PROVE  QueuesOK'
    BY <1>t, <2>4 DEF LiveTypeOK, QueuesOK, Expire
  <2>5. QED
    BY <2>1, <2>2, <2>3, <2>4
<1>2. LiveTypeOK'
  BY <1>u, <1>t, <1>1 DEF LiveTypeOK, QueuesOK, preVars, postVars
<1>3. QED
  BY <1>u, <1>1, <1>2 DEF LiveIInv, QueuesOK, preVars, postVars, Whole, PreSlot, PostSlot, SamplesPaired

-----------------------------------------------------------------------------
(***************************************************************************)
(* The first tap.                                                           *)
(***************************************************************************)
\* What a step of the first task has to establish.
PreStepOK ==
  /\ pre_bufs \in Seq(Pkt) /\ pre_rx \in Seq(Pkt)
  /\ pre \in {"recv", "lock", "timestamp", "identifier", "unlock", "done"}
  /\ pre_bufs = <<>> => pre \in {"recv", "done"}
  /\ pre = "recv" => pre_bufs = <<>>
  /\ hit_list \in [Slots -> [timestamp : Int, identifier : Nat]]
  /\ mtx \in [Slots -> {"free", "pre", "post"}]
  /\ added \subseteq Pkt
  /\ \A s \in Slots : mtx[s] = "pre" <=> pre \in PreInside /\ s = PreSlot
  /\ \A s \in Slots : Whole(s) \/ (pre = "identifier" /\ s = PreSlot)
  /\ pre = "identifier" => hit_list[PreSlot].timestamp = Head(pre_bufs).ts

LEMMA PreStepSuffices ==
  ASSUME LiveIInv, PreStepOK', added \subseteq added',
         \A s \in Slots : mtx'[s] = "post" <=> mtx[s] = "post",
         UNCHANGED <<wireVars, post_rx, postVars, report>>
  PROVE  LiveIInv'
<1>1. LiveTypeOK'
  BY DEF LiveIInv, LiveTypeOK, PreStepOK, wireVars, postVars
<1>2. \A s \in Slots : mtx'[s] = "post" <=> post' \in PostInside /\ s = PostSlot'
  BY DEF LiveIInv, postVars, PostSlot
<1>3. SamplesPaired'
  BY DEF LiveIInv, SamplesPaired, postVars
<1>4. post' \in {"clear", "unlock", "stats"} =>
        old_ts' = 0 \/ \E p \in added' : p.id = Head(post_bufs').id /\ p.ts = old_ts'
  BY DEF LiveIInv, postVars
<1>5. QED
  BY <1>1, <1>2, <1>3, <1>4 DEF LiveIInv, PreStepOK, wireVars, postVars

LEMMA PreInv ==
  ASSUME LiveIInv, Pre
  PROVE  LiveIInv'
<1>t. LiveTypeOK
  BY DEF LiveIInv
<1>u. UNCHANGED <<wireVars, post_rx, postVars, report>>
  BY DEF Pre, PreRecv, PreLeave, PreLock, AddTimestamp, AddIdentifier, PreUnlock, PreGoes
<1>y. /\ pre_bufs \in Seq(Pkt) /\ pre_rx \in Seq(Pkt) /\ added \subseteq Pkt
      /\ pre_bufs = <<>> => pre \in {"recv", "done"}
      /\ pre = "recv" => pre_bufs = <<>>
      /\ hit_list \in [Slots -> [timestamp : Int, identifier : Nat]]
      /\ mtx \in [Slots -> {"free", "pre", "post"}]
  BY <1>t DEF LiveTypeOK
<1>m. /\ \A s \in Slots : mtx[s] = "pre" <=> pre \in PreInside /\ s = PreSlot
      /\ \A s \in Slots : Whole(s) \/ (pre = "identifier" /\ s = PreSlot)
      /\ pre = "identifier" => hit_list[PreSlot].timestamp = Head(pre_bufs).ts
  BY DEF LiveIInv
<1>s. pre \notin {"recv", "done"} =>
        Head(pre_bufs) \in Pkt /\ Head(pre_bufs).id \in Nat
        /\ Head(pre_bufs).ts \in Int /\ PreSlot \in Slots
  BY <1>t, TaskSlots
<1>1. CASE PreRecv
  <2>1. /\ pre = "recv" /\ pre_rx # <<>>
        /\ pre' \in {"recv", "lock", "done"} /\ (pre' = "recv" <=> pre_bufs' = <<>>)
        /\ pre_bufs' = SubSeq(pre_rx, 1, NumRecv(pre_rx))
        /\ pre_rx' = SubSeq(pre_rx, NumRecv(pre_rx) + 1, Len(pre_rx))
        /\ UNCHANGED <<hit_list, mtx, added>>
    BY <1>1, Zenon DEF PreRecv, PreGoes, Continues
  <2>2. pre_bufs' \in Seq(Pkt) /\ pre_bufs' # <<>> /\ pre_rx' \in Seq(Pkt)
    BY <1>y, <2>1, RecvSeq
  <2>3. PreStepOK'
    BY <1>y, <1>m, <2>1, <2>2 DEF PreStepOK, PreInside, Whole
  <2>4. QED
    BY <1>u, <2>1, <2>3, PreStepSuffices
<1>2. CASE PreLeave
  <2>1. /\ pre = "recv" /\ pre' = "done"
        /\ UNCHANGED <<pre_rx, pre_bufs, hit_list, mtx, added>>
    BY <1>2 DEF PreLeave, PreGoes
  <2>2. PreStepOK'
    BY <1>y, <1>m, <2>1 DEF PreStepOK, PreInside, Whole
  <2>3. QED
    BY <1>u, <2>1, <2>2, PreStepSuffices
<1>3. CASE PreLock
  <2>1. /\ pre = "lock" /\ pre' = "timestamp" /\ mtx[PreSlot] = "free"
        /\ mtx' = [mtx EXCEPT ![PreSlot] = "pre"]
        /\ UNCHANGED <<pre_rx, pre_bufs, hit_list, added>>
    BY <1>3 DEF PreLock, PreGoes
  <2>2. PreSlot \in Slots /\ PreSlot' = PreSlot
    BY <1>s, <2>1 DEF PreSlot
  <2>3. PreStepOK'
    BY <1>y, <1>m, <2>1, <2>2 DEF PreStepOK, PreInside, Whole
  <2>4. \A s \in Slots : mtx'[s] = "post" <=> mtx[s] = "post"
    BY <1>y, <2>1, <2>2
  <2>5. QED
    BY <1>u, <2>1, <2>3, <2>4, PreStepSuffices
<1>4. CASE AddTimestamp
  <2> DEFINE h == Head(pre_bufs)
  <2>1. /\ pre = "timestamp" /\ pre' = "identifier"
        /\ hit_list' = [hit_list EXCEPT ![PreSlot].timestamp = h.ts]
        /\ UNCHANGED <<pre_rx, pre_bufs, mtx, added>>
    BY <1>4 DEF AddTimestamp, PreGoes
  <2>2. PreSlot \in Slots /\ PreSlot' = PreSlot /\ h.ts \in Int
    BY <1>s, <2>1 DEF PreSlot
  <2>3. /\ hit_list' \in [Slots -> [timestamp : Int, identifier : Nat]]
        /\ hit_list'[PreSlot].timestamp = h.ts
        /\ \A s \in Slots \ {PreSlot} : hit_list'[s] = hit_list[s]
    BY <1>y, <2>1, <2>2, Zenon
  <2>4. \A s \in Slots : Whole(s)' \/ s = PreSlot
    <3> SUFFICES ASSUME NEW s \in Slots, s # PreSlot PROVE Whole(s)'
      OBVIOUS
    <3>1. Whole(s) /\ hit_list'[s] = hit_list[s]
      BY <1>m, <2>3
    <3>2. QED
      BY <3>1, <2>1 DEF Whole
  <2>5. PreStepOK'
    BY <1>y, <1>m, <2>1, <2>2, <2>3, <2>4 DEF PreStepOK, PreInside
  <2>6. QED
    BY <1>u, <2>1, <2>5, PreStepSuffices
<1>5. CASE AddIdentifier
  <2> DEFINE h == Head(pre_bufs)
  <2>1. /\ pre = "identifier" /\ pre' = "unlock"
        /\ hit_list' = [hit_list EXCEPT ![PreSlot].identifier = h.id]
        /\ added' = added \cup {h}
        /\ UNCHANGED <<pre_rx, pre_bufs, mtx>>
    BY <1>5 DEF AddIdentifier, PreGoes
  <2>2. PreSlot \in Slots /\ PreSlot' = PreSlot /\ h \in Pkt /\ h.id \in Nat
        /\ PreSlot = Index(h.id) /\ h.ts \in Int
    BY <1>s, <2>1 DEF PreSlot
  <2>3. /\ hit_list' \in [Slots -> [timestamp : Int, identifier : Nat]]
        /\ hit_list'[PreSlot].timestamp = hit_list[PreSlot].timestamp
        /\ hit_list'[PreSlot].identifier = h.id
        /\ \A s \in Slots \ {PreSlot} : hit_list'[s] = hit_list[s]
    BY <1>y, <2>1, <2>2, Zenon
  <2>4. hit_list'[PreSlot] = [timestamp |-> h.ts, identifier |-> h.id]
    <3>1. hit_list'[PreSlot] \in [timestamp : Int, identifier : Nat]
      BY <2>2, <2>3
    <3>2. hit_list'[PreSlot].timestamp = h.ts /\ hit_list'[PreSlot].identifier = h.id
      BY <1>m, <2>1, <2>3
    <3>3. QED
      BY <3>1, <3>2
  <2>5. \A s \in Slots : Whole(s)'
    <3> SUFFICES ASSUME NEW s \in Slots PROVE Whole(s)'
      OBVIOUS
    <3>1. CASE s = PreSlot
      BY <3>1, <2>1, <2>2, <2>4 DEF Whole
    <3>2. CASE s # PreSlot
      <4>1. Whole(s) /\ hit_list'[s] = hit_list[s]
        BY <3>2, <1>m, <2>3
      <4>2. QED
        BY <4>1, <2>1 DEF Whole
    <3>3. QED
      BY <3>1, <3>2
  <2>6. PreStepOK'
    BY <1>y, <1>m, <2>1, <2>2, <2>3, <2>5 DEF PreStepOK, PreInside
  <2>7. QED
    BY <1>u, <2>1, <2>6, PreStepSuffices
<1>6. CASE PreUnlock
  <2>1. /\ pre = "unlock"
        /\ pre' \in {"recv", "lock", "done"} /\ (pre' = "recv" <=> pre_bufs' = <<>>)
        /\ mtx' = [mtx EXCEPT ![PreSlot] = "free"]
        /\ pre_bufs' = Tail(pre_bufs)
        /\ UNCHANGED <<pre_rx, hit_list, added>>
    BY <1>6, Zenon DEF PreUnlock, PreGoes, Continues
  <2>2. PreSlot \in Slots /\ mtx[PreSlot] = "pre"
    BY <1>s, <1>m, <2>1 DEF PreInside
  <2>3. pre_bufs' \in Seq(Pkt)
    BY <1>y, <2>1, HeadTailProperties
  <2>4. \A s \in Slots : mtx'[s] # "pre" /\ (mtx'[s] = "post" <=> mtx[s] = "post")
    BY <1>y, <1>m, <2>1, <2>2
  <2>5. \A s \in Slots : Whole(s)'
    BY <1>m, <2>1 DEF Whole
  <2>7. mtx' \in [Slots -> {"free", "pre", "post"}]
    BY <1>y, <2>1, Zenon
  <2>8. PreStepOK'
    BY <1>y, <2>1, <2>3, <2>4, <2>5, <2>7 DEF PreStepOK, PreInside
  <2>9. QED
    BY <1>u, <2>1, <2>4, <2>8, PreStepSuffices
<1>7. QED
  BY <1>1, <1>2, <1>3, <1>4, <1>5, <1>6 DEF Pre

-----------------------------------------------------------------------------
(***************************************************************************)
(* The second tap.                                                          *)
(***************************************************************************)
\* The conjuncts of the invariant about the entry test_for has read.
OldTsFound ==
  post \in {"clear", "unlock", "stats"} =>
    old_ts = 0 \/ \E p \in added : p.id = Head(post_bufs).id /\ p.ts = old_ts

\* What a step of the second task has to establish.
PostStepOK ==
  /\ post_bufs \in Seq(Pkt) /\ post_rx \in Seq(Pkt)
  /\ post \in {"recv", "lock", "read", "clear", "unlock", "stats", "done"}
  /\ post_bufs = <<>> => post \in {"recv", "done"}
  /\ post = "recv" => post_bufs = <<>>
  /\ hit_list \in [Slots -> [timestamp : Int, identifier : Nat]]
  /\ mtx \in [Slots -> {"free", "pre", "post"}]
  /\ old_ts \in Int
  /\ \A s \in Slots : mtx[s] = "post" <=> post \in PostInside /\ s = PostSlot
  /\ OldTsFound

StatsOK ==
  /\ hits \in Nat /\ misses \in Nat /\ tested \in Nat
  /\ samples \in Seq([post : Pkt, old_ts : Int])
  /\ SamplesPaired
  /\ hits + misses = tested /\ hits = Len(samples)

\* A step of the second task that changes an entry empties it, and leaves the
\* one being written alone.
EntriesKept ==
  \A s \in Slots : \/ hit_list'[s] = hit_list[s]
                   \/ hit_list'[s] = Empty /\ mtx[s] = "post"

LEMMA PostStepSuffices ==
  ASSUME LiveIInv, PostStepOK', StatsOK', EntriesKept,
         \A s \in Slots : mtx'[s] = "pre" <=> mtx[s] = "pre",
         post # "done",
         UNCHANGED <<wireVars, pre_rx, preVars, report>>
  PROVE  LiveIInv'
<1>1. LiveTypeOK'
  BY Zenon DEF LiveIInv, LiveTypeOK, PostStepOK, StatsOK, wireVars, preVars
<1>2. \A s \in Slots : mtx'[s] = "pre" <=> pre' \in PreInside /\ s = PreSlot'
  BY DEF LiveIInv, preVars, PreSlot
<1>3. \A s \in Slots : Whole(s)' \/ (pre' = "identifier" /\ s = PreSlot')
  <2> SUFFICES ASSUME NEW s \in Slots
               PROVE  Whole(s)' \/ (pre' = "identifier" /\ s = PreSlot')
    OBVIOUS
  <2>1. Whole(s) \/ (pre = "identifier" /\ s = PreSlot)
    BY DEF LiveIInv
  <2>2. QED
    BY <2>1 DEF EntriesKept, Whole, preVars, PreSlot
<1>4. pre' = "identifier" => hit_list'[PreSlot'].timestamp = Head(pre_bufs').ts
  <2> SUFFICES ASSUME pre = "identifier"
               PROVE  hit_list'[PreSlot].timestamp = Head(pre_bufs).ts
    BY DEF preVars, PreSlot
  <2>1. PreSlot \in Slots
    BY TaskSlots DEF LiveIInv
  <2>2. mtx[PreSlot] = "pre" /\ hit_list[PreSlot].timestamp = Head(pre_bufs).ts
    BY <2>1 DEF LiveIInv, PreInside
  <2>3. QED
    BY <2>1, <2>2 DEF EntriesKept
<1>5. report' = NoReport
  BY DEF LiveIInv
<1>6. QED
  BY <1>1, <1>2, <1>3, <1>4, <1>5
     DEF LiveIInv, PostStepOK, StatsOK, OldTsFound, wireVars

LEMMA PostInv ==
  ASSUME LiveIInv, Post
  PROVE  LiveIInv'
<1>t. LiveTypeOK
  BY DEF LiveIInv
<1>u. UNCHANGED <<wireVars, pre_rx, preVars, report>> /\ post # "done"
  BY DEF Post, PostRecv, PostLeave, PostLock, ReadEntry, ClearEntry, PostUnlock,
         UpdateStats, PostGoes
<1>y. /\ post_bufs \in Seq(Pkt) /\ post_rx \in Seq(Pkt)
      /\ post_bufs = <<>> => post \in {"recv", "done"}
      /\ post = "recv" => post_bufs = <<>>
      /\ hit_list \in [Slots -> [timestamp : Int, identifier : Nat]]
      /\ mtx \in [Slots -> {"free", "pre", "post"}]
      /\ old_ts \in Int
  BY <1>t DEF LiveTypeOK
<1>m. /\ \A s \in Slots : mtx[s] = "post" <=> post \in PostInside /\ s = PostSlot
      /\ \A s \in Slots : mtx[s] = "pre" <=> pre \in PreInside /\ s = PreSlot
      /\ OldTsFound
  BY DEF LiveIInv, OldTsFound
<1>s. post \notin {"recv", "done"} =>
        Head(post_bufs) \in Pkt /\ Head(post_bufs).id \in Nat /\ PostSlot \in Slots
  BY <1>t, TaskSlots
<1>k. StatsOK
  BY <1>t, Zenon DEF LiveIInv, LiveTypeOK, StatsOK
<1>l. UNCHANGED <<hits, misses, samples, tested>> => StatsOK'
  BY <1>k, <1>u DEF StatsOK, SamplesPaired, preVars
<1>a. added' = added
  BY <1>u DEF preVars
<1>e. UNCHANGED hit_list => EntriesKept
  BY DEF EntriesKept
<1>1. CASE PostRecv
  <2>1. /\ post = "recv" /\ post_rx # <<>>
        /\ post' \in {"recv", "lock", "done"} /\ (post' = "recv" <=> post_bufs' = <<>>)
        /\ post_bufs' = SubSeq(post_rx, 1, NumRecv(post_rx))
        /\ post_rx' = SubSeq(post_rx, NumRecv(post_rx) + 1, Len(post_rx))
        /\ UNCHANGED <<hit_list, mtx, old_ts, hits, misses, samples, tested>>
    BY <1>1, Zenon DEF PostRecv, PostGoes, Continues
  <2>2. post_bufs' \in Seq(Pkt) /\ post_bufs' # <<>> /\ post_rx' \in Seq(Pkt)
    BY <1>y, <2>1, RecvSeq
  <2>3. PostStepOK'
    BY <1>y, <1>m, <2>1, <2>2 DEF PostStepOK, PostInside, OldTsFound
  <2>4. QED
    BY <1>u, <1>l, <1>e, <2>1, <2>3, PostStepSuffices
<1>2. CASE PostLeave
  <2>1. /\ post = "recv" /\ post' = "done"
        /\ UNCHANGED <<post_rx, post_bufs, hit_list, mtx, old_ts, hits, misses,
                       samples, tested>>
    BY <1>2 DEF PostLeave, PostGoes
  <2>2. PostStepOK'
    BY <1>y, <1>m, <2>1 DEF PostStepOK, PostInside, OldTsFound
  <2>3. QED
    BY <1>u, <1>l, <1>e, <2>1, <2>2, PostStepSuffices
<1>3. CASE PostLock
  <2>1. /\ post = "lock" /\ post' = "read" /\ mtx[PostSlot] = "free"
        /\ mtx' = [mtx EXCEPT ![PostSlot] = "post"]
        /\ UNCHANGED <<post_rx, post_bufs, hit_list, old_ts, hits, misses, samples,
                       tested>>
    BY <1>3 DEF PostLock, PostGoes
  <2>2. PostSlot \in Slots /\ PostSlot' = PostSlot
    BY <1>s, <2>1 DEF PostSlot
  <2>3. PostStepOK'
    BY <1>y, <1>m, <2>1, <2>2 DEF PostStepOK, PostInside, OldTsFound
  <2>4. \A s \in Slots : mtx'[s] = "pre" <=> mtx[s] = "pre"
    BY <1>y, <2>1, <2>2
  <2>5. QED
    BY <1>u, <1>l, <1>e, <2>1, <2>3, <2>4, PostStepSuffices
<1>4. CASE ReadEntry
  <2> DEFINE h == Head(post_bufs)
             e == hit_list[PostSlot]
  <2>1. /\ post = "read" /\ post' = "clear"
        /\ old_ts' = IF e.identifier = h.id THEN e.timestamp ELSE 0
        /\ UNCHANGED <<post_rx, post_bufs, hit_list, mtx, hits, misses, samples,
                       tested>>
    BY <1>4 DEF ReadEntry, PostGoes
  <2>2. PostSlot \in Slots /\ PostSlot' = PostSlot
    BY <1>s, <2>1 DEF PostSlot
  <2>3. mtx[PostSlot] = "post"
    BY <1>m, <2>1, <2>2 DEF PostInside
  <2>4. Whole(PostSlot)
    BY <1>m, <2>2, <2>3 DEF LiveIInv, PreInside
  <2>5. e.timestamp \in Int
    BY <1>y, <2>2
  <2>6. old_ts' = 0 \/ \E p \in added : p.id = h.id /\ p.ts = old_ts'
    <3>1. CASE e = Empty
      BY <3>1, <2>1 DEF Empty
    <3>2. CASE e # Empty
      <4>1. PICK p \in added : e = [timestamp |-> p.ts, identifier |-> p.id]
        BY <3>2, <2>4 DEF Whole
      <4>2. QED
        BY <4>1, <2>1
    <3>3. QED
      BY <3>1, <3>2
  <2>7. OldTsFound'
    BY <1>a, <2>1, <2>6 DEF OldTsFound
  <2>8. old_ts' \in Int
    BY <2>1, <2>5
  <2>9. PostStepOK'
    BY <1>y, <1>m, <2>1, <2>2, <2>7, <2>8 DEF PostStepOK, PostInside
  <2>10. QED
    BY <1>u, <1>l, <1>e, <2>1, <2>9, PostStepSuffices
<1>5. CASE ClearEntry
  <2>1. /\ post = "clear" /\ post' = "unlock"
        /\ hit_list' = [hit_list EXCEPT ![PostSlot] = Empty]
        /\ UNCHANGED <<post_rx, post_bufs, mtx, old_ts, hits, misses, samples, tested>>
    BY <1>5 DEF ClearEntry, PostGoes
  <2>2. PostSlot \in Slots /\ PostSlot' = PostSlot
    BY <1>s, <2>1 DEF PostSlot
  <2>3. mtx[PostSlot] = "post"
    BY <1>m, <2>1, <2>2 DEF PostInside
  <2>4. /\ hit_list' \in [Slots -> [timestamp : Int, identifier : Nat]]
        /\ EntriesKept
    BY <1>y, <2>1, <2>2, <2>3 DEF EntriesKept, Empty
  <2>5. PostStepOK'
    BY <1>y, <1>m, <1>a, <2>1, <2>2, <2>4 DEF PostStepOK, PostInside, OldTsFound
  <2>6. QED
    BY <1>u, <1>l, <2>1, <2>4, <2>5, PostStepSuffices
<1>6. CASE PostUnlock
  <2>1. /\ post = "unlock" /\ post' = "stats"
        /\ mtx' = [mtx EXCEPT ![PostSlot] = "free"]
        /\ UNCHANGED <<post_rx, post_bufs, hit_list, old_ts, hits, misses, samples,
                       tested>>
    BY <1>6 DEF PostUnlock, PostGoes
  <2>2. PostSlot \in Slots /\ PostSlot' = PostSlot
    BY <1>s, <2>1 DEF PostSlot
  <2>3. mtx[PostSlot] = "post"
    BY <1>m, <2>1, <2>2 DEF PostInside
  <2>4. \A s \in Slots : mtx'[s] # "post" /\ (mtx'[s] = "pre" <=> mtx[s] = "pre")
    BY <1>y, <1>m, <2>1, <2>2, <2>3
  <2>5. PostStepOK'
    BY <1>y, <1>m, <1>a, <2>1, <2>2, <2>4 DEF PostStepOK, PostInside, OldTsFound
  <2>6. QED
    BY <1>u, <1>l, <1>e, <2>1, <2>4, <2>5, PostStepSuffices
<1>7. CASE UpdateStats
  <2> DEFINE h == Head(post_bufs)
             x == [post |-> h, old_ts |-> old_ts]
             S == [post : Pkt, old_ts : Int]
  <2>1. /\ post = "stats"
        /\ post' \in {"recv", "lock", "done"} /\ (post' = "recv" <=> post_bufs' = <<>>)
        /\ post_bufs' = Tail(post_bufs)
        /\ tested' = tested + 1
        /\ UNCHANGED <<post_rx, hit_list, mtx, old_ts>>
    BY <1>7, Zenon DEF UpdateStats, PostGoes, Continues
  <2>2. \/ /\ old_ts # 0 /\ hits' = hits + 1 /\ misses' = misses
           /\ samples' = Append(samples, x)
        \/ /\ misses' = misses + 1 /\ hits' = hits /\ samples' = samples
    BY <1>7 DEF UpdateStats
  <2>3. post_bufs' \in Seq(Pkt)
    BY <1>y, <2>1, HeadTailProperties
  <2>5. PostStepOK'
    BY <1>y, <1>m, <2>1, <2>3 DEF PostStepOK, PostInside, OldTsFound
  <2>6. x \in S
    BY <1>y, <1>s, <2>1
  <2>7. old_ts # 0 => \E p \in added : p.id = x.post.id /\ p.ts = x.old_ts
    BY <1>m, <2>1 DEF OldTsFound
  <2>8. StatsOK'
    <3> HIDE DEF x
    <3>k. /\ hits \in Nat /\ misses \in Nat /\ tested \in Nat
          /\ samples \in Seq(S) /\ SamplesPaired
          /\ hits + misses = tested /\ hits = Len(samples)
      BY <1>k DEF StatsOK
    <3>1. CASE old_ts # 0 /\ hits' = hits + 1 /\ misses' = misses
               /\ samples' = Append(samples, x)
      <4>1. /\ samples' \in Seq(S) /\ Len(samples') = Len(samples) + 1
            /\ \A k \in 1 .. Len(samples) : samples'[k] = samples[k]
            /\ samples'[Len(samples) + 1] = x
        <5> HIDE DEF S
        <5>1. QED
          BY <2>6, <3>k, <3>1, AppendProperties
      <4>2. Len(samples) \in Nat
        BY <3>k
      <4>3. SamplesPaired'
        <5> SUFFICES ASSUME NEW k \in 1 .. Len(samples')
                     PROVE  \E p \in added : /\ p.id = samples'[k].post.id
                                             /\ p.ts = samples'[k].old_ts
          BY <1>a DEF SamplesPaired
        <5>1. CASE k = Len(samples) + 1
          BY <5>1, <4>1, <3>1, <2>7
        <5>2. CASE k \in 1 .. Len(samples)
          BY <5>2, <4>1, <3>k, Zenon DEF SamplesPaired
        <5>3. QED
          BY <5>1, <5>2, <4>1, <4>2
      <4>4. /\ hits' \in Nat /\ misses' \in Nat /\ tested' \in Nat
            /\ hits' + misses' = tested' /\ hits' = Len(samples')
        <5> DEFINE l == Len(samples)
                   m == Len(samples')
        <5>1. l \in Nat /\ m = l + 1 /\ hits = l
          BY <3>k, <4>1, <4>2
        <5> HIDE DEF l, m
        <5>2. hits' = m
          BY <3>1, <5>1
        <5>3. hits' \in Nat /\ misses' \in Nat /\ tested' \in Nat
              /\ hits' + misses' = tested'
          BY <2>1, <3>k, <3>1
        <5>4. QED
          BY <5>2, <5>3 DEF m
      <4>5. QED
        BY <4>1, <4>3, <4>4 DEF StatsOK
    <3>2. CASE misses' = misses + 1 /\ hits' = hits /\ samples' = samples
      <4>1. SamplesPaired' /\ samples' \in Seq(S) /\ hits' = Len(samples')
        BY <1>a, <3>k, <3>2 DEF SamplesPaired
      <4>2. hits' \in Nat /\ misses' \in Nat /\ tested' \in Nat
            /\ hits' + misses' = tested'
        BY <2>1, <3>k, <3>2
      <4>3. QED
        BY <4>1, <4>2 DEF StatsOK
    <3>3. QED
      BY <2>2, <3>1, <3>2
  <2>9. QED
    BY <1>u, <1>e, <2>1, <2>5, <2>8, PostStepSuffices
<1>8. QED
  BY <1>1, <1>2, <1>3, <1>4, <1>5, <1>6, <1>7 DEF Post

-----------------------------------------------------------------------------
LEMMA FetchInv ==
  ASSUME LiveIInv, FetchStats
  PROVE  LiveIInv'
<1>1. UNCHANGED <<wireVars, pre_rx, post_rx, hit_list, mtx, preVars, postVars>>
  BY DEF FetchStats
<1>2. LiveTypeOK'
  BY <1>1, Zenon DEF LiveIInv, LiveTypeOK, wireVars, preVars, postVars
<1>3. SamplesPaired' /\ PreSlot' = PreSlot /\ PostSlot' = PostSlot
  BY <1>1, Zenon DEF LiveIInv, SamplesPaired, preVars, postVars, PreSlot, PostSlot
<1>4. \A s \in Slots : Whole(s)' <=> Whole(s)
  BY <1>1 DEF Whole, preVars
<1>5. post = "done"
      /\ report' = [hits |-> hits, misses |-> misses, count |-> Len(samples)]
  BY Zenon DEF FetchStats
<1>6. QED
  BY <1>1, <1>2, <1>3, <1>4, <1>5 DEF LiveIInv, wireVars, preVars, postVars

LEMMA LiveStutterInv ==
  ASSUME LiveIInv, UNCHANGED vars
  PROVE  LiveIInv'
<1>1. LiveTypeOK' /\ SamplesPaired' /\ PreSlot' = PreSlot /\ PostSlot' = PostSlot
  BY Zenon DEF LiveIInv, LiveTypeOK, SamplesPaired, PreSlot, PostSlot, vars, wireVars,
         preVars, postVars
<1>2. \A s \in Slots : Whole(s)' <=> Whole(s)
  BY DEF Whole, vars, preVars
<1>3. QED
  BY <1>1, <1>2, Zenon DEF LiveIInv, vars, wireVars, preVars, postVars

LEMMA LiveIInvImplies ==
  LiveIInv => LiveTypeOK /\ EntryWhole /\ SamplesPaired /\ StatsAddUp
<1> SUFFICES ASSUME LiveIInv
             PROVE  LiveTypeOK /\ EntryWhole /\ SamplesPaired /\ StatsAddUp
  OBVIOUS
<1>1. EntryWhole
  <2> SUFFICES ASSUME NEW s \in Slots, mtx[s] = "free" PROVE Whole(s)
    BY DEF EntryWhole, Whole
  <2>1. ~(pre \in PreInside /\ s = PreSlot)
    BY DEF LiveIInv
  <2>2. QED
    BY <2>1 DEF LiveIInv, PreInside
<1>2. QED
  BY <1>1, Zenon DEF LiveIInv, StatsAddUp

\* The invariant of the two tasks and the table between them.
THEOREM LiveInvariant == Spec => []LiveIInv
<1>1. Init => LiveIInv
  BY LiveInitInv
<1>2. LiveIInv /\ [Next]_vars => LiveIInv'
  BY WireInv, PreInv, PostInv, FetchInv, LiveStutterInv DEF Next
<1>3. QED
  BY <1>1, <1>2, PTL DEF Spec

\* core_online, add_entry and test_for keep the types of their state.
THEOREM LiveTypeCorrect == Spec => []LiveTypeOK
BY LiveInvariant, LiveIInvImplies, PTL

\* The mutex of a slot makes the two assignments of add_entry one: whoever finds
\* the mutex free finds a timestamp and the identifier that belongs to it.
THEOREM EntriesAreWhole == Spec => []EntryWhole
BY LiveInvariant, LiveIInvImplies, PTL

\* test_for only ever measures between packets of the same identifier, however
\* many identifiers share a slot and however the device reorders packets.
THEOREM SamplesArePaired == Spec => []SamplesPaired
BY LiveInvariant, LiveIInvImplies, PTL

\* Hits and misses add up to the packets looked up, the estimate has one sample
\* for every hit, and fetch_stats reports the final numbers.
THEOREM StatsAreComplete == Spec => []StatsAddUp
BY LiveInvariant, LiveIInvImplies, PTL

-----------------------------------------------------------------------------
(***************************************************************************)
(* Each timestamp is used once.  The packets of the first tap are numbered; *)
(* those the first task has not written yet follow those it has.            *)
(***************************************************************************)
Finished == Cardinality(passed) - Len(pre_rx) - Len(pre_bufs)
Written == IF pre \in {"identifier", "unlock"} THEN Finished + 1 ELSE Finished
OldTs == {PreTs[m] : m \in 1 .. Written}

ArrivalInv ==
  /\ Finished \in Nat /\ Cardinality(passed) <= MaxPackets
  /\ \A p \in passed : p.n \in 1 .. Cardinality(passed)
  /\ \A k \in 1 .. Len(pre_bufs) : pre_bufs[k].ts = PreTs[Finished + k]
  /\ \A k \in 1 .. Len(pre_rx) : pre_rx[k].ts = PreTs[Finished + Len(pre_bufs) + k]

\* A timestamp is in one slot, or looked up, or in the estimate.
UsedInv ==
  /\ \A s \in Slots : hit_list[s].timestamp \in OldTs \cup {0}
  /\ \A s, r \in Slots :
       hit_list[s].timestamp = hit_list[r].timestamp /\ hit_list[s].timestamp # 0 => s = r
  /\ \A k \in 1 .. Len(samples) :
       /\ samples[k].old_ts \in OldTs /\ samples[k].old_ts # 0
       /\ \A s \in Slots : hit_list[s].timestamp # samples[k].old_ts
  /\ post \in {"clear", "unlock", "stats"} /\ old_ts # 0 =>
       /\ old_ts \in OldTs
       /\ \A k \in 1 .. Len(samples) : samples[k].old_ts # old_ts
       /\ \A s \in Slots : hit_list[s].timestamp = old_ts => post = "clear" /\ s = PostSlot
  /\ EntryUsedOnce

\* Numbers, in terms of what the queues hold.
LEMMA Lengths ==
  ASSUME LiveIInv
  PROVE  /\ Cardinality(passed) \in Nat /\ Len(pre_rx) \in Nat /\ Len(pre_bufs) \in Nat
         /\ pre_rx \in Seq(Pkt) /\ pre_bufs \in Seq(Pkt) /\ IsFiniteSet(passed)
BY FS_CardinalityType, LenProperties DEF LiveIInv, LiveTypeOK

LEMMA Arrive_Numbers ==
  ASSUME LiveIInv, ArrivalInv, NEW id \in Ids, Arrive(id)
  PROVE  ArrivalInv' /\ OldTs' = OldTs
<1> DEFINE c == Cardinality(passed)
           p == [n |-> c + 1, id |-> id, ts |-> PreTs[c + 1]]
<1>1. /\ c + 1 <= MaxPackets /\ pre_rx' = Append(pre_rx, p) /\ passed' = passed \cup {p}
      /\ pre' = pre /\ pre_bufs' = pre_bufs
  BY DEF Arrive, preVars
<1>2. p.n = c + 1 /\ p.ts = PreTs[c + 1]
  OBVIOUS
<1>3. p \in Pkt
  <2>1. c + 1 \in 1 .. MaxPackets
    BY <1>1, Lengths
  <2>2. PreTs[c + 1] \in Nat /\ id \in Nat
    BY <2>1, LiveAssumption
  <2> QED BY <2>1, <2>2 DEF Pkt
<1> HIDE DEF p
<1>4. p \notin passed
  BY <1>2, Lengths DEF ArrivalInv
<1>5. Cardinality(passed') = c + 1
  BY <1>1, <1>4, Lengths, FS_AddElement, Zenon
<1>6. /\ Len(pre_rx') = Len(pre_rx) + 1 /\ pre_rx'[Len(pre_rx) + 1] = p
      /\ \A k \in 1 .. Len(pre_rx) : pre_rx'[k] = pre_rx[k]
  BY <1>1, <1>3, Lengths, AppendProperties
<1> HIDE DEF c
<1>7. c \in Nat /\ Len(pre_rx) \in Nat /\ Len(pre_bufs) \in Nat
  BY Lengths DEF c
<1>8. Finished = c - Len(pre_rx) - Len(pre_bufs) /\ Finished \in Nat
  BY DEF Finished, ArrivalInv, c
<1>9. Finished' = Finished
  BY <1>1, <1>5, <1>6, <1>7, <1>8 DEF Finished
<1>10. \A k \in 1 .. Len(pre_rx') : pre_rx'[k].ts = PreTs[Finished' + Len(pre_bufs') + k]
  <2> SUFFICES ASSUME NEW k \in 1 .. Len(pre_rx')
               PROVE  pre_rx'[k].ts = PreTs[Finished' + Len(pre_bufs') + k]
    OBVIOUS
  <2>1. CASE k \in 1 .. Len(pre_rx)
    BY <1>1, <1>6, <1>9, <2>1 DEF ArrivalInv
  <2>2. CASE k = Len(pre_rx) + 1
    <3>1. Finished' + Len(pre_bufs') + k = c + 1
      BY <1>1, <1>7, <1>8, <1>9, <2>2
    <3> QED BY <1>2, <1>6, <2>2, <3>1
  <2> QED BY <1>6, <1>7, <2>1, <2>2
<1>11. \A q \in passed' : q.n \in 1 .. Cardinality(passed')
  <2>1. \A q \in passed : q.n \in 1 .. c
    BY DEF ArrivalInv, c
  <2> QED BY <1>1, <1>2, <1>5, <1>7, <2>1
<1>12. ArrivalInv'
  BY <1>1, <1>5, <1>8, <1>9, <1>10, <1>11, Zenon DEF ArrivalInv
<1> QED BY <1>1, <1>9, <1>12 DEF OldTs, Written

LEMMA PreRecv_Numbers ==
  ASSUME LiveIInv, ArrivalInv, PreRecv
  PROVE  ArrivalInv' /\ OldTs' = OldTs
<1> DEFINE r == NumRecv(pre_rx)
<1>1. /\ pre = "recv" /\ pre_rx # <<>> /\ passed' = passed
      /\ pre' \in {"recv", "lock", "done"}
      /\ pre_bufs' = SubSeq(pre_rx, 1, r) /\ pre_rx' = SubSeq(pre_rx, r + 1, Len(pre_rx))
  BY Zenon DEF PreRecv, PreGoes, Continues, wireVars
<1>2. pre_bufs = <<>> /\ Len(pre_bufs) = 0
  BY <1>1 DEF LiveIInv, LiveTypeOK
<1>3. Len(pre_rx) \in Nat \ {0}
  BY <1>1, Lengths, EmptySeq
<1>4. r \in 1 .. Len(pre_rx)
  BY <1>3, LiveAssumption DEF NumRecv
<1>5. /\ \A m \in 1 .. r : pre_rx[m] \in Pkt
      /\ \A m \in r + 1 .. Len(pre_rx) : pre_rx[m] \in Pkt
  BY <1>4, Lengths
<1>6. r \in Int /\ r + 1 \in Int /\ Len(pre_rx) \in Int
  BY <1>3, <1>4
<1> HIDE DEF r
<1>7. Len(pre_bufs') = r /\ \A k \in 1 .. r : pre_bufs'[k] = pre_rx[k]
  <2>1. \A k \in 1 .. r - 1 + 1 : SubSeq(pre_rx, 1, r)[k] = pre_rx[1 + k - 1]
    BY <1>5, <1>6, SubSeqProperties
  <2>2. Len(SubSeq(pre_rx, 1, r)) = r
    BY <1>4, <1>5, <1>6, SubSeqProperties
  <2> QED BY <1>1, <1>4, <2>1, <2>2
<1>8. /\ Len(pre_rx') = Len(pre_rx) - r
      /\ \A k \in 1 .. Len(pre_rx) - r : pre_rx'[k] = pre_rx[r + k]
  <2>1. \A k \in 1 .. Len(pre_rx) - (r + 1) + 1 :
          SubSeq(pre_rx, r + 1, Len(pre_rx))[k] = pre_rx[r + 1 + k - 1]
    BY <1>5, <1>6, SubSeqProperties
  <2>2. Len(SubSeq(pre_rx, r + 1, Len(pre_rx))) = Len(pre_rx) - r
    BY <1>4, <1>5, <1>6, SubSeqProperties
  <2> QED BY <1>1, <1>3, <1>4, <2>1, <2>2
<1>9. Finished' = Finished /\ Finished \in Nat
  BY <1>1, <1>2, <1>3, <1>4, <1>7, <1>8, Lengths DEF Finished, ArrivalInv
<1>10. \A k \in 1 .. Len(pre_rx) : pre_rx[k].ts = PreTs[Finished + k]
  BY <1>2, <1>9, <1>3 DEF ArrivalInv
<1>11. \A k \in 1 .. Len(pre_bufs') : pre_bufs'[k].ts = PreTs[Finished' + k]
  BY <1>4, <1>7, <1>9, <1>10
<1>12. \A k \in 1 .. Len(pre_rx') : pre_rx'[k].ts = PreTs[Finished' + Len(pre_bufs') + k]
  <2> SUFFICES ASSUME NEW k \in 1 .. Len(pre_rx) - r
               PROVE  pre_rx'[k].ts = PreTs[Finished + r + k]
    BY <1>7, <1>8, <1>9
  <2>1. r + k \in 1 .. Len(pre_rx) /\ Finished + (r + k) = Finished + r + k
    BY <1>3, <1>4, <1>9
  <2> QED BY <1>8, <1>10, <2>1
<1>13. ArrivalInv'
  BY <1>1, <1>9, <1>11, <1>12, Zenon DEF ArrivalInv
<1> QED BY <1>1, <1>9, <1>13 DEF OldTs, Written

\* The first task takes the next packet of its array.
LEMMA PreUnlock_Numbers ==
  ASSUME LiveIInv, ArrivalInv, PreUnlock
  PROVE  ArrivalInv' /\ OldTs' = OldTs
<1>1. /\ pre = "unlock" /\ pre' \in {"recv", "lock", "done"}
      /\ passed' = passed /\ pre_rx' = pre_rx
      /\ pre_bufs' = Tail(pre_bufs) /\ pre_bufs # <<>>
  BY Zenon DEF PreUnlock, PreGoes, Continues, wireVars, LiveIInv, LiveTypeOK
<1>2. /\ Len(pre_bufs) \in Nat \ {0} /\ Len(pre_bufs') = Len(pre_bufs) - 1
      /\ \A k \in 1 .. Len(pre_bufs) - 1 : pre_bufs'[k] = pre_bufs[k + 1]
  BY <1>1, Lengths, EmptySeq, HeadTailProperties
<1>3. Finished' = Finished + 1 /\ Finished \in Nat
  BY <1>1, <1>2, Lengths DEF Finished, ArrivalInv
<1>4. \A k \in 1 .. Len(pre_bufs') : pre_bufs'[k].ts = PreTs[Finished' + k]
  <2> SUFFICES ASSUME NEW k \in 1 .. Len(pre_bufs) - 1
               PROVE  pre_bufs'[k].ts = PreTs[Finished' + k]
    BY <1>2
  <2>1. k + 1 \in 1 .. Len(pre_bufs) /\ Finished + (k + 1) = Finished' + k
    BY <1>2, <1>3
  <2>2. pre_bufs[k + 1].ts = PreTs[Finished + (k + 1)]
    BY <2>1 DEF ArrivalInv
  <2> QED BY <1>2, <2>1, <2>2
<1>5. \A k \in 1 .. Len(pre_rx') : pre_rx'[k].ts = PreTs[Finished' + Len(pre_bufs') + k]
  <2> SUFFICES ASSUME NEW k \in 1 .. Len(pre_rx)
               PROVE  pre_rx[k].ts = PreTs[Finished' + Len(pre_bufs') + k]
    BY <1>1
  <2>1. Finished + Len(pre_bufs) + k = Finished' + Len(pre_bufs') + k
    BY <1>2, <1>3
  <2>2. pre_rx[k].ts = PreTs[Finished + Len(pre_bufs) + k]
    BY DEF ArrivalInv
  <2> QED BY <2>1, <2>2
<1>6. ArrivalInv'
  BY <1>1, <1>3, <1>4, <1>5 DEF ArrivalInv
<1>7. Written' = Written
  BY <1>1, <1>3 DEF Written
<1> QED BY <1>6, <1>7 DEF OldTs

\* The timestamp that is written now is a new one.
LEMMA AddTimestamp_Numbers ==
  ASSUME LiveIInv, ArrivalInv, AddTimestamp
  PROVE  /\ ArrivalInv' /\ OldTs' = OldTs \cup {Head(pre_bufs).ts}
         /\ Head(pre_bufs).ts \notin OldTs \cup {0}
<1>1. /\ pre = "timestamp" /\ pre' = "identifier" /\ pre_bufs' = pre_bufs
      /\ pre_rx' = pre_rx /\ passed' = passed /\ pre_bufs # <<>>
  BY DEF AddTimestamp, PreGoes, wireVars, LiveIInv, LiveTypeOK
<1>2. Len(pre_bufs) \in Nat \ {0} /\ Head(pre_bufs) = pre_bufs[1]
  BY <1>1, Lengths, EmptySeq
<1>3. Head(pre_bufs).ts = PreTs[Finished + 1]
  BY <1>2 DEF ArrivalInv
<1>4. /\ Finished' = Finished /\ Finished \in Nat
      /\ Written = Finished /\ Written' = Finished + 1
      /\ Finished + 1 <= MaxPackets
  BY <1>1, <1>2, Lengths, LiveAssumption DEF Finished, Written, ArrivalInv
<1>5. ArrivalInv'
  BY <1>1, <1>4 DEF ArrivalInv
<1>6. PreTs[Finished + 1] # 0 /\ \A m \in 1 .. Finished : PreTs[m] # PreTs[Finished + 1]
  BY <1>4, LiveAssumption
<1>7. OldTs' = OldTs \cup {PreTs[Finished + 1]}
  <2>1. 1 .. Finished + 1 = (1 .. Finished) \cup {Finished + 1}
    BY <1>4
  <2> QED BY <1>4, <2>1 DEF OldTs
<1> QED BY <1>3, <1>4, <1>5, <1>6, <1>7 DEF OldTs

\* All other steps leave the numbers alone.
LEMMA Same_Numbers ==
  ASSUME ArrivalInv, UNCHANGED <<passed, pre_rx, pre_bufs>>,
         pre' \in {"identifier", "unlock"} <=> pre \in {"identifier", "unlock"}
  PROVE  ArrivalInv' /\ OldTs' = OldTs
<1>1. Finished' = Finished
  BY DEF Finished
<1>2. Written' = Written
  BY <1>1 DEF Written
<1> QED BY <1>1, <1>2 DEF ArrivalInv, OldTs

\* What is used is not changed.
LEMMA Same_Used ==
  ASSUME UsedInv, OldTs \subseteq OldTs', UNCHANGED <<hit_list, samples>>,
         post' \in {"clear", "unlock", "stats"} /\ old_ts' # 0 =>
           /\ old_ts' \in OldTs
           /\ \A k \in 1 .. Len(samples) : samples[k].old_ts # old_ts'
           /\ \A s \in Slots :
                hit_list[s].timestamp = old_ts' => post' = "clear" /\ s = PostSlot'
  PROVE  UsedInv'
<1>1. EntryUsedOnce'
  BY DEF UsedInv, EntryUsedOnce
<1> QED BY <1>1 DEF UsedInv

LEMMA Elsewhere_Used ==
  ASSUME UsedInv, OldTs \subseteq OldTs', UNCHANGED <<hit_list, postVars>>
  PROVE  UsedInv'
<1>1. PostSlot' = PostSlot /\ post' = post /\ old_ts' = old_ts /\ samples' = samples
  BY DEF PostSlot, postVars
<1> QED BY <1>1, Same_Used, Zenon DEF UsedInv

LEMMA AddTimestamp_Used ==
  ASSUME LiveIInv, ArrivalInv, UsedInv, AddTimestamp
  PROVE  UsedInv'
<1> DEFINE x == Head(pre_bufs).ts
<1>1. OldTs' = OldTs \cup {x} /\ x \notin OldTs /\ x # 0
  BY AddTimestamp_Numbers
<1>2. /\ hit_list' = [hit_list EXCEPT ![PreSlot].timestamp = x] /\ UNCHANGED postVars
      /\ hit_list \in [Slots -> [timestamp : Int, identifier : Nat]] /\ PreSlot \in Slots
  <2>1. pre = "timestamp" /\ LiveTypeOK
    BY DEF AddTimestamp, LiveIInv
  <2> QED BY <2>1, TaskSlots DEF AddTimestamp, PreGoes, LiveTypeOK
<1> HIDE DEF x
<1>3. /\ hit_list'[PreSlot].timestamp = x
      /\ \A s \in Slots : s # PreSlot => hit_list'[s].timestamp = hit_list[s].timestamp
  BY <1>2
<1>4. PostSlot' = PostSlot /\ post' = post /\ old_ts' = old_ts /\ samples' = samples
  BY <1>2 DEF PostSlot, postVars
<1>5. \A s \in Slots : hit_list'[s].timestamp \in OldTs' \cup {0}
  BY <1>1, <1>3, Zenon DEF UsedInv
<1>6. \A s, r \in Slots :
        hit_list'[s].timestamp = hit_list'[r].timestamp /\ hit_list'[s].timestamp # 0 => s = r
  BY <1>1, <1>3, Zenon DEF UsedInv
<1>7. \A k \in 1 .. Len(samples) :
        /\ samples[k].old_ts \in OldTs' /\ samples[k].old_ts # 0
        /\ \A s \in Slots : hit_list'[s].timestamp # samples[k].old_ts
  BY <1>1, <1>3 DEF UsedInv
<1>8. post \in {"clear", "unlock", "stats"} /\ old_ts # 0 =>
        /\ old_ts \in OldTs'
        /\ \A k \in 1 .. Len(samples) : samples[k].old_ts # old_ts
        /\ \A s \in Slots :
             hit_list'[s].timestamp = old_ts => post = "clear" /\ s = PostSlot
  BY <1>1, <1>3 DEF UsedInv
<1>9. EntryUsedOnce'
  BY <1>4 DEF UsedInv, EntryUsedOnce
<1> QED BY <1>4, <1>5, <1>6, <1>7, <1>8, <1>9, Zenon DEF UsedInv

LEMMA AddIdentifier_Used ==
  ASSUME LiveIInv, UsedInv, AddIdentifier, OldTs' = OldTs
  PROVE  UsedInv'
<1>1. /\ hit_list' = [hit_list EXCEPT ![PreSlot].identifier = Head(pre_bufs).id]
      /\ hit_list \in [Slots -> [timestamp : Int, identifier : Nat]] /\ UNCHANGED postVars
  BY DEF AddIdentifier, PreGoes, LiveIInv, LiveTypeOK
<1>2. \A s \in Slots : hit_list'[s].timestamp = hit_list[s].timestamp
  BY <1>1
<1>3. PostSlot' = PostSlot /\ post' = post /\ old_ts' = old_ts /\ samples' = samples
  BY <1>1 DEF PostSlot, postVars
<1>4. EntryUsedOnce'
  BY <1>3, Zenon DEF UsedInv, EntryUsedOnce
<1> QED BY <1>2, <1>3, <1>4 DEF UsedInv

LEMMA ReadEntry_Used ==
  ASSUME LiveIInv, UsedInv, ReadEntry, OldTs' = OldTs
  PROVE  UsedInv'
<1>1. PostSlot \in Slots
  BY TaskSlots DEF LiveIInv, ReadEntry
<1>2. /\ old_ts' \in {hit_list[PostSlot].timestamp, 0} /\ post' = "clear"
      /\ PostSlot' = PostSlot /\ UNCHANGED <<hit_list, samples>>
  BY DEF ReadEntry, PostGoes, PostSlot
<1>3. old_ts' # 0 =>
        /\ old_ts' \in OldTs
        /\ \A k \in 1 .. Len(samples) : samples[k].old_ts # old_ts'
        /\ \A s \in Slots : hit_list[s].timestamp = old_ts' => s = PostSlot
  BY <1>1, <1>2 DEF UsedInv
<1> QED BY <1>2, <1>3, Same_Used, Zenon

LEMMA ClearEntry_Used ==
  ASSUME LiveIInv, UsedInv, ClearEntry, OldTs' = OldTs
  PROVE  UsedInv'
<1>1. PostSlot \in Slots
  BY TaskSlots, Zenon DEF LiveIInv, ClearEntry
<1>2. /\ hit_list' = [hit_list EXCEPT ![PostSlot] = Empty] /\ post = "clear" /\ post' = "unlock"
      /\ samples' = samples /\ old_ts' = old_ts
      /\ hit_list \in [Slots -> [timestamp : Int, identifier : Nat]]
  BY Zenon DEF ClearEntry, PostGoes, LiveIInv, LiveTypeOK
<1>3. /\ hit_list'[PostSlot].timestamp = 0
      /\ \A s \in Slots : s # PostSlot => hit_list'[s].timestamp = hit_list[s].timestamp
  BY <1>1, <1>2 DEF Empty
<1>4. EntryUsedOnce'
  BY <1>2, Zenon DEF UsedInv, EntryUsedOnce
<1>5. \A s, r \in Slots :
        hit_list'[s].timestamp = hit_list'[r].timestamp /\ hit_list'[s].timestamp # 0 => s = r
  BY <1>3 DEF UsedInv
<1>6. \A s \in Slots : hit_list'[s].timestamp \in {hit_list[s].timestamp, 0}
  BY <1>3
<1>7. old_ts # 0 =>
        /\ old_ts \in OldTs
        /\ \A k \in 1 .. Len(samples) : samples[k].old_ts # old_ts
        /\ \A s \in Slots : hit_list'[s].timestamp # old_ts
  BY <1>2, <1>3 DEF UsedInv
<1>8. \A s \in Slots : hit_list'[s].timestamp \in OldTs \cup {0}
  BY <1>6, Zenon DEF UsedInv
<1>9. \A k \in 1 .. Len(samples) :
        /\ samples[k].old_ts \in OldTs /\ samples[k].old_ts # 0
        /\ \A s \in Slots : hit_list'[s].timestamp # samples[k].old_ts
  BY <1>6, Zenon DEF UsedInv
<1> QED BY <1>2, <1>4, <1>5, <1>7, <1>8, <1>9, Zenon DEF UsedInv

LEMMA UpdateStats_Used ==
  ASSUME LiveIInv, UsedInv, UpdateStats, OldTs' = OldTs
  PROVE  UsedInv'
<1>1. post = "stats" /\ post' \in {"recv", "lock", "done"} /\ hit_list' = hit_list
  BY Zenon DEF UpdateStats, PostGoes, Continues
<1>2. CASE old_ts = 0
  BY <1>1, <1>2, Same_Used DEF UpdateStats
<1>3. CASE old_ts # 0
  <2> DEFINE x == [post |-> Head(post_bufs), old_ts |-> old_ts]
             n == Len(samples)
  <2>1. /\ samples \in Seq([post : Pkt, old_ts : Int]) /\ samples' = Append(samples, x)
        /\ x.old_ts = old_ts /\ x \in [post : Pkt, old_ts : Int]
    <3>1. Head(post_bufs) \in Pkt /\ old_ts \in Int
      BY <1>1, TaskSlots, Zenon DEF LiveIInv, LiveTypeOK
    <3> QED BY <1>3, <3>1, Zenon DEF UpdateStats, LiveIInv, LiveTypeOK
  <2> HIDE DEF x
  <2>2. /\ Len(samples') = n + 1 /\ n \in Nat /\ samples'[n + 1].old_ts = old_ts
        /\ \A k \in 1 .. n : samples'[k] = samples[k]
    BY <2>1, AppendProperties, LenProperties, SMTT(30)
  <2>3. /\ old_ts \in OldTs /\ \A k \in 1 .. n : samples[k].old_ts # old_ts
        /\ \A s \in Slots : hit_list[s].timestamp # old_ts
    BY <1>1, <1>3 DEF UsedInv
  <2>4. \A k \in 1 .. n :
          /\ samples[k].old_ts \in OldTs /\ samples[k].old_ts # 0
          /\ \A s \in Slots : hit_list[s].timestamp # samples[k].old_ts
    BY DEF UsedInv
  <2> HIDE DEF n
  <2>5. \A k \in 1 .. n + 1 : k \in 1 .. n \/ k = n + 1
    BY <2>2
  <2>6. \A k \in 1 .. Len(samples') :
          /\ samples'[k].old_ts \in OldTs /\ samples'[k].old_ts # 0
          /\ \A s \in Slots : hit_list[s].timestamp # samples'[k].old_ts
    BY <1>3, <2>2, <2>3, <2>4, <2>5
  <2>7. EntryUsedOnce'
    <3>1. \A j, k \in 1 .. n : samples[j].old_ts = samples[k].old_ts => j = k
      BY DEF UsedInv, EntryUsedOnce, n
    <3> QED BY <2>2, <2>3, <2>5, <3>1 DEF EntryUsedOnce
  <2> QED BY <1>1, <2>6, <2>7, Zenon DEF UsedInv
<1> QED BY <1>2, <1>3

\* One step of anyone.
LEMMA UsedStep ==
  ASSUME LiveIInv, ArrivalInv, UsedInv, [Next]_vars
  PROVE  ArrivalInv' /\ UsedInv'
<1>1. ASSUME NEW id \in Ids, Arrive(id) PROVE ArrivalInv' /\ UsedInv'
  BY <1>1, Arrive_Numbers, Elsewhere_Used DEF Arrive
<1>2. CASE \/ \E p \in dut : \E latency \in Latencies : Forward(p, latency)
           \/ (\E p \in dut : Drop(p)) \/ Expire \/ FetchStats \/ UNCHANGED vars
  <2>1. UNCHANGED <<passed, pre_rx, pre, pre_bufs, hit_list, postVars>>
    BY <1>2, Zenon DEF Forward, Drop, Expire, FetchStats, vars, wireVars, preVars
  <2> QED BY <2>1, Same_Numbers, Elsewhere_Used
<1>3. CASE PreRecv \/ PreUnlock
  BY <1>3, PreRecv_Numbers, PreUnlock_Numbers, Elsewhere_Used
     DEF PreRecv, PreUnlock, PreGoes
<1>4. CASE PreLeave \/ PreLock
  <2>1. /\ UNCHANGED <<passed, pre_rx, pre_bufs, hit_list, postVars>>
        /\ pre \notin {"identifier", "unlock"} /\ pre' \notin {"identifier", "unlock"}
    BY <1>4 DEF PreLeave, PreLock, PreGoes, wireVars
  <2> QED BY <2>1, Same_Numbers, Elsewhere_Used
<1>5. CASE AddTimestamp
  BY <1>5, AddTimestamp_Numbers, AddTimestamp_Used
<1>6. CASE AddIdentifier
  <2>1. /\ UNCHANGED <<passed, pre_rx, pre_bufs>> /\ pre = "identifier" /\ pre' = "unlock"
    BY <1>6 DEF AddIdentifier, PreGoes, wireVars
  <2> QED BY <1>6, <2>1, Same_Numbers, AddIdentifier_Used
<1>7. CASE Post
  <2>1. UNCHANGED <<passed, pre_rx, pre_bufs, pre>>
    BY <1>7, Zenon DEF Post, PostRecv, PostLeave, PostLock, ReadEntry, ClearEntry, PostUnlock,
                UpdateStats, PostGoes, wireVars, preVars
  <2>2. ArrivalInv' /\ OldTs' = OldTs
    BY <2>1, Same_Numbers
  <2>3. CASE PostRecv \/ PostLeave \/ PostLock
    <3>1. post' \in {"recv", "lock", "read", "done"} /\ UNCHANGED <<hit_list, samples>>
      BY <2>3, Zenon DEF PostRecv, PostLeave, PostLock, PostGoes, Continues
    <3> QED BY <2>2, <3>1, Same_Used, Zenon
  <2>4. CASE PostUnlock
    <3>1. post = "unlock" /\ post' = "stats" /\ UNCHANGED <<hit_list, samples, old_ts>>
      BY <2>4 DEF PostUnlock, PostGoes
    <3>2. old_ts # 0 =>
            /\ old_ts \in OldTs
            /\ \A k \in 1 .. Len(samples) : samples[k].old_ts # old_ts
            /\ \A s \in Slots : hit_list[s].timestamp # old_ts
      BY <3>1, Zenon DEF UsedInv
    <3> QED BY <2>2, <3>1, <3>2, Same_Used, Zenon
  <2> QED BY <1>7, <2>2, <2>3, <2>4, ReadEntry_Used, ClearEntry_Used, UpdateStats_Used DEF Post
<1> QED BY <1>1, <1>2, <1>3, <1>4, <1>5, <1>6, <1>7 DEF Next, Pre

\* test_for clears what it has found: no timestamp of the first tap is measured
\* against two packets of the second, however they interleave.
THEOREM EntriesAreUsedOnce == Spec => []EntryUsedOnce
<1>1. Init => ArrivalInv /\ UsedInv
  <2> SUFFICES ASSUME Init PROVE ArrivalInv /\ UsedInv
    OBVIOUS
  <2>1. Len(pre_rx) = 0 /\ Len(pre_bufs) = 0 /\ Cardinality(passed) = 0 /\ Len(samples) = 0
    BY FS_EmptySet DEF Init
  <2>2. ArrivalInv
    BY <2>1, LiveAssumption DEF Init, ArrivalInv, Finished
  <2>3. \A s \in Slots : hit_list[s].timestamp = 0
    BY DEF Init, Empty
  <2> QED BY <2>1, <2>2, <2>3, SMTT(30) DEF Init, UsedInv, EntryUsedOnce
<1>2. LiveIInv /\ ArrivalInv /\ UsedInv /\ [Next]_vars => ArrivalInv' /\ UsedInv'
  BY UsedStep
<1>3. UsedInv => EntryUsedOnce
  BY DEF UsedInv
<1> QED BY <1>1, <1>2, <1>3, LiveInvariant, PTL DEF Spec

=============================================================================
