--------------------------- MODULE LoadTask_proofs ---------------------------
(***************************************************************************)
(* Proofs about the software rate limiter and the load task, for every ring *)
(* and batch size, every mode, gap and data limit.                          *)
(***************************************************************************)
EXTENDS LoadTask, SequenceTheorems, TLAPS

\* The limiter: a batch is at hand only while it is sent, and the schedule is the
\* restart plus the gaps since.
LimiterInv ==
  /\ LimiterTypeOK
  /\ pc \notin {"send", "tx", "done"} => i = Len(bufs) + 1
  /\ NothingLost
  /\ next_send = epoch + owed
  /\ RateCeiling

\* The load task: what the ring took, what is in the array and what is left of
\* the limit.
LimitInv ==
  /\ at = "script" => dataLimit = NoLimit
  /\ at \in {"last", "retryLast"} => dataLimit # NoLimit
  /\ dataLimit # NoLimit =>
       /\ at = "loop" => /\ data >= 0 /\ Len(accepted) + data <= dataLimit
                         /\ running => Len(accepted) + data = dataLimit
       /\ at \in {"send", "retry"} => data >= 1 /\ Len(accepted) + BUFS + data = dataLimit
       /\ at \in {"last", "retryLast"} =>
            data <= 0 /\ BUFS + data >= 0 /\ Len(accepted) + BUFS + data = dataLimit
       /\ at \in {"stop", "done"} =>
            /\ Len(accepted) <= dataLimit
            /\ running /\ ~expired => Len(accepted) = dataLimit

LoadIInv == LimiterInv /\ LoadTypeOK /\ LimitInv

-----------------------------------------------------------------------------
(* The user's side of the ring.                                             *)

LEMMA InHandSeq ==
  ASSUME LimiterTypeOK
  PROVE  InHand \in Seq(Packet)
<1>1. bufs \in Seq(Packet) /\ i \in 1 .. Len(bufs) + 1 /\ Len(bufs) \in Nat
  BY LenProperties DEF LimiterTypeOK
<1>2. \A m \in i .. Len(bufs) : bufs[m] \in Packet
  BY <1>1
<1>3. i \in Int /\ Len(bufs) \in Int
  BY <1>1
<1> QED BY <1>2, <1>3, SubSeqProperties DEF InHand

LEMMA Associate ==
  ASSUME NEW s \in Seq(Packet), NEW t \in Seq(Packet), NEW u \in Seq(Packet)
  PROVE  (s \o t) \o u = s \o (t \o u)
BY ConcatAssociative

LEMMA Enqueue_Inv ==
  ASSUME LimiterInv, NEW p \in Seq(Packet), enqueue(p), UNCHANGED <<limiterVars, now>>
  PROVE  LimiterInv' /\ Len(accepted') = Len(accepted) + Len(p)
<1>1. /\ ring \in Seq(Packet) /\ accepted \in Seq(Packet) /\ sent \in Seq(Packet)
      /\ accepted = (sent \o InHand) \o ring
  BY DEF LimiterInv, LimiterTypeOK, NothingLost
<1>2. InHand \in Seq(Packet) /\ InHand' = InHand
  BY InHandSeq DEF LimiterInv, InHand, limiterVars
<1>3. /\ ring' = ring \o p /\ accepted' = accepted \o p /\ sent' = sent
      /\ Len(ring) + Len(p) <= RING_SIZE /\ running' = running /\ stop' = stop
  BY DEF enqueue, limiterVars
<1>4. /\ ring' \in Seq(Packet) /\ Len(ring') = Len(ring) + Len(p)
      /\ accepted' \in Seq(Packet) /\ Len(accepted') = Len(accepted) + Len(p)
  BY <1>1, <1>3, ConcatProperties
<1>5. sent \o InHand \in Seq(Packet)
  BY <1>1, <1>2, ConcatProperties
<1>6. NothingLost'
  <2>1. ((sent \o InHand) \o ring) \o p = (sent \o InHand) \o (ring \o p)
    BY <1>1, <1>5, Associate, Zenon
  <2> QED BY <1>1, <1>2, <1>3, <2>1, Zenon DEF NothingLost
<1>7. LimiterTypeOK'
  BY <1>3, <1>4 DEF LimiterInv, LimiterTypeOK, limiterVars
<1> QED BY <1>4, <1>6, <1>7 DEF LimiterInv, RateCeiling, limiterVars

\* Arrays of packets.
LEMMA BufsSeq ==
  ASSUME NEW n \in Nat, accepted \in Seq(Packet)
  PROVE  Bufs(n) \in Seq(Packet) /\ Len(Bufs(n)) = n
<1>1. Len(accepted) \in Nat
  BY LenProperties
<1>2. \A k \in 1 .. n : [id |-> Len(accepted) + k, gap |-> 0] \in Packet
  BY <1>1 DEF Packet
<1> QED BY <1>2 DEF Bufs

LEMMA NumberedSeq ==
  ASSUME NEW n \in Nat, NEW gaps \in [1 .. n -> CustomGaps], accepted \in Seq(Packet)
  PROVE  Numbered(gaps) \in Seq(Packet)
<1>1. Len(accepted) \in Nat
  BY LenProperties
<1>2. gaps \in Seq(CustomGaps) /\ Len(gaps) = n
  OBVIOUS
<1>3. \A k \in 1 .. n : gaps[k] \in Nat
  BY LimiterAssumption, Zenon
<1>4. \A k \in 1 .. n : [id |-> Len(accepted) + k, gap |-> gaps[k]] \in Packet
  BY <1>1, <1>3 DEF Packet
<1> QED BY <1>2, <1>4 DEF Numbered

-----------------------------------------------------------------------------
(* The limiter's task.                                                      *)

\* Nothing that NothingLost and RateCeiling are about changes.
LEMMA Same_Inv ==
  ASSUME LimiterInv, LimiterTypeOK',
         UNCHANGED <<accepted, sent, bufs, i, ring, next_send, epoch, owed, spent>>,
         now' >= now,
         pc' \notin {"send", "tx", "done"} => i' = Len(bufs') + 1
  PROVE  LimiterInv'
<1>1. NothingLost'
  BY DEF LimiterInv, NothingLost, InHand
<1>2. RateCeiling'
  BY DEF LimiterInv, RateCeiling, LimiterTypeOK
<1> QED BY <1>1, <1>2 DEF LimiterInv

\* Restarting rate control keeps the schedule.
LEMMA Restart_Inv ==
  ASSUME LimiterInv, Restart, now' = now
  PROVE  /\ next_send' \in Nat /\ epoch' \in Nat /\ owed' \in Nat /\ spent' \in Nat
         /\ next_send' = epoch' + owed' /\ RateCeiling'
<1>1. /\ next_send \in Nat /\ epoch \in Nat /\ owed \in Nat /\ spent \in Nat
      /\ now \in Nat /\ next_send = epoch + owed /\ now >= epoch + spent
  BY DEF LimiterInv, LimiterTypeOK, RateCeiling
<1>2. CASE mode # "custom" /\ now - next_send > RESTART
  BY <1>1, <1>2 DEF Restart, Recount, RateCeiling
<1>3. CASE ~(mode # "custom" /\ now - next_send > RESTART)
  BY <1>1, <1>3 DEF Restart, Recount, RateCeiling
<1> QED BY <1>2, <1>3

LEMMA Dequeue_Inv ==
  ASSUME LimiterInv, Dequeue, UNCHANGED <<userVars, now>>
  PROVE  LimiterInv'
<1> DEFINE c == cur_batch_size
<1>1. /\ ring \in Seq(Packet) /\ Len(ring) \in Nat /\ c \in 1 .. batch_size /\ c <= Len(ring)
      /\ batch_size \in Nat /\ Len(ring) <= RING_SIZE /\ RING_SIZE \in Nat
  BY LenProperties, LimiterAssumption DEF LimiterInv, LimiterTypeOK, Dequeue
<1>2. /\ bufs' = SubSeq(ring, 1, c) /\ ring' = SubSeq(ring, c + 1, Len(ring))
      /\ i' = 1 /\ pc' = "send" /\ sent' = sent /\ accepted' = accepted
      /\ cur_batch_size' = c /\ pc = "dequeue"
  BY DEF Dequeue, userVars
<1>3. /\ \A m \in 1 .. c : ring[m] \in Packet
      /\ \A m \in c + 1 .. Len(ring) : ring[m] \in Packet
  BY <1>1
<1>4. c \in Int /\ c + 1 \in Int /\ Len(ring) \in Int
  BY <1>1
<1> HIDE DEF c
<1>5. bufs' \in Seq(Packet) /\ Len(bufs') = c
  BY <1>1, <1>2, <1>3, <1>4, SubSeqProperties
<1>6. ring' \in Seq(Packet) /\ Len(ring') = Len(ring) - c
  BY <1>1, <1>2, <1>3, <1>4, SubSeqProperties
<1>7. LimiterTypeOK'
  BY <1>1, <1>2, <1>5, <1>6, Restart_Inv, SMTT(30)
     DEF LimiterInv, LimiterTypeOK, Dequeue, userVars
<1>8. InHand = <<>>
  BY <1>2, SubSeqEmpty DEF LimiterInv, LimiterTypeOK, InHand
<1>9. InHand' = bufs'
  BY <1>2, <1>5, SubSeqFull DEF InHand
<1>10. bufs' \o ring' = ring
  <2>1. 1 \in 1 .. Len(ring) + 1 /\ c \in 1 - 1 .. Len(ring) /\ Len(ring) \in c .. Len(ring)
    BY <1>1
  <2> QED BY <1>1, <1>2, <2>1, ConcatAdjacentSubSeq, SubSeqFull
<1>11. NothingLost'
  <2>1. sent \in Seq(Packet) /\ accepted = (sent \o InHand) \o ring
    BY DEF LimiterInv, LimiterTypeOK, NothingLost
  <2>2. sent \o InHand = sent
    BY <1>8, <2>1, ConcatEmptySeq
  <2>3. (sent \o bufs') \o ring' = sent \o (bufs' \o ring')
    BY <1>5, <1>6, <2>1, Associate, Zenon
  <2> QED BY <1>2, <1>9, <1>10, <2>1, <2>2, <2>3, Zenon DEF NothingLost
<1>12. Restart /\ now' = now
  BY DEF Dequeue
<1> QED BY <1>2, <1>7, <1>11, <1>12, Restart_Inv DEF LimiterInv

\* A packet's gap.
LEMMA GapsNat ==
  ASSUME LimiterInv, pc = "send", NEW gap \in Gaps(bufs[i])
  PROVE  gap \in Nat /\ (mode = "custom" => gap = bufs[i].gap)
<1>1. bufs[i] \in Packet
  BY DEF LimiterInv, LimiterTypeOK
<1>2. bufs[i].gap \in Nat
  BY <1>1 DEF Packet
<1> QED BY <1>2, LimiterAssumption DEF Gaps

LEMMA Wait_Inv ==
  ASSUME LimiterInv, Wait, UNCHANGED <<userVars, now>>
  PROVE  LimiterInv'
<1>1. PICK gap \in Gaps(bufs[i]) :
        /\ next_send' = next_send + gap /\ owed' = owed + gap
        /\ spent' = IF mode = "custom" THEN owed' ELSE owed
  BY DEF Wait
<1>2. gap \in Nat /\ (mode = "custom" => gap = bufs[i].gap)
  BY GapsNat DEF Wait
<1>3. /\ next_send \in Nat /\ epoch \in Nat /\ owed \in Nat /\ now \in Nat
      /\ next_send = epoch + owed
  BY DEF LimiterInv, LimiterTypeOK
<1>4. /\ now' = now /\ epoch' = epoch
      /\ now >= IF mode = "custom" THEN next_send + bufs[i].gap ELSE next_send
  BY DEF Wait, DueTime
<1>5. next_send' = epoch' + owed'
  BY <1>1, <1>2, <1>3, <1>4
<1>6. RateCeiling'
  <2>1. CASE mode = "custom"
    BY <1>1, <1>2, <1>3, <1>4, <2>1 DEF RateCeiling
  <2>2. CASE mode # "custom"
    BY <1>1, <1>2, <1>3, <1>4, <2>2 DEF RateCeiling
  <2> QED BY <2>1, <2>2
<1>7. next_send' \in Nat /\ owed' \in Nat /\ spent' \in Nat
  BY <1>1, <1>2, <1>3
<1>8. LimiterTypeOK'
  BY <1>4, <1>7 DEF LimiterInv, LimiterTypeOK, Wait, userVars
<1>9. NothingLost'
  BY DEF LimiterInv, NothingLost, InHand, Wait, userVars
<1> QED BY <1>5, <1>6, <1>8, <1>9 DEF LimiterInv, Wait

LEMMA TxTaken_Inv ==
  ASSUME LimiterInv, TxTaken, UNCHANGED <<userVars, now>>
  PROVE  LimiterInv'
<1>1. /\ bufs \in Seq(Packet) /\ Len(bufs) \in Nat /\ i \in 1 .. Len(bufs)
      /\ sent \in Seq(Packet) /\ ring \in Seq(Packet)
      /\ accepted = (sent \o InHand) \o ring
  BY LenProperties DEF LimiterInv, LimiterTypeOK, TxTaken, NothingLost
<1>2. /\ sent' = Append(sent, bufs[i]) /\ i' = i + 1 /\ bufs' = bufs /\ ring' = ring
      /\ accepted' = accepted /\ pc' = IF i = Len(bufs) THEN "count" ELSE "send"
  BY DEF TxTaken, userVars
<1>3. bufs[i] \in Packet
  BY <1>1
<1>4. LimiterTypeOK'
  <2>1. sent' \in Seq(Packet)
    BY <1>1, <1>2, <1>3, AppendProperties
  <2> QED BY <1>1, <1>2, <2>1 DEF LimiterInv, LimiterTypeOK, TxTaken, userVars
<1>5. InHand = <<bufs[i]>> \o InHand'
  BY <1>1, <1>2, SubSeqRecursiveFirst DEF InHand
<1>6. NothingLost'
  <2>1. InHand' \in Seq(Packet)
    <3>1. i + 1 \in Int /\ Len(bufs) \in Int /\ \A m \in i + 1 .. Len(bufs) : bufs[m] \in Packet
      BY <1>1
    <3> QED BY <1>2, <3>1, SubSeqProperties DEF InHand
  <2>2. sent' = sent \o <<bufs[i]>>
    BY <1>1, <1>2, <1>3, AppendIsConcat
  <2>3. <<bufs[i]>> \in Seq(Packet)
    BY <1>3
  <2>4. (sent \o <<bufs[i]>>) \o InHand' = sent \o (<<bufs[i]>> \o InHand')
    <3> DEFINE b == <<bufs[i]>>
               h == InHand'
    <3>1. sent \in Seq(Packet) /\ b \in Seq(Packet) /\ h \in Seq(Packet)
      BY <1>1, <2>1, <2>3
    <3> HIDE DEF b, h
    <3>2. (sent \o b) \o h = sent \o (b \o h)
      BY <3>1, Associate, Zenon
    <3> QED BY <3>2 DEF b, h
  <2> QED BY <1>1, <1>2, <1>5, <2>2, <2>4, SMTT(30) DEF NothingLost
<1>7. RateCeiling' /\ next_send' = epoch' + owed'
  BY DEF LimiterInv, RateCeiling, TxTaken
<1>8. pc' \notin {"send", "tx", "done"} => i' = Len(bufs') + 1
  BY <1>1, <1>2
<1> QED BY <1>4, <1>6, <1>7, <1>8 DEF LimiterInv

LEMMA Limiter_Inv ==
  ASSUME LimiterInv, Limiter
  PROVE  LimiterInv'
<1> USE DEF Limiter
<1>1. CASE LoopHead
  <2>1. LimiterTypeOK'
    BY <1>1, LimiterAssumption DEF LoopHead, LimiterInv, LimiterTypeOK, userVars
  <2> QED BY <1>1, <2>1, Same_Inv DEF LoopHead, LimiterInv, LimiterTypeOK, userVars
<1>2. CASE Halve
  <2>1. cur_batch_size \div 2 \in 1 .. batch_size
    BY <1>2, LimiterAssumption DEF Halve, LimiterInv, LimiterTypeOK
  <2>2. LimiterTypeOK'
    BY <1>2, <2>1 DEF Halve, LimiterInv, LimiterTypeOK, userVars
  <2> QED BY <1>2, <2>2, Same_Inv DEF Halve, LimiterInv, LimiterTypeOK, userVars
<1>3. CASE DequeueNone
  <2>1. /\ next_send' \in Nat /\ epoch' \in Nat /\ owed' \in Nat /\ spent' \in Nat
        /\ next_send' = epoch' + owed' /\ RateCeiling'
    BY <1>3, Restart_Inv DEF DequeueNone
  <2>2. LimiterTypeOK'
    BY <1>3, <2>1, Zenon DEF DequeueNone, LimiterInv, LimiterTypeOK, userVars
  <2>3. NothingLost'
    BY <1>3 DEF DequeueNone, LimiterInv, NothingLost, InHand, userVars
  <2> QED BY <1>3, <2>1, <2>2, <2>3 DEF DequeueNone, LimiterInv
<1>4. CASE CheckStop
  <2>1. LimiterTypeOK'
    BY <1>4 DEF CheckStop, LimiterInv, LimiterTypeOK, userVars
  <2> QED BY <1>4, <2>1, Same_Inv DEF CheckStop, LimiterInv, LimiterTypeOK, userVars
<1>5. CASE TxRefused
  <2>1. LimiterTypeOK'
    BY <1>5 DEF TxRefused, LimiterInv, LimiterTypeOK, userVars
  <2> QED BY <1>5, <2>1, Same_Inv DEF TxRefused, LimiterInv, LimiterTypeOK, userVars
<1>6. CASE count_packets
  <2>1. LimiterTypeOK'
    BY <1>6, LenProperties DEF count_packets, LimiterInv, LimiterTypeOK, userVars
  <2> QED BY <1>6, <2>1, Same_Inv DEF count_packets, LimiterInv, LimiterTypeOK, userVars
<1>7. CASE Dequeue \/ Wait \/ TxTaken
  BY <1>7, Dequeue_Inv, Wait_Inv, TxTaken_Inv
<1> QED BY <1>1, <1>2, <1>3, <1>4, <1>5, <1>6, <1>7 DEF LimiterStep

LEMMA Tick_Inv ==
  ASSUME LimiterInv, Tick
  PROVE  LimiterInv'
<1>1. LimiterTypeOK'
  BY DEF Tick, LimiterInv, LimiterTypeOK, userVars, limiterVars
<1> QED BY <1>1, Same_Inv DEF Tick, LimiterInv, LimiterTypeOK, userVars, limiterVars

\* stop and running are read by the limiter only.
LEMMA Flags_Inv ==
  ASSUME LimiterInv, running' \in BOOLEAN, stop' \in BOOLEAN,
         UNCHANGED <<accepted, ring, limiterVars, now>>
  PROVE  LimiterInv'
<1>1. LimiterTypeOK'
  BY DEF LimiterInv, LimiterTypeOK, limiterVars
<1> QED BY <1>1, Same_Inv DEF LimiterInv, LimiterTypeOK, limiterVars

LEMMA Script_Inv ==
  ASSUME LimiterInv, Script
  PROVE  LimiterInv'
<1>1. CASE UserSend
  <2>1. PICK n \in 1 .. MaxSend : \E gaps \in [1 .. n -> CustomGaps] : enqueue(Numbered(gaps))
    BY <1>1 DEF UserSend
  <2>2. PICK gaps \in [1 .. n -> CustomGaps] : enqueue(Numbered(gaps))
    BY <2>1
  <2>3. n \in Nat /\ accepted \in Seq(Packet)
    BY <2>1 DEF LimiterInv, LimiterTypeOK
  <2>4. Numbered(gaps) \in Seq(Packet)
    BY <2>3, NumberedSeq
  <2> QED BY <1>1, <2>2, <2>4, Enqueue_Inv DEF UserSend
<1>2. CASE UserStop
  BY <1>2, Flags_Inv DEF UserStop, SetStop, LimiterInv, LimiterTypeOK
<1> QED BY <1>1, <1>2 DEF Script

-----------------------------------------------------------------------------
(* The load task.                                                           *)

LEMMA LoadInit_Inv ==
  ASSUME LoadInit
  PROVE  LoadIInv
<1>0. /\ LimiterInit /\ data = dataLimit /\ expired = FALSE /\ counted = 0
      /\ at \in {"loop", "script"} /\ (at = "script" => dataLimit = NoLimit)
      /\ dataLimit \in DataLimits \cup {NoLimit}
  BY DEF LoadInit
<1>1. LimiterTypeOK
  <2>1. next_send \in Nat /\ epoch \in Nat /\ now \in Nat
    BY <1>0 DEF LimiterInit, FirstSend
  <2>2. /\ bufs = <<>> /\ bufs \in Seq(Packet) /\ Len(bufs) = 0 /\ i = 1
        /\ ring \in Seq(Packet) /\ Len(ring) = 0
        /\ accepted \in Seq(Packet) /\ sent \in Seq(Packet)
    BY <1>0, EmptySeq DEF LimiterInit
  <2>3. /\ running \in BOOLEAN /\ stop \in BOOLEAN /\ mode \in Modes /\ pc = "head"
    BY <1>0, Zenon DEF LimiterInit
  <2>4. /\ count \in Nat /\ cur_batch_size \in 1 .. batch_size /\ batch_size \in Nat
        /\ RING_SIZE \in Nat /\ owed \in Nat /\ spent \in Nat
    BY <1>0, LimiterAssumption DEF LimiterInit
  <2> QED BY <2>1, <2>2, <2>3, <2>4 DEF LimiterTypeOK
<1>2. NothingLost
  <2>1. InHand = <<>>
    BY SubSeqEmpty DEF LoadInit, LimiterInit, InHand
  <2>2. <<>> \o <<>> = <<>>
    BY ConcatEmptySeq, EmptySeq
  <2> QED BY <2>1, <2>2 DEF LoadInit, LimiterInit, NothingLost
<1>3. RateCeiling /\ next_send = epoch + owed
  BY DEF LoadInit, LimiterInit, RateCeiling, FirstSend
<1>4. LimiterInv
  BY <1>1, <1>2, <1>3 DEF LoadInit, LimiterInit, LimiterInv
<1>5. dataLimit \in Int /\ (dataLimit # NoLimit => dataLimit \in Nat)
  BY <1>0, LoadAssumption DEF NoLimit
<1>6. LoadTypeOK
  <2>1. expired \in BOOLEAN
    BY <1>0, Zenon
  <2>2. data \in Int /\ counted \in Nat
    BY <1>0, <1>5
  <2> QED BY <1>0, <1>1, <2>1, <2>2 DEF LoadTypeOK
<1>7. LimitInv
  <2>1. Len(accepted) = 0 /\ running = TRUE
    BY DEF LoadInit, LimiterInit
  <2> QED BY <1>0, <1>5, <2>1 DEF LimitInv
<1> QED BY <1>4, <1>6, <1>7 DEF LoadIInv

\* A step of the task that leaves the limiter and the ring alone.
LEMMA Task_Inv ==
  ASSUME LoadIInv, UNCHANGED vars
  PROVE  LimiterInv'
BY Flags_Inv DEF LoadIInv, vars, userVars, LimiterInv, LimiterTypeOK

\* The facts about the task that the arithmetic of its steps needs.
LEMMA TaskFacts ==
  ASSUME LoadIInv
  PROVE  /\ BUFS \in Nat /\ BUFS >= 1 /\ data \in Int /\ dataLimit \in Int
         /\ Len(accepted) \in Nat /\ accepted \in Seq(Packet) /\ counted \in Nat
BY LoadAssumption, LenProperties DEF LoadIInv, LoadTypeOK, LimiterTypeOK, NoLimit

LEMMA Fill_Inv ==
  ASSUME LoadIInv, Fill
  PROVE  LoadIInv'
<1>1. LimiterInv'
  BY Task_Inv DEF Fill
<1>2. LimiterTypeOK' /\ accepted' = accepted /\ running' = running
  BY <1>1 DEF LimiterInv, Fill, vars, userVars
<1>3. data' \in Int /\ counted' \in Nat
  BY TaskFacts DEF Fill
<1>4. LoadTypeOK'
  BY <1>2, <1>3 DEF LoadIInv, LoadTypeOK, Fill
<1>5. /\ at = "loop" /\ running /\ dataLimit' = dataLimit /\ expired' = expired
      /\ data' = IF dataLimit # NoLimit THEN data - BUFS ELSE data
      /\ at' = IF dataLimit # NoLimit /\ data' <= 0 THEN "last" ELSE "send"
  BY DEF Fill
<1>6. dataLimit # NoLimit => data >= 0 /\ Len(accepted) + data = dataLimit
  BY <1>5 DEF LoadIInv, LimitInv
<1>7. LimitInv'
  BY <1>2, <1>3, <1>5, <1>6, TaskFacts DEF LimitInv
<1> QED BY <1>1, <1>4, <1>7 DEF LoadIInv

\* Steps that only change where the task stands.
LEMMA Moves_Inv ==
  ASSUME LoadIInv, UNCHANGED <<vars, dataLimit, data, counted>>,
         at' \in {"loop", "send", "last", "retry", "retryLast", "stop", "done", "script"},
         expired' \in BOOLEAN,
         LimitInv'
  PROVE  LoadIInv'
<1>1. LimiterInv'
  BY Task_Inv
<1>2. LoadTypeOK'
  BY <1>1 DEF LoadIInv, LoadTypeOK, LimiterInv
<1> QED BY <1>1, <1>2 DEF LoadIInv

LEMMA LeaveLoop_Inv ==
  ASSUME LoadIInv, LeaveLoop
  PROVE  LoadIInv'
<1>1. /\ at = "loop" /\ at' = "stop" /\ (~running \/ expired)
      /\ accepted' = accepted /\ running' = running /\ expired' = expired
      /\ dataLimit' = dataLimit
  BY DEF LeaveLoop, vars, userVars
<1>2. dataLimit # NoLimit => Len(accepted) <= dataLimit
  BY <1>1, TaskFacts DEF LoadIInv, LimitInv
<1>3. LimitInv'
  BY <1>1, <1>2 DEF LimitInv
<1>4. expired' \in BOOLEAN
  BY <1>1 DEF LoadIInv, LoadTypeOK
<1> QED BY <1>1, <1>3, <1>4, Moves_Inv DEF LeaveLoop

LEMMA SendFails_Inv ==
  ASSUME LoadIInv, SendFails
  PROVE  LoadIInv'
<1>1. /\ (at = "send" /\ at' = "retry") \/ (at = "last" /\ at' = "retryLast")
      /\ accepted' = accepted /\ running' = running /\ expired' = expired
      /\ dataLimit' = dataLimit /\ data' = data
  BY DEF SendFails, vars, userVars
<1>2. LimitInv'
  BY <1>1 DEF LoadIInv, LimitInv
<1>3. expired' \in BOOLEAN
  BY <1>1 DEF LoadIInv, LoadTypeOK
<1> QED BY <1>1, <1>2, <1>3, Moves_Inv DEF SendFails

LEMMA AfterRetry_Inv ==
  ASSUME LoadIInv, AfterRetry
  PROVE  LoadIInv'
<1>1. /\ at \in {"retry", "retryLast"}
      /\ at' = IF running THEN (IF at = "retry" THEN "send" ELSE "last")
               ELSE (IF at = "retry" THEN "loop" ELSE "stop")
      /\ accepted' = accepted /\ running' = running /\ expired' = expired
      /\ dataLimit' = dataLimit /\ data' = data
  BY DEF AfterRetry, vars, userVars
<1>2. CASE at = "retry"
  <2>1. LimitInv'
    BY <1>1, <1>2, TaskFacts DEF LoadIInv, LimitInv
  <2> QED BY <1>1, <1>2, <2>1, Moves_Inv DEF AfterRetry, LoadIInv, LoadTypeOK
<1>3. CASE at = "retryLast"
  <2>1. LimitInv'
    BY <1>1, <1>3, TaskFacts DEF LoadIInv, LimitInv
  <2> QED BY <1>1, <1>3, <2>1, Moves_Inv DEF AfterRetry, LoadIInv, LoadTypeOK
<1> QED BY <1>1, <1>2, <1>3

LEMMA SendArray_Inv ==
  ASSUME LoadIInv, SendArray
  PROVE  LoadIInv'
<1>1. Bufs(BUFS) \in Seq(Packet) /\ Len(Bufs(BUFS)) = BUFS
  BY TaskFacts, BufsSeq
<1>2. LimiterInv' /\ Len(accepted') = Len(accepted) + BUFS
  BY <1>1, Enqueue_Inv DEF SendArray, LoadIInv
<1>3. /\ at = "send" /\ at' = "loop" /\ dataLimit' = dataLimit /\ data' = data
      /\ expired' = expired /\ counted' = counted
  BY DEF SendArray
<1>4. LoadTypeOK'
  BY <1>2, <1>3 DEF LoadIInv, LoadTypeOK, LimiterInv
<1>5. LimitInv'
  BY <1>2, <1>3, TaskFacts DEF LoadIInv, LimitInv
<1> QED BY <1>2, <1>4, <1>5 DEF LoadIInv

LEMMA SendLast_Inv ==
  ASSUME LoadIInv, SendLast
  PROVE  LoadIInv'
<1>1. /\ at = "last" /\ at' = "stop" /\ dataLimit' = dataLimit /\ data' = data
      /\ expired' = expired /\ counted' = counted
  BY DEF SendLast
<1>2. dataLimit # NoLimit /\ BUFS + data >= 0 /\ Len(accepted) + BUFS + data = dataLimit
  BY <1>1 DEF LoadIInv, LimitInv
<1>3. BUFS + data \in Nat
  BY <1>2, TaskFacts
<1>4. Bufs(BUFS + data) \in Seq(Packet) /\ Len(Bufs(BUFS + data)) = BUFS + data
  BY <1>3, TaskFacts, BufsSeq
<1>5. LimiterInv' /\ Len(accepted') = Len(accepted) + (BUFS + data)
  BY <1>4, Enqueue_Inv DEF SendLast, LoadIInv
<1>6. LoadTypeOK'
  BY <1>1, <1>5 DEF LoadIInv, LoadTypeOK, LimiterInv
<1>7. Len(accepted') = dataLimit
  BY <1>2, <1>5, TaskFacts
<1>8. LimitInv'
  BY <1>1, <1>2, <1>7, TaskFacts DEF LimitInv
<1> QED BY <1>5, <1>6, <1>8 DEF LoadIInv

LEMMA StopQueue_Inv ==
  ASSUME LoadIInv, StopQueue
  PROVE  LoadIInv'
<1>1. /\ at = "stop" /\ at' = "done" /\ dataLimit' = dataLimit /\ data' = data
      /\ expired' = expired /\ counted' = counted
      /\ accepted' = accepted /\ running' = running /\ stop' = TRUE
  BY DEF StopQueue, SetStop
<1>2. LimiterInv'
  BY <1>1, Flags_Inv DEF StopQueue, SetStop, LoadIInv, LimiterInv, LimiterTypeOK
<1>3. LoadTypeOK'
  BY <1>1, <1>2 DEF LoadIInv, LoadTypeOK, LimiterInv
<1>4. LimitInv'
  BY <1>1 DEF LoadIInv, LimitInv
<1> QED BY <1>2, <1>3, <1>4 DEF LoadIInv

\* The task does not move: the limiter, the clock, the end of the program, the
\* end of the time limit.
LEMMA Others_Inv ==
  ASSUME LoadIInv, LimiterInv', UNCHANGED <<at, dataLimit, data, counted>>,
         expired' \in BOOLEAN, accepted' = accepted \/ at = "script",
         running' => running, expired => expired'
  PROVE  LoadIInv'
<1>1. LoadTypeOK'
  BY DEF LoadIInv, LoadTypeOK, LimiterInv
<1>2. LimitInv'
  <2>1. CASE at = "script"
    BY <2>1 DEF LoadIInv, LimitInv
  <2>2. CASE accepted' = accepted
    BY <2>2 DEF LoadIInv, LimitInv
  <2> QED BY <2>1, <2>2
<1> QED BY <1>1, <1>2 DEF LoadIInv

LEMMA LoadStep_Inv ==
  ASSUME LoadIInv, [LoadNext]_loadVars
  PROVE  LoadIInv'
<1>0. expired \in BOOLEAN /\ LimiterInv
  BY DEF LoadIInv, LoadTypeOK
<1>1. CASE Load
  BY <1>1, Fill_Inv, LeaveLoop_Inv, SendArray_Inv, SendLast_Inv, SendFails_Inv,
     AfterRetry_Inv, StopQueue_Inv DEF Load
<1>2. CASE Expire
  <2>1. LimiterInv'
    BY <1>2, Task_Inv DEF Expire
  <2> QED BY <1>2, <2>1, Others_Inv DEF Expire, vars, userVars
<1>3. CASE at = "script" /\ Script /\ UNCHANGED taskVars
  <2>1. LimiterInv'
    BY <1>0, <1>3, Script_Inv
  <2>2. running' = running
    BY <1>3 DEF Script, UserSend, UserStop, enqueue, SetStop
  <2> QED BY <1>0, <1>3, <2>1, <2>2, Others_Inv DEF taskVars
<1>4. CASE (Limiter \/ Tick) /\ UNCHANGED taskVars
  <2>1. LimiterInv'
    BY <1>0, <1>4, Limiter_Inv, Tick_Inv
  <2>2. running' = running /\ accepted' = accepted
    BY <1>4 DEF Limiter, Tick, userVars
  <2> QED BY <1>0, <1>4, <2>1, <2>2, Others_Inv DEF taskVars
<1>5. CASE Shutdown /\ UNCHANGED taskVars
  <2>1. running' = FALSE /\ stop' = stop /\ accepted' = accepted
    BY <1>5 DEF Shutdown
  <2>2. stop' \in BOOLEAN
    BY <1>0, <2>1 DEF LimiterInv, LimiterTypeOK
  <2>3. LimiterInv'
    BY <1>0, <1>5, <2>1, <2>2, Flags_Inv, Zenon DEF Shutdown
  <2> QED BY <1>0, <1>5, <2>1, <2>3, Others_Inv DEF taskVars
<1>6. CASE UNCHANGED loadVars
  <2>1. UNCHANGED vars /\ UNCHANGED taskVars
    BY <1>6 DEF loadVars
  <2>2. LimiterInv'
    BY <2>1, Task_Inv
  <2> QED BY <1>0, <2>1, <2>2, Others_Inv DEF taskVars, vars, userVars
<1> QED BY <1>1, <1>2, <1>3, <1>4, <1>5, <1>6 DEF LoadNext

-----------------------------------------------------------------------------
\* LoadIInv is an invariant of the limiter and its user.
THEOREM LoadInvariant == LoadSpec => []LoadIInv
<1>1. LoadInit => LoadIInv
  BY LoadInit_Inv
<1>2. LoadIInv /\ [LoadNext]_loadVars => LoadIInv'
  BY LoadStep_Inv
<1> QED BY <1>1, <1>2, PTL DEF LoadSpec

\* The limiter loses, duplicates and reorders no packet: what the ring accepted
\* is what the NIC took, then what the main loop holds, then what is in the ring.
THEOREM LimiterLosesNothing == LoadSpec => []NothingLost
<1>1. LoadIInv => NothingLost
  BY DEF LoadIInv, LimiterInv
<1> QED BY <1>1, LoadInvariant, PTL

\* In none of the three main loops a packet leaves before the gaps of its
\* predecessors have passed, counted from the start or from the last time the
\* schedule was more than RESTART behind.
THEOREM RateIsBounded == LoadSpec => []RateCeiling
<1>1. LoadIInv => RateCeiling
  BY DEF LoadIInv, LimiterInv
<1> QED BY <1>1, LoadInvariant, PTL

\* loadThread hands exactly dataLimit packets to its limiter, unless the program
\* or the time limit ends it, whatever the size of its arrays.
THEOREM DataLimitIsRespected == LoadSpec => []LimitRespected
<1>1. LoadIInv => LimitRespected
  <2> SUFFICES ASSUME LoadIInv, dataLimit # NoLimit
               PROVE  /\ Len(accepted) <= dataLimit
                      /\ at \in {"stop", "done"} /\ running /\ ~expired
                           => Len(accepted) = dataLimit
    BY DEF LimitRespected
  <2>1. at \in {"loop", "send", "last", "retry", "retryLast", "stop", "done"}
    BY DEF LoadIInv, LoadTypeOK, LimitInv
  <2> QED BY <2>1, TaskFacts DEF LoadIInv, LimitInv
<1> QED BY <1>1, LoadInvariant, PTL

=============================================================================
