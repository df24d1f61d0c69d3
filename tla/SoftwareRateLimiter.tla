------------------------- MODULE SoftwareRateLimiter ------------------------
(***************************************************************************)
(* The software rate limiter (src/software-rate-limiter.cpp and             *)
(* lua/software-ratecontrol.lua): a task of its own takes packets from a    *)
(* ring, in which the user's task puts them, and sends each at its time.    *)
(* main_loop, main_loop_poisson and main_loop_cbr differ in how much they   *)
(* dequeue and in the gap of a packet; the mode selects the loop.           *)
(*                                                                          *)
(* Time is the TSC, in ticks.  ring_dequeue returns all the packets asked   *)
(* for or none.                                                             *)
(***************************************************************************)
EXTENDS Integers, Sequences

CONSTANTS
  Modes,        \* the modes a limiter may be created with
  batch_size,
  RING_SIZE,
  RESTART,      \* ticks of 10 ms, after which rate control restarts
  CbrGap,       \* id_cycles of the mode cbr
  PoissonGaps,  \* values pkt_time + delay may take in the mode poisson
  CustomGaps,   \* id_cycles a packet may ask for in the mode custom
  MaxSend,      \* packets of one send call
  MaxPackets,   \* no send above this total
  MaxTime       \* time passes beyond this only while a packet waits for it

ASSUME LimiterAssumption ==
  /\ Modes \subseteq {"custom", "poisson", "cbr"}
  /\ batch_size \in Nat \ {0}
  /\ RING_SIZE \in Nat /\ RESTART \in Nat
  /\ CbrGap \in Nat /\ PoissonGaps \subseteq Nat /\ CustomGaps \subseteq Nat
  /\ MaxSend \in Nat /\ MaxPackets \in Nat /\ MaxTime \in Nat

VARIABLES
  running,         \* libmoon::is_running(0), mg.running()
  mode,
  stop,            \* ctl->stop
  count,           \* ctl->count
  ring,
  pc,              \* where the main loop stands
  cur_batch_size,
  bufs, i,         \* the batch dequeued and the packet in turn
  now,             \* rte_get_tsc_cycles()
  next_send,
  accepted,        \* history: packets the ring took, in order
  sent,            \* history: packets the NIC took, in order
  epoch, owed,     \* history: start of the schedule, gaps of the packets since
  spent            \* history: the part of owed due before the last packet

userVars == <<running, stop, accepted>>
limiterVars == <<mode, count, pc, cur_batch_size, bufs, i, next_send, sent,
                 epoch, owed, spent>>

Packet == [id : Nat, gap : Nat]

\* When the first packet may leave.
FirstSend == IF mode = "custom" THEN now ELSE 0

LimiterInit ==
  /\ running = TRUE
  /\ mode \in Modes
  /\ stop = FALSE
  /\ count = 0
  /\ ring = <<>>
  /\ pc = "head"
  /\ cur_batch_size = batch_size
  /\ bufs = <<>> /\ i = 1
  /\ now \in 0 .. 1
  /\ next_send = FirstSend
  /\ accepted = <<>> /\ sent = <<>>
  /\ epoch = next_send /\ owed = 0 /\ spent = 0

-----------------------------------------------------------------------------
(***************************************************************************)
(* The user's task.                                                         *)
(***************************************************************************)
\* The attempt of rateLimiter:send and sendN that succeeds: the ring takes all
\* packets or none.
enqueue(pkts) ==
  /\ Len(ring) + Len(pkts) <= RING_SIZE
  /\ ring' = ring \o pkts
  /\ accepted' = accepted \o pkts
  /\ UNCHANGED <<running, stop>>

\* rateLimiter:stop
SetStop ==
  /\ stop' = TRUE
  /\ UNCHANGED <<running, ring, accepted>>

-----------------------------------------------------------------------------
(***************************************************************************)
(* The limiter's task.                                                      *)
(***************************************************************************)
ctl_running == running /\ ~stop

\* while (libmoon::is_running(0))
LoopHead ==
  /\ pc = "head"
  /\ pc' = IF running THEN "dequeue" ELSE "done"
  /\ cur_batch_size' = batch_size
  /\ UNCHANGED <<ring, mode, count, bufs, i, next_send, sent, epoch, owed, spent>>

\* The history of the gaps begins anew when their schedule is more than RESTART
\* behind, whatever the code does with next_send.
Recount ==
  IF mode # "custom" /\ now - (epoch + owed) > RESTART
  THEN epoch' = now /\ owed' = 0 /\ spent' = 0
  ELSE UNCHANGED <<epoch, owed, spent>>

\* Without the casts to int64_t a next_send in the future looks long past.
Restart_Unsigned ==
  /\ next_send' = IF /\ mode # "custom"
                     /\ now < next_send \/ now - next_send > RESTART
                  THEN now ELSE next_send
  /\ Recount

\* "nothing sent for 10 ms, restart rate control": not in the mode custom.
Restart ==
  /\ next_send' = IF mode # "custom" /\ now - next_send > RESTART
                  THEN now ELSE next_send
  /\ Recount

Dequeue_SkipsOne ==
  /\ pc = "dequeue"
  /\ Len(ring) >= cur_batch_size
  /\ bufs' = SubSeq(ring, 1, cur_batch_size)
  /\ ring' = SubSeq(ring, cur_batch_size + 2, Len(ring))
  /\ i' = 1
  /\ pc' = "send"
  /\ Restart
  /\ UNCHANGED <<mode, count, cur_batch_size, sent>>

\* ring_dequeue succeeded.
Dequeue ==
  /\ pc = "dequeue"
  /\ Len(ring) >= cur_batch_size
  /\ bufs' = SubSeq(ring, 1, cur_batch_size)
  /\ ring' = SubSeq(ring, cur_batch_size + 1, Len(ring))
  /\ i' = 1
  /\ pc' = "send"
  /\ Restart
  /\ UNCHANGED <<mode, count, cur_batch_size, sent>>

Halve_StopsAtTwo ==
  /\ pc = "dequeue"
  /\ Len(ring) < cur_batch_size
  /\ mode = "custom" /\ cur_batch_size > 2
  /\ cur_batch_size' = cur_batch_size \div 2
  /\ UNCHANGED <<ring, mode, count, pc, bufs, i, next_send, sent, epoch, owed,
                 spent>>

\* The mode custom tries again with half as many.
Halve ==
  /\ pc = "dequeue"
  /\ Len(ring) < cur_batch_size
  /\ mode = "custom" /\ cur_batch_size > 1
  /\ cur_batch_size' = cur_batch_size \div 2
  /\ UNCHANGED <<ring, mode, count, pc, bufs, i, next_send, sent, epoch, owed,
                 spent>>

\* Nothing was dequeued.
DequeueNone ==
  /\ pc = "dequeue"
  /\ Len(ring) < cur_batch_size
  /\ mode # "custom" \/ cur_batch_size = 1
  /\ pc' = "none"
  /\ Restart
  /\ UNCHANGED <<ring, mode, count, cur_batch_size, bufs, i, sent>>

\* else if (!ctl->running()) return
CheckStop ==
  /\ pc = "none"
  /\ pc' = IF ctl_running THEN "head" ELSE "done"
  /\ UNCHANGED <<ring, mode, count, cur_batch_size, bufs, i, next_send, sent,
                 epoch, owed, spent>>

\* The gap of a packet, which main_loop puts before and the others behind it.
Gaps(p) ==
  IF mode = "cbr" THEN {CbrGap}
  ELSE IF mode = "poisson" THEN PoissonGaps ELSE {p.gap}

DueTime == IF mode = "custom" THEN next_send + bufs[i].gap ELSE next_send

\* The busy wait for the packet's time.
Wait ==
  /\ pc = "send"
  /\ now >= DueTime
  /\ \E gap \in Gaps(bufs[i]) :
       /\ next_send' = next_send + gap
       /\ owed' = owed + gap
       /\ spent' = IF mode = "custom" THEN owed' ELSE owed
  /\ pc' = "tx"
  /\ UNCHANGED <<ring, mode, count, cur_batch_size, bufs, i, sent, epoch>>

\* rte_eth_tx_burst took the packet.
TxTaken ==
  /\ pc = "tx"
  /\ sent' = Append(sent, bufs[i])
  /\ i' = i + 1
  /\ pc' = IF i = Len(bufs) THEN "count" ELSE "send"
  /\ UNCHANGED <<ring, mode, count, cur_batch_size, bufs, next_send, epoch,
                 owed, spent>>

\* It did not, and the limiter is to stop; otherwise it is tried again.
TxRefused ==
  /\ pc = "tx"
  /\ ~ctl_running
  /\ pc' = "done"
  /\ UNCHANGED <<ring, mode, count, cur_batch_size, bufs, i, next_send, sent,
                 epoch, owed, spent>>

count_packets ==
  /\ pc = "count"
  /\ count' = count + Len(bufs)
  /\ pc' = "head"
  /\ UNCHANGED <<ring, mode, cur_batch_size, bufs, i, next_send, sent, epoch,
                 owed, spent>>

LimiterStep ==
  \/ LoopHead \/ Dequeue \/ Halve \/ DequeueNone \/ CheckStop
  \/ Wait \/ TxTaken \/ TxRefused \/ count_packets

Limiter == LimiterStep /\ UNCHANGED <<userVars, now>>

Tick ==
  /\ now < MaxTime \/ (pc = "send" /\ now < DueTime)
  /\ now' = now + 1
  /\ UNCHANGED <<userVars, ring, limiterVars>>

-----------------------------------------------------------------------------
(***************************************************************************)
(* A user's task that sends and stops the limiter when it likes to; once it *)
(* has, it "must not continue to use" the limiter.                          *)
(***************************************************************************)
Numbered(gaps) == [k \in 1 .. Len(gaps) |-> [id |-> Len(accepted) + k, gap |-> gaps[k]]]

UserSend ==
  /\ ~stop
  /\ \E n \in 1 .. MaxSend : \E gaps \in [1 .. n -> CustomGaps] :
       /\ Len(accepted) + n <= MaxPackets
       /\ enqueue(Numbered(gaps))
  /\ UNCHANGED <<limiterVars, now>>

UserStop ==
  /\ ~stop
  /\ SetStop
  /\ UNCHANGED <<limiterVars, now>>

Script == UserSend \/ UserStop

\* The program ends.
Shutdown ==
  /\ running
  /\ running' = FALSE
  /\ UNCHANGED <<stop, accepted, ring, limiterVars, now>>

vars == <<userVars, ring, limiterVars, now>>

-----------------------------------------------------------------------------
LimiterTypeOK ==
  /\ running \in BOOLEAN /\ stop \in BOOLEAN
  /\ mode \in Modes
  /\ count \in Nat
  /\ ring \in Seq(Packet) /\ Len(ring) <= RING_SIZE
  /\ pc \in {"head", "dequeue", "none", "send", "tx", "count", "done"}
  /\ cur_batch_size \in 1 .. batch_size
  /\ bufs \in Seq(Packet) /\ Len(bufs) <= batch_size
  /\ i \in 1 .. Len(bufs) + 1
  /\ pc \in {"send", "tx"} => i <= Len(bufs)
  /\ now \in Nat /\ next_send \in Nat
  /\ accepted \in Seq(Packet) /\ sent \in Seq(Packet)
  /\ epoch \in Nat /\ owed \in Nat /\ spent \in Nat

\* Packets dequeued and not yet taken by the NIC.
InHand == SubSeq(bufs, i, Len(bufs))

\* The limiter loses, duplicates and reorders nothing: what the ring accepted
\* is what the NIC took, then what the limiter holds, then what is in the ring.
NothingLost == accepted = sent \o InHand \o ring

\* No packet leaves before its time: at least the gaps of the packets before the
\* last one sent have passed, counted from the start or from the last time the
\* schedule was more than RESTART behind, however late single packets were.  Only
\* then rate control may begin anew, and never ahead of the clock.
RateCeiling == now >= epoch + spent

=============================================================================
