--------------------------- MODULE LaunchTimestamp --------------------------
(***************************************************************************)
(* DelayEmulator (src/launch-timestamp.cpp, lua/launch-timestamp.lua): the  *)
(* packets of a ring carry the time at which they are to leave.  The        *)
(* transmit loop never reads a clock after its start: it knows the time at  *)
(* which one frame left, keeps the wire busy with fillers, and takes the    *)
(* number of bytes sent since that frame for the time.  It composes         *)
(* RateLimiterCRC, which makes the gaps send_batch asks for.                *)
(*                                                                          *)
(* One byte takes NS_NUM / NS_DEN nanoseconds (NANOSECONDS_PER_BYTE).       *)
(***************************************************************************)
EXTENDS CrcRateControl

CONSTANTS
  NS_NUM, NS_DEN,
  LATE,                \* packets later than this are dropped (100000 ns)
  IDLE_SIZE,           \* filler size while the ring is empty (1500)
  BATCH_SIZE,          \* filler size limit while sending a batch (9000)
  BURST,               \* frames per empty_delay or timestamp call (64)
  WARMUP,              \* calls before and after the timestamped frame (100)
  RING_SIZE,           \* capacity of packet_ring
  FirstTimestamps,     \* times the NIC may report for that frame
  Bufs,                \* arrays a task may pass to launchTimer:send
  MaxPackets, MaxBytes \* no send and no idle fillers above these totals

ASSUME LaunchAssumption ==
  /\ NS_NUM \in Nat \ {0} /\ NS_DEN \in Nat \ {0} /\ LATE \in Nat
  /\ InvalidSizes = {IDLE_SIZE, BATCH_SIZE}
  /\ BURST \in Nat \ {0} /\ WARMUP \in Nat /\ RING_SIZE \in Nat
  /\ FirstTimestamps \subseteq Nat
  /\ Bufs \subseteq Seq([goal : Nat, len : Nat])
  /\ MaxPackets \in Nat /\ MaxBytes \in Nat

VARIABLES
  running,              \* libmoon::is_running(0)
  packet_ring,
  at,                   \* where transmit_loop stands
  transmit_pkts,        \* the batch dequeued
  planned,              \* its entries as send_batch rewrites them
  current_byte_offset,
  first_timestamp,
  base,                 \* history: bytes sent before the timestamped frame
  ends,                 \* history: current_byte_offset around each entry
  accepted, dropped     \* history: packets enqueued, packets freed as late

loopVars == <<running, packet_ring, at, transmit_pkts, planned,
              current_byte_offset, first_timestamp, base, ends, accepted,
              dropped>>
vars == <<crcVars, loopVars>>

Init ==
  /\ CrcInit
  /\ running = TRUE
  /\ packet_ring = <<>>
  /\ at = "start"
  /\ transmit_pkts = <<>> /\ planned = <<>>
  /\ current_byte_offset = 0
  /\ first_timestamp = 0
  /\ base = 0
  /\ ends = <<>>
  /\ accepted = 0 /\ dropped = 0

-----------------------------------------------------------------------------
(***************************************************************************)
(* The other tasks.                                                         *)
(***************************************************************************)
send_Partial(bufs) ==
  /\ accepted + Len(bufs) <= MaxPackets
  /\ Len(packet_ring) < RING_SIZE
  /\ packet_ring' = SubSeq(packet_ring \o bufs, 1,
                           IF Len(packet_ring) + Len(bufs) > RING_SIZE
                           THEN RING_SIZE ELSE Len(packet_ring) + Len(bufs))
  /\ accepted' = accepted + Len(bufs)
  /\ UNCHANGED <<crcVars, running, at, transmit_pkts, planned,
                 current_byte_offset, first_timestamp, base, ends, dropped>>

\* launchTimer:send and sendN, the attempt at which the ring takes the whole
\* array; until then, or until the program stops, it is repeated.
send(bufs) ==
  /\ accepted + Len(bufs) <= MaxPackets
  /\ Len(packet_ring) + Len(bufs) <= RING_SIZE
  /\ packet_ring' = packet_ring \o bufs
  /\ accepted' = accepted + Len(bufs)
  /\ UNCHANGED <<crcVars, running, at, transmit_pkts, planned,
                 current_byte_offset, first_timestamp, base, ends, dropped>>

Stop ==
  /\ running
  /\ running' = FALSE
  /\ UNCHANGED <<crcVars, packet_ring, at, transmit_pkts, planned,
                 current_byte_offset, first_timestamp, base, ends, accepted,
                 dropped>>

-----------------------------------------------------------------------------
(***************************************************************************)
(* transmit_loop.                                                           *)
(***************************************************************************)
\* Warm-up, the timestamped frame, the wait for its timestamp.
Start ==
  LET burst == EmptyDelayFrames(BURST, IDLE_SIZE)
      warmup == EmptyDelayFrames(WARMUP * BURST, IDLE_SIZE)
  IN /\ at = "start"
     /\ at' = "poll"
     /\ invalid_packet_size' = IDLE_SIZE
     /\ tx' = Add(Add(tx, warmup), Add(burst, warmup))
     /\ base' = tx.bytes + warmup.bytes
     /\ current_byte_offset' = burst.bytes + warmup.bytes
     /\ first_timestamp' \in FirstTimestamps
     /\ UNCHANGED <<previous_missing_delay, pc, load_pkts, i, delay, pkts,
                    num_bad, bad_sent, lost, asked, running, packet_ring,
                    transmit_pkts, planned, ends, accepted, dropped>>

\* The loop condition is read once per iteration.
Leave ==
  /\ at = "poll"
  /\ ~running
  /\ at' = "done"
  /\ UNCHANGED <<crcVars, running, packet_ring, transmit_pkts, planned,
                 current_byte_offset, first_timestamp, base, ends, accepted,
                 dropped>>

Dequeue_FullBatches ==
  /\ at = "poll"
  /\ running
  /\ Len(packet_ring) >= TRANSMIT_BUFFER_SIZE
  /\ at' = "plan"
  /\ transmit_pkts' = SubSeq(packet_ring, 1, TRANSMIT_BUFFER_SIZE)
  /\ packet_ring' = SubSeq(packet_ring, TRANSMIT_BUFFER_SIZE + 1, Len(packet_ring))
  /\ planned' = <<>>
  /\ ends' = <<current_byte_offset>>
  /\ set_invalid_packet_size(BATCH_SIZE)
  /\ UNCHANGED <<running, current_byte_offset, first_timestamp, base,
                 accepted, dropped>>

\* rte_ring_sc_dequeue_burst returned packets.
Dequeue ==
  LET rx == IF Len(packet_ring) < TRANSMIT_BUFFER_SIZE
            THEN Len(packet_ring) ELSE TRANSMIT_BUFFER_SIZE
  IN /\ at = "poll"
     /\ running
     /\ packet_ring # <<>>
     /\ at' = "plan"
     /\ transmit_pkts' = SubSeq(packet_ring, 1, rx)
     /\ packet_ring' = SubSeq(packet_ring, rx + 1, Len(packet_ring))
     /\ planned' = <<>>
     /\ ends' = <<current_byte_offset>>
     /\ set_invalid_packet_size(BATCH_SIZE)
     /\ UNCHANGED <<running, current_byte_offset, first_timestamp, base,
                    accepted, dropped>>

\* The ring was empty: the wire is kept busy.
Idle ==
  LET burst == EmptyDelayFrames(BURST, IDLE_SIZE)
  IN /\ at = "poll"
     /\ running
     /\ packet_ring = <<>>
     /\ tx.bytes < MaxBytes
     /\ invalid_packet_size' = IDLE_SIZE
     /\ tx' = Add(tx, burst)
     /\ current_byte_offset' = current_byte_offset + burst.bytes
     /\ UNCHANGED <<previous_missing_delay, pc, load_pkts, i, delay, pkts,
                    num_bad, bad_sent, lost, asked, running, packet_ring, at,
                    transmit_pkts, planned, first_timestamp, base, ends,
                    accepted, dropped>>

-----------------------------------------------------------------------------
(***************************************************************************)
(* send_batch: one iteration of its loop, then the call of send_packets.    *)
(***************************************************************************)
\* The time b bytes take, and the bytes that fit into a time.
ByteTime(b) == (b * NS_NUM) \div NS_DEN

CurrentSendingTime == first_timestamp + ByteTime(current_byte_offset)

DelayBytes_RoundsUp(diff) == (diff * NS_DEN + NS_NUM - 1) \div NS_NUM

DelayBytes(diff) == (diff * NS_DEN) \div NS_NUM

\* The next entry of the batch becomes entry, taking bytes of the wire.
Plan(entry, bytes) ==
  /\ planned' = Append(planned, entry)
  /\ current_byte_offset' = current_byte_offset + bytes
  /\ ends' = Append(ends, current_byte_offset')
  /\ UNCHANGED <<crcVars, running, packet_ring, at, transmit_pkts,
                 first_timestamp, base, accepted>>

NextPlanned == transmit_pkts[Len(planned) + 1]

PlanDrop ==
  /\ at = "plan"
  /\ Len(planned) < Len(transmit_pkts)
  /\ NextPlanned.goal - CurrentSendingTime < -LATE
  /\ Plan(NULL, 0)
  /\ dropped' = dropped + 1

\* Slightly late: sent without a gap.
PlanLate ==
  /\ at = "plan"
  /\ Len(planned) < Len(transmit_pkts)
  /\ NextPlanned.goal - CurrentSendingTime \in -LATE .. -1
  /\ Plan([gap |-> 0, len |-> NextPlanned.len], NextPlanned.len + PACKET_OVERHEAD)
  /\ UNCHANGED dropped

PlanDelay ==
  /\ at = "plan"
  /\ Len(planned) < Len(transmit_pkts)
  /\ NextPlanned.goal >= CurrentSendingTime
  /\ LET delay_bytes == DelayBytes(NextPlanned.goal - CurrentSendingTime)
     IN Plan([gap |-> delay_bytes, len |-> NextPlanned.len],
             NextPlanned.len + PACKET_OVERHEAD + delay_bytes)
  /\ UNCHANGED dropped

SendBatch ==
  /\ at = "plan"
  /\ Len(planned) = Len(transmit_pkts)
  /\ at' = "send"
  /\ send_packets(planned)
  /\ UNCHANGED <<running, packet_ring, transmit_pkts, planned,
                 current_byte_offset, first_timestamp, base, ends, accepted,
                 dropped>>

\* send_packets runs, and returns to the loop.
Sending ==
  /\ at = "send"
  /\ SendPacketsStep
  /\ at' = IF pc' = "idle" THEN "poll" ELSE "send"
  /\ UNCHANGED <<running, packet_ring, transmit_pkts, planned,
                 current_byte_offset, first_timestamp, base, ends, accepted,
                 dropped>>

TransmitLoop ==
  \/ Start \/ Leave \/ Dequeue \/ Idle
  \/ PlanDrop \/ PlanLate \/ PlanDelay \/ SendBatch \/ Sending

Next == (\E bufs \in Bufs : send(bufs)) \/ Stop \/ TransmitLoop

Spec == Init /\ [][Next]_vars /\ WF_vars(TransmitLoop)

-----------------------------------------------------------------------------
LoopTypeOK ==
  /\ CrcTypeOK
  /\ running \in BOOLEAN
  /\ packet_ring \in Seq([goal : Nat, len : Nat]) /\ Len(packet_ring) <= RING_SIZE
  /\ at \in {"start", "poll", "plan", "send", "done"}
  /\ transmit_pkts \in Seq([goal : Nat, len : Nat])
  /\ Len(transmit_pkts) <= TRANSMIT_BUFFER_SIZE
  /\ planned \in Seq(LoadPacket \cup {NULL})
  /\ current_byte_offset \in Nat /\ first_timestamp \in Nat /\ base \in Nat
  /\ ends \in Seq(Nat)
  /\ accepted \in Nat /\ dropped \in Nat

\* Bytes that left after the start of the timestamped frame, up to the end of
\* the local array; what send_packets lost never reached the wire.
WireOffset == tx.bytes + pkts.bytes - base

\* The byte counter the loop takes for its clock never drifts from the wire:
\* between batches they differ by the gap RateLimiterCRC still carries, and by
\* the frames send_packets lost.
OffsetTracksWire ==
  at = "poll" =>
    current_byte_offset = WireOffset + lost.bytes + previous_missing_delay

\* As long as no frame was lost, a packet that is about to leave starts, but for
\* the gap below MinGap that is carried over to the next one, less than a byte
\* before its goal and, unless send_batch found it late, less than one nanosecond
\* after it: the truncations of a batch and of the batches before do not add up.
OnTime ==
  pc = "fill" /\ delay < MinGap /\ lost = NoFrames =>
    LET goal == transmit_pkts[i].goal - first_timestamp
        late == goal < ByteTime(ends[i])
        start == WireOffset + delay
    IN /\ (start + 1) * NS_NUM > goal * NS_DEN
       /\ ~late => start * NS_NUM < (goal + 1) * NS_DEN

\* Every packet the ring accepted is in the ring, was dropped as late, was
\* handed to the NIC, or was lost by send_packets.
PacketsAccounted ==
  at \in {"start", "poll", "done"} =>
    accepted = Len(packet_ring) + dropped + (tx.n - tx.bad) + (lost.n - lost.bad)

\* Stopping the program ends the transmit loop, whatever is in the ring, and
\* while the program runs, no packet waits in the ring for ever.
LoopServes ==
  /\ ~running ~> at = "done"
  /\ packet_ring # <<>> ~> (packet_ring = <<>> \/ ~running)

=============================================================================
