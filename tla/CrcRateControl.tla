--------------------------- MODULE CrcRateControl ---------------------------
(***************************************************************************)
(* RateLimiterCRC (src/crc-ratecontrol.cpp): spacing between frames is made *)
(* by putting invalid filler frames on the wire.  A packet asks for a gap   *)
(* of some bytes in front of it; send_packets turns the gap into fillers,   *)
(* carries what is too small for a frame to the next packet, and hands the  *)
(* frames to the NIC through a local array of TRANSMIT_BUFFER_SIZE.         *)
(*                                                                          *)
(* One send_packets call is split into the iterations of its two loops.     *)
(* A group of frames is abstracted to four totals: how many frames (n), how *)
(* many of them are fillers (bad), their bytes on the wire (bytes), and the *)
(* part of these bytes that fillers make (gap).                             *)
(***************************************************************************)
EXTENDS Integers, Sequences

CONSTANTS
  MIN_PACKET_SIZE,       \* gaps below it, plus overhead, are carried over
  DEVICE_MIN,            \* smallest frame of the NIC (64), without overhead
  PACKET_OVERHEAD,       \* preamble, inter-frame gap and CRC of one frame
  TRANSMIT_BUFFER_SIZE,  \* entries of the local array pkts (64)
  SPLIT_SLACK,           \* the 100 of get_delay_packet
  STAT_OVERHEAD,         \* the 20 bytes not counted in bad_bytes_sent
  InvalidSizes,          \* values invalid_packet_size takes (1500, 9000)
  NULL                   \* an entry of load_pkts deleted by the caller

\* The smallest gap that is filled, and the wire the smallest frame takes.
MinGap == MIN_PACKET_SIZE + PACKET_OVERHEAD
MinWire == DEVICE_MIN + PACKET_OVERHEAD

LoadPacket == [gap : Nat, len : Nat]

\* rateLimiterCRC's new never passes a MIN_PACKET_SIZE below that of the NIC.
\* At low rates it passes 84, with a filler size of 1500 far above; at the
\* default rate it passes floor(speed * 10^9 / 10^6 / 8 / 14.88) with the speed
\* in Mbit/s, 84005 on 10 GbE, far above every filler size.  So nothing is
\* assumed of MinGap and the filler sizes.
ASSUME CrcAssumption ==
  /\ NULL \notin LoadPacket
  /\ DEVICE_MIN \in Nat \ {0}
  /\ MIN_PACKET_SIZE \in Nat /\ MIN_PACKET_SIZE >= DEVICE_MIN
  /\ PACKET_OVERHEAD \in Nat
  /\ TRANSMIT_BUFFER_SIZE \in Nat \ {0}
  /\ SPLIT_SLACK \in Nat
  /\ STAT_OVERHEAD \in 0..PACKET_OVERHEAD
  /\ InvalidSizes # {}
  /\ InvalidSizes \subseteq Nat
  /\ \A s \in InvalidSizes : s >= 2 * MinWire /\ 2 * s >= SPLIT_SLACK

VARIABLES
  previous_missing_delay,  \* gap bytes carried to the next packet
  invalid_packet_size,     \* largest filler in use
  pc,                      \* where send_packets stands
  load_pkts, i,            \* its argument and its loop counter
  delay,                   \* gap still to fill before load_pkts[i]
  pkts,                    \* its local array, as totals
  num_bad,                 \* num_bad_pkts and num_bad_bytes
  bad_sent,                \* bad_pkts_sent[port] and bad_bytes_sent[port]
  tx,                      \* history: frames handed to the NIC
  lost,                    \* history: frames left in pkts by a return
  asked                    \* history: gap bytes of all packets taken so far

crcVars == <<previous_missing_delay, invalid_packet_size, pc, load_pkts, i,
             delay, pkts, num_bad, bad_sent, tx, lost, asked>>

Frames == [n : Nat, bad : Nat, bytes : Nat, gap : Nat]
NoFrames == [n |-> 0, bad |-> 0, bytes |-> 0, gap |-> 0]

Add(f, g) == [n     |-> f.n + g.n,         bad |-> f.bad + g.bad,
              bytes |-> f.bytes + g.bytes, gap |-> f.gap + g.gap]

\* One filler occupying w bytes of the wire, one load packet of length len.
Filler(w) == [n |-> 1, bad |-> 1, bytes |-> w, gap |-> w]
Packet(len) == [n |-> 1, bad |-> 0, bytes |-> len + PACKET_OVERHEAD, gap |-> 0]

-----------------------------------------------------------------------------
CrcInit ==
  /\ previous_missing_delay = 0
  /\ invalid_packet_size \in InvalidSizes
  /\ pc = "idle"
  /\ load_pkts = <<>>
  /\ i = 1
  /\ delay = 0
  /\ pkts = NoFrames
  /\ num_bad = [pkts |-> 0, bytes |-> 0]
  /\ bad_sent = [pkts |-> 0, bytes |-> 0]
  /\ tx = NoFrames
  /\ lost = NoFrames
  /\ asked = 0

set_invalid_packet_size(size) ==
  /\ pc = "idle"
  /\ invalid_packet_size' = size
  /\ UNCHANGED <<previous_missing_delay, pc, load_pkts, i, delay, pkts,
                 num_bad, bad_sent, tx, lost, asked>>

\* num fillers of the given size, as empty_delay and send_timestamp_packet make
\* them.  They are no part of a gap and the statistics do not count them.
EmptyDelayFrames(num, size) ==
  [n |-> num, bad |-> num, bytes |-> num * (size + PACKET_OVERHEAD), gap |-> 0]

empty_delay(num) ==
  /\ pc = "idle"
  /\ tx' = Add(tx, EmptyDelayFrames(num, invalid_packet_size))
  /\ UNCHANGED <<previous_missing_delay, invalid_packet_size, pc, load_pkts, i,
                 delay, pkts, num_bad, bad_sent, lost, asked>>

\* Entry of send_packets.
send_packets(load) ==
  /\ pc = "idle"
  /\ pc' = "loop"
  /\ load_pkts' = load
  /\ i' = 1
  /\ pkts' = NoFrames
  /\ num_bad' = [pkts |-> 0, bytes |-> 0]
  /\ UNCHANGED <<previous_missing_delay, invalid_packet_size, delay, bad_sent,
                 tx, lost, asked>>

SkipDeleted_NoAdvance ==
  /\ pc = "loop"
  /\ i <= Len(load_pkts)
  /\ load_pkts[i] = NULL
  /\ UNCHANGED crcVars

\* A deleted entry is skipped by continue.
SkipDeleted ==
  /\ pc = "loop"
  /\ i <= Len(load_pkts)
  /\ load_pkts[i] = NULL
  /\ i' = i + 1
  /\ UNCHANGED <<previous_missing_delay, invalid_packet_size, pc, load_pkts,
                 delay, pkts, num_bad, bad_sent, tx, lost, asked>>

TakePacket_ForgetsRemainder ==
  /\ pc = "loop"
  /\ i <= Len(load_pkts)
  /\ load_pkts[i] # NULL
  /\ delay' = load_pkts[i].gap
  /\ asked' = asked + load_pkts[i].gap
  /\ pc' = "fill"
  /\ UNCHANGED <<previous_missing_delay, invalid_packet_size, load_pkts, i,
                 pkts, num_bad, bad_sent, tx, lost>>

\* The gap in front of the packet includes what earlier packets left over.
TakePacket ==
  /\ pc = "loop"
  /\ i <= Len(load_pkts)
  /\ load_pkts[i] # NULL
  /\ delay' = load_pkts[i].gap + previous_missing_delay
  /\ asked' = asked + load_pkts[i].gap
  /\ pc' = "fill"
  /\ UNCHANGED <<previous_missing_delay, invalid_packet_size, load_pkts, i,
                 pkts, num_bad, bad_sent, tx, lost>>

get_delay_packet_AlwaysHalves(d) ==
  IF d <= invalid_packet_size THEN d ELSE d \div 2

\* Bytes of wire the next filler takes when d bytes are left to fill.
get_delay_packet(d) ==
  IF d <= invalid_packet_size THEN d
  ELSE IF d > 2 * invalid_packet_size - SPLIT_SLACK THEN invalid_packet_size
  ELSE d \div 2

\* The array goes to the NIC (dpdk_send_all_packets returns only when the
\* NIC has taken every frame) when it is full or the caller says so.
PutFrames(f, last) ==
  LET b == Add(pkts, f)
  IN IF b.n >= TRANSMIT_BUFFER_SIZE \/ last
     THEN tx' = Add(tx, b) /\ pkts' = NoFrames
     ELSE pkts' = b /\ UNCHANGED tx

\* Step 1 of the loop body: one filler.
SendFiller ==
  LET w == get_delay_packet(delay)
  IN /\ pc = "fill"
     /\ delay >= MinGap
     /\ delay' = delay - w
     /\ PutFrames(Filler(w), FALSE)
     /\ num_bad' = [pkts  |-> num_bad.pkts + 1,
                    bytes |-> num_bad.bytes + w - STAT_OVERHEAD]
     /\ UNCHANGED <<previous_missing_delay, invalid_packet_size, pc, load_pkts,
                    i, bad_sent, lost, asked>>

SendPacket_NoLastFlush ==
  /\ pc = "fill"
  /\ delay < MinGap
  /\ previous_missing_delay' = delay
  /\ PutFrames(Packet(load_pkts[i].len), FALSE)
  /\ i' = i + 1
  /\ pc' = "loop"
  /\ UNCHANGED <<invalid_packet_size, load_pkts, delay, num_bad, bad_sent,
                 lost, asked>>

\* Step 2 of the loop body: the packet itself.
SendPacket ==
  /\ pc = "fill"
  /\ delay < MinGap
  /\ previous_missing_delay' = delay
  /\ PutFrames(Packet(load_pkts[i].len), i = Len(load_pkts))
  /\ i' = i + 1
  /\ pc' = "loop"
  /\ UNCHANGED <<invalid_packet_size, load_pkts, delay, num_bad, bad_sent,
                 lost, asked>>

\* The call ends: whatever is still in the local array is gone.
Return ==
  /\ pc = "loop"
  /\ i > Len(load_pkts)
  /\ pc' = "idle"
  /\ bad_sent' = [pkts  |-> bad_sent.pkts + num_bad.pkts,
                  bytes |-> bad_sent.bytes + num_bad.bytes]
  /\ lost' = Add(lost, pkts)
  /\ pkts' = NoFrames
  /\ UNCHANGED <<previous_missing_delay, invalid_packet_size, load_pkts, i,
                 delay, num_bad, tx, asked>>

\* The steps send_packets takes once it has been called.
SendPacketsStep ==
  \/ SkipDeleted
  \/ TakePacket
  \/ SendFiller
  \/ SendPacket
  \/ Return

-----------------------------------------------------------------------------
CrcTypeOK ==
  /\ previous_missing_delay \in Nat
  /\ invalid_packet_size \in InvalidSizes
  /\ pc \in {"idle", "loop", "fill"}
  /\ load_pkts \in Seq(LoadPacket \cup {NULL})
  /\ i \in 1 .. Len(load_pkts) + 1
  /\ delay \in Nat
  /\ pkts \in Frames /\ tx \in Frames /\ lost \in Frames
  /\ num_bad \in [pkts : Nat, bytes : Nat]
  /\ bad_sent \in [pkts : Nat, bytes : Nat]
  /\ asked \in Nat

\* Gap bytes that have been turned into fillers.
Filled == tx.gap + pkts.gap + lost.gap

\* Spacing is neither lost nor invented over any sequence of calls: between
\* two packets the fillers made so far fall short of the gaps asked for by
\* less than MinGap (previous_missing_delay carries the rest), so no packet is
\* late and none is early by MinGap bytes.  Fillers that a return left behind
\* with a deleted tail were made, and count.
SpacingKept ==
  pc # "fill" => asked - Filled \in 0 .. MinGap - 1

\* Every filler get_delay_packet makes is a frame the NIC can send: not below
\* the NIC's minimal frame, not above invalid_packet_size, and never more than
\* the gap, whether MIN_PACKET_SIZE is below the filler sizes (low rates) or
\* above them (the default rate).
FillersValid ==
  pc = "fill" /\ delay >= MinGap =>
    /\ get_delay_packet(delay) \in MinWire .. invalid_packet_size
    /\ get_delay_packet(delay) <= delay

\* pkts[send_buf_idx++] is always inside the local array: both places that
\* append leave it at least one free entry.
BufferBound == pkts.n < TRANSMIT_BUFFER_SIZE

\* The counters hookTxStats subtracts (getTxStats) are, between calls, those
\* of exactly the fillers that were made to keep the spacing.
StatsMatchFillers ==
  pc = "idle" =>
    /\ bad_sent.bytes + STAT_OVERHEAD * bad_sent.pkts = tx.gap + lost.gap
    /\ bad_sent.bytes + STAT_OVERHEAD * bad_sent.pkts + previous_missing_delay
         = asked

\* A call leaves frames behind in its local array only if the caller deleted
\* the last packet of the batch.
LossNeedsDeletedTail ==
  [][lost' # lost => load_pkts[Len(load_pkts)] = NULL]_crcVars

\* The filler loop and the packet loop of send_packets end.
SendTerminates == pc # "idle" ~> pc = "idle"

=============================================================================
