------------------------ MODULE CrcRateControl_proofs -----------------------
(***************************************************************************)
(* Proofs about RateLimiterCRC. First its invariant: every operation        *)
(* preserves it, whoever calls it. Then its safety for the direct callers,  *)
(* for every frame size, buffer size and batch. Last DelayEmulator's: its   *)
(* byte counter is a clock that never drifts from the wire, so packets      *)
(* leave on time, for every line rate, frame size, batch and goal.          *)
(***************************************************************************)
EXTENDS LaunchTimestamp, CrcSender, TLAPS

\* Fillers counted in the statistics so far.
Counted ==
  bad_sent.bytes + STAT_OVERHEAD * bad_sent.pkts +
    IF pc = "idle" THEN 0
    ELSE num_bad.bytes + STAT_OVERHEAD * num_bad.pkts

\* The inductive invariant: the gap in progress (delay while a packet is being
\* spaced, previous_missing_delay otherwise) is exactly what the fillers still
\* owe, and the array is empty once the last entry of a batch was a packet.
CrcIInv ==
  /\ CrcTypeOK
  /\ pkts.n < TRANSMIT_BUFFER_SIZE
  /\ pc = "fill" => /\ i <= Len(load_pkts)
                    /\ load_pkts[i] # NULL
                    /\ Filled + delay = asked
  /\ pc # "fill" => /\ previous_missing_delay < MinGap
                    /\ Filled + previous_missing_delay = asked
  /\ pc = "idle" => pkts = NoFrames
  /\ pc = "loop" /\ i = 1 => pkts = NoFrames
  /\ pc = "loop" /\ i > 1 /\ i > Len(load_pkts) /\ load_pkts[i - 1] # NULL
       => pkts = NoFrames
  /\ Counted = Filled

\* What get_delay_packet returns: a frame the NIC can send, never more than
\* the gap.
LEMMA DelayPacketSize ==
  ASSUME invalid_packet_size \in InvalidSizes,
         NEW d \in Nat, d >= MinGap
  PROVE  get_delay_packet(d) \in Nat /\ get_delay_packet(d) >= MinWire
         /\ get_delay_packet(d) <= invalid_packet_size
         /\ get_delay_packet(d) <= d
<1>1. invalid_packet_size \in Nat /\ MinGap \in Nat /\ MinWire \in Nat
      /\ SPLIT_SLACK \in Nat /\ invalid_packet_size >= 2 * MinWire
      /\ MinGap >= MinWire
  BY CrcAssumption DEF MinGap, MinWire
<1>2. CASE d <= invalid_packet_size
  BY <1>1, <1>2 DEF get_delay_packet
<1>3. CASE ~(d <= invalid_packet_size) /\ d > 2 * invalid_packet_size - SPLIT_SLACK
  <2>1. get_delay_packet(d) = invalid_packet_size
    BY <1>3, Zenon DEF get_delay_packet
  <2>2. QED
    BY <1>1, <1>3, <2>1
<1>4. CASE ~(d <= invalid_packet_size) /\ ~(d > 2 * invalid_packet_size - SPLIT_SLACK)
  <2>1. get_delay_packet(d) = d \div 2
    BY <1>4, Zenon DEF get_delay_packet
  <2>2. d \div 2 \in Nat /\ 2 * (d \div 2) <= d /\ d <= 2 * (d \div 2) + 1
    OBVIOUS
  <2>3. d \in Int /\ d > invalid_packet_size
        /\ d <= 2 * invalid_packet_size - SPLIT_SLACK
    BY <1>1, <1>4
  <2>4. QED
    BY <1>1, <2>1, <2>2, <2>3
<1>5. QED
  BY <1>2, <1>3, <1>4, Zenon

\* The sum of two groups of frames.
LEMMA AddFrames ==
  ASSUME NEW f \in Frames, NEW g \in Frames
  PROVE  /\ Add(f, g) \in Frames
         /\ Add(f, g).n = f.n + g.n
         /\ Add(f, g).gap = f.gap + g.gap
         /\ Add(f, g).bytes = f.bytes + g.bytes
         /\ Add(f, NoFrames) = f
BY DEF Add, Frames, NoFrames

LEMMA NoFramesType ==
  /\ NoFrames \in Frames
  /\ NoFrames.n = 0 /\ NoFrames.gap = 0 /\ NoFrames.bytes = 0
BY Zenon DEF NoFrames, Frames

\* Appending one frame, with or without a flush, moves its bytes into the array
\* or onto the wire and leaves a free entry.
LEMMA PutFramesEffect ==
  ASSUME CrcTypeOK, pkts.n < TRANSMIT_BUFFER_SIZE,
         NEW f \in Frames, f.n = 1,
         NEW last \in BOOLEAN, PutFrames(f, last)
  PROVE  /\ tx' \in Frames /\ pkts' \in Frames
         /\ pkts'.n < TRANSMIT_BUFFER_SIZE
         /\ tx'.gap \in Nat /\ pkts'.gap \in Nat
         /\ tx'.gap + pkts'.gap = tx.gap + pkts.gap + f.gap
         /\ tx'.bytes \in Nat /\ pkts'.bytes \in Nat
         /\ tx'.bytes + pkts'.bytes = tx.bytes + pkts.bytes + f.bytes
         /\ last => pkts' = NoFrames
<1> DEFINE b == Add(pkts, f)
<1>0. pkts \in Frames /\ tx \in Frames /\ TRANSMIT_BUFFER_SIZE \in Nat \ {0}
  BY CrcAssumption, Zenon DEF CrcTypeOK
<1>1. b \in Frames /\ b.n = pkts.n + f.n /\ b.gap = pkts.gap + f.gap
      /\ b.bytes = pkts.bytes + f.bytes
  BY <1>0, AddFrames, Zenon
<1>2. Add(tx, b) \in Frames /\ Add(tx, b).gap = tx.gap + b.gap
      /\ Add(tx, b).bytes = tx.bytes + b.bytes
  BY <1>0, <1>1, AddFrames, Zenon
<1>3. tx.gap \in Nat /\ pkts.gap \in Nat /\ f.gap \in Nat /\ b.gap \in Nat
      /\ b.n \in Nat /\ tx.bytes \in Nat /\ pkts.bytes \in Nat
      /\ f.bytes \in Nat /\ b.bytes \in Nat
  BY <1>0, <1>1, Zenon DEF Frames
<1> HIDE DEF b
<1>4. CASE b.n >= TRANSMIT_BUFFER_SIZE \/ last
  <2>1. tx' = Add(tx, b) /\ pkts' = NoFrames
    BY <1>4, Zenon DEF PutFrames, b
  <2>2. QED
    BY <1>0, <1>1, <1>2, <1>3, <2>1, NoFramesType DEF Frames
<1>5. CASE ~(b.n >= TRANSMIT_BUFFER_SIZE \/ last)
  <2>1. pkts' = b /\ tx' = tx
    BY <1>5, Zenon DEF PutFrames, b
  <2>2. QED
    BY <1>0, <1>1, <1>3, <1>5, <2>1
<1>6. QED
  BY <1>4, <1>5, Zenon

\* The initial state satisfies the invariant.
LEMMA CrcInitInv == CrcInit => CrcIInv
<1> SUFFICES ASSUME CrcInit PROVE CrcIInv
  BY Zenon
<1>1. CrcTypeOK
  BY NoFramesType DEF CrcInit, CrcTypeOK
<1>2. MinGap \in Nat \ {0} /\ TRANSMIT_BUFFER_SIZE \in Nat \ {0} /\ STAT_OVERHEAD \in Nat
  BY CrcAssumption DEF MinGap
<1>3. QED
  BY <1>1, <1>2, NoFramesType DEF CrcInit, CrcIInv, Counted, Filled

\* Between calls, the NIC may be given frames that fill no gap, and the filler
\* size may change.
LEMMA CrcIdleInv ==
  ASSUME CrcIInv, pc = "idle",
         invalid_packet_size' \in InvalidSizes,
         tx' \in Frames, tx'.gap = tx.gap,
         UNCHANGED <<previous_missing_delay, pc, load_pkts, i, delay, pkts,
                     num_bad, bad_sent, lost, asked>>
  PROVE  CrcIInv'
<1>1. CrcTypeOK'
  BY Zenon DEF CrcIInv, CrcTypeOK
<1>2. QED
  BY <1>1, Zenon DEF CrcIInv, Filled, Counted

LEMMA EmptyDelayType ==
  ASSUME NEW num \in Nat, NEW size \in Nat
  PROVE  /\ EmptyDelayFrames(num, size) \in Frames
         /\ EmptyDelayFrames(num, size).gap = 0
         /\ EmptyDelayFrames(num, size).bytes \in Nat
<1>1. num * (size + PACKET_OVERHEAD) \in Nat
  BY CrcAssumption
<1>2. QED
  BY <1>1, Zenon DEF EmptyDelayFrames, Frames

\* A call of send_packets starts in the invariant.
LEMMA CrcCallInv ==
  ASSUME CrcIInv, NEW load \in Seq(LoadPacket \cup {NULL}), send_packets(load)
  PROVE  CrcIInv'
<1>0. /\ MinGap \in Nat \ {0} /\ TRANSMIT_BUFFER_SIZE \in Nat \ {0}
      /\ STAT_OVERHEAD \in Nat
  BY CrcAssumption DEF MinGap
<1>f. /\ num_bad.pkts \in Nat /\ num_bad.bytes \in Nat
      /\ bad_sent.pkts \in Nat /\ bad_sent.bytes \in Nat
  BY Zenon DEF CrcIInv, CrcTypeOK
<1>2. CrcTypeOK'
  BY NoFramesType DEF CrcIInv, CrcTypeOK, send_packets
<1>3. pkts = NoFrames /\ pkts' = NoFrames
  BY Zenon DEF CrcIInv, send_packets
<1>4. (Filled + previous_missing_delay = asked /\ previous_missing_delay < MinGap)'
  BY <1>3, Zenon DEF CrcIInv, send_packets, Filled
<1>5. (Counted = Filled)'
  BY <1>0, <1>f, <1>3 DEF CrcIInv, send_packets, Filled, Counted
<1>6. QED
  BY <1>0, <1>2, <1>3, <1>4, <1>5, NoFramesType, Zenon DEF CrcIInv, send_packets

\* Each step of send_packets keeps it.
LEMMA CrcStepInv ==
  ASSUME CrcIInv, SendPacketsStep
  PROVE  CrcIInv'
<1>0. /\ MinGap \in Nat \ {0} /\ TRANSMIT_BUFFER_SIZE \in Nat \ {0}
      /\ STAT_OVERHEAD \in Nat /\ MinWire \in Nat /\ STAT_OVERHEAD < MinWire
      /\ PACKET_OVERHEAD \in Nat /\ InvalidSizes \subseteq Nat
  BY CrcAssumption DEF MinGap, MinWire
<1>t. CrcTypeOK
  BY Zenon DEF CrcIInv
<1>f. /\ tx.gap \in Nat /\ pkts.gap \in Nat /\ lost.gap \in Nat
      /\ num_bad.pkts \in Nat /\ num_bad.bytes \in Nat
      /\ bad_sent.pkts \in Nat /\ bad_sent.bytes \in Nat
  BY <1>t, Zenon DEF CrcTypeOK, Frames
<1>4. ASSUME SkipDeleted
      PROVE  CrcIInv'
  <2>1. CrcTypeOK'
    BY <1>4, <1>t DEF CrcTypeOK, SkipDeleted
  <2>2. QED
    BY <1>4, <1>t, <2>1 DEF CrcIInv, CrcTypeOK, SkipDeleted, Filled, Counted
<1>5. ASSUME TakePacket
      PROVE  CrcIInv'
  <2>1. load_pkts[i] \in LoadPacket
    BY <1>5, <1>t DEF CrcTypeOK, TakePacket
  <2>2. load_pkts[i].gap \in Nat
    BY <2>1, Zenon DEF LoadPacket
  <2>3. CrcTypeOK'
    <3>1. delay' \in Nat /\ asked' \in Nat /\ pc' = "fill"
      <4>1. previous_missing_delay \in Nat /\ asked \in Nat
        BY <1>t, Zenon DEF CrcTypeOK
      <4> DEFINE g == load_pkts[i].gap
      <4>2. delay' = g + previous_missing_delay /\ asked' = asked + g /\ pc' = "fill"
        BY <1>5, Zenon DEF TakePacket
      <4>3. g \in Nat
        BY <2>2, Zenon
      <4> HIDE DEF g
      <4>4. QED
        BY <4>1, <4>2, <4>3
    <3>2. UNCHANGED <<previous_missing_delay, invalid_packet_size, load_pkts, i,
                      pkts, num_bad, bad_sent, tx, lost>>
      BY <1>5, Zenon DEF TakePacket
    <3>3. QED
      BY <1>t, <3>1, <3>2, Zenon DEF CrcTypeOK
  <2>4. (Filled + delay = asked)'
    <3>1. Filled' = Filled /\ Filled \in Nat
      <4>1. UNCHANGED <<pkts, tx, lost>>
        BY <1>5, Zenon DEF TakePacket
      <4>2. Filled' = Filled
        BY <4>1, Zenon DEF Filled
      <4>3. QED
        BY <4>2, <1>f DEF Filled
    <3>2. Filled + previous_missing_delay = asked
      BY <1>5, Zenon DEF TakePacket, CrcIInv
    <3>3. /\ delay' = load_pkts[i].gap + previous_missing_delay
          /\ asked' = asked + load_pkts[i].gap
      BY <1>5, Zenon DEF TakePacket
    <3>4. previous_missing_delay \in Nat /\ asked \in Nat
      BY <1>t, Zenon DEF CrcTypeOK
    <3>5. QED
      BY <2>2, <3>1, <3>2, <3>3, <3>4
  <2>5. QED
    BY <1>5, <2>3, <2>4, Zenon DEF CrcIInv, TakePacket, Filled, Counted
<1>6. ASSUME SendFiller
      PROVE  CrcIInv'
  <2> DEFINE w == get_delay_packet(delay)
  <2>1. w \in Nat /\ w >= MinWire /\ w <= delay
    BY <1>6, <1>t, DelayPacketSize, Zenon DEF SendFiller, CrcTypeOK
  <2>2. Filler(w) \in Frames /\ Filler(w).n = 1 /\ Filler(w).gap = w
    BY <2>1, Zenon DEF Filler, Frames
  <2> HIDE DEF w
  <2>3. /\ pc = "fill" /\ delay' = delay - w
        /\ PutFrames(Filler(w), FALSE)
        /\ num_bad' = [pkts  |-> num_bad.pkts + 1,
                       bytes |-> num_bad.bytes + w - STAT_OVERHEAD]
        /\ UNCHANGED <<previous_missing_delay, invalid_packet_size, pc,
                       load_pkts, i, bad_sent, lost, asked>>
    BY <1>6, Zenon DEF SendFiller, w
  <2>4. /\ tx' \in Frames /\ pkts' \in Frames /\ pkts'.n < TRANSMIT_BUFFER_SIZE
        /\ tx'.gap \in Nat /\ pkts'.gap \in Nat
        /\ tx'.gap + pkts'.gap = tx.gap + pkts.gap + w
    BY <1>t, <2>2, <2>3, PutFramesEffect, Zenon DEF CrcIInv
  <2>5. /\ num_bad'.pkts = num_bad.pkts + 1
        /\ num_bad'.bytes = num_bad.bytes + w - STAT_OVERHEAD
        /\ num_bad' \in [pkts : Nat, bytes : Nat]
    BY <1>0, <1>f, <2>1, <2>3
  <2>6. CrcTypeOK'
    BY <1>t, <2>1, <2>3, <2>4, <2>5 DEF CrcTypeOK
  <2>7. Filled' = Filled + w /\ Filled \in Nat
    <3>1. lost' = lost
      BY <2>3, Zenon
    <3>2. QED
      BY <1>f, <2>1, <2>4, <3>1 DEF Filled
  <2>8. (Filled + delay = asked)'
    BY <1>t, <2>1, <2>3, <2>7 DEF CrcIInv, CrcTypeOK
  <2> DEFINE A == STAT_OVERHEAD * bad_sent.pkts
             B == STAT_OVERHEAD * num_bad.pkts
  <2>9. A \in Nat /\ B \in Nat
        /\ STAT_OVERHEAD * (num_bad.pkts + 1) = B + STAT_OVERHEAD
    BY <1>0, <1>f
  <2>10. /\ Counted = bad_sent.bytes + A + (num_bad.bytes + B)
         /\ Counted' = bad_sent.bytes + A + (num_bad'.bytes + STAT_OVERHEAD * (num_bad.pkts + 1))
    BY <2>3, <2>5, Zenon DEF Counted
  <2> HIDE DEF A, B
  <2>11. Counted' = Counted + w
    BY <1>0, <1>f, <2>1, <2>5, <2>9, <2>10
  <2>12. QED
    BY <2>3, <2>4, <2>6, <2>7, <2>8, <2>11, Zenon DEF CrcIInv
<1>7. ASSUME SendPacket
      PROVE  CrcIInv'
  <2> DEFINE p == Packet(load_pkts[i].len)
             last == i = Len(load_pkts)
  <2>1. load_pkts[i] \in LoadPacket
    BY <1>7, <1>t DEF CrcTypeOK, CrcIInv, SendPacket
  <2>2. p \in Frames /\ p.n = 1 /\ p.gap = 0
    BY <1>0, <2>1 DEF Packet, Frames, LoadPacket
  <2>3. /\ last \in BOOLEAN /\ PutFrames(p, last)
        /\ i' = i + 1 /\ load_pkts' = load_pkts /\ lost' = lost
    BY <1>7, Zenon DEF SendPacket
  <2> HIDE DEF p, last
  <2>4. /\ tx' \in Frames /\ pkts' \in Frames /\ pkts'.n < TRANSMIT_BUFFER_SIZE
        /\ tx'.gap \in Nat /\ pkts'.gap \in Nat
        /\ tx'.gap + pkts'.gap = tx.gap + pkts.gap + p.gap
        /\ last => pkts' = NoFrames
    BY <1>t, <2>2, <2>3, PutFramesEffect, Zenon DEF CrcIInv
  <2>5. CrcTypeOK'
    BY <1>7, <1>t, <2>4 DEF CrcTypeOK, SendPacket, CrcIInv
  <2>6. Filled' = Filled
    BY <1>f, <2>2, <2>3, <2>4 DEF Filled
  <2>7. (Filled + previous_missing_delay = asked /\ previous_missing_delay < MinGap)'
    BY <1>7, <2>6, Zenon DEF CrcIInv, SendPacket
  <2>8. (i > Len(load_pkts) => pkts = NoFrames)'
    <3>1. Len(load_pkts) \in Nat /\ i \in 1 .. Len(load_pkts) + 1
      BY <1>t DEF CrcTypeOK
    <3>2. i <= Len(load_pkts)
      BY <1>7, Zenon DEF SendPacket, CrcIInv
    <3>3. i' > Len(load_pkts') => last
      BY <2>3, <3>1, <3>2 DEF last
    <3>4. QED
      BY <2>4, <3>3, Zenon
  <2>9. (Counted = Filled)'
    BY <1>7, <2>6, Zenon DEF CrcIInv, SendPacket, Counted
  <2>10. i' > 1
    BY <1>7, <1>t DEF SendPacket, CrcTypeOK
  <2>11. QED
    BY <1>7, <2>4, <2>5, <2>7, <2>8, <2>9, <2>10 DEF CrcIInv, SendPacket
<1>8. ASSUME Return
      PROVE  CrcIInv'
  <2>1. lost' \in Frames /\ lost'.gap = lost.gap + pkts.gap
    BY <1>8, <1>t, AddFrames, Zenon DEF Return, CrcTypeOK
  <2>2. /\ bad_sent'.pkts = bad_sent.pkts + num_bad.pkts
        /\ bad_sent'.bytes = bad_sent.bytes + num_bad.bytes
        /\ bad_sent' \in [pkts : Nat, bytes : Nat]
    BY <1>8, <1>f, SMTT(30) DEF Return
  <2>3. CrcTypeOK'
    BY <1>8, <1>t, <2>1, <2>2, NoFramesType, Zenon DEF Return, CrcTypeOK
  <2>4. Filled' = Filled
    BY <1>8, <1>f, <2>1, NoFramesType DEF Return, Filled
  <2> DEFINE A == STAT_OVERHEAD * bad_sent.pkts
             B == STAT_OVERHEAD * num_bad.pkts
  <2>5. A \in Nat /\ B \in Nat
        /\ STAT_OVERHEAD * (bad_sent.pkts + num_bad.pkts) = A + B
    BY <1>0, <1>f
  <2>6. /\ Counted = bad_sent.bytes + A + (num_bad.bytes + B)
        /\ Counted' = bad_sent'.bytes + STAT_OVERHEAD * (bad_sent.pkts + num_bad.pkts) + 0
    BY <1>8, <2>2, Zenon DEF Counted, Return
  <2> HIDE DEF A, B
  <2>7. Counted' = Counted
    BY <1>0, <1>f, <2>2, <2>5, <2>6
  <2>8. QED
    BY <1>8, <1>0, <2>3, <2>4, <2>7, NoFramesType DEF Return, CrcIInv
<1>9. QED
  BY <1>4, <1>5, <1>6, <1>7, <1>8, Zenon DEF SendPacketsStep

LEMMA CrcStutterInv ==
  ASSUME CrcIInv, UNCHANGED crcVars
  PROVE  CrcIInv'
BY Zenon DEF CrcIInv, CrcTypeOK, crcVars, Filled, Counted

\* All bytes made: on the wire, in the array, or lost with it.
MadeBytes == tx.bytes + pkts.bytes + lost.bytes

LEMMA MadeBytesType ==
  ASSUME CrcTypeOK
  PROVE  /\ tx.bytes \in Nat /\ pkts.bytes \in Nat /\ lost.bytes \in Nat
         /\ MadeBytes \in Nat
<1>1. tx.bytes \in Nat /\ pkts.bytes \in Nat /\ lost.bytes \in Nat
  BY Zenon DEF CrcTypeOK, Frames
<1>2. QED
  BY <1>1 DEF MadeBytes

\* A filler turns gap into bytes, one for one.
LEMMA FillerBytes ==
  ASSUME CrcIInv, SendFiller
  PROVE  MadeBytes' + delay' = MadeBytes + delay /\ MadeBytes' \in Nat
<1> DEFINE w == get_delay_packet(delay)
<1>t. CrcTypeOK /\ delay \in Nat
  BY Zenon DEF CrcIInv, CrcTypeOK
<1>1. w \in Nat /\ w <= delay
  BY <1>t, DelayPacketSize, Zenon DEF SendFiller, CrcTypeOK
<1>2. Filler(w) \in Frames /\ Filler(w).n = 1 /\ Filler(w).bytes = w
  BY <1>1, Zenon DEF Filler, Frames
<1> HIDE DEF w
<1>3. delay' = delay - w /\ PutFrames(Filler(w), FALSE) /\ lost' = lost
  BY Zenon DEF SendFiller, w
<1>4. /\ tx'.bytes \in Nat /\ pkts'.bytes \in Nat
      /\ tx'.bytes + pkts'.bytes = tx.bytes + pkts.bytes + w
  BY <1>t, <1>2, <1>3, PutFramesEffect, Zenon DEF CrcIInv
<1>5. QED
  BY <1>t, <1>1, <1>3, <1>4, MadeBytesType DEF MadeBytes

\* A packet adds its own bytes.
LEMMA PacketBytes ==
  ASSUME CrcIInv, SendPacket
  PROVE  /\ load_pkts[i].len \in Nat
         /\ MadeBytes' = MadeBytes + load_pkts[i].len + PACKET_OVERHEAD
<1> DEFINE p == Packet(load_pkts[i].len)
           last == i = Len(load_pkts)
<1>t. CrcTypeOK
  BY Zenon DEF CrcIInv
<1>0. PACKET_OVERHEAD \in Nat
  BY CrcAssumption, Zenon
<1>1. load_pkts[i] \in LoadPacket
  BY <1>t DEF CrcTypeOK, CrcIInv, SendPacket
<1>2. load_pkts[i].len \in Nat
  BY <1>1, Zenon DEF LoadPacket
<1>3. p \in Frames /\ p.n = 1 /\ p.bytes = load_pkts[i].len + PACKET_OVERHEAD
  BY <1>0, <1>2 DEF Packet, Frames
<1>4. last \in BOOLEAN /\ PutFrames(p, last) /\ lost' = lost
  BY Zenon DEF SendPacket
<1> HIDE DEF p, last
<1>5. /\ tx'.bytes \in Nat /\ pkts'.bytes \in Nat
      /\ tx'.bytes + pkts'.bytes = tx.bytes + pkts.bytes + p.bytes
  BY <1>t, <1>3, <1>4, PutFramesEffect, Zenon DEF CrcIInv
<1>6. QED
  BY <1>t, <1>0, <1>2, <1>3, <1>4, <1>5, MadeBytesType DEF MadeBytes

\* Returning moves what is left in the array to the lost frames.
LEMMA ReturnBytes ==
  ASSUME CrcIInv, Return
  PROVE  MadeBytes' = MadeBytes
<1>1. lost'.bytes = lost.bytes + pkts.bytes
  BY AddFrames, Zenon DEF Return, CrcIInv, CrcTypeOK
<1>2. tx' = tx /\ pkts' = NoFrames /\ CrcTypeOK
  BY Zenon DEF Return, CrcIInv
<1>3. QED
  BY <1>1, <1>2, MadeBytesType, NoFramesType DEF MadeBytes

\* The packets among a group of frames.
Good(f) == f.n - f.bad

LEMMA GoodFrames ==
  /\ \A f \in Frames : Good(f) \in Int
  /\ \A f, g \in Frames : Good(Add(f, g)) = Good(f) + Good(g)
  /\ Good(NoFrames) = 0
  /\ \A num \in Nat : \A size : Good(EmptyDelayFrames(num, size)) = 0
BY DEF Good, Add, Frames, NoFrames, EmptyDelayFrames

\* A frame that is appended is on the wire or in the array.
LEMMA PutFramesGood ==
  ASSUME tx \in Frames, pkts \in Frames, NEW f \in Frames, NEW last, PutFrames(f, last)
  PROVE  Good(tx') + Good(pkts') = Good(tx) + Good(pkts) + Good(f)
<1> DEFINE b == Add(pkts, f)
<1>1. b \in Frames /\ Good(b) = Good(pkts) + Good(f) /\ Good(Add(tx, b)) = Good(tx) + Good(b)
  BY AddFrames, GoodFrames
<1>2. Good(tx) \in Int /\ Good(pkts) \in Int /\ Good(f) \in Int /\ Good(NoFrames) = 0
  BY GoodFrames, Zenon
<1>3. (tx' = Add(tx, b) /\ pkts' = NoFrames) \/ (pkts' = b /\ tx' = tx)
  BY Zenon DEF PutFrames
<1> HIDE DEF b
<1>4. CASE tx' = Add(tx, b) /\ pkts' = NoFrames
  BY <1>1, <1>2, <1>4
<1>5. CASE pkts' = b /\ tx' = tx
  BY <1>1, <1>2, <1>5
<1> QED BY <1>3, <1>4, <1>5, Zenon

-----------------------------------------------------------------------------
(* The direct users of the limiter.                                         *)

\* Every step of the limiter and of its callers keeps the invariant.
LEMMA SenderStepInv == CrcIInv /\ [SenderNext]_crcVars => CrcIInv'
<1> SUFFICES ASSUME CrcIInv, [SenderNext]_crcVars PROVE CrcIInv'
  BY Zenon
<1>1. ASSUME NEW load \in Loads, sendWithDelay(load)
      PROVE  CrcIInv'
  BY <1>1, SenderAssumption, CrcCallInv, Zenon DEF sendWithDelay
<1>2. ASSUME NEW num \in Empties, Fill(num)
      PROVE  CrcIInv'
  <2>1. num \in Nat /\ invalid_packet_size \in Nat /\ tx \in Frames
        /\ tx.gap \in Nat /\ invalid_packet_size \in InvalidSizes
    BY SenderAssumption, CrcAssumption, Zenon DEF CrcIInv, CrcTypeOK, Frames
  <2>2. tx' \in Frames /\ tx'.gap = tx.gap
    BY <1>2, <2>1, EmptyDelayType, AddFrames DEF Fill, empty_delay
  <2>3. QED
    BY <1>2, <2>1, <2>2, CrcIdleInv, Zenon DEF Fill, empty_delay
<1>3. ASSUME NEW size \in InvalidSizes, set_invalid_packet_size(size)
      PROVE  CrcIInv'
  <2>1. tx \in Frames
    BY Zenon DEF CrcIInv, CrcTypeOK
  <2>2. QED
    BY <1>3, <2>1, CrcIdleInv, Zenon DEF set_invalid_packet_size
<1>4. CASE SendPacketsStep
  BY <1>4, CrcStepInv, Zenon
<1>5. CASE UNCHANGED crcVars
  BY <1>5, CrcStutterInv, Zenon
<1>6. QED
  BY <1>1, <1>2, <1>3, <1>4, <1>5, Zenon DEF SenderNext

\* The invariant holds in every reachable state.
LEMMA CrcInvariant == SenderSpec => []CrcIInv
BY CrcInitInv, SenderStepInv, PTL DEF SenderSpec

\* Every variable of RateLimiterCRC keeps its type: no gap, counter or size
\* of the uint64_t arithmetic of send_packets ever goes below zero.
THEOREM CrcTypeCorrect == SenderSpec => []CrcTypeOK
<1>1. CrcIInv => CrcTypeOK
  BY Zenon DEF CrcIInv
<1>2. QED
  BY <1>1, CrcInvariant, PTL

\* send_packets keeps the spacing it is asked for, over any number of calls.
THEOREM SpacingIsKept == SenderSpec => []SpacingKept
<1>1. CrcIInv => SpacingKept
  <2> SUFFICES ASSUME CrcIInv, pc # "fill"
               PROVE  asked - Filled \in 0 .. MinGap - 1
    BY Zenon DEF SpacingKept
  <2>1. previous_missing_delay \in Nat /\ asked \in Nat
        /\ tx.gap \in Nat /\ pkts.gap \in Nat /\ lost.gap \in Nat
    BY Zenon DEF CrcIInv, CrcTypeOK, Frames
  <2>2. Filled \in Nat
    BY <2>1 DEF Filled
  <2>3. previous_missing_delay < MinGap /\ Filled + previous_missing_delay = asked
    BY Zenon DEF CrcIInv
  <2>4. MinGap \in Nat
    BY CrcAssumption DEF MinGap
  <2>5. QED
    BY <2>1, <2>2, <2>3, <2>4
<1>2. QED
  BY <1>1, CrcInvariant, PTL

\* get_delay_packet only makes frames the NIC can send.
THEOREM FillersAreValid == SenderSpec => []FillersValid
<1>1. CrcIInv => FillersValid
  <2> SUFFICES ASSUME CrcIInv, delay >= MinGap
               PROVE  /\ get_delay_packet(delay) \in MinWire .. invalid_packet_size
                      /\ get_delay_packet(delay) <= delay
    BY Zenon DEF FillersValid
  <2>1. delay \in Nat /\ invalid_packet_size \in InvalidSizes
    BY Zenon DEF CrcIInv, CrcTypeOK
  <2>2. MinWire \in Nat /\ invalid_packet_size \in Nat
    BY <2>1, CrcAssumption DEF MinWire
  <2>3. QED
    BY <2>1, <2>2, DelayPacketSize
<1>2. QED
  BY <1>1, CrcInvariant, PTL

\* send_packets never writes past its local array.
THEOREM BufferIsBounded == SenderSpec => []BufferBound
<1>1. CrcIInv => BufferBound
  BY Zenon DEF CrcIInv, BufferBound
<1>2. QED
  BY <1>1, CrcInvariant, PTL

\* The filler statistics are exact between calls.
THEOREM StatsAreExact == SenderSpec => []StatsMatchFillers
<1>1. CrcIInv => StatsMatchFillers
  <2> SUFFICES ASSUME CrcIInv, pc = "idle"
               PROVE  /\ bad_sent.bytes + STAT_OVERHEAD * bad_sent.pkts = tx.gap + lost.gap
                      /\ bad_sent.bytes + STAT_OVERHEAD * bad_sent.pkts
                           + previous_missing_delay = asked
    BY Zenon DEF StatsMatchFillers
  <2> DEFINE c == bad_sent.bytes + STAT_OVERHEAD * bad_sent.pkts
  <2>1. previous_missing_delay \in Nat /\ asked \in Nat
        /\ tx.gap \in Nat /\ pkts.gap = 0 /\ lost.gap \in Nat
    BY NoFramesType, Zenon DEF CrcIInv, CrcTypeOK, Frames
  <2>2. STAT_OVERHEAD \in Nat /\ bad_sent.bytes \in Nat /\ bad_sent.pkts \in Nat
    BY CrcAssumption DEF CrcIInv, CrcTypeOK
  <2>3. STAT_OVERHEAD * bad_sent.pkts \in Nat
    BY <2>2
  <2>4. c \in Nat /\ Counted = c + 0
    BY <2>2, <2>3 DEF Counted
  <2>5. Filled = tx.gap + lost.gap
    BY <2>1 DEF Filled
  <2>6. Counted = Filled /\ Filled + previous_missing_delay = asked
    BY Zenon DEF CrcIInv
  <2> HIDE DEF c
  <2>7. c = tx.gap + lost.gap /\ c + previous_missing_delay = asked
    BY <2>1, <2>4, <2>5, <2>6
  <2>8. QED
    BY <2>7, Zenon DEF c
<1>2. QED
  BY <1>1, CrcInvariant, PTL

\* Frames stay behind in the local array of a call only when its last entry
\* was deleted.
THEOREM LossOnlyAfterDeletedTail == SenderSpec => LossNeedsDeletedTail
<1>1. CrcIInv /\ [SenderNext]_crcVars =>
        [lost' # lost => load_pkts[Len(load_pkts)] = NULL]_crcVars
  <2> SUFFICES ASSUME CrcIInv, SenderNext, lost' # lost
               PROVE  load_pkts[Len(load_pkts)] = NULL
    BY Zenon
  <2>1. Return
    BY Zenon DEF SenderNext, SendPacketsStep, sendWithDelay, send_packets, Fill, empty_delay,
           set_invalid_packet_size, SkipDeleted, TakePacket, SendFiller, SendPacket
  <2>2. pkts # NoFrames
    BY <2>1, AddFrames, Zenon DEF Return, CrcIInv, CrcTypeOK
  <2>3. Len(load_pkts) \in Nat /\ i \in 1 .. Len(load_pkts) + 1 /\ i > Len(load_pkts)
        /\ pc = "loop"
    BY <2>1 DEF Return, CrcIInv, CrcTypeOK
  <2>4. i - 1 = Len(load_pkts)
    BY <2>3
  <2>5. i # 1
    BY <2>2, <2>3, Zenon DEF CrcIInv
  <2>6. load_pkts[i - 1] = NULL
    BY <2>2, <2>3, <2>5 DEF CrcIInv
  <2>7. QED
    BY <2>4, <2>6, Zenon
<1>2. QED
  BY <1>1, CrcInvariant, PTL DEF SenderSpec, LossNeedsDeletedTail

-----------------------------------------------------------------------------
(* DelayEmulator.                                                           *)

\* Wire bytes an entry of the batch stands for.
EntryBytes(e) == IF e = NULL THEN 0 ELSE e.gap + e.len + PACKET_OVERHEAD

\* The gap of an entry is the one its goal calls for.
EntryGap(e, goal, before) ==
  e # NULL => e.gap = IF goal - first_timestamp >= ByteTime(before)
                      THEN DelayBytes(goal - first_timestamp - ByteTime(before))
                      ELSE 0

\* The entries rewritten so far: ends holds the counter before each of them
\* and after the last.
PlanOK ==
  /\ Len(planned) <= Len(transmit_pkts)
  /\ Len(ends) = Len(planned) + 1
  /\ ends[Len(planned) + 1] = current_byte_offset
  /\ \A k \in 1 .. Len(planned) :
       /\ ends[k + 1] = ends[k] + EntryBytes(planned[k])
       /\ EntryGap(planned[k], transmit_pkts[k].goal, ends[k])

\* All bytes made since the timestamped frame.
Made == MadeBytes - base

\* The inductive invariant: at every point of send_packets the bytes made and
\* the gap in progress add up to the counter send_batch had planned there.
LaunchIInv ==
  /\ LoopTypeOK
  /\ CrcIInv
  /\ at # "send" => pc = "idle"
  /\ at = "start" => previous_missing_delay = 0 /\ lost = NoFrames
  /\ at = "poll" => current_byte_offset = Made + previous_missing_delay
  /\ at \in {"plan", "send"} => PlanOK
  /\ at = "plan" => Made + previous_missing_delay = ends[1]
  /\ at = "send" => /\ pc # "idle" /\ load_pkts = planned
                    /\ Len(planned) = Len(transmit_pkts)
  /\ at = "send" /\ pc = "loop" => Made + previous_missing_delay = ends[i]
  /\ at = "send" /\ pc = "fill" => Made + delay = ends[i] + load_pkts[i].gap

-----------------------------------------------------------------------------
(* Sequences.                                                               *)

LEMMA SeqLength ==
  ASSUME NEW S, NEW s \in Seq(S)
  PROVE  Len(s) \in Nat
OBVIOUS

LEMMA SeqElement ==
  ASSUME NEW S, NEW s \in Seq(S), NEW n \in 1 .. Len(s)
  PROVE  s[n] \in S
OBVIOUS

LEMMA SeqAppend ==
  ASSUME NEW S, NEW s \in Seq(S), NEW e \in S
  PROVE  /\ Append(s, e) \in Seq(S)
         /\ Len(Append(s, e)) = Len(s) + 1
         /\ Append(s, e)[Len(s) + 1] = e
         /\ \A k \in 1 .. Len(s) : Append(s, e)[k] = s[k]
OBVIOUS

LEMMA SeqConcat ==
  ASSUME NEW S, NEW s \in Seq(S), NEW t \in Seq(S)
  PROVE  Len(s \o t) = Len(s) + Len(t)
OBVIOUS

\* rte_ring_sc_dequeue_burst splits the ring into what it returns and a rest.
LEMMA SplitSeq ==
  ASSUME NEW S, NEW s \in Seq(S), NEW r \in 0 .. Len(s)
  PROVE  /\ SubSeq(s, 1, r) \in Seq(S) /\ Len(SubSeq(s, 1, r)) = r
         /\ SubSeq(s, r + 1, Len(s)) \in Seq(S)
         /\ Len(SubSeq(s, r + 1, Len(s))) = Len(s) - r
<1>1. SubSeq(s, 1, r) \in Seq(S) /\ SubSeq(s, r + 1, Len(s)) \in Seq(S)
  OBVIOUS
<1>2. Len(SubSeq(s, 1, r)) = r /\ Len(SubSeq(s, r + 1, Len(s))) = Len(s) - r
  OBVIOUS
<1> QED BY <1>1, <1>2, Zenon

-----------------------------------------------------------------------------
\* Integer division, for any divisor.
LEMMA DivBounds ==
  ASSUME NEW x \in Nat, NEW d \in Nat \ {0}
  PROVE  x \div d \in Nat /\ d * (x \div d) <= x /\ x < d * (x \div d) + d
<1> DEFINE q == x \div d
           r == x % d
<1>1. x = d * q + r
  BY SMT
<1>2. r \in 0 .. d - 1
  BY SMT
<1>3. q \in Int /\ q >= 0
  BY SMT
<1>4. d * q \in Int
  BY <1>3
<1> HIDE DEF q, r
<1>5. d * q <= x /\ x < d * q + d
  BY <1>1, <1>2, <1>4
<1>6. QED
  BY <1>3, <1>5 DEF q

LEMMA ByteTimeBounds ==
  ASSUME NEW b \in Nat
  PROVE  /\ ByteTime(b) \in Nat
         /\ NS_DEN * ByteTime(b) <= b * NS_NUM
         /\ b * NS_NUM < NS_DEN * ByteTime(b) + NS_DEN
<1>1. b * NS_NUM \in Nat /\ NS_DEN \in Nat \ {0}
  BY LaunchAssumption
<1>2. QED
  BY <1>1, DivBounds, Zenon DEF ByteTime

LEMMA DelayBytesBounds ==
  ASSUME NEW t \in Nat
  PROVE  /\ DelayBytes(t) \in Nat
         /\ NS_NUM * DelayBytes(t) <= t * NS_DEN
         /\ t * NS_DEN < NS_NUM * DelayBytes(t) + NS_NUM
<1>1. t * NS_DEN \in Nat /\ NS_NUM \in Nat \ {0}
  BY LaunchAssumption
<1>2. QED
  BY <1>1, DivBounds, Zenon DEF DelayBytes

\* Rounding the counter to a time and the remaining time to bytes puts the
\* packet less than one byte before and less than one nanosecond after its goal.
LEMMA GapMeetsGoal ==
  ASSUME NEW b \in Nat, NEW g \in Int, g >= ByteTime(b)
  PROVE  /\ (b + DelayBytes(g - ByteTime(b)) + 1) * NS_NUM > g * NS_DEN
         /\ (b + DelayBytes(g - ByteTime(b))) * NS_NUM < (g + 1) * NS_DEN
<1> DEFINE t == ByteTime(b)
           s == DelayBytes(g - t)
<1>0. NS_NUM \in Nat \ {0} /\ NS_DEN \in Nat \ {0}
  BY LaunchAssumption, Zenon
<1>1. t \in Nat /\ NS_DEN * t <= b * NS_NUM /\ b * NS_NUM < NS_DEN * t + NS_DEN
  BY ByteTimeBounds, Zenon
<1>2. g - t \in Nat
  BY <1>1
<1>3. s \in Nat /\ NS_NUM * s <= (g - t) * NS_DEN
      /\ (g - t) * NS_DEN < NS_NUM * s + NS_NUM
  BY <1>2, DelayBytesBounds, Zenon
<1> HIDE DEF t, s
<1>4. (g - t) * NS_DEN = g * NS_DEN - NS_DEN * t
  BY <1>0, <1>1
<1>5. /\ (b + s + 1) * NS_NUM = b * NS_NUM + NS_NUM * s + NS_NUM
      /\ (b + s) * NS_NUM = b * NS_NUM + NS_NUM * s
      /\ (g + 1) * NS_DEN = g * NS_DEN + NS_DEN
  BY <1>0, <1>3
<1>6. /\ b * NS_NUM \in Int /\ NS_NUM * s \in Int /\ g * NS_DEN \in Int
      /\ NS_DEN * t \in Int
  BY <1>0, <1>1, <1>3
<1>7. /\ (b + s + 1) * NS_NUM > g * NS_DEN
      /\ (b + s) * NS_NUM < (g + 1) * NS_DEN
  BY <1>0, <1>1, <1>3, <1>4, <1>5, <1>6
<1>8. QED
  BY <1>7, Zenon DEF s, t

-----------------------------------------------------------------------------
LEMMA LaunchInitInv == Init => LaunchIInv
<1> SUFFICES ASSUME Init PROVE LaunchIInv
  BY Zenon
<1>1. CrcIInv
  BY CrcInitInv, Zenon DEF Init
<1>2. LoopTypeOK
  BY <1>1, CrcAssumption, LaunchAssumption DEF Init, LoopTypeOK, CrcIInv
<1>3. QED
  BY <1>1, <1>2, Zenon DEF Init, CrcInit, LaunchIInv

\* The steps of the other tasks touch neither the limiter nor the counter.
LEMMA OtherTasksInv ==
  ASSUME LaunchIInv, (\E bufs \in Bufs : send(bufs)) \/ Stop \/ Leave
  PROVE  LaunchIInv'
<1>c. CrcIInv' /\ UNCHANGED crcVars
  <2>1. UNCHANGED crcVars /\ CrcIInv
    BY Zenon DEF send, Stop, Leave, LaunchIInv
  <2>2. QED
    BY <2>1, CrcStutterInv, Zenon
<1>u. UNCHANGED <<transmit_pkts, planned, current_byte_offset, first_timestamp,
                  base, ends, dropped>>
  BY Zenon DEF send, Stop, Leave
<1>a. at' = at \/ (at' = "done" /\ at = "poll")
  BY Zenon DEF send, Stop, Leave
<1>m. Made' = Made
  BY <1>c, <1>u, Zenon DEF Made, MadeBytes, crcVars
<1>p. PlanOK => PlanOK'
  BY <1>c, <1>u, Zenon DEF PlanOK, EntryGap, ByteTime, DelayBytes, EntryBytes
<1>1. LoopTypeOK'
  <2>1. packet_ring' \in Seq([goal : Nat, len : Nat]) /\ Len(packet_ring') <= RING_SIZE
        /\ accepted' \in Nat
    <3>1. ASSUME NEW bufs \in Bufs, send(bufs)
          PROVE  /\ packet_ring' \in Seq([goal : Nat, len : Nat])
                 /\ Len(packet_ring') <= RING_SIZE /\ accepted' \in Nat
      <4>1. bufs \in Seq([goal : Nat, len : Nat]) /\ packet_ring \in Seq([goal : Nat, len : Nat])
            /\ accepted \in Nat
        BY LaunchAssumption, Zenon DEF LaunchIInv, LoopTypeOK
      <4>2. packet_ring' = packet_ring \o bufs /\ accepted' = accepted + Len(bufs)
            /\ Len(packet_ring) + Len(bufs) <= RING_SIZE
        BY <3>1, Zenon DEF send
      <4>3. QED
        BY <4>1, <4>2, SMTT(20)
    <3>2. CASE Stop \/ Leave
      BY <3>2, Zenon DEF Stop, Leave, LaunchIInv, LoopTypeOK
    <3>3. QED
      BY <3>1, <3>2, Zenon
  <2>2. running' \in BOOLEAN
    BY Zenon DEF send, Stop, Leave, LaunchIInv, LoopTypeOK
  <2>3. QED
    BY <1>c, <1>u, <1>a, <2>1, <2>2, Zenon DEF LaunchIInv, LoopTypeOK, CrcIInv
<1>2. QED
  BY <1>c, <1>u, <1>a, <1>m, <1>p, <1>1, Zenon DEF LaunchIInv, crcVars

\* The start: the counter begins at the bytes sent since the timestamped frame.
LEMMA StartInv ==
  ASSUME LaunchIInv, Start
  PROVE  LaunchIInv'
<1> DEFINE burst == EmptyDelayFrames(BURST, IDLE_SIZE)
           warmup == EmptyDelayFrames(WARMUP * BURST, IDLE_SIZE)
<1>t. CrcIInv /\ CrcTypeOK /\ tx \in Frames /\ pc = "idle" /\ pkts = NoFrames
      /\ previous_missing_delay = 0 /\ lost = NoFrames
  BY Zenon DEF LaunchIInv, CrcIInv, CrcTypeOK, Start
<1>0. IDLE_SIZE \in InvalidSizes /\ IDLE_SIZE \in Nat
  BY LaunchAssumption, CrcAssumption, Zenon
<1>1. BURST \in Nat /\ WARMUP * BURST \in Nat
  BY LaunchAssumption
<1>2. /\ burst \in Frames /\ burst.gap = 0 /\ burst.bytes \in Nat
      /\ warmup \in Frames /\ warmup.gap = 0 /\ warmup.bytes \in Nat
  BY <1>0, <1>1, EmptyDelayType, Zenon
<1> HIDE DEF burst, warmup
<1>3. /\ tx' = Add(Add(tx, warmup), Add(burst, warmup))
      /\ base' = tx.bytes + warmup.bytes
      /\ current_byte_offset' = burst.bytes + warmup.bytes
      /\ invalid_packet_size' = IDLE_SIZE /\ at' = "poll"
      /\ first_timestamp' \in Nat
      /\ UNCHANGED <<previous_missing_delay, pc, load_pkts, i, delay, pkts,
                     num_bad, bad_sent, lost, asked>>
      /\ UNCHANGED <<running, packet_ring, transmit_pkts, planned, ends,
                     accepted, dropped>>
  BY LaunchAssumption, Zenon DEF Start, burst, warmup
<1>4. tx.gap \in Nat /\ tx.bytes \in Nat
  BY <1>t, Zenon DEF Frames
<1>5. /\ tx' \in Frames /\ tx'.gap = tx.gap
      /\ tx'.bytes = tx.bytes + warmup.bytes + (burst.bytes + warmup.bytes)
  <2>1. /\ Add(tx, warmup) \in Frames /\ Add(burst, warmup) \in Frames
        /\ Add(tx, warmup).gap = tx.gap + 0 /\ Add(burst, warmup).gap = 0 + 0
        /\ Add(tx, warmup).bytes = tx.bytes + warmup.bytes
        /\ Add(burst, warmup).bytes = burst.bytes + warmup.bytes
    BY <1>t, <1>2, AddFrames
  <2>2. QED
    BY <1>3, <1>4, <2>1, AddFrames
<1>6. CrcIInv'
  BY <1>t, <1>0, <1>3, <1>5, CrcIdleInv, Zenon
<1>7. LoopTypeOK'
  <2>1. base' \in Nat /\ current_byte_offset' \in Nat
    BY <1>2, <1>3, <1>4
  <2>2. QED
    BY <1>3, <1>6, <2>1, Zenon DEF LaunchIInv, LoopTypeOK, CrcIInv
<1>8. Made' = burst.bytes + warmup.bytes
  BY <1>t, <1>2, <1>3, <1>4, <1>5, NoFramesType DEF Made, MadeBytes
<1>9. (current_byte_offset = Made + previous_missing_delay)'
  BY <1>t, <1>2, <1>3, <1>8, SMTT(20)
<1>10. QED
  BY <1>t, <1>3, <1>6, <1>7, <1>9, Zenon DEF LaunchIInv

\* Idle fillers advance the wire and the counter alike.
LEMMA IdleInv ==
  ASSUME LaunchIInv, Idle
  PROVE  LaunchIInv'
<1> DEFINE burst == EmptyDelayFrames(BURST, IDLE_SIZE)
<1>t. CrcIInv /\ CrcTypeOK /\ tx \in Frames /\ pc = "idle" /\ at = "poll"
      /\ base \in Nat /\ current_byte_offset \in Nat
      /\ previous_missing_delay \in Nat /\ pkts \in Frames /\ lost \in Frames
  BY Zenon DEF LaunchIInv, LoopTypeOK, CrcIInv, CrcTypeOK, Idle
<1>0. IDLE_SIZE \in InvalidSizes /\ IDLE_SIZE \in Nat /\ BURST \in Nat
  BY LaunchAssumption, CrcAssumption, Zenon
<1>2. burst \in Frames /\ burst.gap = 0 /\ burst.bytes \in Nat
  BY <1>0, EmptyDelayType, Zenon
<1> HIDE DEF burst
<1>3. /\ tx' = Add(tx, burst)
      /\ current_byte_offset' = current_byte_offset + burst.bytes
      /\ invalid_packet_size' = IDLE_SIZE /\ at' = at
      /\ UNCHANGED <<previous_missing_delay, pc, load_pkts, i, delay, pkts,
                     num_bad, bad_sent, lost, asked>>
      /\ UNCHANGED <<running, packet_ring, transmit_pkts, planned,
                     first_timestamp, base, ends, accepted, dropped>>
  BY Zenon DEF Idle, burst
<1>4. tx.gap \in Nat /\ tx.bytes \in Nat /\ pkts.bytes \in Nat /\ lost.bytes \in Nat
  BY <1>t, Zenon DEF Frames
<1>5. tx' \in Frames /\ tx'.gap = tx.gap /\ tx'.bytes = tx.bytes + burst.bytes
  BY <1>t, <1>2, <1>3, <1>4, AddFrames
<1>6. CrcIInv'
  BY <1>t, <1>0, <1>3, <1>5, CrcIdleInv, Zenon
<1>7. LoopTypeOK'
  BY <1>t, <1>2, <1>3, <1>6 DEF LaunchIInv, LoopTypeOK, CrcIInv
<1>8. Made' = Made + burst.bytes /\ Made \in Int
  BY <1>t, <1>2, <1>3, <1>4, <1>5, SMTT(20) DEF Made, MadeBytes
<1>9. (current_byte_offset = Made + previous_missing_delay)'
  <2>1. current_byte_offset = Made + previous_missing_delay
    BY <1>t, Zenon DEF LaunchIInv
  <2>2. QED
    BY <1>t, <1>2, <1>3, <1>8, <2>1, SMTT(20)
<1>10. at' = "poll" /\ pc' = "idle"
  BY <1>t, <1>3, Zenon
<1>11. at' # "send" /\ at' # "start" /\ at' # "plan"
  BY <1>10, Zenon
<1>12. QED
  BY <1>6, <1>7, <1>9, <1>10, <1>11, Zenon DEF LaunchIInv

\* A new batch is planned from the current counter on.
LEMMA DequeueInv ==
  ASSUME LaunchIInv, Dequeue
  PROVE  LaunchIInv'
<1> DEFINE rx == IF Len(packet_ring) < TRANSMIT_BUFFER_SIZE
                 THEN Len(packet_ring) ELSE TRANSMIT_BUFFER_SIZE
<1>t. CrcIInv /\ CrcTypeOK /\ tx \in Frames /\ pc = "idle" /\ at = "poll"
      /\ packet_ring \in Seq([goal : Nat, len : Nat]) /\ Len(packet_ring) <= RING_SIZE
      /\ current_byte_offset \in Nat
  BY Zenon DEF LaunchIInv, LoopTypeOK, CrcIInv, CrcTypeOK, Dequeue
<1>0. BATCH_SIZE \in InvalidSizes /\ TRANSMIT_BUFFER_SIZE \in Nat
      /\ RING_SIZE \in Nat /\ Len(packet_ring) \in Nat
  BY <1>t, LaunchAssumption, CrcAssumption
<1>1. rx \in 0 .. Len(packet_ring) /\ rx <= TRANSMIT_BUFFER_SIZE
  BY <1>0
<1> HIDE DEF rx
<1>2. /\ transmit_pkts' = SubSeq(packet_ring, 1, rx)
      /\ packet_ring' = SubSeq(packet_ring, rx + 1, Len(packet_ring))
      /\ planned' = <<>> /\ ends' = <<current_byte_offset>> /\ at' = "plan"
      /\ invalid_packet_size' = BATCH_SIZE
      /\ UNCHANGED <<previous_missing_delay, pc, load_pkts, i, delay, pkts,
                     num_bad, bad_sent, tx, lost, asked>>
      /\ UNCHANGED <<running, current_byte_offset, first_timestamp, base,
                     accepted, dropped>>
  BY Zenon DEF Dequeue, set_invalid_packet_size, rx
<1>3. CrcIInv'
  BY <1>t, <1>0, <1>2, CrcIdleInv, Zenon
<1>4. /\ transmit_pkts' \in Seq([goal : Nat, len : Nat])
      /\ Len(transmit_pkts') = rx
      /\ packet_ring' \in Seq([goal : Nat, len : Nat])
      /\ Len(packet_ring') = Len(packet_ring) - rx
  <2>1. packet_ring \in Seq([goal : Nat, len : Nat]) /\ rx \in 0 .. Len(packet_ring)
    BY <1>t, <1>1, Zenon
  <2>2. /\ transmit_pkts' = SubSeq(packet_ring, 1, rx)
        /\ packet_ring' = SubSeq(packet_ring, rx + 1, Len(packet_ring))
    BY <1>2, Zenon
  <2>3. QED
    BY <2>1, <2>2, SplitSeq, Zenon
<1>5. LoopTypeOK'
  <2>1. planned' \in Seq(LoadPacket \cup {NULL}) /\ ends' \in Seq(Nat)
    BY <1>t, <1>2
  <2>2. Len(packet_ring') <= RING_SIZE /\ Len(transmit_pkts') <= TRANSMIT_BUFFER_SIZE
    BY <1>t, <1>0, <1>1, <1>4
  <2>3. QED
    BY <1>2, <1>3, <1>4, <2>1, <2>2, Zenon DEF LaunchIInv, LoopTypeOK, CrcIInv
<1>6. Made' = Made
  BY <1>2, Zenon DEF Made, MadeBytes
<1>7. PlanOK'
  BY <1>1, <1>2, <1>4 DEF PlanOK
<1>8. (Made + previous_missing_delay = ends[1])'
  <2>1. current_byte_offset = Made + previous_missing_delay
    BY <1>t, Zenon DEF LaunchIInv
  <2>2. ends'[1] = current_byte_offset
    BY <1>2, Zenon
  <2>3. previous_missing_delay' = previous_missing_delay
    BY <1>2, Zenon
  <2>4. QED
    BY <1>6, <2>1, <2>2, <2>3, Zenon
<1>9. at' = "plan" /\ pc' = "idle"
  BY <1>t, <1>2, Zenon
<1>10. at' # "send" /\ at' # "start" /\ at' # "poll"
  BY <1>9, Zenon
<1>11. QED
  BY <1>3, <1>5, <1>7, <1>8, <1>9, <1>10, Zenon DEF LaunchIInv

\* Rewriting one entry keeps the account of the entries before it.
LEMMA PlanInv ==
  ASSUME LaunchIInv, at = "plan", Len(planned) < Len(transmit_pkts),
         NEW entry \in LoadPacket \cup {NULL},
         EntryBytes(entry) \in Nat,
         EntryGap(entry, NextPlanned.goal, current_byte_offset),
         Plan(entry, EntryBytes(entry)), dropped' \in Nat
  PROVE  LaunchIInv'
<1> DEFINE n == Len(planned)
           bytes == EntryBytes(entry)
<1>t. /\ CrcIInv /\ pc = "idle" /\ LoopTypeOK /\ PlanOK
      /\ Made + previous_missing_delay = ends[1]
  BY Zenon DEF LaunchIInv
<1>s. /\ planned \in Seq(LoadPacket \cup {NULL}) /\ ends \in Seq(Nat)
      /\ transmit_pkts \in Seq([goal : Nat, len : Nat])
      /\ current_byte_offset \in Nat
  BY <1>t, Zenon DEF LoopTypeOK
<1>n. n \in Nat /\ Len(ends) = n + 1 /\ ends[n + 1] = current_byte_offset
  <2>1. n \in Nat
    BY <1>s
  <2>2. QED
    BY <1>t, <2>1, Zenon DEF PlanOK
<1>1. /\ planned' = Append(planned, entry)
      /\ current_byte_offset' = current_byte_offset + bytes
      /\ ends' = Append(ends, current_byte_offset + bytes)
      /\ UNCHANGED crcVars
      /\ UNCHANGED <<running, packet_ring, at, transmit_pkts, first_timestamp,
                     base, accepted>>
  BY Zenon DEF Plan
<1>c. /\ CrcIInv' /\ pc' = pc /\ previous_missing_delay' = previous_missing_delay
      /\ Made' = Made
  BY <1>t, <1>1, CrcStutterInv, Zenon DEF crcVars, Made, MadeBytes
<1>b. bytes \in Nat /\ current_byte_offset + bytes \in Nat
  BY <1>s, SMTT(20)
<1> HIDE DEF bytes
<1>2. /\ planned' \in Seq(LoadPacket \cup {NULL}) /\ Len(planned') = n + 1
      /\ \A k \in 1 .. n : planned'[k] = planned[k]
      /\ planned'[n + 1] = entry
  BY <1>1, <1>s, SeqAppend
<1>3. /\ ends' \in Seq(Nat) /\ Len(ends') = n + 2
      /\ \A k \in 1 .. n + 1 : ends'[k] = ends[k]
      /\ ends'[n + 2] = current_byte_offset + bytes
  <2> DEFINE c == current_byte_offset + bytes
  <2>1. c \in Nat /\ ends \in Seq(Nat) /\ ends' = Append(ends, c)
    BY <1>1, <1>s, <1>b, Zenon
  <2> HIDE DEF c
  <2>2. /\ ends' \in Seq(Nat) /\ Len(ends') = Len(ends) + 1
        /\ \A k \in 1 .. Len(ends) : ends'[k] = ends[k]
        /\ ends'[Len(ends) + 1] = c
    BY <2>1, SeqAppend
  <2> HIDE DEF n
  <2>3. n + 1 + 1 = n + 2
    BY <1>n, SMTT(20)
  <2>4. QED
    BY <1>n, <2>2, <2>3, Zenon DEF c
<1> HIDE DEF n
<1>4. LoopTypeOK'
  BY <1>t, <1>1, <1>2, <1>3, <1>b, <1>c, Zenon DEF LoopTypeOK, CrcIInv
<1>5. PlanOK'
  <2>1. Len(planned') <= Len(transmit_pkts')
    BY <1>1, <1>2, <1>s, <1>n, SMTT(20) DEF n
  <2>2. Len(ends') = Len(planned') + 1 /\ ends'[Len(planned') + 1] = current_byte_offset'
    BY <1>1, <1>2, <1>3, <1>n
  <2>3. ASSUME NEW k \in 1 .. n + 1
        PROVE  /\ ends'[k + 1] = ends'[k] + EntryBytes(planned'[k])
               /\ EntryGap(planned[k], transmit_pkts[k].goal, ends[k])'
    <3>1. CASE k \in 1 .. n
      <4>1. /\ ends[k + 1] = ends[k] + EntryBytes(planned[k])
            /\ EntryGap(planned[k], transmit_pkts[k].goal, ends[k])
        BY <1>t, <3>1, Zenon DEF PlanOK, n
      <4>a. k \in 1 .. n + 1 /\ k + 1 \in 1 .. n + 1
        BY <1>n, <3>1, SMTT(20)
      <4>b. planned'[k] = planned[k]
        BY <1>2, <3>1, Zenon
      <4>2. /\ planned'[k] = planned[k] /\ ends'[k] = ends[k]
            /\ ends'[k + 1] = ends[k + 1]
        BY <1>3, <4>a, <4>b, Zenon
      <4>3. QED
        BY <4>1, <4>2, <1>1, ZenonT(30) DEF EntryGap
    <3>2. CASE k = n + 1
      <4>1. /\ planned'[k] = entry /\ ends'[k] = current_byte_offset
            /\ ends'[k + 1] = current_byte_offset + bytes
        <5>1. n + 1 \in 1 .. n + 1 /\ n + 1 + 1 = n + 2
          BY <1>n, SMTT(20)
        <5>2. QED
          BY <1>2, <1>3, <1>n, <3>2, <5>1, Zenon
      <4>2. transmit_pkts'[k] = NextPlanned
        BY <1>1, <3>2, Zenon DEF NextPlanned, n
      <4>3. QED
        BY <4>1, <4>2, <1>1, Zenon DEF EntryGap, bytes
    <3>3. QED
      BY <1>n, <3>1, <3>2, SMTT(20)
  <2>4. QED
    BY <1>2, <2>1, <2>2, <2>3, Zenon DEF PlanOK
<1>6. (Made + previous_missing_delay = ends[1])'
  BY <1>t, <1>c, <1>3, <1>n
<1>7. QED
  BY <1>t, <1>1, <1>c, <1>4, <1>5, <1>6, Zenon DEF LaunchIInv

\* An entry that was not deleted.
LEMMA EntryType ==
  ASSUME NEW gap \in Nat, NEW len \in Nat
  PROVE  /\ [gap |-> gap, len |-> len] \in LoadPacket
         /\ EntryBytes([gap |-> gap, len |-> len]) = gap + len + PACKET_OVERHEAD
<1>1. [gap |-> gap, len |-> len] \in LoadPacket
  BY Zenon DEF LoadPacket
<1>2. QED
  BY <1>1, CrcAssumption, Zenon DEF EntryBytes

LEMMA PlanStepsInv ==
  ASSUME LaunchIInv, PlanDrop \/ PlanLate \/ PlanDelay
  PROVE  LaunchIInv'
<1> DEFINE p == NextPlanned
           t == ByteTime(current_byte_offset)
<1>t. /\ LoopTypeOK /\ current_byte_offset \in Nat /\ first_timestamp \in Nat
      /\ dropped \in Nat
  BY Zenon DEF LaunchIInv, LoopTypeOK
<1>0. at = "plan" /\ Len(planned) < Len(transmit_pkts)
  BY Zenon DEF PlanDrop, PlanLate, PlanDelay
<1>1. p \in [goal : Nat, len : Nat]
  <2>1. Len(planned) + 1 \in 1 .. Len(transmit_pkts)
    BY <1>0, <1>t DEF LoopTypeOK
  <2>2. transmit_pkts \in Seq([goal : Nat, len : Nat])
    BY <1>t, Zenon DEF LoopTypeOK
  <2>3. QED
    BY <2>1, <2>2, SeqElement, Zenon DEF NextPlanned
<1>2. p.goal \in Nat /\ p.len \in Nat
  BY <1>1, Zenon
<1>3. t \in Nat /\ CurrentSendingTime = first_timestamp + t
  BY <1>t, ByteTimeBounds, Zenon DEF CurrentSendingTime
<1>4. PACKET_OVERHEAD \in Nat /\ LATE \in Nat
  BY CrcAssumption, LaunchAssumption, Zenon
<1> HIDE DEF p, t
<1>5. CASE PlanDrop
  <2>1. Plan(NULL, 0) /\ dropped' \in Nat
    BY <1>5, <1>t DEF PlanDrop
  <2>2. EntryBytes(NULL) = 0 /\ EntryGap(NULL, NextPlanned.goal, current_byte_offset)
    BY Zenon DEF EntryBytes, EntryGap
  <2>3. QED
    BY <1>0, <2>1, <2>2, PlanInv
<1>6. CASE PlanLate
  <2> DEFINE e == [gap |-> 0, len |-> p.len]
  <2>1. Plan(e, p.len + PACKET_OVERHEAD) /\ dropped' \in Nat
    BY <1>6, <1>t, Zenon DEF PlanLate, p
  <2>2. p.goal - CurrentSendingTime < 0
    BY <1>6, <1>2, <1>3, <1>t, <1>4, SMTT(20) DEF PlanLate, p
  <2>3. e \in LoadPacket /\ EntryBytes(e) = p.len + PACKET_OVERHEAD
        /\ EntryBytes(e) \in Nat
    BY <1>2, <1>4, EntryType
  <2>4. EntryGap(e, p.goal, current_byte_offset)
    BY <2>2, <1>2, <1>3, <1>t DEF EntryGap, t
  <2> HIDE DEF e
  <2>5. QED
    BY <1>0, <2>1, <2>3, <2>4, PlanInv, Zenon DEF p
<1>7. CASE PlanDelay
  <2> DEFINE d == DelayBytes(p.goal - CurrentSendingTime)
             e == [gap |-> d, len |-> p.len]
  <2>1. /\ Plan(e, p.len + PACKET_OVERHEAD + d) /\ dropped' \in Nat
        /\ p.goal >= CurrentSendingTime
    BY <1>7, <1>t, Zenon DEF PlanDelay, p
  <2>2. p.goal - CurrentSendingTime \in Nat
        /\ p.goal - CurrentSendingTime = p.goal - first_timestamp - t
        /\ p.goal - first_timestamp >= t
    BY <2>1, <1>2, <1>3, <1>t
  <2>3. d \in Nat /\ d = DelayBytes(p.goal - first_timestamp - t)
    BY <2>2, DelayBytesBounds, Zenon
  <2> HIDE DEF d
  <2>4. e \in LoadPacket /\ EntryBytes(e) = p.len + PACKET_OVERHEAD + d
        /\ EntryBytes(e) \in Nat
    <3>1. e \in LoadPacket /\ EntryBytes(e) = d + p.len + PACKET_OVERHEAD
      BY <2>3, <1>2, EntryType, Zenon
    <3>2. QED
      BY <3>1, <2>3, <1>2, <1>4
  <2>5. EntryGap(e, p.goal, current_byte_offset)
    BY <2>2, <2>3, Zenon DEF EntryGap, t
  <2> HIDE DEF e
  <2>6. QED
    BY <1>0, <2>1, <2>4, <2>5, PlanInv, Zenon DEF p
<1>8. QED
  BY <1>5, <1>6, <1>7, Zenon

\* The call of send_packets starts at the first entry.
LEMMA SendBatchInv ==
  ASSUME LaunchIInv, SendBatch
  PROVE  LaunchIInv'
<1>t. /\ LoopTypeOK /\ CrcIInv /\ PlanOK /\ Len(planned) = Len(transmit_pkts)
      /\ Made + previous_missing_delay = ends[1]
      /\ planned \in Seq(LoadPacket \cup {NULL})
  BY Zenon DEF LaunchIInv, LoopTypeOK, SendBatch
<1>1. /\ at' = "send" /\ send_packets(planned)
      /\ UNCHANGED <<running, packet_ring, transmit_pkts, planned,
                     current_byte_offset, first_timestamp, base, ends, accepted,
                     dropped>>
  BY Zenon DEF SendBatch
<1>2. CrcIInv'
  BY <1>t, <1>1, CrcCallInv, Zenon
<1>3. /\ pc' = "loop" /\ load_pkts' = planned /\ i' = 1
      /\ previous_missing_delay' = previous_missing_delay
      /\ tx' = tx /\ lost' = lost /\ pkts' = NoFrames /\ pkts = NoFrames
  BY <1>t, <1>1, Zenon DEF send_packets, CrcIInv
<1>4. Made' = Made
  BY <1>1, <1>3, Zenon DEF Made, MadeBytes
<1>5. LoopTypeOK'
  BY <1>t, <1>1, <1>2, Zenon DEF LoopTypeOK, CrcIInv
<1>6. PlanOK'
  BY <1>t, <1>1, Zenon DEF PlanOK, EntryGap
<1>7. QED
  BY <1>t, <1>1, <1>2, <1>3, <1>4, <1>5, <1>6, Zenon DEF LaunchIInv

\* The steps of send_packets consume the plan entry by entry.
LEMMA SendingInv ==
  ASSUME LaunchIInv, Sending
  PROVE  LaunchIInv'
<1>t. /\ LoopTypeOK /\ CrcIInv /\ CrcTypeOK /\ PlanOK /\ load_pkts = planned
      /\ Len(planned) = Len(transmit_pkts)
      /\ (pc = "loop" => Made + previous_missing_delay = ends[i])
      /\ (pc = "fill" => Made + delay = ends[i] + load_pkts[i].gap)
  BY Zenon DEF LaunchIInv, CrcIInv, Sending
<1>n. /\ base \in Nat /\ MadeBytes \in Nat /\ previous_missing_delay \in Nat
      /\ delay \in Nat /\ i \in 1 .. Len(load_pkts) + 1 /\ Len(load_pkts) \in Nat
      /\ load_pkts \in Seq(LoadPacket \cup {NULL})
      /\ PACKET_OVERHEAD \in Nat
  BY <1>t, MadeBytesType, CrcAssumption, SMTT(20) DEF LoopTypeOK, CrcTypeOK
<1>e. ends \in Seq(Nat) /\ Len(ends) = Len(load_pkts) + 1 /\ ends[i] \in Nat
  BY <1>t, <1>n DEF LoopTypeOK, PlanOK
<1>1. /\ SendPacketsStep /\ at' = IF pc' = "idle" THEN "poll" ELSE "send"
      /\ UNCHANGED <<running, packet_ring, transmit_pkts, planned,
                     current_byte_offset, first_timestamp, base, ends, accepted,
                     dropped>>
  BY Zenon DEF Sending
<1>2. CrcIInv' /\ CrcTypeOK'
  BY <1>t, <1>1, CrcStepInv, Zenon DEF CrcIInv
<1>3. LoopTypeOK'
  BY <1>t, <1>1, <1>2, Zenon DEF LoopTypeOK
<1>4. PlanOK'
  BY <1>t, <1>1, Zenon DEF PlanOK, EntryGap
<1>5. load_pkts' = load_pkts
  BY <1>1, Zenon DEF SendPacketsStep, SkipDeleted, TakePacket, SendFiller, SendPacket, Return
<1>p. ASSUME i <= Len(load_pkts)
      PROVE  ends[i + 1] = ends[i] + EntryBytes(load_pkts[i])
  <2>1. i \in 1 .. Len(planned)
    BY <1>p, <1>t, <1>n, SMTT(20)
  <2>2. \A k \in 1 .. Len(planned) : ends[k + 1] = ends[k] + EntryBytes(planned[k])
    BY <1>t, Zenon DEF PlanOK
  <2>3. QED
    BY <1>t, <2>1, <2>2, Zenon
<1>q. ASSUME pc' # "idle",
             pc' = "loop" => (Made + previous_missing_delay = ends[i])',
             pc' = "fill" => (Made + delay = ends[i] + load_pkts[i].gap)'
      PROVE  LaunchIInv'
  <2>1. at' = "send" /\ load_pkts' = planned' /\ Len(planned') = Len(transmit_pkts')
    BY <1>q, <1>t, <1>1, <1>5, Zenon
  <2>2. QED
    BY <1>q, <1>2, <1>3, <1>4, <2>1, ZenonT(30) DEF LaunchIInv
<1>6. CASE SkipDeleted
  <2>1. /\ pc = "loop" /\ i <= Len(load_pkts) /\ load_pkts[i] = NULL
        /\ i' = i + 1 /\ pc' = pc
        /\ previous_missing_delay' = previous_missing_delay
        /\ tx' = tx /\ pkts' = pkts /\ lost' = lost
    BY <1>6, Zenon DEF SkipDeleted
  <2>2. Made' = Made
    BY <1>1, <2>1, Zenon DEF Made, MadeBytes
  <2>3. ends[i + 1] = ends[i]
    BY <1>p, <1>e, <2>1 DEF EntryBytes
  <2>4. Made + previous_missing_delay = ends[i + 1]
    BY <1>t, <2>1, <2>3, Zenon
  <2>5. ends' = ends
    BY <1>1, Zenon
  <2>6. (Made + previous_missing_delay = ends[i])'
    BY <2>1, <2>2, <2>4, <2>5, Zenon
  <2>7. pc' # "idle" /\ pc' # "fill"
    BY <2>1, Zenon
  <2>8. QED
    BY <1>q, <2>6, <2>7, Zenon
<1>7. CASE TakePacket
  <2>1. /\ pc = "loop" /\ i <= Len(load_pkts) /\ load_pkts[i] # NULL
        /\ i' = i /\ pc' = "fill"
        /\ delay' = load_pkts[i].gap + previous_missing_delay
        /\ tx' = tx /\ pkts' = pkts /\ lost' = lost
    BY <1>7, Zenon DEF TakePacket
  <2>2. Made' = Made /\ Made \in Int
    BY <1>1, <1>n, <2>1 DEF Made, MadeBytes
  <2>3. load_pkts[i].gap \in Nat
    <3>1. load_pkts[i] \in LoadPacket
      BY <1>n, <2>1
    <3>2. QED
      BY <3>1, Zenon DEF LoadPacket
  <2>4. Made + delay' = ends[i] + load_pkts[i].gap
    <3> DEFINE g == load_pkts[i].gap
               e == ends[i]
    <3>1. Made + previous_missing_delay = e /\ delay' = g + previous_missing_delay
      BY <1>t, <2>1, Zenon
    <3>2. Made \in Int /\ previous_missing_delay \in Nat /\ g \in Nat /\ e \in Nat
      BY <1>n, <1>e, <2>2, <2>3, Zenon
    <3> HIDE DEF g, e
    <3>3. Made + delay' = e + g
      BY <3>1, <3>2, SMTT(20)
    <3>4. QED
      BY <3>3, Zenon DEF e, g
  <2>5. QED
    BY <1>q, <1>t, <1>1, <1>5, <2>1, <2>2, <2>4, Zenon
<1>8. CASE SendFiller
  <2>1. pc = "fill" /\ pc' = pc /\ i' = i
    BY <1>8, Zenon DEF SendFiller
  <2>2. MadeBytes' + delay' = MadeBytes + delay /\ MadeBytes' \in Nat
    BY <1>8, <1>t, FillerBytes, Zenon
  <2>3. delay' \in Nat
    BY <1>2, Zenon DEF CrcTypeOK
  <2>4. Made' + delay' = Made + delay
    <3> DEFINE m == MadeBytes'
               d == delay'
    <3>1. Made' = m - base /\ Made = MadeBytes - base
      BY <1>1, Zenon DEF Made
    <3>2. /\ base \in Nat /\ MadeBytes \in Nat /\ delay \in Nat
          /\ m \in Nat /\ d \in Nat /\ m + d = MadeBytes + delay
      BY <1>n, <2>2, <2>3, Zenon
    <3> HIDE DEF m, d
    <3>3. (m - base) + d = (MadeBytes - base) + delay
      BY <3>2
    <3>4. QED
      BY <3>1, <3>3, Zenon DEF d
  <2>5. QED
    BY <1>q, <1>t, <1>1, <1>5, <2>1, <2>4, Zenon
<1>9. CASE SendPacket
  <2>1. pc = "fill" /\ pc' = "loop" /\ i' = i + 1 /\ previous_missing_delay' = delay
    BY <1>9, Zenon DEF SendPacket
  <2>2. i <= Len(load_pkts) /\ load_pkts[i] # NULL
    BY <1>t, <2>1, Zenon DEF CrcIInv
  <2>3. /\ load_pkts[i].len \in Nat
        /\ MadeBytes' = MadeBytes + load_pkts[i].len + PACKET_OVERHEAD
    BY <1>9, <1>t, PacketBytes, Zenon
  <2>4. load_pkts[i].gap \in Nat
    <3>1. load_pkts[i] \in LoadPacket
      BY <1>n, <2>2
    <3>2. QED
      BY <3>1, Zenon DEF LoadPacket
  <2>5. ends[i + 1] = ends[i] + (load_pkts[i].gap + load_pkts[i].len + PACKET_OVERHEAD)
    BY <1>p, <2>2, Zenon DEF EntryBytes
  <2>6. Made' = Made + load_pkts[i].len + PACKET_OVERHEAD /\ Made \in Int
    BY <1>1, <1>n, <2>3, SMTT(20) DEF Made
  <2>7. Made + delay = ends[i] + load_pkts[i].gap
    BY <1>t, <2>1, Zenon
  <2>8. Made' + delay = ends[i + 1]
    <3> DEFINE g == load_pkts[i].gap
               len == load_pkts[i].len
               e == ends[i]
               f == ends[i + 1]
    <3>1. /\ f = e + (g + len + PACKET_OVERHEAD) /\ Made + delay = e + g
          /\ Made' = Made + len + PACKET_OVERHEAD
      BY <2>5, <2>6, <2>7, Zenon
    <3>2. /\ Made \in Int /\ g \in Nat /\ len \in Nat /\ e \in Nat
          /\ delay \in Nat /\ PACKET_OVERHEAD \in Nat
      BY <1>n, <1>e, <2>3, <2>4, <2>6, Zenon
    <3> HIDE DEF g, len, e, f
    <3>3. Made' + delay = f
      BY <3>1, <3>2, SMTT(20)
    <3>4. QED
      BY <3>3, Zenon DEF f
  <2>9. QED
    BY <1>q, <1>t, <1>1, <1>5, <2>1, <2>8, Zenon
<1>10. CASE Return
  <2>1. /\ pc = "loop" /\ i > Len(load_pkts) /\ pc' = "idle"
        /\ previous_missing_delay' = previous_missing_delay
    BY <1>10, Zenon DEF Return
  <2>2. Made' = Made
    BY <1>10, <1>1, <1>t, ReturnBytes, Zenon DEF Made
  <2>3. i = Len(load_pkts) + 1
    BY <1>n, <2>1
  <2>4. ends[i] = current_byte_offset
    BY <1>t, <2>3, Zenon DEF PlanOK
  <2>5. at' = "poll"
    BY <1>1, <2>1, Zenon
  <2>6. current_byte_offset' = Made' + previous_missing_delay'
    BY <1>t, <1>1, <2>1, <2>2, <2>4, Zenon
  <2>7. QED
    BY <1>2, <1>3, <2>1, <2>5, <2>6, Zenon DEF LaunchIInv
<1>11. QED
  BY <1>1, <1>6, <1>7, <1>8, <1>9, <1>10, Zenon DEF SendPacketsStep

-----------------------------------------------------------------------------
LEMMA LaunchStepInv == LaunchIInv /\ [Next]_vars => LaunchIInv'
<1> SUFFICES ASSUME LaunchIInv, [Next]_vars PROVE LaunchIInv'
  BY Zenon
<1>1. CASE (\E bufs \in Bufs : send(bufs)) \/ Stop \/ Leave
  BY <1>1, OtherTasksInv, Zenon
<1>2. CASE UNCHANGED vars
  <2>1. UNCHANGED crcVars /\ UNCHANGED loopVars
    BY <1>2, Zenon DEF vars
  <2>2. CrcIInv' /\ CrcTypeOK'
    BY <2>1, CrcStutterInv, Zenon DEF LaunchIInv, CrcIInv
  <2>3. LoopTypeOK'
    BY <2>1, <2>2, Zenon DEF LaunchIInv, LoopTypeOK, loopVars
  <2>4. PlanOK' <=> PlanOK
    BY <2>1, Zenon DEF PlanOK, EntryGap, loopVars
  <2>5. Made' = Made
    BY <2>1, Zenon DEF Made, MadeBytes, crcVars, loopVars
  <2>6. QED
    BY <2>1, <2>2, <2>3, <2>4, <2>5, Zenon DEF LaunchIInv, crcVars, loopVars
<1>3. QED
  BY <1>1, <1>2, StartInv, IdleInv, DequeueInv, PlanStepsInv, SendBatchInv,
     SendingInv, Zenon DEF Next, TransmitLoop

THEOREM LaunchInvariant == Spec => []LaunchIInv
<1>1. Init => LaunchIInv
  BY LaunchInitInv, Zenon
<1>2. QED
  BY <1>1, LaunchStepInv, PTL DEF Spec

\* The transmit loop of DelayEmulator is type correct, and neither packet_ring
\* nor the dequeued batch exceeds its capacity.
THEOREM LoopTypeCorrect == Spec => []LoopTypeOK
<1>1. LaunchIInv => LoopTypeOK
  BY Zenon DEF LaunchIInv
<1>2. QED
  BY <1>1, LaunchInvariant, PTL

\* current_byte_offset never drifts from the bytes on the wire.
THEOREM OffsetIsTheWire == Spec => []OffsetTracksWire
<1>1. LaunchIInv => OffsetTracksWire
  <2> SUFFICES ASSUME LaunchIInv, at = "poll"
               PROVE  current_byte_offset
                        = WireOffset + lost.bytes + previous_missing_delay
    BY Zenon DEF OffsetTracksWire
  <2>1. current_byte_offset = Made + previous_missing_delay /\ CrcTypeOK /\ base \in Nat
        /\ previous_missing_delay \in Nat
    BY Zenon DEF LaunchIInv, LoopTypeOK, CrcTypeOK
  <2>2. Made = WireOffset + lost.bytes
    BY <2>1, MadeBytesType DEF Made, MadeBytes, WireOffset
  <2>3. QED
    BY <2>1, <2>2, Zenon
<1>2. QED
  BY <1>1, LaunchInvariant, PTL

LEMMA MulMonotone ==
  ASSUME NEW x \in Int, NEW y \in Int, x <= y, NEW c \in Nat
  PROVE  x * c <= y * c /\ x * c \in Int /\ y * c \in Int
<1>1. (y - x) * c >= 0
  OBVIOUS
<1>2. (y - x) * c = y * c - x * c
  BY SMTT(20)
<1>3. QED
  BY <1>1, <1>2

\* Packets leave on time as long as send_packets lost no frame: but for the gap
\* carried over to the next packet, less than a byte early and, unless send_batch
\* found them late, less than one nanosecond late.
THEOREM PacketsAreOnTime == Spec => []OnTime
<1>1. LaunchIInv => OnTime
  <2> SUFFICES ASSUME LaunchIInv, pc = "fill", delay < MinGap, lost = NoFrames
               PROVE  LET goal == transmit_pkts[i].goal - first_timestamp
                          late == goal < ByteTime(ends[i])
                          start == WireOffset + delay
                      IN /\ (start + 1) * NS_NUM > goal * NS_DEN
                         /\ ~late => start * NS_NUM < (goal + 1) * NS_DEN
    BY Zenon DEF OnTime
  <2> DEFINE goal == transmit_pkts[i].goal - first_timestamp
             b == ends[i]
             gap == load_pkts[i].gap
             W == WireOffset
  <2>1. /\ at = "send" /\ load_pkts = planned /\ PlanOK /\ CrcIInv /\ CrcTypeOK
        /\ LoopTypeOK /\ Made + delay = b + gap /\ Len(planned) = Len(transmit_pkts)
    BY Zenon DEF LaunchIInv, CrcIInv
  <2>2. i \in 1 .. Len(planned) /\ load_pkts[i] # NULL
    <3>1. i \in 1 .. Len(load_pkts) + 1 /\ i <= Len(load_pkts) /\ load_pkts[i] # NULL
          /\ load_pkts \in Seq(LoadPacket \cup {NULL})
      BY <2>1, Zenon DEF CrcIInv, CrcTypeOK
    <3>2. QED
      BY <2>1, <3>1, SMTT(20)
  <2>3. gap = IF goal >= ByteTime(b) THEN DelayBytes(goal - ByteTime(b)) ELSE 0
    BY <2>1, <2>2, Zenon DEF PlanOK, EntryGap
  <2>4. goal \in Int
    <3>1. transmit_pkts \in Seq([goal : Nat, len : Nat]) /\ i \in 1 .. Len(transmit_pkts)
      BY <2>1, <2>2, Zenon DEF LoopTypeOK
    <3>2. transmit_pkts[i] \in [goal : Nat, len : Nat]
      BY <3>1, SeqElement, Zenon
    <3>3. transmit_pkts[i].goal \in Nat /\ first_timestamp \in Nat
      BY <2>1, <3>2, Zenon DEF LoopTypeOK
    <3>4. QED
      BY <3>3, SMTT(40)
  <2>5. b \in Nat
    <3>1. ends \in Seq(Nat) /\ i \in 1 .. Len(ends)
      <4>1. /\ ends \in Seq(Nat) /\ Len(ends) = Len(planned) + 1
            /\ planned \in Seq(LoadPacket \cup {NULL})
        BY <2>1, Zenon DEF LoopTypeOK, PlanOK
      <4>2. Len(planned) \in Nat
        BY <4>1
      <4>3. i \in 1 .. Len(planned) + 1
        BY <2>2, <4>2
      <4>4. QED
        BY <4>1, <4>3, Zenon
    <3>2. QED
      BY <3>1, SeqElement, Zenon
  <2>6. W \in Int /\ Made = W
    <3>1. base \in Nat /\ lost.bytes = 0
      BY <2>1, NoFramesType, Zenon DEF LoopTypeOK
    <3>2. QED
      BY <2>1, <3>1, MadeBytesType, SMTT(20) DEF Made, MadeBytes, WireOffset
  <2>7. delay \in Nat /\ MinGap \in Nat /\ NS_NUM \in Nat \ {0} /\ NS_DEN \in Nat \ {0}
    BY <2>1, CrcAssumption, LaunchAssumption DEF CrcTypeOK, MinGap
  <2>8. ByteTime(b) \in Nat /\ NS_DEN * ByteTime(b) <= b * NS_NUM
    BY <2>5, ByteTimeBounds, Zenon
  <2>9. W + delay = b + gap
    BY <2>1, <2>6, Zenon
  <2> HIDE DEF goal, b, gap, W
  <2>10. CASE goal >= ByteTime(b)
    <3> DEFINE d == DelayBytes(goal - ByteTime(b))
    <3>1. d \in Nat /\ gap = d
      BY <2>3, <2>4, <2>8, <2>10, DelayBytesBounds
    <3>2. (b + d + 1) * NS_NUM > goal * NS_DEN /\ (b + d) * NS_NUM < (goal + 1) * NS_DEN
      BY <2>4, <2>5, <2>10, GapMeetsGoal, Zenon
    <3> HIDE DEF d
    <3>3. W + delay = b + d
      BY <2>9, <3>1, Zenon
    <3>4. QED
      BY <3>2, <3>3, Zenon DEF goal, W
  <2>11. CASE ~(goal >= ByteTime(b))
    <3>1. gap = 0 /\ goal + 1 <= ByteTime(b)
      BY <2>3, <2>4, <2>8, <2>11
    <3>2. b <= W + delay + 1
      BY <2>5, <2>6, <2>7, <2>9, <3>1
    <3>3. b * NS_NUM <= (W + delay + 1) * NS_NUM
      BY <2>5, <2>6, <2>7, <3>2, MulMonotone
    <3>4. (goal + 1) * NS_DEN <= ByteTime(b) * NS_DEN
      BY <2>4, <2>7, <2>8, <3>1, MulMonotone
    <3> DEFINE A == b * NS_NUM
               C == (W + delay + 1) * NS_NUM
               G == goal * NS_DEN
               T == ByteTime(b) * NS_DEN
    <3>5. A \in Int /\ C \in Int /\ G \in Int /\ T \in Int
      BY <2>4, <2>5, <2>6, <2>7, <2>8
    <3>6. (goal + 1) * NS_DEN = G + NS_DEN /\ T = NS_DEN * ByteTime(b)
      BY <2>4, <2>7, <2>8
    <3>7. A <= C /\ T <= A /\ G + NS_DEN <= T
      BY <2>8, <3>3, <3>4, <3>6, Zenon
    <3> HIDE DEF A, C, G, T
    <3>8. C > G
      BY <2>7, <3>5, <3>7
    <3>9. goal < ByteTime(b)
      BY <2>4, <2>8, <2>11
    <3>10. QED
      BY <3>8, <3>9, Zenon DEF C, G, goal, W, b
  <2>12. QED
    BY <2>10, <2>11, Zenon
<1>2. QED
  BY <1>1, LaunchInvariant, PTL

-----------------------------------------------------------------------------
(***************************************************************************)
(* No packet disappears.  A batch is counted by the entries of it that are  *)
(* still to be sent: c counts the entries that were not deleted, from the   *)
(* first one on.                                                            *)
(***************************************************************************)
Counts(c) ==
  /\ c \in [Nat -> Int]
  /\ \A k \in 1 .. Len(planned) :
       c[k] = IF planned[k] = NULL THEN c[k - 1] ELSE c[k - 1] + 1

Gone == Good(tx) + Good(pkts) + Good(lost)

Balance == Len(packet_ring) + dropped + Gone

AccountInv ==
  /\ at \in {"start", "poll", "done"} => accepted = Balance
  /\ at = "plan" =>
       \E c : /\ Counts(c)
             /\ accepted = Balance + (c[Len(planned)] - c[0])
                             + (Len(transmit_pkts) - Len(planned))
  /\ at = "send" =>
       \E c : Counts(c) /\ accepted = Balance + (c[Len(planned)] - c[i - 1])

LEMMA GoneNext ==
  Gone' = Good(tx') + Good(pkts') + Good(lost')
BY Zenon DEF Gone, Good

\* What the balance consists of.
LEMMA BalanceTypes ==
  ASSUME LaunchIInv
  PROVE  /\ Len(packet_ring) \in Nat /\ dropped \in Nat /\ accepted \in Nat
         /\ tx \in Frames /\ pkts \in Frames /\ lost \in Frames
         /\ Good(tx) \in Int /\ Good(pkts) \in Int /\ Good(lost) \in Int /\ Gone \in Int
         /\ Balance \in Int
         /\ Len(planned) \in Nat /\ Len(transmit_pkts) \in Nat /\ Len(load_pkts) \in Nat
         /\ i \in 1 .. Len(load_pkts) + 1
<1>1. tx \in Frames /\ pkts \in Frames /\ lost \in Frames /\ i \in 1 .. Len(load_pkts) + 1
  BY Zenon DEF LaunchIInv, CrcIInv, CrcTypeOK
<1>2. /\ Len(packet_ring) \in Nat /\ dropped \in Nat /\ accepted \in Nat
      /\ Len(planned) \in Nat /\ Len(transmit_pkts) \in Nat
  BY SeqLength, Zenon DEF LaunchIInv, LoopTypeOK
<1>3. Len(load_pkts) \in Nat
  BY SeqLength, Zenon DEF LaunchIInv, CrcIInv, CrcTypeOK
<1>4. Good(tx) \in Int /\ Good(pkts) \in Int /\ Good(lost) \in Int
  BY <1>1, GoodFrames, Zenon
<1>5. Gone \in Int
  BY <1>4 DEF Gone
<1>6. Balance \in Int
  BY <1>2, <1>5 DEF Balance
<1> QED BY <1>1, <1>2, <1>3, <1>4, <1>5, <1>6, Zenon

LEMMA CountType ==
  ASSUME NEW c, Counts(c), NEW n \in Nat
  PROVE  c[n] \in Int
BY Zenon DEF Counts

\* The other tasks, and the fillers sent while there is nothing to do.
LEMMA Others_Account ==
  ASSUME LaunchIInv, AccountInv, (\E bufs \in Bufs : send(bufs)) \/ Stop \/ Leave \/ UNCHANGED vars
  PROVE  AccountInv'
<1>1. /\ UNCHANGED <<transmit_pkts, planned, dropped, tx, pkts, lost, load_pkts, i>>
      /\ at' = at \/ (at = "poll" /\ at' = "done")
  BY Zenon DEF send, Stop, Leave, vars, loopVars, crcVars
<1>2. accepted' - Len(packet_ring') = accepted - Len(packet_ring) /\ accepted' \in Nat
      /\ Len(packet_ring') \in Nat
  <2>1. ASSUME NEW bufs \in Bufs, send(bufs)
        PROVE  accepted' - Len(packet_ring') = accepted - Len(packet_ring) /\ accepted' \in Nat
               /\ Len(packet_ring') \in Nat
    <3>1. /\ bufs \in Seq([goal : Nat, len : Nat]) /\ packet_ring \in Seq([goal : Nat, len : Nat])
      BY LaunchAssumption, Zenon DEF LaunchIInv, LoopTypeOK
    <3>2. packet_ring' = packet_ring \o bufs /\ accepted' = accepted + Len(bufs)
      BY <2>1, Zenon DEF send
    <3>3. Len(packet_ring') = Len(packet_ring) + Len(bufs) /\ Len(bufs) \in Nat
      BY <3>1, <3>2, SeqConcat, SeqLength, Zenon
    <3> DEFINE l == Len(packet_ring)
               m == Len(packet_ring')
               n == Len(bufs)
               a == accepted'
    <3>4. l \in Nat /\ n \in Nat /\ accepted \in Nat /\ m = l + n /\ a = accepted + n
      BY <3>2, <3>3, BalanceTypes, Zenon
    <3> HIDE DEF l, m, n, a
    <3>5. a - m = accepted - l /\ a \in Nat /\ m \in Nat
      BY <3>4, SMTT(20)
    <3> QED BY <3>5, Zenon DEF l, m, a
  <2>2. CASE Stop \/ Leave \/ UNCHANGED vars
    BY <2>2, BalanceTypes, Zenon DEF Stop, Leave, vars, loopVars
  <2> QED BY <2>1, <2>2, Zenon
<1>3. accepted' - Balance' = accepted - Balance /\ Balance \in Int /\ Balance' \in Int
  <2> DEFINE l == Len(packet_ring')
             a == accepted'
             g == Gone'
             d == dropped'
  <2>1. Balance' = l + d + g /\ Balance = Len(packet_ring) + dropped + Gone
    BY Zenon DEF Balance
  <2>2. a - l = accepted - Len(packet_ring) /\ a \in Nat /\ l \in Nat /\ d = dropped
    BY <1>1, <1>2, Zenon
  <2>3. g = Gone
    BY <1>1, GoneNext, Zenon DEF Gone
  <2>4. Gone \in Int /\ dropped \in Nat /\ Len(packet_ring) \in Nat /\ accepted \in Nat
    BY BalanceTypes, Zenon
  <2> HIDE DEF l, a, g, d
  <2>5. Balance' \in Int /\ Balance \in Int /\ a - Balance' = accepted - Balance
    BY <2>1, <2>2, <2>3, <2>4
  <2> QED BY <2>5, Zenon DEF a
<1> DEFINE b == Balance'
           a == accepted'
<1>x. a - b = accepted - Balance /\ Balance \in Int /\ b \in Int /\ a \in Nat /\ accepted \in Nat
  BY <1>2, <1>3, BalanceTypes, Zenon
<1> HIDE DEF a, b
<1>4. CASE at' = at
  <2>c. ASSUME NEW c PROVE Counts(c)' <=> Counts(c)
    BY <1>1, Zenon DEF Counts
  <2>n. /\ Len(transmit_pkts) \in Nat /\ Len(planned) \in Nat /\ i - 1 \in Nat
    BY BalanceTypes
  <2>1. at \in {"start", "poll", "done"} => a = b
    BY <1>x DEF AccountInv
  <2>2. ASSUME at = "plan"
        PROVE  \E c : Counts(c) /\ a = b + (c[Len(planned)] - c[0]) + (Len(transmit_pkts) - Len(planned))
    <3>1. PICK c : Counts(c) /\ accepted = Balance + (c[Len(planned)] - c[0])
                                 + (Len(transmit_pkts) - Len(planned))
      BY <2>2, Zenon DEF AccountInv
    <3> DEFINE x == c[Len(planned)] - c[0]
               y == Len(transmit_pkts) - Len(planned)
    <3>2. x \in Int /\ y \in Int
      BY <2>n, <3>1, CountType
    <3>3. accepted = Balance + x + y
      BY <3>1, Zenon
    <3> HIDE DEF x, y
    <3>4. a = b + x + y
      BY <1>x, <3>2, <3>3
    <3> QED BY <3>1, <3>4, Zenon DEF x, y
  <2>3. ASSUME at = "send"
        PROVE  \E c : Counts(c) /\ a = b + (c[Len(planned)] - c[i - 1])
    <3>1. PICK c : Counts(c) /\ accepted = Balance + (c[Len(planned)] - c[i - 1])
      BY <2>3, Zenon DEF AccountInv
    <3> DEFINE x == c[Len(planned)] - c[i - 1]
    <3>2. x \in Int
      BY <2>n, <3>1, CountType
    <3>3. accepted = Balance + x
      BY <3>1, Zenon
    <3> HIDE DEF x
    <3>4. a = b + x
      BY <1>x, <3>2, <3>3
    <3> QED BY <3>1, <3>4, Zenon DEF x
  <2> QED BY <1>1, <1>4, <2>c, <2>1, <2>2, <2>3, Zenon DEF AccountInv, a, b
<1>5. CASE at = "poll" /\ at' = "done"
  <2>1. a = b
    BY <1>x, <1>5, SMTT(20) DEF AccountInv
  <2> QED BY <1>5, <2>1, Zenon DEF AccountInv, a, b
<1> QED BY <1>1, <1>4, <1>5, Zenon

LEMMA Fillers_Account ==
  ASSUME LaunchIInv, AccountInv, Start \/ Idle
  PROVE  AccountInv'
<1> DEFINE burst == EmptyDelayFrames(BURST, IDLE_SIZE)
           warmup == EmptyDelayFrames(WARMUP * BURST, IDLE_SIZE)
<1>0. BURST \in Nat /\ WARMUP * BURST \in Nat /\ IDLE_SIZE \in Nat
  BY LaunchAssumption, CrcAssumption
<1>1. /\ burst \in Frames /\ warmup \in Frames /\ Good(burst) = 0 /\ Good(warmup) = 0
  BY <1>0, EmptyDelayType, GoodFrames, Zenon
<1>2. /\ UNCHANGED <<packet_ring, dropped, accepted, pkts, lost>> /\ at' = "poll"
      /\ at \in {"start", "poll"}
      /\ tx' = Add(Add(tx, warmup), Add(burst, warmup)) \/ tx' = Add(tx, burst)
  BY Zenon DEF Start, Idle
<1> HIDE DEF burst, warmup
<1>3. Good(tx') = Good(tx)
  <2>1. Add(tx, warmup) \in Frames /\ Add(burst, warmup) \in Frames
    BY <1>1, BalanceTypes, AddFrames, Zenon
  <2>2. Good(Add(tx, warmup)) = Good(tx) /\ Good(Add(burst, warmup)) = 0 /\ Good(Add(tx, burst)) = Good(tx)
    BY <1>1, BalanceTypes, GoodFrames, SMTT(20)
  <2>3. Good(Add(Add(tx, warmup), Add(burst, warmup))) = Good(tx)
    BY <2>1, <2>2, BalanceTypes, GoodFrames
  <2> QED BY <1>2, <2>2, <2>3, Zenon
<1>4. Gone' = Gone
  BY <1>2, <1>3, GoneNext, Zenon DEF Gone
<1>5. Balance' = Balance
  BY <1>2, <1>4, Zenon DEF Balance
<1> QED BY <1>2, <1>5, Zenon DEF AccountInv

LEMMA Dequeue_Account ==
  ASSUME LaunchIInv, AccountInv, Dequeue
  PROVE  AccountInv'
<1> DEFINE rx == IF Len(packet_ring) < TRANSMIT_BUFFER_SIZE
                 THEN Len(packet_ring) ELSE TRANSMIT_BUFFER_SIZE
<1>1. rx \in 0 .. Len(packet_ring)
  BY BalanceTypes, CrcAssumption
<1> HIDE DEF rx
<1>2. /\ transmit_pkts' = SubSeq(packet_ring, 1, rx)
      /\ packet_ring' = SubSeq(packet_ring, rx + 1, Len(packet_ring))
      /\ planned' = <<>> /\ at = "poll" /\ at' = "plan"
      /\ UNCHANGED <<dropped, accepted, tx, pkts, lost>>
  BY Zenon DEF Dequeue, set_invalid_packet_size, rx
<1>3. Len(transmit_pkts') = rx /\ Len(packet_ring') = Len(packet_ring) - rx
  BY <1>1, <1>2, SplitSeq DEF LaunchIInv, LoopTypeOK
<1>4. Len(planned') = 0
  BY <1>2, Zenon
<1>5. accepted = Balance
  BY <1>2, Zenon DEF AccountInv
<1>6. accepted' = Balance' + 0 + (Len(transmit_pkts') - Len(planned'))
  <2> DEFINE b == Balance'
  <2>1. Gone' = Gone
    BY <1>2, GoneNext, Zenon DEF Gone
  <2>2. b = (Len(packet_ring) - rx) + dropped + Gone
    BY <1>2, <1>3, <2>1, Zenon DEF Balance
  <2>3. accepted = Len(packet_ring) + dropped + Gone
    BY <1>5, Zenon DEF Balance
  <2>4. Len(packet_ring) \in Nat /\ dropped \in Nat /\ Gone \in Int /\ rx \in Nat
    BY <1>1, BalanceTypes
  <2> HIDE DEF b
  <2>5. accepted = b + 0 + (rx - 0)
    BY <2>2, <2>3, <2>4
  <2> QED BY <1>2, <1>3, <1>4, <2>5, Zenon DEF b
<1> DEFINE z == [k \in Nat |-> 0]
<1>7. Counts(z)'
  BY <1>4 DEF Counts
<1>8. z[Len(planned')] - z[0] = 0
  BY <1>4, SMTT(20)
<1> HIDE DEF z
<1> QED BY <1>2, <1>6, <1>7, <1>8, Zenon DEF AccountInv

\* An entry is rewritten: a packet to be sent, or one that is dropped.
LEMMA Plan_Account ==
  ASSUME LaunchIInv, AccountInv, at = "plan", Len(planned) < Len(transmit_pkts),
         NEW entry \in LoadPacket \cup {NULL}, NEW bytes, Plan(entry, bytes),
         dropped' = IF entry = NULL THEN dropped + 1 ELSE dropped
  PROVE  AccountInv'
<1> DEFINE n == Len(planned)
<1>1. /\ planned' = Append(planned, entry)
      /\ UNCHANGED <<tx, pkts, lost, packet_ring, at, transmit_pkts, accepted>>
  BY Zenon DEF Plan, crcVars
<1>2. /\ Len(planned') = n + 1 /\ planned'[n + 1] = entry
      /\ \A k \in 1 .. n : planned'[k] = planned[k]
  <2>1. planned \in Seq(LoadPacket \cup {NULL})
    BY Zenon DEF LaunchIInv, LoopTypeOK
  <2> QED BY <1>1, <2>1, SeqAppend, SMTT(20)
<1>n. n \in Nat /\ Len(transmit_pkts) \in Nat /\ dropped \in Nat /\ Len(packet_ring) \in Nat
      /\ Gone \in Int
  BY BalanceTypes, Zenon
<1>3. PICK c : Counts(c) /\ accepted = Balance + (c[n] - c[0]) + (Len(transmit_pkts) - n)
  BY Zenon DEF AccountInv
<1> DEFINE one == IF entry = NULL THEN 0 ELSE 1
<1>4. c \in [Nat -> Int] /\ c[n] \in Int /\ c[0] \in Int /\ n + 1 \in Nat
  BY <1>n, <1>3, SMTT(20) DEF Counts
<1>5. PICK e : e \in [Nat -> Int] /\ e[n + 1] = c[n] + one /\ \A k \in 0 .. n : e[k] = c[k]
  <2> DEFINE x == [c EXCEPT ![n + 1] = c[n] + one]
  <2>1. x \in [Nat -> Int] /\ x[n + 1] = c[n] + one /\ \A k \in 0 .. n : x[k] = c[k]
    BY <1>n, <1>4
  <2> QED BY <2>1, Zenon
<1>6. Counts(e)'
  <2> SUFFICES ASSUME NEW k \in 1 .. n + 1
               PROVE  e[k] = IF planned'[k] = NULL THEN e[k - 1] ELSE e[k - 1] + 1
    BY <1>2, <1>5, Zenon DEF Counts
  <2>1. CASE k = n + 1
    <3>1. k - 1 = n /\ e[n] = c[n] /\ planned'[k] = entry
      BY <1>2, <1>n, <1>5, <2>1
    <3>2. CASE entry = NULL
      BY <1>4, <1>5, <2>1, <3>1, <3>2, SMTT(20)
    <3>3. CASE entry # NULL
      BY <1>4, <1>5, <2>1, <3>1, <3>3, Zenon
    <3> QED BY <3>2, <3>3, Zenon
  <2>2. CASE k # n + 1
    <3>1. k \in 1 .. n /\ k \in 0 .. n /\ k - 1 \in 0 .. n
      BY <1>n, <2>2, SMTT(20)
    <3>2. e[k] = c[k] /\ e[k - 1] = c[k - 1] /\ planned'[k] = planned[k]
      BY <1>2, <1>5, <3>1, Zenon
    <3>3. c[k] = IF planned[k] = NULL THEN c[k - 1] ELSE c[k - 1] + 1
      BY <1>3, <3>1, Zenon DEF Counts, n
    <3> QED BY <3>2, <3>3, Zenon
  <2> QED BY <2>1, <2>2, Zenon
<1>7. Gone' = Gone
  BY <1>1, GoneNext, Zenon DEF Gone
<1> DEFINE b == Balance'
           l == Len(packet_ring)
           d == dropped'
           m == Len(transmit_pkts)
           p == c[n]
           q == c[0]
           s == e[n + 1]
<1>8. b = l + d + Gone /\ Balance = l + dropped + Gone
  BY <1>1, <1>7, Zenon DEF Balance
<1>9. d + s = dropped + p + 1 /\ d \in Nat /\ s \in Int /\ e[0] = q
  <2>1. CASE entry = NULL
    BY <1>n, <1>4, <1>5, <2>1, SMTT(20)
  <2>2. CASE entry # NULL
    BY <1>n, <1>4, <1>5, <2>2, SMTT(20)
  <2> QED BY <2>1, <2>2, Zenon
<1>10. accepted = Balance + (p - q) + (m - n) /\ p \in Int /\ q \in Int
  BY <1>3, <1>4, Zenon
<1>11. l \in Nat /\ m \in Nat
  BY <1>n, Zenon
<1> HIDE DEF one, b, d, l, m, n, p, q, s
<1>12. accepted = b + (s - q) + (m - (n + 1))
  BY <1>n, <1>8, <1>9, <1>10, <1>11, SMTT(20)
<1>13. accepted' = Balance' + (e[Len(planned')] - e[0]) + (Len(transmit_pkts') - Len(planned'))
  BY <1>1, <1>2, <1>9, <1>12, Zenon DEF b, s, m
<1> QED BY <1>1, <1>6, <1>13, Zenon DEF AccountInv

LEMMA PlanSteps_Account ==
  ASSUME LaunchIInv, AccountInv, PlanDrop \/ PlanLate \/ PlanDelay
  PROVE  AccountInv'
<1>0. at = "plan" /\ Len(planned) < Len(transmit_pkts)
  BY Zenon DEF PlanDrop, PlanLate, PlanDelay
<1>1. CASE PlanDrop
  <2>1. Plan(NULL, 0) /\ dropped' = dropped + 1
    BY <1>1, Zenon DEF PlanDrop
  <2> QED BY <1>0, <2>1, Plan_Account, Zenon
<1>2. CASE PlanLate \/ PlanDelay
  <2> DEFINE p == NextPlanned
             t == CurrentSendingTime
  <2>1. p \in [goal : Nat, len : Nat]
    <3>1. transmit_pkts \in Seq([goal : Nat, len : Nat])
      BY Zenon DEF LaunchIInv, LoopTypeOK
    <3>2. Len(planned) \in Nat /\ Len(transmit_pkts) \in Nat
      BY BalanceTypes, Zenon
    <3>3. Len(planned) + 1 \in 1 .. Len(transmit_pkts)
      BY <1>0, <3>2
    <3> QED BY <3>1, <3>3, SeqElement, Zenon DEF NextPlanned
  <2>2. p.goal \in Nat /\ p.len \in Nat
    BY <2>1, Zenon
  <2>3. t \in Nat
    <3>1. current_byte_offset \in Nat /\ first_timestamp \in Nat
      BY Zenon DEF LaunchIInv, LoopTypeOK
    <3> QED BY <3>1, ByteTimeBounds DEF CurrentSendingTime
  <2> HIDE DEF p, t
  <2>4. PICK gap, bytes \in Nat :
          Plan([gap |-> gap, len |-> p.len], bytes) /\ dropped' = dropped
    <3>1. CASE PlanLate
      <4>1. p.len + PACKET_OVERHEAD \in Nat
        BY <2>2, CrcAssumption
      <4> QED BY <3>1, <4>1, Zenon DEF PlanLate, p
    <3>2. CASE PlanDelay
      <4>1. p.goal - t \in Nat
        BY <2>2, <2>3, <3>2 DEF PlanDelay, p, t
      <4>2. DelayBytes(p.goal - t) \in Nat
        BY <4>1, DelayBytesBounds, Zenon
      <4>3. p.len + PACKET_OVERHEAD + DelayBytes(p.goal - t) \in Nat
        BY <2>2, <4>2, CrcAssumption, SMTT(20)
      <4> QED BY <3>2, <4>2, <4>3, Zenon DEF PlanDelay, p, t
    <3> QED BY <1>2, <3>1, <3>2, Zenon
  <2> DEFINE e == [gap |-> gap, len |-> p.len]
  <2>5. e \in LoadPacket /\ e # NULL
    BY <2>2, EntryType, CrcAssumption, Zenon
  <2>6. Plan(e, bytes) /\ dropped' = dropped
    BY <2>4, Zenon
  <2> HIDE DEF e
  <2> QED BY <1>0, <2>5, <2>6, Plan_Account, Zenon
<1> QED BY <1>1, <1>2, Zenon

LEMMA SendBatch_Account ==
  ASSUME LaunchIInv, AccountInv, SendBatch
  PROVE  AccountInv'
<1>1. /\ at = "plan" /\ at' = "send" /\ Len(planned) = Len(transmit_pkts) /\ pc = "idle"
      /\ load_pkts' = planned /\ i' = 1 /\ pkts' = NoFrames
      /\ UNCHANGED <<tx, lost, packet_ring, dropped, accepted, planned>>
  BY Zenon DEF SendBatch, send_packets
<1>2. pkts = NoFrames
  BY <1>1, Zenon DEF LaunchIInv, CrcIInv
<1>4. Gone' = Gone
  BY <1>1, <1>2, GoneNext, Zenon DEF Gone
<1>5. Balance' = Balance
  BY <1>1, <1>4, Zenon DEF Balance
<1>6. PICK c : Counts(c) /\ accepted = Balance + (c[Len(planned)] - c[0])
                               + (Len(transmit_pkts) - Len(planned))
  BY <1>1, Zenon DEF AccountInv
<1> DEFINE x == c[Len(planned)] - c[0]
<1>7. x \in Int /\ Balance \in Int /\ Len(planned) \in Nat
  <2>1. Balance \in Int /\ Len(planned) \in Nat
    BY BalanceTypes, Zenon
  <2>2. c[Len(planned)] \in Int /\ c[0] \in Int
    BY <1>6, <2>1, CountType, Zenon
  <2> QED BY <2>1, <2>2
<1>8. accepted = Balance + x + (Len(planned) - Len(planned))
  BY <1>1, <1>6, Zenon
<1> HIDE DEF x
<1>9. accepted = Balance + x
  BY <1>7, <1>8, SMTT(20)
<1>10. Counts(c)' /\ i' - 1 = 0 /\ planned' = planned
  BY <1>1, <1>6 DEF Counts
<1> QED BY <1>1, <1>5, <1>9, <1>10, Zenon DEF AccountInv, x

LEMMA Sending_Account ==
  ASSUME LaunchIInv, AccountInv, Sending
  PROVE  AccountInv'
<1>1. /\ at = "send" /\ SendPacketsStep /\ at' = (IF pc' = "idle" THEN "poll" ELSE "send")
      /\ UNCHANGED <<packet_ring, dropped, accepted, planned>>
  BY Zenon DEF Sending
<1> DEFINE n == Len(planned)
<1>2. PICK c : Counts(c) /\ accepted = Balance + (c[n] - c[i - 1])
  BY <1>1, Zenon DEF AccountInv
<1>3. /\ Gone \in Int /\ Balance \in Int /\ n \in Nat
      /\ tx \in Frames /\ pkts \in Frames /\ lost \in Frames
      /\ Good(tx) \in Int /\ Good(pkts) \in Int /\ Good(lost) \in Int
      /\ i \in 1 .. Len(load_pkts) + 1
      /\ Len(packet_ring) \in Nat /\ dropped \in Nat
  BY BalanceTypes, Zenon
<1>4. load_pkts' = load_pkts /\ (pc' = "idle" <=> Return)
  BY <1>1, ZenonT(30) DEF SendPacketsStep, SkipDeleted, TakePacket, SendFiller, SendPacket, Return
<1>l. load_pkts = planned
  BY <1>1, Zenon DEF LaunchIInv
<1>i. i \in 1 .. n + 1 /\ i - 1 \in Nat /\ i \in Nat /\ Len(load_pkts) = n
  BY <1>3, <1>l
<1>c. Counts(c)'
  BY <1>1, <1>2, Zenon DEF Counts
<1>t. c[n] \in Int /\ c[i - 1] \in Int /\ c[i] \in Int
  BY <1>2, <1>3, <1>i, CountType, Zenon
<1>e. i \in 1 .. n => c[i] = IF planned[i] = NULL THEN c[i - 1] ELSE c[i - 1] + 1
  BY <1>2, Zenon DEF Counts
<1> HIDE DEF n
<1>5. ASSUME at' = "send", Gone' = Gone, c[i' - 1] = c[i - 1]
      PROVE  AccountInv'
  <2>1. Balance' = Balance
    BY <1>1, <1>5, Zenon DEF Balance
  <2>2. accepted' = Balance' + (c[Len(planned')] - c[i' - 1])
    BY <1>1, <1>2, <1>5, <2>1, Zenon DEF n
  <2> QED BY <1>5, <1>c, <2>2, Zenon DEF AccountInv
<1>6. CASE SkipDeleted
  <2>1. /\ load_pkts[i] = NULL /\ i' = i + 1 /\ pc' = "loop"
        /\ UNCHANGED <<tx, pkts, lost>>
    BY <1>6, Zenon DEF SkipDeleted
  <2>2. at' = "send"
    BY <1>1, <2>1, Zenon
  <2>3. Gone' = Gone
    BY <2>1, GoneNext, Zenon DEF Gone
  <2>4. i \in 1 .. n /\ planned[i] = NULL /\ i' - 1 = i
    BY <1>6, <1>i, <1>l, <2>1 DEF SkipDeleted
  <2>5. c[i' - 1] = c[i - 1]
    BY <1>e, <2>4, Zenon
  <2> QED BY <1>5, <2>2, <2>3, <2>5, Zenon
<1>7. CASE TakePacket
  <2>1. i' = i /\ pc' = "fill" /\ UNCHANGED <<tx, pkts, lost>>
    BY <1>7, Zenon DEF TakePacket
  <2>2. at' = "send"
    BY <1>1, <2>1, Zenon
  <2>3. Gone' = Gone
    BY <2>1, GoneNext, Zenon DEF Gone
  <2> QED BY <1>5, <2>1, <2>2, <2>3, Zenon
<1>8. CASE SendFiller
  <2> DEFINE w == get_delay_packet(delay)
  <2>1. /\ i' = i /\ pc' = "fill" /\ lost' = lost /\ PutFrames(Filler(w), FALSE)
        /\ delay >= MinGap
    BY <1>8, Zenon DEF SendFiller
  <2>2. w \in Nat
    BY <2>1, DelayPacketSize, Zenon DEF LaunchIInv, CrcIInv, CrcTypeOK
  <2> HIDE DEF w
  <2>3. Filler(w) \in Frames /\ Good(Filler(w)) = 0
    BY <2>2, SMTT(20) DEF Filler, Frames, Good
  <2>x. Good(tx') + Good(pkts') = Good(tx) + Good(pkts) + Good(Filler(w))
    BY <1>3, <2>1, <2>3, PutFramesGood, Zenon
  <2>4. Good(tx') + Good(pkts') = Good(tx) + Good(pkts)
    <3> DEFINE a == Good(tx)
               b == Good(pkts)
               g == Good(Filler(w))
    <3>1. a \in Int /\ b \in Int /\ g = 0
      BY <1>3, <2>3, Zenon
    <3> HIDE DEF a, b, g
    <3>2. a + b + g = a + b
      BY <3>1
    <3> QED BY <2>x, <3>2, Zenon DEF a, b, g
  <2>5. at' = "send"
    BY <1>1, <2>1, Zenon
  <2>6. Gone' = Gone
    BY <2>1, <2>4, GoneNext, Zenon DEF Gone
  <2> QED BY <1>5, <2>1, <2>5, <2>6, Zenon
<1>9. CASE SendPacket
  <2> DEFINE f == Packet(load_pkts[i].len)
  <2>1. /\ i' = i + 1 /\ pc = "fill" /\ pc' = "loop" /\ lost' = lost
        /\ PutFrames(f, i = Len(load_pkts))
    BY <1>9, Zenon DEF SendPacket
  <2>2. i <= Len(load_pkts) /\ load_pkts[i] # NULL
    BY <2>1, Zenon DEF LaunchIInv, CrcIInv
  <2>3. load_pkts[i].len \in Nat
    BY <1>9, PacketBytes, Zenon DEF LaunchIInv
  <2>4. f \in Frames /\ Good(f) = 1
    <3>1. PACKET_OVERHEAD \in Nat
      BY CrcAssumption, Zenon
    <3>2. load_pkts[i].len + PACKET_OVERHEAD \in Nat
      BY <2>3, <3>1, SMTT(20)
    <3>3. f \in Frames
      BY <3>2, Zenon DEF Packet, Frames
    <3>4. f.n = 1 /\ f.bad = 0
      BY Zenon DEF Packet
    <3> QED BY <3>3, <3>4 DEF Good
  <2> HIDE DEF f
  <2>x. Good(tx') + Good(pkts') = Good(tx) + Good(pkts) + Good(f)
    BY <1>3, <2>1, <2>4, PutFramesGood, Zenon
  <2>5. Good(tx') + Good(pkts') = Good(tx) + Good(pkts) + 1
    BY <2>4, <2>x, Zenon
  <2>6. at' = "send"
    BY <1>1, <2>1, Zenon
  <2>7. Gone' = Gone + 1
    BY <1>3, <2>1, <2>5, GoneNext DEF Gone
  <2>8. i \in 1 .. n /\ planned[i] # NULL /\ i' - 1 = i
    BY <1>i, <1>l, <2>1, <2>2
  <2>9. c[i' - 1] = c[i - 1] + 1
    BY <1>e, <2>8, Zenon
  <2>10. Balance' = Balance + 1
    BY <1>1, <1>3, <2>7, SMTT(20) DEF Balance
  <2> DEFINE x == c[n]
             y == c[i - 1]
             z == c[i' - 1]
             b == Balance'
  <2>11. /\ accepted = Balance + (x - y) /\ z = y + 1 /\ b = Balance + 1
         /\ x \in Int /\ y \in Int /\ Balance \in Int
    BY <1>2, <1>3, <1>t, <2>9, <2>10, Zenon
  <2> HIDE DEF x, y, z, b
  <2>12. accepted = b + (x - z)
    BY <2>11
  <2>13. accepted' = Balance' + (c[Len(planned')] - c[i' - 1])
    BY <1>1, <2>12, Zenon DEF x, z, b, n
  <2> QED BY <1>c, <2>6, <2>13, Zenon DEF AccountInv
<1>10. CASE Return
  <2>1. /\ i > Len(load_pkts) /\ lost' = Add(lost, pkts) /\ pkts' = NoFrames
        /\ tx' = tx /\ pc' = "idle"
    BY <1>10, Zenon DEF Return
  <2>2. at' = "poll"
    BY <1>1, <2>1, Zenon
  <2>3. i - 1 = n
    BY <1>i, <1>3, <2>1, SMTT(20)
  <2>5. Good(lost') = Good(lost) + Good(pkts) /\ Good(pkts') = 0
    BY <1>3, <2>1, GoodFrames, Zenon
  <2>6. Gone' = Gone
    BY <1>3, <2>1, <2>5, GoneNext DEF Gone
  <2>7. Balance' = Balance
    BY <1>1, <2>6, Zenon DEF Balance
  <2>8. accepted = Balance
    BY <1>2, <1>3, <1>t, <2>3
  <2> QED BY <1>1, <2>2, <2>7, <2>8, Zenon DEF AccountInv
<1> QED BY <1>1, <1>6, <1>7, <1>8, <1>9, <1>10, Zenon DEF SendPacketsStep

LEMMA AccountStep ==
  ASSUME LaunchIInv, AccountInv, [Next]_vars
  PROVE  AccountInv'
BY Others_Account, Fillers_Account, Dequeue_Account, PlanSteps_Account,
   SendBatch_Account, Sending_Account, Zenon DEF Next, TransmitLoop

\* Between two batches, as many packets as the ring accepted are still in it,
\* dropped as late, on the wire or lost by send_packets: transmit_loop neither
\* leaks nor duplicates any.
THEOREM PacketsAreAccounted == Spec => []PacketsAccounted
<1>1. Init => AccountInv
  <2> SUFFICES ASSUME Init PROVE AccountInv
    BY Zenon
  <2>1. /\ at = "start" /\ accepted = 0 /\ dropped = 0 /\ packet_ring = <<>>
        /\ tx = NoFrames /\ pkts = NoFrames /\ lost = NoFrames
    BY Zenon DEF Init, CrcInit
  <2>2. Gone = 0
    BY <2>1, GoodFrames DEF Gone
  <2>3. Balance = 0
    BY <2>1, <2>2 DEF Balance
  <2> QED BY <2>1, <2>3, Zenon DEF AccountInv
<1>2. LaunchIInv /\ AccountInv /\ [Next]_vars => AccountInv'
  BY AccountStep, Zenon
<1>3. LaunchIInv /\ AccountInv => PacketsAccounted
  <2> SUFFICES ASSUME LaunchIInv, AccountInv, at \in {"start", "poll", "done"}
               PROVE  accepted = Len(packet_ring) + dropped + (tx.n - tx.bad) + (lost.n - lost.bad)
    BY Zenon DEF PacketsAccounted
  <2>1. pkts = NoFrames
    BY Zenon DEF LaunchIInv, CrcIInv
  <2>2. Gone = Good(tx) + Good(lost)
    BY <2>1, BalanceTypes, GoodFrames DEF Gone
  <2>3. accepted = Len(packet_ring) + dropped + Gone
    BY Zenon DEF AccountInv, Balance
  <2>4. accepted = Len(packet_ring) + dropped + Good(tx) + Good(lost)
    <3> DEFINE l == Len(packet_ring)
               g == Good(tx)
               h == Good(lost)
    <3>1. l \in Nat /\ dropped \in Nat /\ g \in Int /\ h \in Int
      BY BalanceTypes, Zenon
    <3>2. accepted = l + dropped + (g + h)
      BY <2>2, <2>3, Zenon
    <3> HIDE DEF l, g, h
    <3>3. accepted = l + dropped + g + h
      BY <3>1, <3>2
    <3> QED BY <3>3, Zenon DEF l, g, h
  <2> QED BY <2>4, Zenon DEF Good
<1> QED BY <1>1, <1>2, <1>3, LaunchInvariant, PTL DEF Spec
=============================================================================
