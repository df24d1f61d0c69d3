------------------------------- MODULE MoonEm -------------------------------
(***************************************************************************)
(* MoonEm's receiver and transmitter loops (src/moonem_sw.cpp,              *)
(* src/moonem.cpp), started by examples/moonem.lua: a receiver applies the  *)
(* rate limit and the loss model, stamps what is left with its departure    *)
(* time and puts it into a packet ring; a transmitter sends each packet at  *)
(* its time.  Loops whose name starts with sw_ take the time of the burst   *)
(* from the TSC; the others (hw_) have a timestamp of the NIC per packet    *)
(* and leave the sending to the DelayEmulator (module LaunchTimestamp).     *)
(***************************************************************************)
EXTENDS Integers, Sequences

CONSTANTS
  LOOPS,          \* receiver loops to consider, out of SwLoops and HwLoops
  LOSS_TYPES,     \* loss models to consider, out of AllLossTypes
  BURST_SIZE,
  RING_SIZE,      \* capacity of packet_ring
  NUM_BUFS,       \* mbufs in the pool of the receiving device
  DELAY,          \* the --delay of the user, in clock ticks
  TOKEN_RATE,     \* bytes per tick, token bucket
  TICKS_PER_BYTE, \* 8 / B_P_TSC_TARGET, leaky bucket
  CAPACITY,       \* config.capacity, in bytes
  SIZES,          \* pkt_len + 24 of the packets that arrive
  BOOT,           \* reading of the clock when the loops start
  LAST_ARRIVAL, MAX_TIME, MAX_PKTS

SwLoops == {"sw_fwd", "sw_delay", "sw_token", "sw_leaky"}
HwLoops == {"hw_fwd", "hw_delay", "hw_token", "hw_leaky"}
FwdLoops == {"sw_fwd", "hw_fwd"}
AllLossTypes == {"NONE", "UNIFORM", "GE", "NETEM"}

\* BACKLOG_BOUND of the leaky bucket: the time the capacity takes to send.
BACKLOG_BOUND == CAPACITY * TICKS_PER_BYTE

ASSUME MoonEmAssumption ==
  /\ LOOPS \subseteq SwLoops \union HwLoops /\ LOSS_TYPES \subseteq AllLossTypes
  /\ BURST_SIZE \in Nat \ {0} /\ RING_SIZE \in Nat /\ NUM_BUFS \in Nat
  /\ NUM_BUFS <= RING_SIZE
  /\ DELAY \in Nat /\ TOKEN_RATE \in Nat /\ TICKS_PER_BYTE \in Nat
  /\ CAPACITY \in Nat /\ SIZES \subseteq Nat \ {0} /\ BOOT \in Nat
  /\ LAST_ARRIVAL \in Nat /\ MAX_TIME \in Nat /\ MAX_PKTS \in Nat
  /\ LAST_ARRIVAL + DELAY + BACKLOG_BOUND <= MAX_TIME

VARIABLES
  loop, loss_type, delay, \* what master configured
  running, now,
  rx_at,           \* receiver: "poll", "bufs" (walking the burst), "done"
  bufs, bufs_accept,
  tokens, previous_timestamp, next_at,
  packet_ring,
  tx_at,           \* transmitter: "poll", "send", "done"
  rx_pkts, i,
  received,        \* history: packets taken from the NIC so far
  last_recv,       \* history: arrival time of the last of them
  freed,           \* history: packets given back to the pool
  charged,         \* history: what the rate limiter let pass
  wire             \* history: what was sent or handed to the emulator, and when

config == <<loop, loss_type, delay>>
rxVars == <<rx_at, bufs, bufs_accept, tokens, previous_timestamp, next_at,
            received, last_recv, freed, charged>>
txVars == <<tx_at, rx_pkts, i>>
vars == <<config, running, now, rxVars, txVars, packet_ring, wire>>

Smaller(a, b) == IF a < b THEN a ELSE b
Larger(a, b) == IF a > b THEN a ELSE b

\* The options of moonem.lua that select the loops.
Args == [hardware : BOOLEAN, delay : {0, DELAY}, rate : BOOLEAN,
         leaky_bucket : BOOLEAN, loss_type : LOSS_TYPES]

\* The combinations master refuses with log:fatal.
Refused(a) == a.hardware /\ a.delay = 0 /\ a.leaky_bucket

\* The receiver loop master, hw_rx_loop and sw_rx_loop end up in.
ReceiverLoop(a) ==
  IF a.delay = 0 /\ ~a.rate THEN "sw_fwd"
  ELSE IF a.hardware
  THEN IF a.delay = 0 THEN "hw_fwd"
       ELSE IF ~a.rate THEN "hw_delay"
       ELSE IF a.leaky_bucket THEN "hw_leaky" ELSE "hw_token"
  ELSE IF ~a.rate THEN "sw_delay"
  ELSE IF a.leaky_bucket THEN "sw_leaky" ELSE "sw_token"

Init ==
  /\ \E a \in Args :
       /\ ~Refused(a)
       /\ loop = ReceiverLoop(a) /\ loop \in LOOPS
       /\ loss_type = a.loss_type /\ delay = a.delay
  /\ running = TRUE /\ now = BOOT
  /\ rx_at = "poll" /\ bufs = <<>> /\ bufs_accept = <<>>
  /\ tokens = 0 /\ previous_timestamp = 0 /\ next_at = 0
  /\ packet_ring = <<>>
  /\ tx_at = "poll" /\ rx_pkts = <<>> /\ i = 1
  /\ received = 0 /\ last_recv = BOOT /\ freed = <<>>
  /\ charged = <<>> /\ wire = <<>>

-----------------------------------------------------------------------------
(* The receiver.                                                            *)

\* Mbufs that are in nobody's hands but the pool's.
FreeBufs == NUM_BUFS - (received - Len(freed) - Len(wire))

\* The timestamps rte_eth_rx_burst and rte_rdtsc give the packets of a burst of
\* n: one reading for all of them, or one by the NIC for each, in order.
Arrivals(n) ==
  IF loop \in HwLoops
  THEN {t \in [1 .. n -> last_recv .. now] :
          \A j, k \in 1 .. n : j < k => t[j] <= t[k]}
  ELSE {[k \in 1 .. n |-> now]}

\* rte_eth_rx_burst returns packets; the software token bucket is refilled
\* once for all of them.
Receive ==
  /\ rx_at = "poll" /\ running /\ now <= LAST_ARRIVAL
  /\ \E n \in 1 .. BURST_SIZE :
       /\ received + n <= MAX_PKTS /\ n <= FreeBufs
       /\ \E t \in Arrivals(n), size \in [1 .. n -> SIZES] :
            /\ bufs' = [k \in 1 .. n |->
                          [id |-> received + k, size |-> size[k], recv |-> t[k],
                           ts |-> 0, burst |-> 0, judged |-> FALSE]]
            /\ last_recv' = t[n]
       /\ received' = received + n
  /\ IF loop = "sw_token"
     THEN /\ tokens' = Smaller(tokens + (now - previous_timestamp) * TOKEN_RATE,
                               CAPACITY)
          /\ previous_timestamp' = now
     ELSE UNCHANGED <<tokens, previous_timestamp>>
  /\ rx_at' = "bufs"
  /\ UNCHANGED <<config, running, now, bufs_accept, next_at, freed,
                 charged, txVars, packet_ring, wire>>

\* The software rate limiters look at config.loss, which only the uniform model
\* sets; the other loops ask applyLoss whenever a model is configured.
LossApplies ==
  IF loop \in {"sw_token", "sw_leaky"} THEN loss_type = "UNIFORM"
  ELSE loss_type # "NONE"

\* rte_pktmbuf_free and continue.
Free(p) ==
  /\ freed' = Append(freed, p)
  /\ UNCHANGED bufs_accept

\* Without a leaky bucket: a forwarding loop writes no timestamp.
SendTime(p) == IF loop \in FwdLoops THEN 0 ELSE p.recv + delay

\* Keep p, to depart at ts, unless the loss model takes it.
AcceptOrLose(p, ts) ==
  \/ /\ LossApplies
     /\ Free(p)
  \/ /\ bufs_accept' = Append(bufs_accept,
                              [p EXCEPT !.ts = ts, !.judged = LossApplies])
     /\ UNCHANGED freed

\* The rate limiter lets p pass at ts.
Charge(p, ts) ==
  charged' = Append(charged,
    [recv |-> p.recv, ts |-> ts,
     total |-> p.size + IF charged = <<>> THEN 0 ELSE charged[Len(charged)].total])

\* One turn of the loop over the burst, without a rate limit.
HandleDelay(p) ==
  /\ loop \in {"sw_fwd", "sw_delay", "hw_delay"}
  /\ AcceptOrLose(p, SendTime(p))
  /\ UNCHANGED <<tokens, previous_timestamp, next_at, charged>>

HandleSwToken_NoCharge(p) ==
  /\ loop = "sw_token"
  /\ IF tokens < p.size
     THEN Free(p) /\ UNCHANGED <<tokens, charged>>
     ELSE AcceptOrLose(p, SendTime(p)) /\ Charge(p, SendTime(p))
          /\ UNCHANGED tokens
  /\ UNCHANGED <<previous_timestamp, next_at>>

HandleSwToken(p) ==
  /\ loop = "sw_token"
  /\ IF tokens < p.size
     THEN Free(p) /\ UNCHANGED <<tokens, charged>>
     ELSE /\ tokens' = tokens - p.size
          /\ AcceptOrLose(p, SendTime(p))
          /\ Charge(p, SendTime(p))
  /\ UNCHANGED <<previous_timestamp, next_at>>

\* The hardware variants refill per packet, want strictly more than the size,
\* and remember the refill only for a packet that passes.
HandleHwToken(p) ==
  LET current_tokens ==
        Smaller(tokens + (p.recv - previous_timestamp) * TOKEN_RATE, CAPACITY)
  IN
  /\ loop \in {"hw_fwd", "hw_token"}
  /\ IF current_tokens > p.size
     THEN /\ previous_timestamp' = p.recv
          /\ tokens' = current_tokens - p.size
          /\ AcceptOrLose(p, SendTime(p))
          /\ Charge(p, SendTime(p))
     ELSE Free(p) /\ UNCHANGED <<tokens, previous_timestamp, charged>>
  /\ UNCHANGED next_at

HandleLeaky_FromArrival(p) ==
  LET send_time == SendTime(p)
      real_send_time == Larger(send_time, next_at)
  IN
  /\ loop \in {"sw_leaky", "hw_leaky"}
  /\ IF real_send_time - send_time > BACKLOG_BOUND
     THEN Free(p) /\ UNCHANGED <<next_at, charged>>
     ELSE /\ next_at' = send_time + p.size * TICKS_PER_BYTE
          /\ AcceptOrLose(p, real_send_time)
          /\ Charge(p, real_send_time)
  /\ UNCHANGED <<tokens, previous_timestamp>>

HandleLeaky(p) ==
  LET send_time == SendTime(p)
      real_send_time == Larger(send_time, next_at)
  IN
  /\ loop \in {"sw_leaky", "hw_leaky"}
  /\ IF real_send_time - send_time > BACKLOG_BOUND
     THEN Free(p) /\ UNCHANGED <<next_at, charged>>
     ELSE /\ next_at' = real_send_time + p.size * TICKS_PER_BYTE
          /\ AcceptOrLose(p, real_send_time)
          /\ Charge(p, real_send_time)
  /\ UNCHANGED <<tokens, previous_timestamp>>

Handle ==
  /\ rx_at = "bufs" /\ bufs # <<>>
  /\ bufs' = Tail(bufs)
  /\ \/ HandleDelay(Head(bufs))
     \/ HandleSwToken(Head(bufs))
     \/ HandleHwToken(Head(bufs))
     \/ HandleLeaky(Head(bufs))
  /\ UNCHANGED <<config, running, now, rx_at, received, last_recv,
                 txVars, packet_ring, wire>>

\* The k-th of n accepted packets leaves together with the ones behind it; the
\* leaky bucket gives every packet a time of its own, and the hardware loops
\* leave the sending to the delay emulator.
BurstSize_LeakyToo(k, n) == IF loop \in HwLoops THEN 0 ELSE n - k + 1

BurstSize(k, n) ==
  IF loop \in HwLoops THEN 0 ELSE IF loop = "sw_leaky" THEN 1 ELSE n - k + 1

Stamped ==
  [k \in 1 .. Len(bufs_accept) |->
     [bufs_accept[k] EXCEPT !.burst = BurstSize(k, Len(bufs_accept))]]

\* rte_ring_sp_enqueue_bulk takes all or none, and its answer is not looked at:
\* a refused burst is neither queued nor given back to the pool.
Enqueue_OneSlotEmpty ==
  /\ rx_at = "bufs" /\ bufs = <<>>
  /\ loop \notin FwdLoops
  /\ packet_ring' = IF Len(packet_ring) + Len(bufs_accept) < RING_SIZE
                    THEN packet_ring \o Stamped ELSE packet_ring
  /\ bufs_accept' = <<>>
  /\ rx_at' = "poll"
  /\ UNCHANGED <<config, running, now, bufs, tokens, previous_timestamp, next_at,
                 received, last_recv, freed, charged, txVars, wire>>

Enqueue ==
  /\ rx_at = "bufs" /\ bufs = <<>>
  /\ loop \notin FwdLoops
  /\ packet_ring' = IF Len(packet_ring) + Len(bufs_accept) <= RING_SIZE
                    THEN packet_ring \o Stamped ELSE packet_ring
  /\ bufs_accept' = <<>>
  /\ rx_at' = "poll"
  /\ UNCHANGED <<config, running, now, bufs, tokens, previous_timestamp, next_at,
                 received, last_recv, freed, charged, txVars, wire>>

\* dpdk_send_all_packets at the current time.
OnWire(s) == [k \in 1 .. Len(s) |-> [pkt |-> s[k], at |-> now]]

\* The loops that need no transmitter send what they accepted themselves.
Forward ==
  /\ rx_at = "bufs" /\ bufs = <<>>
  /\ loop \in FwdLoops
  /\ wire' = wire \o OnWire(bufs_accept)
  /\ bufs_accept' = <<>>
  /\ rx_at' = "poll"
  /\ UNCHANGED <<config, running, now, bufs, tokens, previous_timestamp, next_at,
                 received, last_recv, freed, charged, txVars, packet_ring>>

RxLeave ==
  /\ rx_at = "poll" /\ ~running
  /\ rx_at' = "done"
  /\ UNCHANGED <<config, running, now, bufs, bufs_accept, tokens,
                 previous_timestamp, next_at, received, last_recv, freed,
                 charged, txVars, packet_ring, wire>>

-----------------------------------------------------------------------------
(* The transmitter of the software loops.                                   *)

\* rte_ring_sc_dequeue_burst.
Dequeue_FullBursts ==
  LET n == BURST_SIZE IN
  /\ tx_at = "poll" /\ running /\ Len(packet_ring) >= n
  /\ loop \in SwLoops \ FwdLoops
  /\ rx_pkts' = SubSeq(packet_ring, 1, n)
  /\ packet_ring' = SubSeq(packet_ring, n + 1, Len(packet_ring))
  /\ i' = 1 /\ tx_at' = "send"
  /\ UNCHANGED <<config, running, now, rxVars, wire>>

Dequeue ==
  LET n == Smaller(BURST_SIZE, Len(packet_ring)) IN
  /\ tx_at = "poll" /\ running /\ n > 0
  /\ loop \in SwLoops \ FwdLoops
  /\ rx_pkts' = SubSeq(packet_ring, 1, n)
  /\ packet_ring' = SubSeq(packet_ring, n + 1, Len(packet_ring))
  /\ i' = 1 /\ tx_at' = "send"
  /\ UNCHANGED <<config, running, now, rxVars, wire>>

\* Wait for the packet's time, send it with the rest of its burst, as far as
\* this call of the ring returned it.
Send ==
  LET packet_burst == Smaller(rx_pkts[i].burst, Len(rx_pkts) - i + 1) IN
  /\ tx_at = "send" /\ i <= Len(rx_pkts)
  /\ rx_pkts[i].ts <= now
  /\ wire' = wire \o OnWire(SubSeq(rx_pkts, i, i + packet_burst - 1))
  /\ i' = i + packet_burst
  /\ UNCHANGED <<config, running, now, rxVars, tx_at, rx_pkts, packet_ring>>

BurstDone ==
  /\ tx_at = "send" /\ i > Len(rx_pkts)
  /\ tx_at' = "poll" /\ rx_pkts' = <<>> /\ i' = 1
  /\ UNCHANGED <<config, running, now, rxVars, packet_ring, wire>>

TxLeave ==
  /\ tx_at = "poll" /\ ~running
  /\ tx_at' = "done"
  /\ UNCHANGED <<config, running, now, rxVars, rx_pkts, i, packet_ring, wire>>

\* The delay emulator takes packets of the hardware loops out of the same ring.
EmulatorTakes ==
  /\ loop \in HwLoops \ FwdLoops /\ running
  /\ \E n \in 1 .. Smaller(BURST_SIZE, Len(packet_ring)) :
       /\ wire' = wire \o OnWire(SubSeq(packet_ring, 1, n))
       /\ packet_ring' = SubSeq(packet_ring, n + 1, Len(packet_ring))
  /\ UNCHANGED <<config, running, now, rxVars, txVars>>

-----------------------------------------------------------------------------
Tick ==
  /\ now < MAX_TIME
  /\ now' = now + 1
  /\ UNCHANGED <<config, running, rxVars, txVars, packet_ring, wire>>

Stop ==
  /\ running /\ running' = FALSE
  /\ UNCHANGED <<config, now, rxVars, txVars, packet_ring, wire>>

Receiver == Receive \/ Handle \/ Enqueue \/ Forward \/ RxLeave
Transmitter == Dequeue \/ Send \/ BurstDone \/ TxLeave

Next == Receiver \/ Transmitter \/ EmulatorTakes \/ Tick \/ Stop

\* A loop has a core of its own and never blocks; the clock runs.
Fairness ==
  /\ WF_vars(Handle \/ Enqueue \/ Forward \/ RxLeave)
  /\ WF_vars(Transmitter)
  /\ WF_vars(Tick)

Spec == Init /\ [][Next]_vars /\ Fairness

-----------------------------------------------------------------------------
Packets == [id : Nat, size : SIZES, recv : Nat, ts : Nat, burst : Nat,
            judged : BOOLEAN]

\* Variables stay in range; a packet on its way through the ring of the software
\* loops always has a burst of at least itself, or sw_transmitter_loop_delay
\* would step backwards.
TypeOK ==
  /\ loop \in LOOPS /\ loss_type \in LOSS_TYPES /\ delay \in {0, DELAY}
  /\ running \in BOOLEAN /\ now \in BOOT .. MAX_TIME + BOOT
  /\ rx_at \in {"poll", "bufs", "done"} /\ tx_at \in {"poll", "send", "done"}
  /\ bufs \in Seq(Packets) /\ bufs_accept \in Seq(Packets)
  /\ packet_ring \in Seq(Packets) /\ rx_pkts \in Seq(Packets)
  /\ tokens \in 0 .. CAPACITY /\ previous_timestamp \in Nat /\ next_at \in Nat
  /\ i \in 1 .. Len(rx_pkts) + 1
  /\ received \in Nat /\ last_recv \in BOOT .. now
  /\ freed \in Seq(Packets)
  /\ charged \in Seq([recv : Nat, ts : Nat, total : Nat])
  /\ wire \in Seq([pkt : Packets, at : Nat])
  /\ loop \in SwLoops => /\ \A k \in DOMAIN packet_ring : packet_ring[k].burst >= 1
                        /\ \A k \in DOMAIN rx_pkts : rx_pkts[k].burst >= 1

\* No packet is sent earlier than the configured delay after it came.  The time
\* every delaying loop writes into a packet is at least its own arrival time and
\* the delay, and the software transmitter sends none before its time, although
\* it waits for the first packet of a burst only and the ring may split bursts.
\* (What the hardware loops hand over is sent by the emulator of LaunchTimestamp.)
NeverEarly ==
  \A k \in DOMAIN wire :
    /\ loop \notin FwdLoops => wire[k].pkt.ts >= wire[k].pkt.recv + delay
    /\ loop \in SwLoops => wire[k].at >= wire[k].pkt.ts

\* The token bucket: in no interval does it let pass more than its capacity and
\* what flows in during the interval, however arrivals are grouped into bursts.
TokenBucketConforms ==
  loop \in {"sw_token", "hw_token", "hw_fwd"} =>
    \A k \in DOMAIN charged : \A j \in 1 .. k :
      charged[k].total - (IF j = 1 THEN 0 ELSE charged[j - 1].total)
        <= CAPACITY + TOKEN_RATE * (charged[k].recv - charged[j].recv)

\* The leaky bucket: between the departure times of two packets there is room
\* for all that was let pass from the first to before the second, and none is
\* more than the backlog bound later than the delay alone would have it.
LeakyBucketSpaces ==
  loop \in {"sw_leaky", "hw_leaky"} =>
    \A k \in DOMAIN charged :
      /\ charged[k].ts <= charged[k].recv + delay + BACKLOG_BOUND
      /\ \A j \in 1 .. k - 1 :
           charged[k].ts - charged[j].ts >=
             TICKS_PER_BYTE *
               (charged[k - 1].total - (IF j = 1 THEN 0 ELSE charged[j - 1].total))

\* The positions of a place at which packet n is.
Slots(place, s, n) == {<<place, k>> : k \in {j \in DOMAIN s : s[j].id = n}}

\* Where packet n is, in every place that can hold it.
Places(n) ==
  UNION {Slots("bufs", bufs, n), Slots("bufs_accept", bufs_accept, n),
         Slots("packet_ring", packet_ring, n),
         Slots("rx_pkts",
               IF tx_at = "send" THEN SubSeq(rx_pkts, i, Len(rx_pkts)) ELSE <<>>, n),
         Slots("wire", [k \in DOMAIN wire |-> wire[k].pkt], n),
         Slots("freed", freed, n)}

\* Every packet received is in exactly one place: never sent twice, never sent
\* after it was given back to the pool, never forgotten by both loops.  The
\* enqueue whose answer the receivers ignore never fails, because moonem.lua
\* makes the ring as large as the pool.  And they leave in the order they came.
EachPacketOnce ==
  /\ \A n \in 1 .. received : \E slot \in Places(n) : Places(n) = {slot}
  /\ \A j, k \in DOMAIN wire : j < k => wire[j].pkt.id < wire[k].pkt.id

\* While the software loops run, all that was received is sent or dropped in the
\* end, a last burst shorter than BURST_SIZE included.
AllLeave ==
  loop \in SwLoops =>
    []<>(~running \/ received = Len(freed) + Len(wire))

\* Every packet that is sent was submitted to the configured loss model.
LossModelApplied ==
  loss_type # "NONE" => \A k \in DOMAIN wire : wire[k].pkt.judged
=============================================================================
