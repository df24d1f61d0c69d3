---------------------------- MODULE MoonEm_proofs ----------------------------
(***************************************************************************)
(* Proofs about MoonEm's loops: no packet is sent early, the token bucket   *)
(* and the leaky bucket keep their contracts, and every packet is in one    *)
(* place, for every burst size, ring, pool, delay, rate and packet size.    *)
(***************************************************************************)
EXTENDS MoonEm, TLAPS

\* What the loops hold when they are not in the middle of a burst, and which
\* loops use the ring and the transmitter.
Control ==
  /\ rx_at # "bufs" => bufs = <<>> /\ bufs_accept = <<>>
  /\ tx_at # "send" => rx_pkts = <<>> /\ i = 1
  /\ loop \in FwdLoops => packet_ring = <<>> /\ rx_pkts = <<>>
  /\ loop \in HwLoops => rx_pkts = <<>>

\* Arrival times in the order of the burst; a software loop reads the clock once
\* for the whole burst, and so does the refill of its token bucket.
ArrivalOrder ==
  /\ previous_timestamp <= last_recv
  /\ \A k \in DOMAIN bufs : /\ previous_timestamp <= bufs[k].recv
                            /\ bufs[k].recv <= last_recv
  /\ \A j, k \in DOMAIN bufs : j <= k => bufs[j].recv <= bufs[k].recv
  /\ loop \in SwLoops =>
       /\ \A k \in DOMAIN bufs : bufs[k].recv = last_recv
       /\ \A k \in DOMAIN bufs_accept : bufs_accept[k].recv = last_recv
  /\ loop = "sw_token" /\ rx_at = "bufs" => previous_timestamp = last_recv

BaseInv == TypeOK /\ Control /\ ArrivalOrder

\* A packet's burst ends within the ring, and all of it departs at one time.
Bursts(s) ==
  \A k \in DOMAIN s :
    /\ k + s[k].burst <= Len(s) + 1
    /\ \A j \in k .. Len(s) : j < k + s[k].burst => s[j].ts = s[k].ts

\* The ring may have returned only the first part of a burst.
BurstInv ==
  loop \in SwLoops =>
    /\ loop # "sw_leaky" =>
         \A k \in DOMAIN bufs_accept : bufs_accept[k].ts = SendTime(bufs_accept[k])
    /\ Bursts(packet_ring)
    /\ \A k \in DOMAIN rx_pkts : \A j \in k .. Len(rx_pkts) :
         j < k + rx_pkts[k].burst => rx_pkts[j].ts = rx_pkts[k].ts
    /\ \A k \in DOMAIN wire : wire[k].at >= wire[k].pkt.ts

\* The packets of s are to depart no earlier than d after they came.
Delayed(s, d) == \A k \in DOMAIN s : s[k].ts >= s[k].recv + d

\* A packet keeps the departure time it was accepted with, in every stage.
DelayInv ==
  loop \notin FwdLoops =>
    /\ Delayed(bufs_accept, delay) /\ Delayed(packet_ring, delay)
    /\ Delayed(rx_pkts, delay)
    /\ \A k \in DOMAIN wire : wire[k].pkt.ts >= wire[k].pkt.recv + delay

\* Bytes charged before the j-th packet that passed.
Before(s, j) == IF j = 1 THEN 0 ELSE s[j - 1].total
Total(s) == Before(s, Len(s) + 1)

\* Bytes that flow into the token bucket from time a to time b, and the time the
\* leaky bucket takes to send bytes.
Inflow(a, b) == TOKEN_RATE * (b - a)
Room(bytes) == TICKS_PER_BYTE * bytes

TokenLoops == {"sw_token", "hw_token", "hw_fwd"}
LeakyLoops == {"sw_leaky", "hw_leaky"}

\* What was let pass since packet j, and what is still in the bucket, flowed in
\* since packet j or was in the bucket then.
BucketCovers(s, tok, prev) ==
  \A j \in 1 .. Len(s) : Total(s) - Before(s, j) + tok <= CAPACITY + Inflow(s[j].recv, prev)

Conforms(s) ==
  \A k \in 1 .. Len(s) : \A j \in 1 .. k :
    s[k].total - Before(s, j) <= CAPACITY + Inflow(s[j].recv, s[k].recv)

TokenInv ==
  loop \in TokenLoops =>
    BucketCovers(charged, tokens, previous_timestamp) /\ Conforms(charged)

\* Everything let pass from packet j on has left the link by next.
LinkFree(s, next) ==
  \A j \in 1 .. Len(s) : next - s[j].ts >= Room(Total(s) - Before(s, j))

Spaced(s, d) ==
  \A k \in 1 .. Len(s) :
    /\ s[k].ts <= s[k].recv + d + BACKLOG_BOUND
    /\ \A j \in 1 .. k - 1 : s[k].ts - s[j].ts >= Room(s[k - 1].total - Before(s, j))

LeakyInv ==
  loop \in LeakyLoops => LinkFree(charged, next_at) /\ Spaced(charged, delay)

\* Packets a receiver has dealt with.
Handled == received - Len(bufs)

\* s holds packets with identifiers above lo up to hi, in their order.
Within(s, lo, hi) ==
  /\ \A k \in DOMAIN s : lo < s[k].id /\ s[k].id <= hi
  /\ \A j, k \in DOMAIN s : j < k => s[j].id < s[k].id

Has(s, n) == \E k \in DOMAIN s : s[k].id = n

\* The stages an accepted packet goes through: q, waiting for the end of the
\* burst, r, in the ring, x, with the transmitter, and w, sent. They hold
\* consecutive ranges of the identifiers up to hd that were not freed.
Pipeline(w, x, r, q, fr, hd) ==
  /\ w \in Seq(Packets) /\ x \in Seq(Packets) /\ r \in Seq(Packets) /\ q \in Seq(Packets)
  /\ hd \in Nat /\ fr \in Seq(Packets) /\ Within(fr, 0, hd)
  /\ \E a, b, c \in 0 .. hd :
       /\ a <= b /\ b <= c
       /\ Within(w, 0, a) /\ Within(x, a, b) /\ Within(r, b, c) /\ Within(q, c, hd)
  /\ \A n \in 1 .. hd :
       Has(fr, n) <=> ~(Has(w, n) \/ Has(x, n) \/ Has(r, n) \/ Has(q, n))

\* What is on the wire, and what the transmitter has yet to send.
Sent(w) == [k \in DOMAIN w |-> w[k].pkt]
Waiting == SubSeq(rx_pkts, i, Len(rx_pkts))

\* Mbufs that are not in the pool: b in the burst and one for each packet in a
\* stage, out of rcv received, fr freed and wr sent.
Balance(rcv, fr, wr, b, q, r, x) ==
  /\ rcv \in Nat /\ fr \in Nat /\ wr \in Nat /\ b \in Nat /\ q \in Nat /\ r \in Nat /\ x \in Nat
  /\ rcv - fr - wr = b + q + r + x
  /\ rcv - fr - wr <= NUM_BUFS

\* Each packet is freed or in one stage, and the pool bounds what is in a stage.
AccountInv ==
  /\ Pipeline(Sent(wire), Waiting, packet_ring, bufs_accept, freed, Handled)
  /\ \A k \in DOMAIN bufs : bufs[k].id = Handled + k
  /\ Balance(received, Len(freed), Len(wire), Len(bufs), Len(bufs_accept),
             Len(packet_ring), Len(Waiting))

-----------------------------------------------------------------------------
(* Types, control and arrival times.                                        *)

\* The minimum and the maximum are one of their arguments.
LEMMA SmallerLarger ==
  ASSUME NEW a \in Int, NEW b \in Int
  PROVE  /\ Smaller(a, b) \in {a, b} /\ Smaller(a, b) <= a /\ Smaller(a, b) <= b
         /\ Larger(a, b) \in {a, b} /\ Larger(a, b) >= a /\ Larger(a, b) >= b
BY DEF Smaller, Larger

\* The ends of a sequence that is not empty.
LEMMA NonEmpty ==
  ASSUME NEW S, NEW s \in Seq(S), s # <<>>
  PROVE  /\ Len(s) \in Nat /\ Len(s) >= 1 /\ Head(s) = s[1]
         /\ s[1] \in S /\ s[Len(s)] \in S
OBVIOUS

LEMMA PacketTypes ==
  ASSUME NEW q \in Packets
  PROVE  q.id \in Nat /\ q.recv \in Nat /\ q.ts \in Nat /\ q.burst \in Nat
BY Zenon DEF Packets

\* The elements of a sequence of packets.
LEMMA PacketsOf ==
  ASSUME NEW s \in Seq(Packets)
  PROVE  /\ Len(s) \in Nat /\ DOMAIN s = 1 .. Len(s)
         /\ \A k \in 1 .. Len(s) :
              s[k] \in Packets /\ s[k].id \in Nat /\ s[k].ts \in Nat /\ s[k].burst \in Nat
<1>1. Len(s) \in Nat /\ DOMAIN s = 1 .. Len(s) /\ \A k \in 1 .. Len(s) : s[k] \in Packets
  OBVIOUS
<1>2. QED
  BY <1>1, PacketTypes, Zenon

\* Parts of a sequence.
LEMMA Parts ==
  ASSUME NEW S, NEW s \in Seq(S), NEW a \in 1 .. Len(s) + 1, NEW b \in a - 1 .. Len(s)
  PROVE  /\ SubSeq(s, a, b) \in Seq(S) /\ Len(SubSeq(s, a, b)) = b - a + 1
         /\ DOMAIN SubSeq(s, a, b) = 1 .. b - a + 1
         /\ \A k \in 1 .. b - a + 1 : SubSeq(s, a, b)[k] = s[a + k - 1] /\ a + k - 1 \in a .. b
OBVIOUS

LEMMA ConcatElements ==
  ASSUME NEW S, NEW s \in Seq(S), NEW t \in Seq(S)
  PROVE  \A k \in DOMAIN (s \o t) : \/ k \in DOMAIN s /\ (s \o t)[k] = s[k]
                                    \/ \E j \in DOMAIN t : (s \o t)[k] = t[j]
<1>1. ASSUME NEW k \in DOMAIN (s \o t), k \notin DOMAIN s
      PROVE  k - Len(s) \in DOMAIN t /\ (s \o t)[k] = t[k - Len(s)]
  BY <1>1
<1>2. \A k \in DOMAIN s : (s \o t)[k] = s[k]
  OBVIOUS
<1>3. QED
  BY <1>1, <1>2, Zenon

LEMMA AppendType ==
  ASSUME NEW S, NEW s \in Seq(S), NEW e \in S
  PROVE  Append(s, e) \in Seq(S)
OBVIOUS

\* Two sequences of packets that left no earlier than they may, one after the other.
LEMMA ConcatLate ==
  ASSUME NEW S, NEW s \in Seq(S), NEW t \in Seq(S),
         \A k \in DOMAIN s : s[k].at >= s[k].pkt.ts, \A k \in DOMAIN t : t[k].at >= t[k].pkt.ts
  PROVE  \A k \in DOMAIN (s \o t) : (s \o t)[k].at >= (s \o t)[k].pkt.ts
<1> TAKE k \in DOMAIN (s \o t)
<1>1. CASE k \in DOMAIN s
  <2>1. (s \o t)[k] = s[k]
    BY <1>1
  <2>2. QED
    BY <1>1, <2>1, Zenon
<1>2. CASE k \notin DOMAIN s
  <2>1. k - Len(s) \in DOMAIN t /\ (s \o t)[k] = t[k - Len(s)]
    BY <1>2
  <2>2. QED
    BY <2>1, Zenon
<1>3. QED
  BY <1>1, <1>2, Zenon

\* Fields of a packet that has got its burst.
LEMMA PacketFields ==
  ASSUME NEW q \in Packets, NEW n \in Nat
  PROVE  /\ [q EXCEPT !.burst = n] \in Packets
         /\ [q EXCEPT !.burst = n].id = q.id /\ [q EXCEPT !.burst = n].ts = q.ts
         /\ [q EXCEPT !.burst = n].burst = n /\ [q EXCEPT !.burst = n].recv = q.recv
BY Zenon DEF Packets

LEMMA BacklogBound == BACKLOG_BOUND \in Nat
<1>1. \A a, b \in Nat : a * b \in Nat
  OBVIOUS
<1>2. QED
  BY <1>1, MoonEmAssumption, Zenon DEF BACKLOG_BOUND

LEMMA SendTimeType ==
  ASSUME BaseInv, NEW p \in Packets
  PROVE  SendTime(p) \in Nat
BY MoonEmAssumption, SMTT(20) DEF BaseInv, TypeOK, SendTime, Packets

LEMMA BaseInit == Init => BaseInv
<1> SUFFICES ASSUME Init PROVE BaseInv
  BY Zenon
<1>1. loop \in LOOPS /\ loss_type \in LOSS_TYPES /\ delay \in {0, DELAY}
  BY Zenon DEF Init, Args
<1>2. TypeOK
  BY <1>1, MoonEmAssumption DEF Init, TypeOK
<1>3. Control /\ ArrivalOrder
  BY MoonEmAssumption DEF Init, Control, ArrivalOrder
<1>4. QED
  BY <1>2, <1>3, Zenon DEF BaseInv

\* rte_eth_rx_burst: the packets of a burst, and the refilled bucket.
LEMMA ReceiveEffect ==
  ASSUME BaseInv, Receive
  PROVE  /\ bufs' \in Seq(Packets) /\ last_recv' \in BOOT .. now
         /\ last_recv <= last_recv' /\ received' \in Nat
         /\ tokens' \in 0 .. CAPACITY /\ previous_timestamp' \in Nat
         /\ previous_timestamp' <= last_recv'
         /\ \A k \in DOMAIN bufs' : /\ previous_timestamp' <= bufs'[k].recv
                                    /\ bufs'[k].recv <= last_recv'
         /\ \A j, k \in DOMAIN bufs' : j <= k => bufs'[j].recv <= bufs'[k].recv
         /\ loop \in SwLoops => \A k \in DOMAIN bufs' : bufs'[k].recv = last_recv'
         /\ loop = "sw_token" => previous_timestamp' = last_recv'
<1>1. PICK n \in 1 .. BURST_SIZE :
        /\ received' = received + n
        /\ \E t \in Arrivals(n), size \in [1 .. n -> SIZES] :
            /\ bufs' = [k \in 1 .. n |->
                          [id |-> received + k, size |-> size[k], recv |-> t[k],
                           ts |-> 0, burst |-> 0, judged |-> FALSE]]
            /\ last_recv' = t[n]
  BY Zenon DEF Receive
<1>2. PICK t \in Arrivals(n), size \in [1 .. n -> SIZES] :
         /\ bufs' = [k \in 1 .. n |->
                       [id |-> received + k, size |-> size[k], recv |-> t[k],
                        ts |-> 0, burst |-> 0, judged |-> FALSE]]
         /\ last_recv' = t[n]
  BY <1>1, Zenon
<1>3. /\ n \in Nat /\ n >= 1 /\ now \in Nat /\ last_recv \in BOOT .. now
      /\ last_recv \in Nat /\ received \in Nat /\ tokens \in 0 .. CAPACITY
      /\ previous_timestamp \in Nat /\ previous_timestamp <= last_recv
  BY <1>1, MoonEmAssumption DEF BaseInv, TypeOK, ArrivalOrder
<1>4. /\ t \in [1 .. n -> last_recv .. now]
      /\ loop \in SwLoops => \A k \in 1 .. n : t[k] = now
      /\ \A j, k \in 1 .. n : j < k => t[j] <= t[k]
  <2>1. loop \in SwLoops => loop \notin HwLoops
    BY Zenon DEF SwLoops, HwLoops
  <2>2. CASE loop \in HwLoops
    BY <2>1, <2>2, Zenon DEF Arrivals
  <2>3. CASE loop \notin HwLoops
    <3>1. t = [k \in 1 .. n |-> now]
      BY <2>3, Zenon DEF Arrivals
    <3>2. QED
      BY <3>1, <1>3
  <2>4. QED
    BY <2>2, <2>3, Zenon
<1>5. \A j, k \in 1 .. n : j <= k => t[j] <= t[k]
  BY <1>3, <1>4
<1>6. /\ Len(bufs') = n /\ DOMAIN bufs' = 1 .. n
      /\ \A k \in 1 .. n : bufs'[k] = [id |-> received + k, size |-> size[k], recv |-> t[k],
                                        ts |-> 0, burst |-> 0, judged |-> FALSE]
  BY <1>2, <1>3
<1>7. bufs' \in Seq(Packets)
  <2>1. \A k \in 1 .. n : [id |-> received + k, size |-> size[k], recv |-> t[k],
                           ts |-> 0, burst |-> 0, judged |-> FALSE] \in Packets
    BY <1>2, <1>3, <1>4 DEF Packets
  <2>2. QED
    BY <2>1, <1>2, <1>3
<1>8. /\ last_recv' \in BOOT .. now /\ last_recv <= last_recv' /\ received' \in Nat
      /\ last_recv' = t[n] /\ n \in 1 .. n
  BY <1>1, <1>2, <1>3, <1>4, MoonEmAssumption
<1>9. /\ tokens' \in 0 .. CAPACITY /\ previous_timestamp' \in Nat
      /\ \A k \in 1 .. n : previous_timestamp' <= t[k]
      /\ loop = "sw_token" => previous_timestamp' = now
  <2>1. CASE loop = "sw_token"
    <3>1. /\ tokens' = Smaller(tokens + (now - previous_timestamp) * TOKEN_RATE, CAPACITY)
          /\ previous_timestamp' = now
      BY <2>1, Zenon DEF Receive
    <3>2. now - previous_timestamp \in Nat
      BY <1>3
    <3>3. (now - previous_timestamp) * TOKEN_RATE \in Nat
      BY <3>2, MoonEmAssumption
    <3>4. tokens' \in 0 .. CAPACITY
      BY <1>3, <3>1, <3>3, MoonEmAssumption DEF Smaller
    <3>5. QED
      BY <2>1, <3>1, <3>4, <1>3, <1>4 DEF SwLoops
  <2>2. CASE loop # "sw_token"
    BY <2>2, <1>3, <1>4 DEF Receive
  <2>3. QED
    BY <2>1, <2>2, Zenon
<1>10. loop = "sw_token" => last_recv' = now
  BY <1>4, <1>8, Zenon DEF SwLoops
<1>11. QED
  BY <1>4, <1>5, <1>6, <1>7, <1>8, <1>9, <1>10

LEMMA RestSame ==
  ASSUME BaseInv, UNCHANGED <<config, rxVars, packet_ring, wire>>,
         running' \in BOOLEAN, now' \in now .. MAX_TIME + BOOT,
         UNCHANGED txVars
  PROVE  BaseInv'
BY MoonEmAssumption DEF BaseInv, TypeOK, Control, ArrivalOrder, config, rxVars, txVars

\* One turn of the loop over the burst frees the packet or accepts it, with a
\* departure time of its own only in a leaky bucket.
LEMMA HandleOutcome ==
  ASSUME BaseInv, Handle
  PROVE  /\ Head(bufs) \in Packets /\ bufs # <<>> /\ bufs' = Tail(bufs)
         /\ \/ freed' = Append(freed, Head(bufs)) /\ bufs_accept' = bufs_accept
            \/ /\ freed' = freed
               /\ \E ts \in Nat, judged \in BOOLEAN :
                    /\ loop \notin LeakyLoops => ts = SendTime(Head(bufs))
                    /\ ts >= SendTime(Head(bufs))
                    /\ bufs_accept' = Append(bufs_accept,
                         [Head(bufs) EXCEPT !.ts = ts, !.judged = judged])
<1> DEFINE p == Head(bufs)
           Outcome(ts) ==
             \/ freed' = Append(freed, p) /\ bufs_accept' = bufs_accept
             \/ /\ freed' = freed
                /\ bufs_accept' = Append(bufs_accept,
                     [p EXCEPT !.ts = ts, !.judged = LossApplies])
<1>1. p \in Packets /\ bufs # <<>> /\ bufs' = Tail(bufs)
  BY DEF Handle, BaseInv, TypeOK
<1>2. LossApplies \in BOOLEAN
  BY Zenon DEF LossApplies
<1>3. SendTime(p) \in Nat /\ next_at \in Nat /\ Larger(SendTime(p), next_at) \in Nat
  BY <1>1, SendTimeType, Zenon DEF BaseInv, TypeOK, Larger
<1>8. SendTime(p) >= SendTime(p) /\ Larger(SendTime(p), next_at) >= SendTime(p)
  BY <1>3, SmallerLarger
<1>4. ASSUME NEW ts, AcceptOrLose(p, ts) \/ Free(p) PROVE Outcome(ts)
  BY <1>4, Zenon DEF AcceptOrLose, Free
<1>5. CASE HandleDelay(p) \/ HandleSwToken(p) \/ HandleHwToken(p)
  <2>1. AcceptOrLose(p, SendTime(p)) \/ Free(p)
    BY <1>5, Zenon DEF HandleDelay, HandleSwToken, HandleHwToken
  <2>2. Outcome(SendTime(p))
    BY <2>1, <1>4, Zenon
  <2>3. QED
    BY <1>1, <1>2, <1>3, <1>8, <2>2, Zenon
<1>6. CASE HandleLeaky(p)
  <2>1. loop \in LeakyLoops
    BY <1>6, Zenon DEF HandleLeaky, LeakyLoops
  <2>2. AcceptOrLose(p, Larger(SendTime(p), next_at)) \/ Free(p)
    BY <1>6, Zenon DEF HandleLeaky
  <2>3. Outcome(Larger(SendTime(p), next_at))
    BY <2>2, <1>4, Zenon
  <2>4. QED
    BY <1>1, <1>2, <1>3, <1>8, <2>1, <2>3, Zenon
<1>7. QED
  BY <1>5, <1>6, Zenon DEF Handle

\* The rate limiters' own state after a turn.
LEMMA LimiterTypes ==
  ASSUME BaseInv, Handle
  PROVE  /\ tokens' \in 0 .. CAPACITY /\ next_at' \in Nat
         /\ previous_timestamp' \in {previous_timestamp, Head(bufs).recv}
         /\ loop \in SwLoops => previous_timestamp' = previous_timestamp
         /\ charged' \in Seq([recv : Nat, ts : Nat, total : Nat])
<1> DEFINE p == Head(bufs)
<1>1. p \in Packets /\ bufs # <<>>
  BY HandleOutcome, Zenon
<1>2. /\ p.size \in Nat /\ p.recv \in Nat /\ previous_timestamp \in Nat
      /\ tokens \in 0 .. CAPACITY /\ next_at \in Nat /\ CAPACITY \in Nat
      /\ TOKEN_RATE \in Nat /\ TICKS_PER_BYTE \in Nat
  BY <1>1, MoonEmAssumption, Zenon DEF BaseInv, TypeOK, Packets
<1>3. SendTime(p) \in Nat /\ Larger(SendTime(p), next_at) \in Nat
  BY <1>1, <1>2, SendTimeType, Zenon DEF Larger
<1>4. p.recv - previous_timestamp \in Nat
  BY <1>1, <1>2, SMTT(20) DEF BaseInv, TypeOK, ArrivalOrder
<1>5. ASSUME NEW ts \in Nat, Charge(p, ts)
      PROVE  charged' \in Seq([recv : Nat, ts : Nat, total : Nat])
  <2>1. charged \in Seq([recv : Nat, ts : Nat, total : Nat])
    BY Zenon DEF BaseInv, TypeOK
  <2>2. (IF charged = <<>> THEN 0 ELSE charged[Len(charged)].total) \in Nat
    <3>1. ASSUME charged # <<>>
          PROVE  charged[Len(charged)] \in [recv : Nat, ts : Nat, total : Nat]
      BY <2>1, <3>1, NonEmpty, Zenon
    <3>2. QED
      BY <3>1, Zenon
  <2>3. [recv |-> p.recv, ts |-> ts,
         total |-> p.size + IF charged = <<>> THEN 0 ELSE charged[Len(charged)].total]
          \in [recv : Nat, ts : Nat, total : Nat]
    BY <1>2, <2>2
  <2>4. QED
    BY <1>5, <2>1, <2>3 DEF Charge
<1>6. CASE HandleDelay(p)
  BY <1>6, <1>2, Zenon DEF HandleDelay, BaseInv, TypeOK
<1>7. CASE HandleSwToken(p)
  <2>1. tokens' \in 0 .. CAPACITY
    BY <1>7, <1>2 DEF HandleSwToken
  <2>2. charged' \in Seq([recv : Nat, ts : Nat, total : Nat])
    BY <1>7, <1>3, <1>5, Zenon DEF HandleSwToken, BaseInv, TypeOK
  <2>3. QED
    BY <1>7, <1>2, <2>1, <2>2, Zenon DEF HandleSwToken
<1>8. CASE HandleHwToken(p)
  <2> DEFINE current == Smaller(tokens + (p.recv - previous_timestamp) * TOKEN_RATE, CAPACITY)
  <2>1. (p.recv - previous_timestamp) * TOKEN_RATE \in Nat
    BY <1>2, <1>4
  <2>2. current \in 0 .. CAPACITY
    BY <1>2, <2>1 DEF Smaller
  <2> HIDE DEF current
  <2>3. \/ tokens' = current - p.size /\ current > p.size
        \/ tokens' = tokens
    BY <1>8, Zenon DEF HandleHwToken, current
  <2>4. tokens' \in 0 .. CAPACITY
    BY <1>2, <2>2, <2>3
  <2>5. charged' \in Seq([recv : Nat, ts : Nat, total : Nat])
    BY <1>8, <1>3, <1>5, Zenon DEF HandleHwToken, BaseInv, TypeOK
  <2>6. loop \notin SwLoops
    BY <1>8, Zenon DEF HandleHwToken, SwLoops
  <2>7. QED
    BY <1>8, <1>2, <2>4, <2>5, <2>6, Zenon DEF HandleHwToken
<1>9. CASE HandleLeaky(p)
  <2>1. p.size * TICKS_PER_BYTE \in Nat
    BY <1>2
  <2>2. next_at' \in Nat
    BY <1>9, <1>2, <1>3, <2>1 DEF HandleLeaky
  <2>3. charged' \in Seq([recv : Nat, ts : Nat, total : Nat])
    BY <1>9, <1>3, <1>5, Zenon DEF HandleLeaky, BaseInv, TypeOK
  <2>4. QED
    BY <1>9, <1>2, <2>2, <2>3, Zenon DEF HandleLeaky
<1>10. QED
  BY <1>6, <1>7, <1>8, <1>9, Zenon DEF Handle

\* The accepted packets with their bursts.
LEMMA StampedType ==
  ASSUME BaseInv
  PROVE  /\ Stamped \in Seq(Packets) /\ Len(Stamped) = Len(bufs_accept)
         /\ \A k \in DOMAIN Stamped :
              /\ k \in DOMAIN bufs_accept
              /\ Stamped[k] =
                   [bufs_accept[k] EXCEPT !.burst = BurstSize(k, Len(bufs_accept))]
              /\ Stamped[k].id = bufs_accept[k].id /\ Stamped[k].ts = bufs_accept[k].ts
              /\ Stamped[k].recv = bufs_accept[k].recv
              /\ Stamped[k].burst = BurstSize(k, Len(bufs_accept))
              /\ loop \in SwLoops => Stamped[k].burst >= 1
<1> DEFINE n == Len(bufs_accept)
           St(k) == [bufs_accept[k] EXCEPT !.burst = BurstSize(k, n)]
<1>1. bufs_accept \in Seq(Packets) /\ n \in Nat
  BY DEF BaseInv, TypeOK
<1>2. \A k \in 1 .. n : /\ BurstSize(k, n) \in Nat
                        /\ loop \in SwLoops => BurstSize(k, n) >= 1
  BY <1>1 DEF BurstSize, SwLoops, HwLoops
<1>3. \A k \in 1 .. n : /\ St(k) \in Packets /\ St(k).id = bufs_accept[k].id
                        /\ St(k).ts = bufs_accept[k].ts /\ St(k).burst = BurstSize(k, n)
                        /\ St(k).recv = bufs_accept[k].recv
  <2> TAKE k \in 1 .. n
  <2>1. bufs_accept[k] \in Packets
    BY <1>1
  <2>2. QED
    BY <2>1, <1>2, PacketFields, Zenon
<1>4. Stamped = [k \in 1 .. n |-> St(k)]
  BY Zenon DEF Stamped
<1> HIDE DEF n, St
<1>5. Stamped \in Seq(Packets) /\ Len(Stamped) = n /\ DOMAIN Stamped = 1 .. n
  BY <1>1, <1>3, <1>4
<1>6. DOMAIN bufs_accept = 1 .. n
  BY <1>1 DEF n
<1>7. QED
  BY <1>2, <1>3, <1>4, <1>5, <1>6, Zenon DEF n, St

\* What is put on the wire now.
LEMMA OnWireType ==
  ASSUME BaseInv, NEW s \in Seq(Packets)
  PROVE  /\ OnWire(s) \in Seq([pkt : Packets, at : Nat]) /\ Len(OnWire(s)) = Len(s)
         /\ \A k \in DOMAIN OnWire(s) :
              k \in DOMAIN s /\ OnWire(s)[k] = [pkt |-> s[k], at |-> now]
         /\ wire \o OnWire(s) \in Seq([pkt : Packets, at : Nat])
<1>1. now \in Nat /\ wire \in Seq([pkt : Packets, at : Nat])
  BY MoonEmAssumption DEF BaseInv, TypeOK
<1>2. \A k \in 1 .. Len(s) : [pkt |-> s[k], at |-> now] \in [pkt : Packets, at : Nat]
  BY <1>1
<1>3. /\ OnWire(s) \in Seq([pkt : Packets, at : Nat]) /\ Len(OnWire(s)) = Len(s)
      /\ DOMAIN OnWire(s) = 1 .. Len(s)
  BY <1>2 DEF OnWire
<1>4. QED
  BY <1>1, <1>3 DEF OnWire

\* rte_ring_sc_dequeue_burst returns at least one packet here, and no more than
\* the ring holds.
LEMMA DequeueCount ==
  ASSUME BaseInv, Dequeue
  PROVE  \E n \in 1 .. Len(packet_ring) :
           /\ rx_pkts' = SubSeq(packet_ring, 1, n)
           /\ packet_ring' = SubSeq(packet_ring, n + 1, Len(packet_ring))
<1>1. Len(packet_ring) \in Nat
  BY DEF BaseInv, TypeOK
<1>2. Smaller(BURST_SIZE, Len(packet_ring)) > 0
  BY Zenon DEF Dequeue
<1>3. Smaller(BURST_SIZE, Len(packet_ring)) \in 1 .. Len(packet_ring)
  BY <1>1, <1>2, MoonEmAssumption DEF Smaller
<1>4. QED
  BY <1>3, Zenon DEF Dequeue

\* A call of dpdk_send_all_packets sends at least the packet waited for.
LEMMA SendCount ==
  ASSUME BaseInv, Send
  PROVE  \E n \in 1 .. Len(rx_pkts) - i + 1 :
           /\ wire' = wire \o OnWire(SubSeq(rx_pkts, i, i + n - 1)) /\ i' = i + n
           /\ n <= rx_pkts[i].burst /\ i \in DOMAIN rx_pkts
<1>1. rx_pkts \in Seq(Packets) /\ i \in 1 .. Len(rx_pkts) + 1 /\ i <= Len(rx_pkts)
  BY Zenon DEF Send, BaseInv, TypeOK
<1>2. rx_pkts[i] \in Packets /\ i \in DOMAIN rx_pkts
  BY <1>1
<1>3. loop \in SwLoops
  BY <1>1, MoonEmAssumption DEF BaseInv, TypeOK, Control
<1>4. rx_pkts[i].burst \in Nat /\ rx_pkts[i].burst >= 1
  BY <1>2, <1>3, Zenon DEF BaseInv, TypeOK, Packets
<1> DEFINE n == Smaller(rx_pkts[i].burst, Len(rx_pkts) - i + 1)
<1>5. n \in 1 .. Len(rx_pkts) - i + 1 /\ n <= rx_pkts[i].burst
  BY <1>1, <1>4 DEF Smaller
<1>6. wire' = wire \o OnWire(SubSeq(rx_pkts, i, i + n - 1)) /\ i' = i + n
  BY Zenon DEF Send
<1>7. QED
  BY <1>2, <1>5, <1>6, Zenon

LEMMA EmulatorCount ==
  ASSUME BaseInv, EmulatorTakes
  PROVE  \E n \in 1 .. Len(packet_ring) :
           /\ wire' = wire \o OnWire(SubSeq(packet_ring, 1, n))
           /\ packet_ring' = SubSeq(packet_ring, n + 1, Len(packet_ring))
<1>1. Len(packet_ring) \in Nat
  BY DEF BaseInv, TypeOK
<1>2. 1 .. Smaller(BURST_SIZE, Len(packet_ring)) \subseteq 1 .. Len(packet_ring)
  BY <1>1, MoonEmAssumption DEF Smaller
<1>3. QED
  BY <1>2, Zenon DEF EmulatorTakes

\* Every step keeps types, control and arrival times.
LEMMA BaseStep == BaseInv /\ [Next]_vars => BaseInv'
<1> SUFFICES ASSUME BaseInv, [Next]_vars PROVE BaseInv'
  BY Zenon
<1>1. CASE Receive
  <2>1. /\ UNCHANGED <<config, running, now, bufs_accept, next_at, freed,
                       charged, txVars, packet_ring, wire>>
        /\ rx_at = "poll" /\ rx_at' = "bufs"
    BY <1>1, Zenon DEF Receive
  <2>2. TypeOK'
    BY <1>1, <2>1, ReceiveEffect, Zenon DEF BaseInv, TypeOK, config, txVars
  <2>3. Control'
    BY <2>1, Zenon DEF BaseInv, Control, config, txVars
  <2>4. bufs_accept' = <<>>
    BY <2>1, Zenon DEF BaseInv, Control
  <2>5. ArrivalOrder'
    BY <1>1, <2>1, <2>4, ReceiveEffect DEF ArrivalOrder, config
  <2>6. QED
    BY <2>2, <2>3, <2>5, Zenon DEF BaseInv
<1>2. CASE Handle
  <2> DEFINE p == Head(bufs)
  <2>1. /\ UNCHANGED <<config, running, now, rx_at, received, last_recv,
                       txVars, packet_ring, wire>>
        /\ rx_at = "bufs"
    BY <1>2, Zenon DEF Handle
  <2>2. /\ bufs \in Seq(Packets) /\ bufs_accept \in Seq(Packets) /\ freed \in Seq(Packets)
        /\ previous_timestamp \in Nat /\ last_recv \in Nat
    BY MoonEmAssumption DEF BaseInv, TypeOK
  <2>3. p \in Packets /\ bufs # <<>> /\ bufs' = Tail(bufs)
    BY <1>2, HandleOutcome, Zenon
  <2>4. /\ bufs' \in Seq(Packets) /\ Len(bufs') = Len(bufs) - 1
        /\ \A k \in DOMAIN bufs' : /\ k \in Nat /\ k >= 1
                                   /\ k + 1 \in DOMAIN bufs /\ bufs'[k] = bufs[k + 1]
    BY <2>2, <2>3
  <2>5. p = bufs[1] /\ 1 \in DOMAIN bufs /\ p.recv \in Nat /\ p.id \in Nat
    BY <2>2, <2>3, SMTT(20) DEF Packets
  <2>6. PICK ts \in Nat, judged \in BOOLEAN :
          \/ bufs_accept' = bufs_accept
          \/ bufs_accept' = Append(bufs_accept, [p EXCEPT !.ts = ts, !.judged = judged])
    BY <1>2, HandleOutcome, Zenon
  <2>7. [p EXCEPT !.ts = ts, !.judged = judged] \in Packets
        /\ [p EXCEPT !.ts = ts, !.judged = judged].recv = p.recv
    BY <2>3, <2>6, Zenon DEF Packets
  <2>8. /\ bufs_accept' \in Seq(Packets)
        /\ \A k \in DOMAIN bufs_accept' :
             \/ k \in DOMAIN bufs_accept /\ bufs_accept'[k] = bufs_accept[k]
             \/ bufs_accept'[k].recv = p.recv
    <3>1. CASE bufs_accept' = bufs_accept
      BY <2>2, <3>1, Zenon
    <3>2. CASE bufs_accept' = Append(bufs_accept, [p EXCEPT !.ts = ts, !.judged = judged])
      <4> DEFINE q == [p EXCEPT !.ts = ts, !.judged = judged]
      <4>1. q \in Packets /\ q.recv = p.recv /\ bufs_accept' = Append(bufs_accept, q)
        BY <2>7, <3>2, Zenon
      <4> HIDE DEF q
      <4>2. QED
        BY <2>2, <4>1
    <3>3. QED
      BY <2>6, <3>1, <3>2, Zenon
  <2>9. freed' \in Seq(Packets)
    <3>1. Head(bufs) \in Packets /\ (freed' = Append(freed, Head(bufs)) \/ freed' = freed)
      BY <1>2, HandleOutcome, Zenon
    <3>2. freed \in Seq(Packets)
      BY Zenon DEF BaseInv, TypeOK
    <3>3. QED
      BY <3>1, <3>2, AppendType, Zenon
  <2>10. previous_timestamp' \in Nat
    BY <1>2, <2>2, <2>5, LimiterTypes, Zenon
  <2>11. TypeOK'
    BY <1>2, <2>1, <2>4, <2>8, <2>9, <2>10, LimiterTypes, Zenon DEF BaseInv, TypeOK, config, txVars
  <2>12. Control'
    BY <2>1, Zenon DEF BaseInv, Control, config, txVars
  <2>13. /\ \A k \in DOMAIN bufs' : /\ p.recv <= bufs'[k].recv
                                    /\ previous_timestamp <= bufs'[k].recv
                                    /\ bufs'[k].recv <= last_recv
         /\ \A j, k \in DOMAIN bufs' : j <= k => bufs'[j].recv <= bufs'[k].recv
         /\ previous_timestamp' <= last_recv
    <3>1. \A k \in DOMAIN bufs' : p.recv <= bufs'[k].recv
      <4> TAKE k \in DOMAIN bufs'
      <4>1. k + 1 \in DOMAIN bufs /\ bufs'[k] = bufs[k + 1] /\ 1 <= k + 1
        BY <2>4
      <4>2. bufs[1].recv <= bufs[k + 1].recv
        BY <4>1, <2>5, Zenon DEF BaseInv, ArrivalOrder
      <4>3. QED
        BY <4>1, <4>2, <2>5, Zenon
    <3>2. \A j, k \in DOMAIN bufs' : j <= k => bufs'[j].recv <= bufs'[k].recv
      BY <2>2, <2>4, <2>5, SMTT(30) DEF BaseInv, ArrivalOrder
    <3>3. QED
      BY <1>2, <2>4, <2>5, <3>1, <3>2, LimiterTypes, Zenon DEF BaseInv, ArrivalOrder
  <2>14. loop \in SwLoops =>
           /\ \A k \in DOMAIN bufs' : bufs'[k].recv = last_recv
           /\ \A k \in DOMAIN bufs_accept' : bufs_accept'[k].recv = last_recv
    BY <2>4, <2>5, <2>8 DEF BaseInv, ArrivalOrder
  <2>15. loop = "sw_token" => previous_timestamp' = last_recv
    BY <1>2, <2>1, LimiterTypes, Zenon DEF BaseInv, ArrivalOrder, SwLoops
  <2>16. ArrivalOrder'
    BY <1>2, <2>1, <2>13, <2>14, <2>15, LimiterTypes, Zenon DEF ArrivalOrder, config
  <2>17. QED
    BY <2>11, <2>12, <2>16, Zenon DEF BaseInv
<1>3. CASE Enqueue
  <2>1. /\ UNCHANGED <<config, running, now, bufs, tokens, previous_timestamp, next_at,
                       received, last_recv, freed, charged, txVars, wire>>
        /\ bufs = <<>> /\ bufs_accept' = <<>> /\ rx_at' = "poll" /\ loop \notin FwdLoops
        /\ packet_ring' \in {packet_ring, packet_ring \o Stamped}
    BY <1>3, Zenon DEF Enqueue
  <2>2. Stamped \in Seq(Packets)
    BY StampedType, Zenon
  <2>3. packet_ring \in Seq(Packets)
        /\ (loop \in SwLoops => \A k \in DOMAIN packet_ring : packet_ring[k].burst >= 1)
    BY Zenon DEF BaseInv, TypeOK
  <2>4. packet_ring' \in Seq(Packets)
    <3>1. packet_ring \o Stamped \in Seq(Packets)
      BY <2>2, <2>3
    <3>2. QED
      BY <2>1, <2>3, <3>1, Zenon
  <2>5. loop \in SwLoops => \A k \in DOMAIN packet_ring' : packet_ring'[k].burst >= 1
    <3>1. CASE packet_ring' = packet_ring
      BY <2>3, <3>1, Zenon
    <3>2. CASE packet_ring' = packet_ring \o Stamped
      BY <2>2, <2>3, <3>2, StampedType
    <3>3. QED
      BY <2>1, <3>1, <3>2, Zenon
  <2>6. TypeOK'
    BY <2>1, <2>4, <2>5, Zenon DEF BaseInv, TypeOK, config, txVars
  <2>7. QED
    BY <2>1, <2>6, Zenon DEF BaseInv, Control, ArrivalOrder, config, txVars
<1>4. CASE Forward
  <2>1. /\ UNCHANGED <<config, running, now, bufs, tokens, previous_timestamp, next_at,
                       received, last_recv, freed, charged, txVars, packet_ring>>
        /\ bufs = <<>> /\ bufs_accept' = <<>> /\ rx_at' = "poll"
        /\ wire' = wire \o OnWire(bufs_accept)
    BY <1>4, Zenon DEF Forward
  <2>2. bufs_accept \in Seq(Packets)
    BY Zenon DEF BaseInv, TypeOK
  <2>3. wire' \in Seq([pkt : Packets, at : Nat])
    BY <2>1, <2>2, OnWireType, Zenon
  <2>4. TypeOK'
    BY <2>1, <2>3, Zenon DEF BaseInv, TypeOK, config, txVars
  <2>5. QED
    BY <2>1, <2>4, Zenon DEF BaseInv, Control, ArrivalOrder, config, txVars
<1>5. CASE RxLeave
  BY <1>5, Zenon DEF RxLeave, BaseInv, TypeOK, Control, ArrivalOrder, config, txVars
<1>6. CASE Dequeue
  <2>1. PICK n \in 1 .. Len(packet_ring) :
          /\ rx_pkts' = SubSeq(packet_ring, 1, n)
          /\ packet_ring' = SubSeq(packet_ring, n + 1, Len(packet_ring))
    BY <1>6, DequeueCount, Zenon
  <2>2. /\ UNCHANGED <<config, running, now, rxVars, wire>>
        /\ i' = 1 /\ tx_at' = "send" /\ loop \in SwLoops \ FwdLoops
    BY <1>6, Zenon DEF Dequeue
  <2>3. packet_ring \in Seq(Packets)
        /\ (loop \in SwLoops => \A k \in DOMAIN packet_ring : packet_ring[k].burst >= 1)
    BY Zenon DEF BaseInv, TypeOK
  <2>4. /\ rx_pkts' \in Seq(Packets) /\ Len(rx_pkts') = n
        /\ \A k \in DOMAIN rx_pkts' : k \in DOMAIN packet_ring /\ rx_pkts'[k] = packet_ring[k]
    BY <2>1, <2>3
  <2>5. /\ packet_ring' \in Seq(Packets) /\ Len(packet_ring') = Len(packet_ring) - n
        /\ \A k \in DOMAIN packet_ring' :
             k + n \in DOMAIN packet_ring /\ packet_ring'[k] = packet_ring[k + n]
    BY <2>1, <2>3
  <2>6. /\ \A k \in DOMAIN rx_pkts' : rx_pkts'[k].burst >= 1
        /\ \A k \in DOMAIN packet_ring' : packet_ring'[k].burst >= 1
    BY <2>2, <2>3, <2>4, <2>5, Zenon
  <2>7. TypeOK'
    BY <2>2, <2>4, <2>5, <2>6 DEF BaseInv, TypeOK, config, rxVars
  <2>8. loop \notin HwLoops
    BY <2>2, Zenon DEF SwLoops, HwLoops
  <2>9. QED
    BY <2>2, <2>7, <2>8, Zenon DEF BaseInv, Control, ArrivalOrder, config, rxVars
<1>7. CASE Send
  <2>1. PICK n \in 1 .. Len(rx_pkts) - i + 1 :
          /\ wire' = wire \o OnWire(SubSeq(rx_pkts, i, i + n - 1)) /\ i' = i + n
    BY <1>7, SendCount, Zenon
  <2>2. UNCHANGED <<config, running, now, rxVars, tx_at, rx_pkts, packet_ring>>
        /\ tx_at = "send"
    BY <1>7, Zenon DEF Send
  <2>3. rx_pkts \in Seq(Packets) /\ i \in 1 .. Len(rx_pkts) + 1
    BY Zenon DEF BaseInv, TypeOK
  <2>4. SubSeq(rx_pkts, i, i + n - 1) \in Seq(Packets) /\ i' \in 1 .. Len(rx_pkts) + 1
    BY <2>1, <2>3
  <2>5. wire' \in Seq([pkt : Packets, at : Nat])
    BY <2>1, <2>4, OnWireType, Zenon
  <2>6. TypeOK'
    BY <2>2, <2>4, <2>5, Zenon DEF BaseInv, TypeOK, config, rxVars
  <2>7. QED
    BY <2>2, <2>6, Zenon DEF BaseInv, Control, ArrivalOrder, config, rxVars
<1>8. CASE BurstDone
  BY <1>8 DEF BurstDone, BaseInv, TypeOK, Control, ArrivalOrder, config, rxVars
<1>9. CASE TxLeave
  BY <1>9, Zenon DEF TxLeave, BaseInv, TypeOK, Control, ArrivalOrder, config, rxVars
<1>10. CASE EmulatorTakes
  <2>1. PICK n \in 1 .. Len(packet_ring) :
          /\ wire' = wire \o OnWire(SubSeq(packet_ring, 1, n))
          /\ packet_ring' = SubSeq(packet_ring, n + 1, Len(packet_ring))
    BY <1>10, EmulatorCount, Zenon
  <2>2. /\ UNCHANGED <<config, running, now, rxVars, txVars>>
        /\ loop \in HwLoops \ FwdLoops /\ loop \notin SwLoops
    BY <1>10, Zenon DEF EmulatorTakes, SwLoops, HwLoops
  <2>3. packet_ring \in Seq(Packets)
    BY Zenon DEF BaseInv, TypeOK
  <2>4. SubSeq(packet_ring, 1, n) \in Seq(Packets) /\ packet_ring' \in Seq(Packets)
    BY <2>1, <2>3
  <2>5. wire' \in Seq([pkt : Packets, at : Nat])
    BY <2>1, <2>4, OnWireType, Zenon
  <2>6. TypeOK'
    BY <2>2, <2>4, <2>5, Zenon DEF BaseInv, TypeOK, config, rxVars, txVars
  <2>7. QED
    BY <2>2, <2>6, Zenon DEF BaseInv, Control, ArrivalOrder, config, rxVars, txVars
<1>11. CASE Tick \/ Stop \/ UNCHANGED vars
  <2>1. now \in Nat /\ now \in now .. MAX_TIME + BOOT /\ running \in BOOLEAN
    BY MoonEmAssumption DEF BaseInv, TypeOK
  <2>2. CASE Tick
    BY <2>1, <2>2, RestSame, MoonEmAssumption DEF Tick
  <2>3. CASE Stop
    BY <2>1, <2>3, RestSame, Zenon DEF Stop
  <2>4. CASE UNCHANGED vars
    BY <2>1, <2>4, RestSame, Zenon DEF vars
  <2>5. QED
    BY <1>11, <2>2, <2>3, <2>4, Zenon
<1>12. QED
  BY <1>1, <1>2, <1>3, <1>4, <1>5, <1>6, <1>7, <1>8, <1>9, <1>10, <1>11, Zenon
     DEF Next, Receiver, Transmitter

-----------------------------------------------------------------------------
(* Bursts, and the time they leave.                                         *)

\* A burst that was stamped departs at one time.
LEMMA StampedBursts ==
  ASSUME BaseInv, BurstInv, loop \in SwLoops
  PROVE  Bursts(Stamped)
<1> DEFINE n == Len(bufs_accept)
<1>1. /\ n \in Nat /\ Len(Stamped) = n /\ DOMAIN Stamped = 1 .. n
      /\ bufs_accept \in Seq(Packets) /\ DOMAIN bufs_accept = 1 .. n
  BY StampedType DEF BaseInv, TypeOK
<1>2. \A k \in 1 .. n : /\ Stamped[k].burst = BurstSize(k, n)
                        /\ Stamped[k].ts = bufs_accept[k].ts
  BY <1>1, StampedType, Zenon
<1> SUFFICES ASSUME NEW k \in 1 .. n
             PROVE  /\ k + Stamped[k].burst <= n + 1
                    /\ \A j \in k .. n : j < k + Stamped[k].burst => Stamped[j].ts = Stamped[k].ts
  BY <1>1, Zenon DEF Bursts
<1>3. CASE loop = "sw_leaky"
  <2>1. Stamped[k].burst = 1
    BY <1>2, <1>3, Zenon DEF BurstSize, HwLoops
  <2>2. QED
    BY <2>1, <1>1
<1>4. CASE loop # "sw_leaky"
  <2>1. Stamped[k].burst = n - k + 1
    BY <1>2, <1>4, Zenon DEF BurstSize, HwLoops, SwLoops
  <2>2. \A j \in 1 .. n : /\ bufs_accept[j].ts = SendTime(bufs_accept[j])
                          /\ bufs_accept[j].recv = last_recv
    BY <1>1, <1>4, Zenon DEF BurstInv, BaseInv, ArrivalOrder
  <2>3. \A j \in 1 .. n : bufs_accept[j].ts = bufs_accept[k].ts
    BY <2>2, Zenon DEF SendTime
  <2>4. QED
    BY <2>1, <2>3, <1>1, <1>2
<1>5. QED
  BY <1>3, <1>4, Zenon

\* Bursts stay whole when the ring takes another one behind them.
LEMMA ConcatBursts ==
  ASSUME NEW s \in Seq(Packets), NEW t \in Seq(Packets), Bursts(s), Bursts(t)
  PROVE  Bursts(s \o t)
<1> DEFINE m == Len(s)
           n == Len(t)
           u == s \o t
<1>1. /\ m \in Nat /\ n \in Nat /\ Len(u) = m + n /\ DOMAIN u = 1 .. m + n
      /\ \A k \in 1 .. m : u[k] = s[k] /\ s[k] \in Packets
      /\ \A k \in m + 1 .. m + n : u[k] = t[k - m] /\ k - m \in 1 .. n /\ t[k - m] \in Packets
  OBVIOUS
<1>0. /\ DOMAIN s = 1 .. m /\ DOMAIN t = 1 .. n
      /\ \A k \in 1 .. m : s[k].burst \in Nat
      /\ \A k \in 1 .. n : t[k].burst \in Nat
  BY PacketsOf, Zenon
<1>2. \A k \in 1 .. m : /\ k + s[k].burst <= m + 1 /\ s[k].burst \in Nat
                        /\ \A j \in k .. m : j < k + s[k].burst => s[j].ts = s[k].ts
  BY <1>0, Zenon DEF Bursts
<1>3. \A k \in 1 .. n : /\ k + t[k].burst <= n + 1 /\ t[k].burst \in Nat
                        /\ \A j \in k .. n : j < k + t[k].burst => t[j].ts = t[k].ts
  BY <1>0, Zenon DEF Bursts
<1> SUFFICES ASSUME NEW k \in 1 .. m + n
             PROVE  /\ k + u[k].burst <= m + n + 1
                    /\ \A j \in k .. m + n : j < k + u[k].burst => u[j].ts = u[k].ts
  BY <1>1, Zenon DEF Bursts
<1> HIDE DEF m, n, u
<1>4. CASE k \in 1 .. m
  <2>1. k + u[k].burst <= m + 1 /\ u[k] = s[k] /\ u[k].burst \in Nat
    BY <1>1, <1>2, <1>4, Zenon
  <2>2. ASSUME NEW j \in k .. m + n, j < k + u[k].burst
        PROVE  u[j].ts = u[k].ts
    <3>0. PICK b \in Nat : b = u[k].burst
      BY <2>1, Zenon
    <3>1. j \in k .. m /\ j \in 1 .. m
      <4>1. m \in Nat /\ n \in Nat /\ k + b <= m + 1 /\ j < k + b
        BY <1>1, <2>1, <2>2, <3>0, Zenon
      <4>2. QED
        BY <1>4, <4>1
    <3>2. QED
      BY <3>1, <2>1, <2>2, <1>1, <1>2, <1>4, Zenon
  <2>3. k + u[k].burst <= m + n + 1
    <3>1. PICK b \in Nat : b = u[k].burst
      BY <2>1, Zenon
    <3>2. m \in Nat /\ n \in Nat /\ k + b <= m + 1
      BY <1>1, <2>1, <3>1, Zenon
    <3>3. k + b <= m + n + 1
      BY <3>2
    <3>4. QED
      BY <3>1, <3>3, Zenon
  <2>4. QED
    BY <2>2, <2>3, Zenon
<1>5. CASE k \in m + 1 .. m + n
  <2>1. k - m \in 1 .. n /\ u[k] = t[k - m] /\ (k - m) + u[k].burst <= n + 1
        /\ u[k].burst \in Nat
    BY <1>1, <1>3, <1>5, Zenon
  <2>2. ASSUME NEW j \in k .. m + n, j < k + u[k].burst
        PROVE  u[j].ts = u[k].ts
    <3>0. PICK b \in Nat : b = u[k].burst
      BY <2>1, Zenon
    <3>1. j \in m + 1 .. m + n /\ j - m \in (k - m) .. n /\ j - m < (k - m) + b
      <4>1. m \in Nat /\ n \in Nat /\ j < k + b
        BY <1>1, <2>2, <3>0, Zenon
      <4>2. QED
        BY <1>5, <4>1
    <3>2. u[j] = t[j - m] /\ b = t[k - m].burst
      BY <1>1, <2>1, <3>0, <3>1, Zenon
    <3>3. QED
      BY <3>1, <3>2, <2>1, <1>3, Zenon
  <2>3. k + u[k].burst <= m + n + 1
    <3>1. PICK b \in Nat : b = u[k].burst
      BY <2>1, Zenon
    <3>2. m \in Nat /\ n \in Nat /\ (k - m) + b <= n + 1
      BY <1>1, <2>1, <3>1, Zenon
    <3>3. k + b <= m + n + 1
      BY <3>2
    <3>4. QED
      BY <3>1, <3>3, Zenon
  <2>4. QED
    BY <2>2, <2>3, Zenon
<1>6. QED
  <2>1. k \in 1 .. m \/ k \in m + 1 .. m + n
    <3>1. m \in Nat /\ n \in Nat
      BY <1>1, Zenon
    <3>2. QED
      BY <3>1
  <2>2. QED
    BY <1>4, <1>5, <2>1, Zenon

LEMMA BurstInit == Init => BurstInv
BY DEF Init, BurstInv, Bursts

\* No packet is sent early, whichever part of its burst the ring returned.
LEMMA BurstStep == BaseInv /\ BurstInv /\ [Next]_vars => BurstInv'
<1> SUFFICES ASSUME BaseInv, BurstInv, [Next]_vars, loop' \in SwLoops
             PROVE  BurstInv'
  BY Zenon DEF BurstInv
<1>1. UNCHANGED config
  BY Zenon DEF Next, Receiver, Transmitter, Receive, Handle, Enqueue, Forward, RxLeave, Dequeue,
         Send, BurstDone, TxLeave, EmulatorTakes, Tick, Stop, vars
<1>2. /\ loop \in SwLoops /\ loop' = loop /\ delay' = delay
      /\ loop # "sw_leaky" =>
           \A k \in DOMAIN bufs_accept : bufs_accept[k].ts = SendTime(bufs_accept[k])
      /\ Bursts(packet_ring)
      /\ \A k \in DOMAIN rx_pkts : \A j \in k .. Len(rx_pkts) :
           j < k + rx_pkts[k].burst => rx_pkts[j].ts = rx_pkts[k].ts
      /\ \A k \in DOMAIN wire : wire[k].at >= wire[k].pkt.ts
  BY <1>1, Zenon DEF BurstInv, config
<1>3. CASE Handle
  <2> DEFINE p == Head(bufs)
  <2>1. UNCHANGED <<packet_ring, rx_pkts, wire>>
    BY <1>3, Zenon DEF Handle, txVars
  <2>2. p \in Packets /\ bufs_accept \in Seq(Packets)
    BY <1>3, HandleOutcome, Zenon DEF BaseInv, TypeOK
  <2>3. ASSUME loop # "sw_leaky", NEW k \in DOMAIN bufs_accept'
        PROVE  bufs_accept'[k].ts =
                 IF loop \in FwdLoops THEN 0 ELSE bufs_accept'[k].recv + delay
    <3>1. loop \notin LeakyLoops
      BY <2>3, <1>2, Zenon DEF LeakyLoops, SwLoops
    <3>2. CASE bufs_accept' = bufs_accept
      BY <3>2, <2>3, <1>2, Zenon DEF SendTime
    <3>3. CASE bufs_accept' # bufs_accept
      <4>1. PICK judged \in BOOLEAN :
              bufs_accept' = Append(bufs_accept,
                                    [p EXCEPT !.ts = SendTime(p), !.judged = judged])
        BY <1>3, <3>1, <3>3, HandleOutcome, Zenon
      <4> DEFINE q == [p EXCEPT !.ts = SendTime(p), !.judged = judged]
      <4>2. q.ts = SendTime(p) /\ q.recv = p.recv
        BY <2>2, Zenon DEF Packets
      <4> HIDE DEF q
      <4>3. \/ k \in DOMAIN bufs_accept /\ bufs_accept'[k] = bufs_accept[k]
            \/ bufs_accept'[k] = q
        BY <4>1, <2>2, <2>3 DEF q
      <4>4. QED
        BY <4>2, <4>3, <1>2, <2>3, Zenon DEF SendTime
    <3>4. QED
      BY <3>2, <3>3, Zenon
  <2>4. QED
    BY <1>2, <2>1, <2>3, Zenon DEF BurstInv, Bursts, SendTime
<1>4. CASE Enqueue
  <2>1. /\ UNCHANGED <<rx_pkts, wire>> /\ bufs_accept' = <<>>
        /\ packet_ring' \in {packet_ring, packet_ring \o Stamped}
    BY <1>4, Zenon DEF Enqueue, txVars
  <2>2. Bursts(packet_ring \o Stamped)
    BY <1>2, StampedBursts, StampedType, ConcatBursts, Zenon DEF BaseInv, TypeOK
  <2>3. \A s : s = packet_ring' => (Bursts(s) => Bursts(packet_ring)')
    BY Zenon DEF Bursts
  <2>4. Bursts(packet_ring)'
    BY <2>1, <2>2, <2>3, <1>2, Zenon
  <2>5. QED
    BY <1>2, <2>1, <2>4 DEF BurstInv
<1>5. CASE Forward
  <2>1. /\ UNCHANGED <<rx_pkts, packet_ring>> /\ bufs_accept' = <<>>
        /\ wire' = wire \o OnWire(bufs_accept) /\ loop \in FwdLoops
    BY <1>5, Zenon DEF Forward, txVars
  <2>2. /\ bufs_accept \in Seq(Packets) /\ wire \in Seq([pkt : Packets, at : Nat])
        /\ now \in Nat
    BY MoonEmAssumption DEF BaseInv, TypeOK
  <2>3. \A k \in DOMAIN bufs_accept : bufs_accept[k].ts = 0
    BY <1>2, <2>1, Zenon DEF SendTime, FwdLoops
  <2>4. \A k \in DOMAIN OnWire(bufs_accept) :
          OnWire(bufs_accept)[k].at >= OnWire(bufs_accept)[k].pkt.ts
    BY <2>2, <2>3, OnWireType
  <2>6. \A k \in DOMAIN wire' : wire'[k].at >= wire'[k].pkt.ts
    BY <1>2, <2>1, <2>2, <2>4, OnWireType
  <2>7. QED
    BY <1>2, <2>1, <2>6 DEF BurstInv, Bursts
<1>6. CASE Dequeue
  <2>1. PICK n \in 1 .. Len(packet_ring) :
          /\ rx_pkts' = SubSeq(packet_ring, 1, n)
          /\ packet_ring' = SubSeq(packet_ring, n + 1, Len(packet_ring))
    BY <1>6, DequeueCount, Zenon
  <2>2. UNCHANGED <<bufs_accept, wire>>
    BY <1>6, Zenon DEF Dequeue, rxVars
  <2> DEFINE m == Len(packet_ring)
  <2>3. /\ m \in Nat /\ n \in 1 .. m /\ DOMAIN packet_ring = 1 .. m
        /\ \A k \in 1 .. m : packet_ring[k].burst \in Nat
        /\ Len(rx_pkts') = n /\ DOMAIN rx_pkts' = 1 .. n
        /\ \A k \in 1 .. n : rx_pkts'[k] = packet_ring[k]
        /\ Len(packet_ring') = m - n /\ DOMAIN packet_ring' = 1 .. m - n
        /\ \A k \in 1 .. m - n : packet_ring'[k] = packet_ring[k + n]
    <3>1. packet_ring \in Seq(Packets)
      BY Zenon DEF BaseInv, TypeOK
    <3>2. /\ m \in Nat /\ DOMAIN packet_ring = 1 .. m
          /\ \A k \in 1 .. m : packet_ring[k].burst \in Nat
      BY <3>1, PacketsOf, Zenon
    <3>3. /\ Len(rx_pkts') = n /\ DOMAIN rx_pkts' = 1 .. n
          /\ \A k \in 1 .. n : rx_pkts'[k] = packet_ring[k]
      BY <2>1, <3>1
    <3>4. /\ Len(packet_ring') = m - n /\ DOMAIN packet_ring' = 1 .. m - n
          /\ \A k \in 1 .. m - n : packet_ring'[k] = packet_ring[k + n]
      BY <2>1, <3>1
    <3>5. QED
      BY <2>1, <3>2, <3>3, <3>4, Zenon
  <2>4. \A k \in 1 .. m : /\ k + packet_ring[k].burst <= m + 1
                          /\ \A j \in k .. m : j < k + packet_ring[k].burst =>
                                packet_ring[j].ts = packet_ring[k].ts
    BY <1>2, <2>3, Zenon DEF Bursts
  <2> HIDE DEF m
  <2>5. \A k \in 1 .. n : \A j \in k .. n :
          j < k + rx_pkts'[k].burst => rx_pkts'[j].ts = rx_pkts'[k].ts
    BY <2>3, <2>4
  <2>6. ASSUME NEW k \in 1 .. m - n
        PROVE  /\ k + packet_ring'[k].burst <= m - n + 1
               /\ \A j \in k .. m - n :
                    j < k + packet_ring'[k].burst => packet_ring'[j].ts = packet_ring'[k].ts
    <3>0. m \in Nat /\ n \in 1 .. m
      BY <2>3, Zenon
    <3>1. k + n \in 1 .. m /\ packet_ring'[k] = packet_ring[k + n]
      <4>1. k + n \in 1 .. m
        BY <3>0
      <4>2. QED
        BY <2>3, <4>1, Zenon
    <3>2. (k + n) + packet_ring[k + n].burst <= m + 1 /\ packet_ring[k + n].burst \in Nat
      BY <2>3, <2>4, <3>1, Zenon
    <3>3. ASSUME NEW j \in k .. m - n, j < k + packet_ring'[k].burst
          PROVE  packet_ring'[j].ts = packet_ring'[k].ts
      <4>0. PICK b \in Nat : b = packet_ring[k + n].burst /\ j < k + b
        BY <3>1, <3>2, <3>3, Zenon
      <4>1. j + n \in k + n .. m /\ j + n < (k + n) + b /\ j \in 1 .. m - n
        BY <3>0, <4>0
      <4>2. packet_ring'[j] = packet_ring[j + n]
        BY <2>3, <4>1, Zenon
      <4>3. packet_ring[j + n].ts = packet_ring[k + n].ts
        BY <2>4, <3>1, <4>0, <4>1, Zenon
      <4>4. QED
        BY <3>1, <4>2, <4>3, Zenon
    <3>4. k + packet_ring'[k].burst <= m - n + 1
      <4>1. PICK b \in Nat : b = packet_ring[k + n].burst /\ (k + n) + b <= m + 1
        BY <3>2, Zenon
      <4>2. k + b <= m - n + 1
        BY <3>0, <4>1, SMTT(30)
      <4>3. QED
        BY <3>1, <4>1, <4>2, Zenon
    <3>5. QED
      BY <3>3, <3>4, Zenon
  <2>7. QED
    BY <1>2, <2>2, <2>3, <2>5, <2>6, Zenon DEF BurstInv, Bursts, SendTime
<1>7. CASE Send
  <2>1. PICK n \in 1 .. Len(rx_pkts) - i + 1 :
          /\ wire' = wire \o OnWire(SubSeq(rx_pkts, i, i + n - 1))
          /\ n <= rx_pkts[i].burst /\ i \in DOMAIN rx_pkts
    BY <1>7, SendCount, Zenon
  <2>2. UNCHANGED <<bufs_accept, packet_ring, rx_pkts>> /\ rx_pkts[i].ts <= now
    BY <1>7, Zenon DEF Send, rxVars
  <2> DEFINE s == SubSeq(rx_pkts, i, i + n - 1)
  <2>3. /\ rx_pkts \in Seq(Packets) /\ wire \in Seq([pkt : Packets, at : Nat])
        /\ now \in Nat /\ i \in 1 .. Len(rx_pkts) + 1
    <3>1. now \in BOOT .. MAX_TIME + BOOT
      BY Zenon DEF BaseInv, TypeOK
    <3>2. now \in Nat
      BY <3>1, MoonEmAssumption
    <3>3. QED
      BY <3>2, Zenon DEF BaseInv, TypeOK
  <2>4. s \in Seq(Packets) /\ Len(s) = n /\ \A k \in 1 .. n : s[k] = rx_pkts[i + k - 1]
    <3>1. i + n - 1 \in i - 1 .. Len(rx_pkts) /\ (i + n - 1) - i + 1 = n
      BY <2>1, <2>3, SMTT(30)
    <3>2. QED
      BY <2>3, <3>1, Parts
  <2>5. \A k \in 1 .. n : i + k - 1 \in i .. Len(rx_pkts) /\ i + k - 1 < i + rx_pkts[i].burst
    <3>1. rx_pkts[i].burst \in Nat /\ n <= rx_pkts[i].burst
      BY <2>1, <2>3, PacketsOf, Zenon
    <3>2. PICK m, c \in Nat : m = Len(rx_pkts) /\ c = rx_pkts[i].burst /\ n <= c /\ i \in Nat
                            /\ n \in 1 .. m - i + 1
      <4>1. Len(rx_pkts) \in Nat
        BY <2>3
      <4>2. i \in Nat
        BY <2>3, <4>1
      <4>3. QED
        BY <2>1, <3>1, <4>1, <4>2, Zenon
    <3>3. \A k \in 1 .. n : i + k - 1 \in i .. m /\ i + k - 1 < i + c
      BY <3>2
    <3>4. QED
      BY <3>2, <3>3, Zenon
  <2>6. \A k \in 1 .. n : s[k].ts <= now
    BY <1>2, <2>1, <2>2, <2>4, <2>5, Zenon
  <2> HIDE DEF s
  <2>7. \A k \in DOMAIN OnWire(s) : OnWire(s)[k].at >= OnWire(s)[k].pkt.ts
    BY <2>3, <2>4, <2>6, OnWireType, PacketsOf, SMTT(20)
  <2>8. \A k \in DOMAIN (wire \o OnWire(s)) :
          (wire \o OnWire(s))[k].at >= (wire \o OnWire(s))[k].pkt.ts
    <3> DEFINE o == OnWire(s)
    <3>1. o \in Seq([pkt : Packets, at : Nat]) /\ \A k \in DOMAIN o : o[k].at >= o[k].pkt.ts
      BY <2>4, <2>7, OnWireType, Zenon
    <3> HIDE DEF o
    <3>2. \A k \in DOMAIN (wire \o o) : (wire \o o)[k].at >= (wire \o o)[k].pkt.ts
      BY <1>2, <2>3, <3>1, ConcatLate, Zenon
    <3>3. QED
      BY <3>2, Zenon DEF o
  <2>9. QED
    BY <1>2, <2>1, <2>2, <2>8, Zenon DEF BurstInv, Bursts, SendTime, s
<1>8. CASE BurstDone
  BY <1>2, <1>8 DEF BurstDone, rxVars, BurstInv, Bursts, SendTime
<1>9. CASE UNCHANGED <<bufs_accept, packet_ring, rx_pkts, wire>>
  BY <1>2, <1>9, Zenon DEF BurstInv, Bursts, SendTime
<1>10. ~EmulatorTakes
  BY <1>2, Zenon DEF EmulatorTakes, SwLoops, HwLoops
<1>11. Receive \/ RxLeave \/ TxLeave \/ Tick \/ Stop \/ UNCHANGED vars
         => UNCHANGED <<bufs_accept, packet_ring, rx_pkts, wire>>
  BY Zenon DEF Receive, RxLeave, TxLeave, Tick, Stop, vars, rxVars, txVars
<1>12. QED
  BY <1>3, <1>4, <1>5, <1>6, <1>7, <1>8, <1>9, <1>10, <1>11, Zenon
     DEF Next, Receiver, Transmitter

-----------------------------------------------------------------------------
(* The delay.                                                               *)

\* A packet behind delayed ones, two sequences of them, and a part of one.
LEMMA DelayedAppend ==
  ASSUME NEW s \in Seq(Packets), NEW d, NEW q \in Packets, Delayed(s, d), q.ts >= q.recv + d
  PROVE  Delayed(Append(s, q), d)
<1> SUFFICES ASSUME NEW k \in DOMAIN Append(s, q)
             PROVE  Append(s, q)[k].ts >= Append(s, q)[k].recv + d
  BY Zenon DEF Delayed
<1>1. \/ k \in DOMAIN s /\ Append(s, q)[k] = s[k]
      \/ Append(s, q)[k] = q
  OBVIOUS
<1>2. QED
  BY <1>1, Zenon DEF Delayed

LEMMA DelayedConcat ==
  ASSUME NEW s \in Seq(Packets), NEW t \in Seq(Packets), NEW d, Delayed(s, d), Delayed(t, d)
  PROVE  Delayed(s \o t, d)
<1> DEFINE u == s \o t
<1>1. \A k \in DOMAIN u : \/ k \in DOMAIN s /\ u[k] = s[k]
                          \/ \E j \in DOMAIN t : u[k] = t[j]
  BY ConcatElements
<1> HIDE DEF u
<1>2. Delayed(u, d)
  BY <1>1, Zenon DEF Delayed
<1>3. QED
  BY <1>2 DEF u

LEMMA DelayedEmpty == \A d : Delayed(<<>>, d)
BY DEF Delayed

LEMMA DelayedPart ==
  ASSUME NEW s \in Seq(Packets), NEW d, Delayed(s, d),
         NEW a \in 1 .. Len(s) + 1, NEW b \in a - 1 .. Len(s)
  PROVE  SubSeq(s, a, b) \in Seq(Packets) /\ Delayed(SubSeq(s, a, b), d)
<1>1. /\ SubSeq(s, a, b) \in Seq(Packets) /\ DOMAIN SubSeq(s, a, b) = 1 .. b - a + 1
      /\ \A k \in 1 .. b - a + 1 : SubSeq(s, a, b)[k] = s[a + k - 1] /\ a + k - 1 \in a .. b
  BY Parts
<1>2. DOMAIN s = 1 .. Len(s) /\ Len(s) \in Nat
  OBVIOUS
<1>3. a .. b \subseteq DOMAIN s
  BY <1>2
<1>4. QED
  BY <1>1, <1>3, Zenon DEF Delayed

\* Delayed packets that are sent are delayed packets on the wire.
LEMMA DelayedSent ==
  ASSUME BaseInv, NEW s \in Seq(Packets), NEW d, Delayed(s, d),
         \A k \in DOMAIN wire : wire[k].pkt.ts >= wire[k].pkt.recv + d
  PROVE  \A k \in DOMAIN (wire \o OnWire(s)) :
           (wire \o OnWire(s))[k].pkt.ts >= (wire \o OnWire(s))[k].pkt.recv + d
<1> DEFINE o == OnWire(s)
<1>1. /\ o \in Seq([pkt : Packets, at : Nat]) /\ wire \in Seq([pkt : Packets, at : Nat])
      /\ \A k \in DOMAIN o : k \in DOMAIN s /\ o[k] = [pkt |-> s[k], at |-> now]
  BY OnWireType, Zenon DEF BaseInv, TypeOK
<1> HIDE DEF o
<1>2. \A k \in DOMAIN o : o[k].pkt = s[k]
  BY <1>1
<1>3. \A k \in DOMAIN o : o[k].pkt.ts >= o[k].pkt.recv + d
  BY <1>1, <1>2, Zenon DEF Delayed
<1> DEFINE u == wire \o o
<1>4. \A k \in DOMAIN u : \/ k \in DOMAIN wire /\ u[k] = wire[k]
                          \/ \E j \in DOMAIN o : u[k] = o[j]
  BY <1>1, ConcatElements
<1> HIDE DEF u
<1>5. \A k \in DOMAIN u : u[k].pkt.ts >= u[k].pkt.recv + d
  BY <1>3, <1>4, Zenon
<1>6. QED
  BY <1>5, Zenon DEF o, u

LEMMA DelayInit == Init => DelayInv
BY DelayedEmpty DEF Init, DelayInv

\* Every step keeps the distance between arrival and departure time.
LEMMA DelayStep == BaseInv /\ DelayInv /\ [Next]_vars => DelayInv'
<1> SUFFICES ASSUME BaseInv, DelayInv, [Next]_vars, loop' \notin FwdLoops
             PROVE  DelayInv'
  BY Zenon DEF DelayInv
<1>1. loop' = loop /\ delay' = delay
  BY Zenon DEF Next, Receiver, Transmitter, Receive, Handle, Enqueue, Forward, RxLeave, Dequeue,
         Send, BurstDone, TxLeave, EmulatorTakes, Tick, Stop, vars, config
<1>2. /\ loop \notin FwdLoops
      /\ Delayed(bufs_accept, delay) /\ Delayed(packet_ring, delay) /\ Delayed(rx_pkts, delay)
      /\ \A k \in DOMAIN wire : wire[k].pkt.ts >= wire[k].pkt.recv + delay
  BY <1>1, Zenon DEF DelayInv
<1>3. /\ bufs_accept \in Seq(Packets) /\ packet_ring \in Seq(Packets)
      /\ rx_pkts \in Seq(Packets) /\ i \in 1 .. Len(rx_pkts) + 1
  BY Zenon DEF BaseInv, TypeOK
\* It is enough to find the four stages delayed in the next state.
<1>4. ASSUME \E q, r, x : /\ bufs_accept' = q /\ packet_ring' = r /\ rx_pkts' = x
                          /\ Delayed(q, delay) /\ Delayed(r, delay) /\ Delayed(x, delay),
             \A k \in DOMAIN wire' : wire'[k].pkt.ts >= wire'[k].pkt.recv + delay
      PROVE  DelayInv'
  BY <1>1, <1>4, Zenon DEF DelayInv, Delayed
<1>5. CASE Handle
  <2> DEFINE p == Head(bufs)
  <2>1. UNCHANGED <<packet_ring, rx_pkts, wire>>
    BY <1>5, Zenon DEF Handle, txVars
  <2>2. p \in Packets /\ SendTime(p) = p.recv + delay
    BY <1>2, <1>5, HandleOutcome, Zenon DEF SendTime
  <2>3. CASE bufs_accept' = bufs_accept
    BY <1>2, <1>4, <2>1, <2>3, Zenon
  <2>4. CASE bufs_accept' # bufs_accept
    <3>1. PICK ts \in Nat, judged \in BOOLEAN :
            /\ ts >= SendTime(p)
            /\ bufs_accept' = Append(bufs_accept, [p EXCEPT !.ts = ts, !.judged = judged])
      BY <1>5, <2>4, HandleOutcome, Zenon
    <3> DEFINE q == [p EXCEPT !.ts = ts, !.judged = judged]
    <3>2. q \in Packets /\ q.ts = ts /\ q.recv = p.recv
      BY <2>2, <3>1, Zenon DEF Packets
    <3> HIDE DEF q
    <3>3. q.ts >= q.recv + delay
      BY <2>2, <3>1, <3>2, Zenon
    <3>4. Delayed(Append(bufs_accept, q), delay)
      BY <1>2, <1>3, <3>2, <3>3, DelayedAppend, Zenon
    <3>5. bufs_accept' = Append(bufs_accept, q)
      BY <3>1, Zenon DEF q
    <3>6. QED
      BY <1>2, <1>4, <2>1, <3>4, <3>5, Zenon
  <2>5. QED
    BY <2>3, <2>4, Zenon
<1>6. CASE Enqueue
  <2>1. /\ UNCHANGED <<rx_pkts, wire>> /\ bufs_accept' = <<>>
        /\ packet_ring' \in {packet_ring, packet_ring \o Stamped}
    BY <1>6, Zenon DEF Enqueue, txVars
  <2>2. Stamped \in Seq(Packets) /\ Delayed(Stamped, delay)
    BY <1>2, StampedType, Zenon DEF Delayed
  <2>3. Delayed(packet_ring \o Stamped, delay) /\ Delayed(<<>>, delay)
    BY <1>2, <1>3, <2>2, DelayedConcat, DelayedEmpty, Zenon
  <2>4. QED
    BY <1>2, <1>4, <2>1, <2>3, Zenon
<1>7. CASE Dequeue
  <2>1. PICK n \in 1 .. Len(packet_ring) :
          /\ rx_pkts' = SubSeq(packet_ring, 1, n)
          /\ packet_ring' = SubSeq(packet_ring, n + 1, Len(packet_ring))
    BY <1>7, DequeueCount, Zenon
  <2>2. UNCHANGED <<bufs_accept, wire>>
    BY <1>7, Zenon DEF Dequeue, rxVars
  <2>3. /\ 1 \in 1 .. Len(packet_ring) + 1 /\ n \in 1 - 1 .. Len(packet_ring)
        /\ n + 1 \in 1 .. Len(packet_ring) + 1
        /\ Len(packet_ring) \in (n + 1) - 1 .. Len(packet_ring)
    BY <1>3, <2>1
  <2>4. /\ Delayed(SubSeq(packet_ring, 1, n), delay)
        /\ Delayed(SubSeq(packet_ring, n + 1, Len(packet_ring)), delay)
    BY <1>2, <1>3, <2>3, DelayedPart, Zenon
  <2>5. QED
    BY <1>2, <1>4, <2>1, <2>2, <2>4, Zenon
<1>8. CASE Send
  <2>1. PICK n \in 1 .. Len(rx_pkts) - i + 1 :
          wire' = wire \o OnWire(SubSeq(rx_pkts, i, i + n - 1))
    BY <1>8, SendCount, Zenon
  <2>2. UNCHANGED <<bufs_accept, packet_ring, rx_pkts>>
    BY <1>8, Zenon DEF Send, rxVars
  <2>3. i + n - 1 \in i - 1 .. Len(rx_pkts)
    BY <1>3, <2>1, SMTT(30)
  <2>4. /\ SubSeq(rx_pkts, i, i + n - 1) \in Seq(Packets)
        /\ Delayed(SubSeq(rx_pkts, i, i + n - 1), delay)
    BY <1>2, <1>3, <2>3, DelayedPart, Zenon
  <2>5. \A k \in DOMAIN wire' : wire'[k].pkt.ts >= wire'[k].pkt.recv + delay
    BY <1>2, <2>1, <2>4, DelayedSent, Zenon
  <2>6. QED
    BY <1>2, <1>4, <2>2, <2>5, Zenon
<1>9. CASE EmulatorTakes
  <2>1. PICK n \in 1 .. Len(packet_ring) :
          /\ wire' = wire \o OnWire(SubSeq(packet_ring, 1, n))
          /\ packet_ring' = SubSeq(packet_ring, n + 1, Len(packet_ring))
    BY <1>9, EmulatorCount, Zenon
  <2>2. UNCHANGED <<bufs_accept, rx_pkts>>
    BY <1>9, Zenon DEF EmulatorTakes, rxVars, txVars
  <2>3. /\ 1 \in 1 .. Len(packet_ring) + 1 /\ n \in 1 - 1 .. Len(packet_ring)
        /\ n + 1 \in 1 .. Len(packet_ring) + 1
        /\ Len(packet_ring) \in (n + 1) - 1 .. Len(packet_ring)
    BY <1>3, <2>1
  <2>4. /\ SubSeq(packet_ring, 1, n) \in Seq(Packets)
        /\ Delayed(SubSeq(packet_ring, 1, n), delay)
        /\ Delayed(SubSeq(packet_ring, n + 1, Len(packet_ring)), delay)
    BY <1>2, <1>3, <2>3, DelayedPart, Zenon
  <2>5. \A k \in DOMAIN wire' : wire'[k].pkt.ts >= wire'[k].pkt.recv + delay
    BY <1>2, <2>1, <2>4, DelayedSent, Zenon
  <2>6. QED
    BY <1>2, <1>4, <2>1, <2>2, <2>4, <2>5, Zenon
<1>10. CASE BurstDone
  <2>1. UNCHANGED <<bufs_accept, packet_ring, wire>> /\ rx_pkts' = <<>>
    BY <1>10, Zenon DEF BurstDone, rxVars
  <2>2. Delayed(<<>>, delay)
    BY DelayedEmpty, Zenon
  <2>3. QED
    BY <1>2, <1>4, <2>1, <2>2, Zenon
<1>11. CASE UNCHANGED <<bufs_accept, packet_ring, rx_pkts, wire>>
  BY <1>2, <1>4, <1>11, Zenon
<1>12. /\ ~Forward
       /\ Receive \/ RxLeave \/ TxLeave \/ Tick \/ Stop \/ UNCHANGED vars
            => UNCHANGED <<bufs_accept, packet_ring, rx_pkts, wire>>
  BY <1>2, Zenon DEF Forward, Receive, RxLeave, TxLeave, Tick, Stop, vars, rxVars, txVars
<1>13. QED
  BY <1>5, <1>6, <1>7, <1>8, <1>9, <1>10, <1>11, <1>12, Zenon DEF Next, Receiver, Transmitter

-----------------------------------------------------------------------------
(* The rate limiters.                                                       *)

Entries == [recv : Nat, ts : Nat, total : Nat]

\* t is the history s with e behind it.
Extended(s, t, e) ==
  /\ Len(s) \in Nat /\ Len(t) = Len(s) + 1
  /\ \A k \in 1 .. Len(s) : /\ t[k] = s[k] /\ s[k].recv \in Nat
                            /\ s[k].ts \in Nat /\ s[k].total \in Nat
  /\ t[Len(s) + 1] = e /\ e.recv \in Nat /\ e.ts \in Nat /\ e.total \in Nat
  /\ \A j \in 1 .. Len(s) + 1 : Before(s, j) \in Nat /\ Before(t, j) = Before(s, j)
  /\ Before(s, Len(s) + 1) = Total(s) /\ Total(s) \in Nat /\ Total(t) = e.total
  /\ s # <<>> => Total(s) = s[Len(s)].total

LEMMA AppendEntry ==
  ASSUME NEW s \in Seq(Entries), NEW e \in Entries
  PROVE  Append(s, e) \in Seq(Entries) /\ Extended(s, Append(s, e), e)
<1> DEFINE t == Append(s, e)
<1>1. /\ t \in Seq(Entries) /\ Len(s) \in Nat /\ Len(t) = Len(s) + 1
      /\ \A k \in 1 .. Len(s) : t[k] = s[k] /\ s[k] \in Entries
      /\ t[Len(s) + 1] = e
  OBVIOUS
<1>2. \A k \in 1 .. Len(s) : s[k].recv \in Nat /\ s[k].ts \in Nat /\ s[k].total \in Nat
  BY <1>1, Zenon DEF Entries
<1>3. e.recv \in Nat /\ e.ts \in Nat /\ e.total \in Nat
  BY Zenon DEF Entries
<1> HIDE DEF t
<1>4. \A j \in 1 .. Len(s) + 1 : Before(s, j) \in Nat /\ Before(t, j) = Before(s, j)
  BY <1>1, <1>2 DEF Before
<1>5. Before(s, Len(s) + 1) = Total(s)
  BY Zenon DEF Total
<1>6. Total(s) \in Nat
  BY <1>1, <1>4, <1>5
<1>7. Total(t) = e.total
  BY <1>1 DEF Total, Before
<1>8. s # <<>> => Total(s) = s[Len(s)].total
  BY <1>1 DEF Total, Before
<1>9. QED
  BY <1>1, <1>2, <1>3, <1>4, <1>5, <1>6, <1>7, <1>8, Zenon DEF Extended, t

\* A packet of size bytes passes, with avail bytes in the bucket.
LEMMA TokenAppend ==
  ASSUME NEW s, NEW e, NEW t, Extended(s, t, e),
         NEW size \in Nat, e.total = Total(s) + size,
         NEW tok \in Nat, NEW prev \in Nat, NEW avail \in Nat, NEW now2 \in Nat,
         e.recv = now2,
         avail <= CAPACITY, size <= avail, avail <= tok + Inflow(prev, now2),
         BucketCovers(s, tok, prev), Conforms(s)
  PROVE  BucketCovers(t, avail - size, now2) /\ Conforms(t)
<1>1. /\ Len(s) \in Nat /\ Len(t) = Len(s) + 1
      /\ \A k \in 1 .. Len(s) : t[k] = s[k] /\ s[k].recv \in Nat /\ s[k].total \in Nat
      /\ t[Len(s) + 1] = e
      /\ \A j \in 1 .. Len(s) + 1 : Before(s, j) \in Nat /\ Before(t, j) = Before(s, j)
      /\ Before(s, Len(s) + 1) = Total(s) /\ Total(s) \in Nat /\ Total(t) = e.total
  BY Zenon DEF Extended
<1>2. CAPACITY \in Nat
  BY MoonEmAssumption, Zenon
<1>3. PICK n \in Nat, T \in Nat : n = Len(s) /\ T = Total(s)
  BY <1>1, Zenon
<1>4. ASSUME NEW j \in 1 .. n + 1
      PROVE  /\ T + size - Before(s, j) + (avail - size) <= CAPACITY + Inflow(t[j].recv, now2)
             /\ T + size - Before(s, j) <= CAPACITY + Inflow(t[j].recv, now2)
  <2>1. CASE j \in 1 .. n
    <3>1. PICK r \in Nat, b \in Nat : s[j].recv = r /\ Before(s, j) = b
      BY <1>1, <1>3, <2>1, Zenon
    <3>2. /\ Inflow(r, now2) = Inflow(r, prev) + Inflow(prev, now2)
          /\ Inflow(r, prev) \in Int /\ Inflow(prev, now2) \in Int
      BY MoonEmAssumption DEF Inflow
    <3>3. T - b + tok <= CAPACITY + Inflow(r, prev)
      BY <1>3, <2>1, <3>1, Zenon DEF BucketCovers
    <3>4. t[j].recv = r
      BY <1>1, <1>3, <2>1, <3>1, Zenon
    <3>5. /\ T + size - b + (avail - size) <= CAPACITY + Inflow(r, now2)
          /\ T + size - b <= CAPACITY + Inflow(r, now2)
      BY <1>2, <3>2, <3>3
    <3>6. QED
      BY <3>1, <3>4, <3>5, Zenon
  <2>2. CASE j = n + 1
    <3>1. Inflow(now2, now2) = 0
      BY MoonEmAssumption DEF Inflow
    <3>2. Before(s, j) = T /\ t[j].recv = now2
      BY <1>1, <1>3, <2>2, Zenon
    <3>3. QED
      BY <1>2, <3>1, <3>2
  <2>3. QED
    BY <2>1, <2>2
<1>5. Total(t) = T + size /\ Len(t) = n + 1
      /\ \A j \in 1 .. n + 1 : Before(t, j) = Before(s, j)
  BY <1>1, <1>3, Zenon
<1>6. BucketCovers(t, avail - size, now2)
  <2> SUFFICES ASSUME NEW j \in 1 .. Len(t)
               PROVE  Total(t) - Before(t, j) + (avail - size)
                        <= CAPACITY + Inflow(t[j].recv, now2)
    BY Zenon DEF BucketCovers
  <2>1. j \in 1 .. n + 1 /\ Total(t) = T + size
    BY <1>5, Zenon
  <2>2. PICK b \in Nat : b = Before(s, j) /\ b = Before(t, j)
    BY <1>1, <1>3, <2>1, Zenon
  <2>3. T + size - b + (avail - size) <= CAPACITY + Inflow(t[j].recv, now2)
    BY <1>4, <2>1, <2>2, Zenon
  <2>4. QED
    BY <2>1, <2>2, <2>3
<1>7. ASSUME NEW k \in 1 .. n + 1, NEW j \in 1 .. k
      PROVE  t[k].total - Before(t, j) <= CAPACITY + Inflow(t[j].recv, t[k].recv)
  <2>0. j \in 1 .. n + 1 /\ Before(t, j) = Before(s, j)
    BY <1>5
  <2>1. CASE k \in 1 .. n
    <3>1. j \in 1 .. n
      BY <2>1
    <3>2. s[k].total - Before(s, j) <= CAPACITY + Inflow(s[j].recv, s[k].recv)
      BY <1>3, <2>1, Zenon DEF Conforms
    <3>3. t[k] = s[k] /\ t[j] = s[j]
      BY <1>1, <1>3, <2>1, <3>1, Zenon
    <3>4. QED
      BY <2>0, <3>2, <3>3, Zenon
  <2>2. CASE k = n + 1
    <3>1. t[k].total = T + size /\ t[k].recv = now2
      BY <1>1, <1>3, <2>2, Zenon
    <3>2. PICK b \in Nat : b = Before(s, j) /\ b = Before(t, j)
      BY <1>1, <1>3, <2>0, Zenon
    <3>3. T + size - b <= CAPACITY + Inflow(t[j].recv, now2)
      BY <1>4, <2>0, <3>2, Zenon
    <3>4. QED
      BY <3>1, <3>2, <3>3
  <2>3. QED
    BY <2>1, <2>2
<1>8. Conforms(t)
  BY <1>5, <1>7, Zenon DEF Conforms
<1>9. QED
  BY <1>6, <1>8, Zenon

\* The bucket is refilled.
LEMMA TokenRefill ==
  ASSUME NEW s \in Seq(Entries), NEW tok \in Nat, NEW prev \in Nat,
         NEW tok2 \in Nat, NEW prev2 \in Nat, tok2 <= tok + Inflow(prev, prev2),
         BucketCovers(s, tok, prev)
  PROVE  BucketCovers(s, tok2, prev2)
<1> SUFFICES ASSUME NEW j \in 1 .. Len(s)
             PROVE  Total(s) - Before(s, j) + tok2 <= CAPACITY + Inflow(s[j].recv, prev2)
  BY Zenon DEF BucketCovers
<1>1. s[j] \in Entries /\ Len(s) \in Nat /\ j \in 1 .. Len(s) + 1
  OBVIOUS
<1>2. Total(s) \in Nat /\ Before(s, j) \in Nat
  BY <1>1, AppendEntry, Zenon DEF Extended
<1>3. PICK r \in Nat, b \in Nat, T \in Nat :
        s[j].recv = r /\ Before(s, j) = b /\ Total(s) = T
  BY <1>1, <1>2, Zenon DEF Entries
<1>4. T - b + tok <= CAPACITY + Inflow(r, prev)
  BY <1>3, Zenon DEF BucketCovers
<1>5. /\ Inflow(r, prev2) = Inflow(r, prev) + Inflow(prev, prev2)
      /\ Inflow(r, prev) \in Int /\ Inflow(prev, prev2) \in Int
  BY MoonEmAssumption DEF Inflow
<1>6. T - b + tok2 <= CAPACITY + Inflow(r, prev2)
  BY <1>4, <1>5, MoonEmAssumption, SMTT(20)
<1>7. QED
  BY <1>3, <1>6, Zenon

\* A packet of size bytes is to leave at real, not before the link is free.
LEMMA LeakyAppend ==
  ASSUME NEW s, NEW e, NEW t, Extended(s, t, e),
         NEW size \in Nat, e.total = Total(s) + size,
         NEW next \in Nat, NEW real \in Nat, NEW d \in Nat, e.ts = real, next <= real,
         real <= e.recv + d + BACKLOG_BOUND,
         LinkFree(s, next), Spaced(s, d)
  PROVE  LinkFree(t, real + size * TICKS_PER_BYTE) /\ Spaced(t, d)
<1>1. /\ Len(s) \in Nat /\ Len(t) = Len(s) + 1
      /\ \A k \in 1 .. Len(s) : t[k] = s[k] /\ s[k].ts \in Nat /\ s[k].total \in Nat
      /\ t[Len(s) + 1] = e
      /\ \A j \in 1 .. Len(s) + 1 : Before(s, j) \in Nat /\ Before(t, j) = Before(s, j)
      /\ Before(s, Len(s) + 1) = Total(s) /\ Total(s) \in Nat /\ Total(t) = e.total
      /\ s # <<>> => Total(s) = s[Len(s)].total
  BY Zenon DEF Extended
<1>2. PICK n \in Nat, T \in Nat : n = Len(s) /\ T = Total(s)
  BY <1>1, Zenon
<1>3. Room(size) \in Nat /\ size * TICKS_PER_BYTE = Room(size)
  BY MoonEmAssumption DEF Room
<1>4. ASSUME NEW j \in 1 .. n
      PROVE  \E ts \in Nat, b \in Nat :
               /\ t[j].ts = ts /\ Before(s, j) = b /\ Before(t, j) = b
               /\ next - ts >= Room(T - b) /\ Room(T - b) \in Int
               /\ Room(T + size - b) = Room(T - b) + Room(size)
  <2>1. PICK ts \in Nat, b \in Nat :
          s[j].ts = ts /\ t[j].ts = ts /\ Before(s, j) = b /\ Before(t, j) = b
    BY <1>1, <1>2, SMTT(20)
  <2>2. next - ts >= Room(T - b)
    BY <1>2, <2>1, Zenon DEF LinkFree
  <2>3. Room(T - b) \in Int /\ Room(T + size - b) = Room(T - b) + Room(size)
    BY MoonEmAssumption DEF Room
  <2>4. QED
    BY <2>1, <2>2, <2>3, Zenon
<1>5. Total(t) = T + size /\ Len(t) = n + 1 /\ t[n + 1] = e
  BY <1>1, <1>2, Zenon
<1>6. PICK later \in Nat : later = real + Room(size)
  BY <1>3
<1>7. LinkFree(t, later)
  <2> SUFFICES ASSUME NEW j \in 1 .. Len(t)
               PROVE  later - t[j].ts >= Room(Total(t) - Before(t, j))
    BY Zenon DEF LinkFree
  <2>1. CASE j \in 1 .. n
    <3>1. PICK ts \in Nat, b \in Nat :
            /\ t[j].ts = ts /\ Before(s, j) = b /\ Before(t, j) = b
            /\ next - ts >= Room(T - b) /\ Room(T - b) \in Int
            /\ Room(T + size - b) = Room(T - b) + Room(size)
      BY <1>4, <2>1, Zenon
    <3>2. later - ts >= Room(T + size - b)
      <4>1. PICK x \in Int, y \in Nat : x = Room(T - b) /\ y = Room(size)
        BY <1>3, <3>1, Zenon
      <4>2. Room(T + size - b) = x + y /\ later = real + y /\ next - ts >= x
        BY <1>6, <3>1, <4>1, Zenon
      <4>3. real + y - ts >= x + y
        BY <4>2
      <4>4. QED
        BY <4>2, <4>3
    <3>3. Total(t) - Before(t, j) = T + size - b
      BY <1>5, <3>1
    <3>4. QED
      BY <3>1, <3>2, <3>3, Zenon
  <2>2. CASE j = n + 1
    <3>1. Before(t, j) = T /\ t[j].ts = real
      BY <1>1, <1>2, <1>5, <2>2, Zenon
    <3>2. (T + size) - T = size
      OBVIOUS
    <3>3. later - real >= Room(size)
      BY <1>3, <1>6
    <3>4. QED
      BY <1>5, <3>1, <3>2, <3>3, Zenon
  <2>3. QED
    BY <1>5, <2>1, <2>2
<1>8. ASSUME NEW k \in 1 .. n + 1
      PROVE  /\ t[k].ts <= t[k].recv + d + BACKLOG_BOUND
             /\ \A j \in 1 .. k - 1 : t[k].ts - t[j].ts >= Room(t[k - 1].total - Before(t, j))
  <2>1. CASE k \in 1 .. n
    <3>1. /\ s[k].ts <= s[k].recv + d + BACKLOG_BOUND
          /\ \A j \in 1 .. k - 1 : s[k].ts - s[j].ts >= Room(s[k - 1].total - Before(s, j))
      BY <1>2, <2>1, Zenon DEF Spaced
    <3>2. ASSUME NEW j \in 1 .. k - 1
          PROVE  t[k].ts - t[j].ts >= Room(t[k - 1].total - Before(t, j))
      <4>1. j \in 1 .. n /\ j \in 1 .. n + 1 /\ k - 1 \in 1 .. n
        BY <2>1
      <4>2. t[k] = s[k] /\ t[j] = s[j] /\ t[k - 1] = s[k - 1] /\ Before(t, j) = Before(s, j)
        BY <1>1, <1>2, <2>1, <4>1, Zenon
      <4>3. QED
        BY <3>1, <4>2, Zenon
    <3>3. t[k] = s[k]
      BY <1>1, <1>2, <2>1, Zenon
    <3>4. QED
      BY <3>1, <3>2, <3>3, Zenon
  <2>2. CASE k = n + 1
    <3>1. ASSUME NEW j \in 1 .. k - 1
          PROVE  t[k].ts - t[j].ts >= Room(t[k - 1].total - Before(t, j))
      <4>1. j \in 1 .. n /\ n >= 1 /\ n \in 1 .. n /\ k - 1 = n
        BY <2>2
      <4>2. s # <<>>
        BY <1>2, <4>1
      <4>3. t[k - 1].total = T
        BY <1>1, <1>2, <4>1, <4>2, Zenon
      <4>4. PICK ts \in Nat, b \in Nat :
              t[j].ts = ts /\ Before(t, j) = b /\ next - ts >= Room(T - b) /\ Room(T - b) \in Int
        BY <1>4, <4>1, Zenon
      <4>5. real - ts >= Room(T - b)
        BY <4>4
      <4>6. t[k].ts = real
        BY <1>5, <2>2, Zenon
      <4>7. QED
        BY <4>3, <4>4, <4>5, <4>6, Zenon
    <3>2. QED
      BY <1>5, <2>2, <3>1, Zenon
  <2>3. QED
    BY <2>1, <2>2, SMTT(20)
<1>9. Spaced(t, d)
  BY <1>5, <1>8, Zenon DEF Spaced
<1>10. QED
  BY <1>3, <1>6, <1>7, <1>9, Zenon

\* What Charge appends.
LEMMA ChargeExtends ==
  ASSUME BaseInv, NEW p \in Packets, NEW ts \in Nat, Charge(p, ts)
  PROVE  \E e \in Entries :
           /\ Extended(charged, charged', e) /\ e.recv = p.recv /\ e.ts = ts
           /\ p.size \in Nat /\ p.recv \in Nat /\ e.total = Total(charged) + p.size
<1> DEFINE e == [recv |-> p.recv, ts |-> ts,
                 total |-> p.size + IF charged = <<>> THEN 0 ELSE charged[Len(charged)].total]
<1>1. charged \in Seq(Entries)
  BY Zenon DEF BaseInv, TypeOK, Entries
<1>2. Total(charged) = IF charged = <<>> THEN 0 ELSE charged[Len(charged)].total
  BY <1>1 DEF Total, Before
<1>3. Total(charged) \in Nat
  <2>1. [recv |-> 0, ts |-> 0, total |-> 0] \in Entries
    BY Zenon DEF Entries
  <2>2. QED
    BY <1>1, <2>1, AppendEntry, Zenon DEF Extended
<1>4. p.size \in Nat /\ p.recv \in Nat
  BY MoonEmAssumption, Zenon DEF Packets
<1>5. e \in Entries /\ e.recv = p.recv /\ e.ts = ts /\ e.total = Total(charged) + p.size
  BY <1>2, <1>3, <1>4 DEF Entries
<1>6. charged' = Append(charged, e)
  BY Zenon DEF Charge
<1> HIDE DEF e
<1>7. Extended(charged, charged', e)
  BY <1>1, <1>5, <1>6, AppendEntry, Zenon
<1>8. QED
  BY <1>4, <1>5, <1>7, Zenon

LEMMA ConfigStays == [Next]_vars => loop' = loop /\ delay' = delay
BY Zenon DEF Next, Receiver, Transmitter, Receive, Handle, Enqueue, Forward, RxLeave, Dequeue,
       Send, BurstDone, TxLeave, EmulatorTakes, Tick, Stop, vars, config

\* Only the receiver, taking a burst or handling a packet, touches a bucket.
LEMMA BucketsStay ==
  ASSUME [Next]_vars, ~Receive, ~Handle
  PROVE  UNCHANGED <<tokens, previous_timestamp, next_at, charged>>
BY Zenon DEF Next, Receiver, Transmitter, Enqueue, Forward, RxLeave, Dequeue,
       Send, BurstDone, TxLeave, EmulatorTakes, Tick, Stop, vars, rxVars

LEMMA TokenStep == BaseInv /\ TokenInv /\ [Next]_vars => TokenInv'
<1> SUFFICES ASSUME BaseInv, TokenInv, [Next]_vars, loop' \in TokenLoops
             PROVE  TokenInv'
  BY Zenon DEF TokenInv
<1>1. /\ loop' = loop /\ loop \in TokenLoops
      /\ BucketCovers(charged, tokens, previous_timestamp) /\ Conforms(charged)
  BY ConfigStays, Zenon DEF TokenInv
<1>2. /\ charged \in Seq(Entries) /\ tokens \in Nat /\ tokens <= CAPACITY
      /\ previous_timestamp \in Nat /\ now \in Nat
      /\ TOKEN_RATE \in Nat /\ CAPACITY \in Nat
  BY MoonEmAssumption DEF BaseInv, TypeOK, Entries
<1>3. SUFFICES BucketCovers(charged', tokens', previous_timestamp') /\ Conforms(charged')
  BY <1>1, Zenon DEF TokenInv
<1>4. CASE UNCHANGED <<tokens, previous_timestamp, charged>>
  BY <1>1, <1>4, Zenon
<1>5. CASE Receive
  <2>1. CASE loop = "sw_token"
    <3>1. /\ tokens' = Smaller(tokens + (now - previous_timestamp) * TOKEN_RATE, CAPACITY)
          /\ previous_timestamp' = now /\ charged' = charged
      BY <1>5, <2>1, Zenon DEF Receive
    <3>2. tokens' \in Nat
      BY <1>5, ReceiveEffect, <1>2
    <3>3. (now - previous_timestamp) * TOKEN_RATE = Inflow(previous_timestamp, now)
          /\ Inflow(previous_timestamp, now) \in Int
      BY <1>2 DEF Inflow
    <3>4. tokens' <= tokens + Inflow(previous_timestamp, now)
      BY <1>2, <3>1, <3>3, SmallerLarger
    <3>5. BucketCovers(charged, tokens', now)
      BY <1>1, <1>2, <3>2, <3>4, TokenRefill, Zenon
    <3>6. QED
      BY <1>1, <3>1, <3>5, Zenon
  <2>2. CASE loop # "sw_token"
    BY <1>4, <1>5, <2>2, Zenon DEF Receive
  <2>3. QED
    BY <2>1, <2>2, Zenon
<1>6. CASE Handle
  <2> DEFINE p == Head(bufs)
  <2>1. p \in Packets /\ bufs # <<>> /\ SendTime(p) \in Nat
    BY <1>6, HandleOutcome, SendTimeType, Zenon
  <2>2. /\ HandleSwToken(p) \/ HandleHwToken(p)
        /\ rx_at = "bufs"
    BY <1>1, <1>6, Zenon DEF Handle, HandleDelay, HandleLeaky, TokenLoops
  <2>3. ASSUME Charge(p, SendTime(p)), NEW avail \in Nat, avail <= CAPACITY,
               p.size <= avail, tokens' = avail - p.size, previous_timestamp' = p.recv,
               avail <= tokens + Inflow(previous_timestamp, p.recv)
        PROVE  BucketCovers(charged', tokens', previous_timestamp') /\ Conforms(charged')
    <3>1. PICK e \in Entries :
             /\ Extended(charged, charged', e) /\ e.recv = p.recv
             /\ p.size \in Nat /\ p.recv \in Nat /\ e.total = Total(charged) + p.size
      BY <2>1, <2>3, ChargeExtends, Zenon
    <3> HIDE DEF p
    <3>2. BucketCovers(charged', avail - p.size, p.recv) /\ Conforms(charged')
      BY <1>1, <1>2, <2>3, <3>1, TokenAppend, Zenon
    <3>3. QED
      BY <2>3, <3>2, Zenon
  <2>4. CASE HandleSwToken(p)
    <3>1. previous_timestamp' = previous_timestamp /\ loop = "sw_token"
      BY <2>4, Zenon DEF HandleSwToken
    <3>2. p.recv = previous_timestamp /\ p.size \in Nat
      <4>1. p.recv = last_recv
        BY <1>6, <2>1, <3>1, NonEmpty, SMTT(20) DEF BaseInv, TypeOK, ArrivalOrder, SwLoops
      <4>2. QED
        BY <2>1, <2>2, <3>1, <4>1, MoonEmAssumption, Zenon DEF BaseInv, ArrivalOrder, Packets
    <3>3. CASE tokens < p.size
      BY <1>4, <2>4, <3>1, <3>3, Zenon DEF HandleSwToken
    <3>4. CASE ~(tokens < p.size)
      <4>1. Charge(p, SendTime(p)) /\ tokens' = tokens - p.size
        BY <2>4, <3>4, Zenon DEF HandleSwToken
      <4>2. Inflow(previous_timestamp, p.recv) = 0
        BY <1>2, <3>2 DEF Inflow
      <4>3. p.size <= tokens
        BY <1>2, <3>2, <3>4
      <4>4. QED
        BY <1>2, <2>3, <3>1, <3>2, <4>1, <4>2, <4>3
    <3>5. QED
      BY <3>3, <3>4, Zenon
  <2>5. CASE HandleHwToken(p)
    <3> DEFINE avail == Smaller(tokens + (p.recv - previous_timestamp) * TOKEN_RATE, CAPACITY)
    <3>1. \/ UNCHANGED <<tokens, previous_timestamp, charged>>
          \/ /\ avail > p.size /\ previous_timestamp' = p.recv /\ tokens' = avail - p.size
             /\ Charge(p, SendTime(p))
      BY <2>5, Zenon DEF HandleHwToken
    <3>2. p.recv \in Nat /\ p.size \in Nat /\ p.recv - previous_timestamp \in Nat
      <4>1. p.recv \in Nat /\ p.size \in Nat
        BY <2>1, MoonEmAssumption, Zenon DEF Packets
      <4>2. p.recv >= previous_timestamp
        BY <2>1, NonEmpty DEF BaseInv, TypeOK, ArrivalOrder
      <4>3. QED
        BY <1>2, <4>1, <4>2
    <3>3. (p.recv - previous_timestamp) * TOKEN_RATE = Inflow(previous_timestamp, p.recv)
          /\ Inflow(previous_timestamp, p.recv) \in Nat
      BY <1>2, <3>2 DEF Inflow
    <3>4. avail \in Nat /\ avail <= CAPACITY
          /\ avail <= tokens + Inflow(previous_timestamp, p.recv)
      BY <1>2, <3>3 DEF Smaller
    <3> HIDE DEF avail
    <3>5. avail > p.size => p.size <= avail
      BY <3>2, <3>4
    <3>6. QED
      BY <1>4, <2>3, <3>1, <3>4, <3>5, Zenon
  <2>6. QED
    BY <2>2, <2>4, <2>5, Zenon
<1>7. QED
  BY <1>4, <1>5, <1>6, BucketsStay, Zenon

LEMMA LeakyStep == BaseInv /\ LeakyInv /\ [Next]_vars => LeakyInv'
<1> SUFFICES ASSUME BaseInv, LeakyInv, [Next]_vars, loop' \in LeakyLoops
             PROVE  LeakyInv'
  BY Zenon DEF LeakyInv
<1>1. /\ loop' = loop /\ delay' = delay /\ loop \in LeakyLoops
      /\ LinkFree(charged, next_at) /\ Spaced(charged, delay)
  BY ConfigStays, Zenon DEF LeakyInv
<1>2. next_at \in Nat /\ delay \in Nat /\ BACKLOG_BOUND \in Nat
  BY MoonEmAssumption, BacklogBound DEF BaseInv, TypeOK
<1>3. SUFFICES LinkFree(charged', next_at') /\ Spaced(charged', delay)
  BY <1>1, Zenon DEF LeakyInv
<1>4. CASE UNCHANGED <<next_at, charged>>
  BY <1>1, <1>4, Zenon
<1>5. CASE Receive
  BY <1>4, <1>5, Zenon DEF Receive
<1>6. CASE Handle
  <2> DEFINE p == Head(bufs)
             real == Larger(SendTime(p), next_at)
  <2>1. p \in Packets /\ SendTime(p) \in Nat
    BY <1>6, HandleOutcome, SendTimeType, Zenon
  <2>2. HandleLeaky(p)
    BY <1>1, <1>6, Zenon DEF Handle, HandleDelay, HandleSwToken, HandleHwToken, LeakyLoops
  <2>3. SendTime(p) = p.recv + delay /\ p.recv \in Nat
    BY <1>1, <2>1, Zenon DEF SendTime, FwdLoops, LeakyLoops, Packets
  <2>4. real \in Nat /\ next_at <= real
    BY <1>2, <2>1, SmallerLarger
  <2>5. CASE real - SendTime(p) > BACKLOG_BOUND
    BY <1>4, <2>2, <2>5, Zenon DEF HandleLeaky
  <2>6. CASE ~(real - SendTime(p) > BACKLOG_BOUND)
    <3>1. next_at' = real + p.size * TICKS_PER_BYTE /\ Charge(p, real)
      BY <2>2, <2>6, Zenon DEF HandleLeaky
    <3>2. PICK e \in Entries :
             /\ Extended(charged, charged', e) /\ e.recv = p.recv /\ e.ts = real
             /\ p.size \in Nat /\ e.total = Total(charged) + p.size
      BY <2>1, <2>4, <3>1, ChargeExtends, Zenon
    <3>3. real <= e.recv + delay + BACKLOG_BOUND
      BY <1>2, <2>3, <2>4, <2>6, <3>2
    <3> HIDE DEF p, real
    <3>4. LinkFree(charged', real + p.size * TICKS_PER_BYTE) /\ Spaced(charged', delay)
      BY <1>1, <1>2, <2>4, <3>2, <3>3, LeakyAppend, Zenon
    <3>5. QED
      BY <3>1, <3>4, Zenon
  <2>7. QED
    BY <2>5, <2>6, Zenon
<1>7. QED
  BY <1>4, <1>5, <1>6, BucketsStay, Zenon

LEMMA BucketsInit == Init => TokenInv /\ LeakyInv
BY SMTT(20) DEF Init, TokenInv, LeakyInv, BucketCovers, Conforms, LinkFree, Spaced

-----------------------------------------------------------------------------
(* Where the packets are.                                                   *)

LEMMA ConcatPackets ==
  ASSUME NEW s \in Seq(Packets), NEW t \in Seq(Packets)
  PROVE  /\ s \o t \in Seq(Packets)
         /\ \A n : Has(s \o t, n) <=> Has(s, n) \/ Has(t, n)
         /\ \A lo, mid, hi \in Nat :
              lo <= mid /\ mid <= hi /\ Within(s, lo, mid) /\ Within(t, mid, hi)
                => Within(s \o t, lo, hi)
<1> DEFINE m == Len(s)
           l == Len(t)
           u == s \o t
<1>1. /\ u \in Seq(Packets) /\ m \in Nat /\ l \in Nat /\ DOMAIN s = 1 .. m /\ DOMAIN t = 1 .. l
      /\ DOMAIN u = 1 .. m + l
      /\ \A k \in 1 .. m : u[k] = s[k]
      /\ \A k \in 1 .. l : u[m + k] = t[k]
      /\ \A k \in 1 .. m + l : k \in 1 .. m \/ (k - m \in 1 .. l /\ u[k] = t[k - m])
  OBVIOUS
<1>2. /\ \A k \in 1 .. m : s[k].id \in Nat
      /\ \A k \in 1 .. l : t[k].id \in Nat
  BY PacketsOf, Zenon
<1> HIDE DEF m, l, u
<1>3. \A n : Has(u, n) => Has(s, n) \/ Has(t, n)
  BY <1>1, ZenonT(30) DEF Has
<1>4. \A n : Has(s, n) => Has(u, n)
  <2>1. \A k \in 1 .. m : k \in 1 .. m + l
    BY <1>1
  <2>2. QED
    BY <1>1, <2>1, Zenon DEF Has
<1>5. \A n : Has(t, n) => Has(u, n)
  <2>1. \A k \in 1 .. l : m + k \in 1 .. m + l
    BY <1>1
  <2>2. QED
    BY <1>1, <2>1, ZenonT(30) DEF Has
<1>6. ASSUME NEW lo \in Nat, NEW mid \in Nat, NEW hi \in Nat, lo <= mid, mid <= hi,
             Within(s, lo, mid), Within(t, mid, hi)
      PROVE  Within(u, lo, hi)
  <2>1. /\ \A k \in 1 .. m : lo < s[k].id /\ s[k].id <= mid
        /\ \A j, k \in 1 .. m : j < k => s[j].id < s[k].id
    BY <1>1, <1>6, Zenon DEF Within
  <2>2. /\ \A k \in 1 .. l : mid < t[k].id /\ t[k].id <= hi
        /\ \A j, k \in 1 .. l : j < k => t[j].id < t[k].id
    BY <1>1, <1>6, Zenon DEF Within
  <2>3. ASSUME NEW k \in 1 .. m + l PROVE lo < u[k].id /\ u[k].id <= hi
    <3>1. CASE k \in 1 .. m
      BY <1>1, <1>2, <1>6, <2>1, <3>1
    <3>2. CASE k - m \in 1 .. l /\ u[k] = t[k - m]
      BY <1>2, <1>6, <2>2, <3>2
    <3>3. QED
      BY <1>1, <3>1, <3>2, Zenon
  <2>4. ASSUME NEW j \in 1 .. m + l, NEW k \in 1 .. m + l, j < k
        PROVE  u[j].id < u[k].id
    <3>1. CASE k \in 1 .. m
      <4>1. j \in 1 .. m
        BY <1>1, <2>4, <3>1
      <4>2. QED
        BY <1>1, <2>1, <2>4, <3>1, <4>1, Zenon
    <3>2. CASE k - m \in 1 .. l /\ u[k] = t[k - m]
      <4>1. CASE j \in 1 .. m
        <5>1. u[j].id <= mid /\ mid < u[k].id /\ u[j].id \in Nat /\ u[k].id \in Nat
          BY <1>1, <1>2, <2>1, <2>2, <3>2, <4>1, Zenon
        <5>2. QED
          BY <5>1
      <4>2. CASE j - m \in 1 .. l /\ u[j] = t[j - m]
        <5>1. j - m < k - m
          BY <1>1, <2>4
        <5>2. QED
          BY <2>2, <3>2, <4>2, <5>1, Zenon
      <4>3. QED
        BY <1>1, <4>1, <4>2, Zenon
    <3>3. QED
      BY <1>1, <3>1, <3>2, Zenon
  <2>5. QED
    BY <1>1, <2>3, <2>4, Zenon DEF Within
<1>7. QED
  BY <1>1, <1>3, <1>4, <1>5, <1>6, Zenon DEF u

\* Where a range of identifiers is cut, so are its bounds.
LEMMA SplitWithin ==
  ASSUME NEW s \in Seq(Packets), NEW t \in Seq(Packets), NEW lo \in Nat, NEW hi \in Nat,
         lo <= hi, Within(s \o t, lo, hi)
  PROVE  \E mid \in lo .. hi : Within(s, lo, mid) /\ Within(t, mid, hi)
<1> DEFINE m == Len(s)
           l == Len(t)
           u == s \o t
<1>1. /\ m \in Nat /\ l \in Nat /\ DOMAIN s = 1 .. m /\ DOMAIN t = 1 .. l
      /\ DOMAIN u = 1 .. m + l
      /\ \A k \in 1 .. m : u[k] = s[k]
      /\ \A k \in 1 .. l : u[m + k] = t[k]
  OBVIOUS
<1>2. /\ \A k \in 1 .. m : s[k].id \in Nat
      /\ \A k \in 1 .. l : t[k].id \in Nat
  BY PacketsOf, Zenon
<1>3. /\ \A k \in 1 .. m + l : lo < u[k].id /\ u[k].id <= hi
      /\ \A j, k \in 1 .. m + l : j < k => u[j].id < u[k].id
  BY <1>1, Zenon DEF Within
<1> HIDE DEF m, l, u
<1>4. /\ \A k \in 1 .. m : lo < s[k].id /\ s[k].id <= hi /\ k \in 1 .. m + l
      /\ \A j, k \in 1 .. m : j < k => s[j].id < s[k].id
  BY <1>1, <1>3
<1>5. \A k \in 1 .. l : m + k \in 1 .. m + l
  BY <1>1
<1>6. /\ \A k \in 1 .. l : lo < t[k].id /\ t[k].id <= hi
      /\ \A j, k \in 1 .. l : j < k => t[j].id < t[k].id
  <2>1. \A j, k \in 1 .. l : j < k => m + j < m + k
    BY <1>1
  <2>2. QED
    BY <1>1, <1>3, <1>5, <2>1, Zenon
<1>7. CASE m = 0
  <2>1. Within(s, lo, lo) /\ Within(t, lo, hi)
    BY <1>1, <1>6, <1>7 DEF Within
  <2>2. QED
    BY <2>1
<1>8. CASE m # 0
  <2>1. m \in 1 .. m /\ s[m].id \in Nat /\ s[m].id \in lo .. hi
    BY <1>1, <1>2, <1>4, <1>8
  <2>2. PICK mid \in lo .. hi : mid = s[m].id
    BY <2>1, Zenon
  <2>3. \A k \in 1 .. m : s[k].id <= mid
    BY <1>1, <1>2, <1>4, <2>1, <2>2
  <2>4. \A k \in 1 .. l : mid < t[k].id
    <3>1. TAKE k \in 1 .. l
    <3>2. m < m + k /\ m \in 1 .. m + l /\ m + k \in 1 .. m + l
      BY <1>1, <1>8
    <3>3. QED
      BY <1>1, <1>3, <2>1, <2>2, <3>2, Zenon
  <2>5. QED
    BY <1>1, <1>4, <1>6, <2>3, <2>4, Zenon DEF Within
<1>9. QED
  BY <1>7, <1>8, Zenon

-----------------------------------------------------------------------------
(* The moves of packets between the stages.                                 *)

\* Bounds on identifiers may be relaxed.
LEMMA WiderWithin ==
  ASSUME NEW s \in Seq(Packets), NEW lo \in Nat, NEW hi \in Nat, NEW a \in Nat, NEW b \in Nat,
         a <= lo, hi <= b, Within(s, lo, hi)
  PROVE  Within(s, a, b)
<1>1. \A k \in DOMAIN s : s[k].id \in Nat
  BY PacketsOf, Zenon
<1>2. /\ \A k \in DOMAIN s : lo < s[k].id /\ s[k].id <= hi
      /\ \A j, k \in DOMAIN s : j < k => s[j].id < s[k].id
  BY Zenon DEF Within
<1>3. \A k \in DOMAIN s : a < s[k].id /\ s[k].id <= b
  BY <1>1, <1>2
<1>4. QED
  BY <1>2, <1>3, Zenon DEF Within

LEMMA EmptyStage ==
  /\ <<>> \in Seq(Packets)
  /\ \A n : ~Has(<<>>, n)
  /\ \A lo, hi : Within(<<>>, lo, hi)
<1>1. <<>> \in Seq(Packets) /\ DOMAIN <<>> = {}
  OBVIOUS
<1>2. QED
  BY <1>1, Zenon DEF Has, Within

\* The transmitter sends the first packets it holds.
LEMMA MoveToWire ==
  ASSUME NEW w, NEW u \in Seq(Packets), NEW v \in Seq(Packets), NEW r, NEW q, NEW fr,
         NEW hd, Pipeline(w, u \o v, r, q, fr, hd)
  PROVE  Pipeline(w \o u, v, r, q, fr, hd)
<1>1. /\ w \in Seq(Packets) /\ r \in Seq(Packets) /\ q \in Seq(Packets)
      /\ hd \in Nat /\ fr \in Seq(Packets) /\ Within(fr, 0, hd)
      /\ \A n \in 1 .. hd :
           Has(fr, n) <=> ~(Has(w, n) \/ Has(u \o v, n) \/ Has(r, n) \/ Has(q, n))
  BY Zenon DEF Pipeline
<1>2. PICK a, b, c \in 0 .. hd :
        /\ a <= b /\ b <= c
        /\ Within(w, 0, a) /\ Within(u \o v, a, b) /\ Within(r, b, c) /\ Within(q, c, hd)
  BY Zenon DEF Pipeline
<1>3. a \in Nat /\ b \in Nat
  BY <1>1, <1>2
<1>4. PICK mid \in a .. b : Within(u, a, mid) /\ Within(v, mid, b)
  BY <1>2, <1>3, SplitWithin, Zenon
<1>5. mid \in 0 .. hd /\ mid \in Nat /\ 0 <= a /\ a <= mid /\ mid <= b
  BY <1>1, <1>2, <1>4
<1>6. w \o u \in Seq(Packets) /\ Within(w \o u, 0, mid)
  BY <1>1, <1>2, <1>3, <1>4, <1>5, ConcatPackets, Zenon
<1>7. \A n : Has(w \o u, n) \/ Has(v, n) <=> Has(w, n) \/ Has(u \o v, n)
  BY <1>1, ConcatPackets, Zenon
<1>8. QED
  BY <1>1, <1>2, <1>4, <1>5, <1>6, <1>7, Zenon DEF Pipeline

\* The transmitter, which holds nothing, takes the first packets of the ring.
LEMMA MoveToTransmitter ==
  ASSUME NEW w, NEW u \in Seq(Packets), NEW v \in Seq(Packets), NEW q, NEW fr,
         NEW hd, Pipeline(w, <<>>, u \o v, q, fr, hd)
  PROVE  Pipeline(w, u, v, q, fr, hd)
<1>1. /\ w \in Seq(Packets) /\ q \in Seq(Packets)
      /\ hd \in Nat /\ fr \in Seq(Packets) /\ Within(fr, 0, hd)
      /\ \A n \in 1 .. hd :
           Has(fr, n) <=> ~(Has(w, n) \/ Has(<<>>, n) \/ Has(u \o v, n) \/ Has(q, n))
  BY Zenon DEF Pipeline
<1>2. PICK a, b, c \in 0 .. hd :
        /\ a <= b /\ b <= c
        /\ Within(w, 0, a) /\ Within(u \o v, b, c) /\ Within(q, c, hd)
  BY Zenon DEF Pipeline
<1>3. a \in Nat /\ b \in Nat /\ c \in Nat
  BY <1>1, <1>2
<1>4. PICK mid \in b .. c : Within(u, b, mid) /\ Within(v, mid, c)
  BY <1>2, <1>3, SplitWithin, Zenon
<1>5. mid \in 0 .. hd /\ mid \in Nat /\ 0 <= a /\ b <= mid /\ mid <= c /\ a <= mid
  BY <1>1, <1>2, <1>4
<1>6. Within(u, a, mid)
  <2>1. mid <= mid
    BY <1>5
  <2>2. QED
    BY <1>2, <1>3, <1>4, <1>5, <2>1, WiderWithin, Zenon
<1>7. \A n : Has(u, n) \/ Has(v, n) <=> Has(<<>>, n) \/ Has(u \o v, n)
  BY ConcatPackets, EmptyStage, Zenon
<1>8. QED
  BY <1>1, <1>2, <1>4, <1>5, <1>6, <1>7, Zenon DEF Pipeline

\* The receiver puts what it accepted behind the packets of the ring.
LEMMA MoveToRing ==
  ASSUME NEW w, NEW x, NEW r, NEW q, NEW fr, NEW hd, Pipeline(w, x, r, q, fr, hd),
         NEW p \in Seq(Packets), Len(p) = Len(q), \A k \in 1 .. Len(q) : p[k].id = q[k].id
  PROVE  Pipeline(w, x, r \o p, <<>>, fr, hd)
<1>1. /\ w \in Seq(Packets) /\ x \in Seq(Packets) /\ r \in Seq(Packets) /\ q \in Seq(Packets)
      /\ hd \in Nat /\ fr \in Seq(Packets) /\ Within(fr, 0, hd)
      /\ \A n \in 1 .. hd :
           Has(fr, n) <=> ~(Has(w, n) \/ Has(x, n) \/ Has(r, n) \/ Has(q, n))
  BY Zenon DEF Pipeline
<1>2. PICK a, b, c \in 0 .. hd :
        /\ a <= b /\ b <= c
        /\ Within(w, 0, a) /\ Within(x, a, b) /\ Within(r, b, c) /\ Within(q, c, hd)
  BY Zenon DEF Pipeline
<1>3. b \in Nat /\ c \in Nat /\ c <= hd /\ b <= hd /\ hd \in 0 .. hd
  BY <1>1, <1>2
<1>4. DOMAIN p = 1 .. Len(q) /\ DOMAIN q = 1 .. Len(q)
  BY <1>1
<1>5. Within(p, c, hd) /\ \A n : Has(p, n) <=> Has(q, n)
  <2>1. Within(p, c, hd)
    <3>1. /\ \A k \in 1 .. Len(q) : c < q[k].id /\ q[k].id <= hd
          /\ \A j, k \in 1 .. Len(q) : j < k => q[j].id < q[k].id
      BY <1>2, <1>4, Zenon DEF Within
    <3>2. \A k \in 1 .. Len(q) : c < p[k].id /\ p[k].id <= hd
      BY <3>1, Zenon
    <3>3. \A j, k \in 1 .. Len(q) : j < k => p[j].id < p[k].id
      BY <3>1, Zenon
    <3>4. QED
      BY <1>4, <3>2, <3>3, Zenon DEF Within
  <2>2. \A n : Has(p, n) <=> Has(q, n)
    BY <1>4, Zenon DEF Has
  <2>3. QED
    BY <2>1, <2>2, Zenon
<1>6. r \o p \in Seq(Packets) /\ Within(r \o p, b, hd)
  BY <1>1, <1>2, <1>3, <1>5, ConcatPackets, Zenon
<1>7. \A n : Has(r \o p, n) \/ Has(<<>>, n) <=> Has(r, n) \/ Has(q, n)
  BY <1>1, <1>5, ConcatPackets, EmptyStage, Zenon
<1>8. Within(<<>>, hd, hd) /\ <<>> \in Seq(Packets)
  BY EmptyStage, Zenon
<1>9. QED
  BY <1>1, <1>2, <1>3, <1>6, <1>7, <1>8, Zenon DEF Pipeline

\* The packet with the next identifier joins a stage, or the freed ones.
LEMMA NextIdNew ==
  ASSUME NEW s \in Seq(Packets), NEW lo \in Nat, NEW hi \in Nat, NEW hd \in Nat, hi <= hd,
         Within(s, lo, hi)
  PROVE  ~Has(s, hd + 1)
<1>1. \A k \in DOMAIN s : s[k].id \in Nat /\ s[k].id <= hi
  BY PacketsOf, Zenon DEF Within
<1>2. \A k \in DOMAIN s : s[k].id # hd + 1
  BY <1>1
<1>3. QED
  BY <1>2, Zenon DEF Has

LEMMA JoinNext ==
  ASSUME NEW s \in Seq(Packets), NEW lo \in Nat, NEW hd \in Nat, lo <= hd, Within(s, lo, hd),
         NEW e \in Packets, e.id = hd + 1
  PROVE  /\ Append(s, e) \in Seq(Packets) /\ Within(Append(s, e), lo, hd + 1)
         /\ \A n : Has(Append(s, e), n) <=> Has(s, n) \/ n = hd + 1
<1> DEFINE t == <<e>>
<1>1. t \in Seq(Packets) /\ Append(s, e) = s \o t /\ DOMAIN t = {1} /\ t[1] = e
  OBVIOUS
<1> HIDE DEF t
<1>2. hd + 1 \in Nat /\ hd <= hd + 1 /\ hd < hd + 1
  OBVIOUS
<1>3. Within(t, hd, hd + 1) /\ \A n : Has(t, n) <=> n = hd + 1
  BY <1>1, <1>2 DEF Within, Has
<1>4. s \o t \in Seq(Packets) /\ Within(s \o t, lo, hd + 1)
  BY <1>1, <1>2, <1>3, ConcatPackets, Zenon
<1>5. \A n : Has(s \o t, n) <=> Has(s, n) \/ Has(t, n)
  BY <1>1, ConcatPackets, Zenon
<1>6. QED
  BY <1>1, <1>3, <1>4, <1>5, Zenon

LEMMA PassNext ==
  ASSUME NEW w, NEW x, NEW r, NEW q, NEW fr, NEW hd, Pipeline(w, x, r, q, fr, hd),
         NEW e \in Packets, e.id = hd + 1
  PROVE  /\ Pipeline(w, x, r, Append(q, e), fr, hd + 1)
         /\ Pipeline(w, x, r, q, Append(fr, e), hd + 1)
<1>1. /\ w \in Seq(Packets) /\ x \in Seq(Packets) /\ r \in Seq(Packets) /\ q \in Seq(Packets)
      /\ hd \in Nat /\ fr \in Seq(Packets) /\ Within(fr, 0, hd)
      /\ \A n \in 1 .. hd :
           Has(fr, n) <=> ~(Has(w, n) \/ Has(x, n) \/ Has(r, n) \/ Has(q, n))
  BY Zenon DEF Pipeline
<1>2. PICK a, b, c \in 0 .. hd :
        /\ a <= b /\ b <= c
        /\ Within(w, 0, a) /\ Within(x, a, b) /\ Within(r, b, c) /\ Within(q, c, hd)
  BY Zenon DEF Pipeline
<1>3. /\ a \in Nat /\ b \in Nat /\ c \in Nat /\ a <= hd /\ b <= hd /\ c <= hd /\ 0 \in Nat
      /\ 0 <= hd /\ 0 <= 0 /\ c <= c /\ hd <= hd /\ hd <= hd + 1 /\ hd + 1 \in Nat
      /\ a \in 0 .. hd + 1 /\ b \in 0 .. hd + 1 /\ c \in 0 .. hd + 1
      /\ \A n \in 1 .. hd + 1 : n \in 1 .. hd \/ n = hd + 1
      /\ \A n \in 1 .. hd : n # hd + 1
  BY <1>1, <1>2
<1>4. /\ ~Has(w, hd + 1) /\ ~Has(x, hd + 1) /\ ~Has(r, hd + 1) /\ ~Has(q, hd + 1)
      /\ ~Has(fr, hd + 1)
  BY <1>1, <1>2, <1>3, NextIdNew, Zenon
<1>5. /\ Append(q, e) \in Seq(Packets) /\ Within(Append(q, e), c, hd + 1)
      /\ \A n : Has(Append(q, e), n) <=> Has(q, n) \/ n = hd + 1
  BY <1>1, <1>2, <1>3, JoinNext, Zenon
<1>6. /\ Append(fr, e) \in Seq(Packets) /\ Within(Append(fr, e), 0, hd + 1)
      /\ \A n : Has(Append(fr, e), n) <=> Has(fr, n) \/ n = hd + 1
  BY <1>1, <1>3, JoinNext, Zenon
<1>7. Within(q, c, hd + 1) /\ Within(fr, 0, hd + 1)
  BY <1>1, <1>2, <1>3, WiderWithin, Zenon
<1>8. /\ \A n \in 1 .. hd + 1 :
           Has(fr, n) <=> ~(Has(w, n) \/ Has(x, n) \/ Has(r, n) \/ Has(Append(q, e), n))
      /\ \A n \in 1 .. hd + 1 :
           Has(Append(fr, e), n) <=> ~(Has(w, n) \/ Has(x, n) \/ Has(r, n) \/ Has(q, n))
  BY <1>1, <1>3, <1>4, <1>5, <1>6, Zenon
<1>9. Pipeline(w, x, r, Append(q, e), fr, hd + 1)
  BY <1>1, <1>2, <1>3, <1>5, <1>7, <1>8, Zenon DEF Pipeline
<1>10. Pipeline(w, x, r, q, Append(fr, e), hd + 1)
  BY <1>1, <1>2, <1>3, <1>6, <1>7, <1>8, Zenon DEF Pipeline
<1>11. QED
  BY <1>9, <1>10, Zenon

LEMMA SameSeq ==
  ASSUME NEW S, NEW s \in Seq(S), NEW t \in Seq(S), Len(s) = Len(t),
         \A k \in 1 .. Len(s) : s[k] = t[k]
  PROVE  s = t
OBVIOUS

LEMMA Elements ==
  ASSUME NEW S, NEW s \in Seq(S)
  PROVE  Len(s) \in Nat /\ DOMAIN s = 1 .. Len(s) /\ \A k \in 1 .. Len(s) : s[k] \in S
OBVIOUS

LEMMA Joined ==
  ASSUME NEW S, NEW u \in Seq(S), NEW v \in Seq(S), NEW x \in Seq(S),
         Len(x) = Len(u) + Len(v), \A k \in 1 .. Len(u) : x[k] = u[k],
         \A k \in 1 .. Len(v) : x[Len(u) + k] = v[k]
  PROVE  x = u \o v
<1> DEFINE z == u \o v
<1>1. /\ z \in Seq(S) /\ Len(u) \in Nat /\ Len(v) \in Nat /\ Len(z) = Len(u) + Len(v)
      /\ \A k \in 1 .. Len(u) : z[k] = u[k]
      /\ \A k \in 1 .. Len(v) : z[Len(u) + k] = v[k]
  OBVIOUS
<1> HIDE DEF z
<1>2. ASSUME NEW k \in 1 .. Len(x) PROVE x[k] = z[k]
  <2>1. CASE k \in 1 .. Len(u)
    BY <1>1, <2>1, Zenon
  <2>2. CASE k \notin 1 .. Len(u)
    <3>1. PICK j \in 1 .. Len(v) : k = Len(u) + j
      <4>1. k - Len(u) \in 1 .. Len(v) /\ k = Len(u) + (k - Len(u))
        BY <1>1, <1>2, <2>2
      <4>2. QED
        BY <4>1, Zenon
    <3>2. QED
      BY <1>1, <3>1, Zenon
  <2>3. QED
    BY <2>1, <2>2, Zenon
<1>3. x = z
  BY <1>1, <1>2, SameSeq, Zenon
<1>4. QED
  BY <1>3, Zenon DEF z

LEMMA Whole ==
  ASSUME NEW S, NEW s \in Seq(S)
  PROVE  SubSeq(s, 1, Len(s)) = s /\ s \o <<>> = s
OBVIOUS

\* Taking the first n packets from position a on.
LEMMA Cut ==
  ASSUME NEW S, NEW s \in Seq(S), NEW a \in 1 .. Len(s) + 1, NEW n \in 0 .. Len(s) - a + 1
  PROVE  /\ SubSeq(s, a, a + n - 1) \in Seq(S) /\ Len(SubSeq(s, a, a + n - 1)) = n
         /\ SubSeq(s, a + n, Len(s)) \in Seq(S)
         /\ Len(SubSeq(s, a + n, Len(s))) = Len(s) - a - n + 1
         /\ SubSeq(s, a, Len(s)) = SubSeq(s, a, a + n - 1) \o SubSeq(s, a + n, Len(s))
<1> DEFINE u == SubSeq(s, a, a + n - 1)
           v == SubSeq(s, a + n, Len(s))
           x == SubSeq(s, a, Len(s))
           l == Len(s)
<1>1. /\ l \in Nat /\ a \in 1 .. l + 1 /\ n \in 0 .. l - a + 1
      /\ a + n - 1 \in a - 1 .. l /\ a + n \in 1 .. l + 1
      /\ l \in a - 1 .. l /\ l \in (a + n) - 1 .. l
      /\ (a + n - 1) - a + 1 = n /\ l - (a + n) + 1 = l - a - n + 1
  OBVIOUS
<1>2. /\ u \in Seq(S) /\ Len(u) = n
      /\ \A k \in 1 .. n : u[k] = s[a + k - 1]
  BY <1>1, Parts
<1>3. /\ v \in Seq(S) /\ Len(v) = l - a - n + 1
      /\ \A k \in 1 .. l - a - n + 1 : v[k] = s[a + n + k - 1]
  BY <1>1, Parts
<1>4. /\ x \in Seq(S) /\ Len(x) = l - a + 1
      /\ \A k \in 1 .. l - a + 1 : x[k] = s[a + k - 1]
  <2>1. Len(s) \in a - 1 .. Len(s)
    BY <1>1, Zenon
  <2>2. QED
    BY <2>1, Parts
<1>5. x = u \o v
  <2> HIDE DEF u, v, x, l
  <2>1. Len(x) = Len(u) + Len(v)
    <3>1. n + (l - a - n + 1) = l - a + 1
      BY <1>1
    <3>2. Len(x) = l - a + 1 /\ Len(u) = n /\ Len(v) = l - a - n + 1
      BY <1>2, <1>3, <1>4, Zenon
    <3>3. QED
      BY <3>1, <3>2, Zenon
  <2>2. ASSUME NEW k \in 1 .. Len(u) PROVE x[k] = u[k]
    <3>1. k \in 1 .. n /\ k \in 1 .. l - a + 1
      BY <1>1, <1>2
    <3>2. QED
      BY <1>2, <1>4, <3>1, Zenon
  <2>3. ASSUME NEW k \in 1 .. Len(v) PROVE x[Len(u) + k] = v[k]
    <3>1. n + k \in 1 .. l - a + 1 /\ a + (n + k) - 1 = a + n + k - 1
      BY <1>1, <1>3, <2>3
    <3>2. QED
      BY <1>2, <1>3, <1>4, <2>3, <3>1, Zenon
  <2>4. QED
    BY <1>2, <1>3, <1>4, <2>1, <2>2, <2>3, Joined, Zenon
<1>6. QED
  BY <1>2, <1>3, <1>5, Zenon DEF u, v, x, l

LEMMA CutFront ==
  ASSUME NEW S, NEW s \in Seq(S), NEW n \in 0 .. Len(s)
  PROVE  /\ SubSeq(s, 1, n) \in Seq(S) /\ Len(SubSeq(s, 1, n)) = n
         /\ SubSeq(s, n + 1, Len(s)) \in Seq(S)
         /\ Len(SubSeq(s, n + 1, Len(s))) = Len(s) - n
         /\ s = SubSeq(s, 1, n) \o SubSeq(s, n + 1, Len(s))
<1> DEFINE u == SubSeq(s, 1, n)
           v == SubSeq(s, n + 1, Len(s))
<1>1. /\ u \in Seq(S) /\ Len(u) = n /\ v \in Seq(S) /\ Len(v) = Len(s) - n
      /\ \A k \in 1 .. n : u[k] = s[k]
      /\ \A k \in 1 .. Len(s) - n : v[k] = s[n + k]
  OBVIOUS
<1>2. Len(s) \in Nat /\ n \in Nat
  OBVIOUS
<1> HIDE DEF u, v
<1>3. Len(s) = Len(u) + Len(v) /\ (\A k \in 1 .. Len(u) : s[k] = u[k])
      /\ \A k \in 1 .. Len(v) : s[Len(u) + k] = v[k]
  BY <1>1, <1>2
<1>4. s = u \o v
  BY <1>1, <1>3, Joined, Zenon
<1>5. QED
  BY <1>1, <1>4, Zenon DEF u, v

LEMMA SentType ==
  ASSUME NEW w \in Seq([pkt : Packets, at : Nat])
  PROVE  /\ Sent(w) \in Seq(Packets) /\ Len(Sent(w)) = Len(w)
         /\ \A k \in 1 .. Len(w) : Sent(w)[k] = w[k].pkt
<1>1. \A e \in [pkt : Packets, at : Nat] : e.pkt \in Packets
  BY Zenon
<1>2. DOMAIN w = 1 .. Len(w) /\ Len(w) \in Nat /\ \A k \in 1 .. Len(w) : w[k].pkt \in Packets
  <2>1. /\ DOMAIN w = 1 .. Len(w) /\ Len(w) \in Nat
        /\ \A k \in 1 .. Len(w) : w[k] \in [pkt : Packets, at : Nat]
    BY Elements, Zenon
  <2>2. QED
    BY <1>1, <2>1, Zenon
<1> DEFINE f == [k \in 1 .. Len(w) |-> w[k].pkt]
<1>3. f \in Seq(Packets) /\ Len(f) = Len(w)
  BY <1>2
<1>4. QED
  BY <1>2, <1>3, Zenon DEF Sent

LEMMA SentMore ==
  ASSUME BaseInv, NEW s \in Seq(Packets), wire' = wire \o OnWire(s)
  PROVE  Sent(wire)' = Sent(wire) \o s /\ Len(wire') = Len(wire) + Len(s)
<1> DEFINE W == [pkt : Packets, at : Nat]
           o == OnWire(s)
           v == wire'
<1>1. wire \in Seq(W) /\ o \in Seq(W) /\ v \in Seq(W) /\ Len(o) = Len(s)
      /\ \A k \in DOMAIN o : k \in DOMAIN s /\ o[k] = [pkt |-> s[k], at |-> now]
  BY OnWireType, Zenon DEF BaseInv, TypeOK
<1>2. \A k \in 1 .. Len(s) : o[k].pkt = s[k]
  BY <1>1
<1>3. /\ Len(v) = Len(wire) + Len(s)
      /\ \A k \in 1 .. Len(wire) : v[k] = wire[k]
      /\ \A k \in 1 .. Len(s) : v[Len(wire) + k] = o[k]
  BY <1>1
<1>4. /\ Sent(wire) \in Seq(Packets) /\ Len(Sent(wire)) = Len(wire)
      /\ \A k \in 1 .. Len(wire) : Sent(wire)[k] = wire[k].pkt
  BY <1>1, SentType, Zenon
<1>5. /\ Sent(v) \in Seq(Packets) /\ Len(Sent(v)) = Len(v)
      /\ \A k \in 1 .. Len(v) : Sent(v)[k] = v[k].pkt
  BY <1>1, SentType, Zenon
<1>6. Len(s) \in Nat /\ Len(wire) \in Nat
  BY <1>1
<1> HIDE DEF v, o, W
<1>7. Sent(v) = Sent(wire) \o s
  <2> DEFINE y == Sent(v)
             z == Sent(wire)
  <2> HIDE DEF y, z
  <2>1. y \in Seq(Packets) /\ z \in Seq(Packets) /\ Len(y) = Len(z) + Len(s)
    BY <1>3, <1>4, <1>5, Zenon DEF y, z
  <2>2. \A k \in 1 .. Len(z) : y[k] = z[k]
    BY <1>3, <1>4, <1>5, <1>6 DEF y, z
  <2>3. ASSUME NEW k \in 1 .. Len(s) PROVE y[Len(z) + k] = s[k]
    <3>1. Len(wire) + k \in 1 .. Len(v)
      BY <1>3, <1>6
    <3>2. QED
      BY <1>2, <1>3, <1>4, <1>5, <2>3, <3>1, Zenon DEF y, z
  <2>4. y = z \o s
    BY <2>1, <2>2, <2>3, Joined, Zenon
  <2>5. QED
    BY <2>4, Zenon DEF y, z
<1>8. QED
  BY <1>3, <1>7, Zenon DEF v, Sent

-----------------------------------------------------------------------------
(* Every packet is in one place.                                            *)

LEMMA BalanceMoves ==
  ASSUME NEW rcv, NEW fr, NEW wr, NEW b, NEW q, NEW r, NEW x, Balance(rcv, fr, wr, b, q, r, x)
  PROVE  /\ \A n \in Nat : b = 0 /\ n <= NUM_BUFS - (rcv - fr - wr)
                             => Balance(rcv + n, fr, wr, n, q, r, x)
         /\ b >= 1 => /\ Balance(rcv, fr + 1, wr, b - 1, q, r, x)
                      /\ Balance(rcv, fr, wr, b - 1, q + 1, r, x)
         /\ Balance(rcv, fr, wr, b, 0, r + q, x)
         /\ Balance(rcv, fr, wr + q, b, 0, r, x)
         /\ \A n \in Nat : n <= r => /\ Balance(rcv, fr, wr, b, q, r - n, x + n)
                                     /\ Balance(rcv, fr, wr + n, b, q, r - n, x)
         /\ \A n \in Nat : n <= x => Balance(rcv, fr, wr + n, b, q, r, x - n)
         /\ r + q <= NUM_BUFS
BY MoonEmAssumption, SMTT(30) DEF Balance

LEMMA AccountInit == Init => AccountInv
<1> SUFFICES ASSUME Init PROVE AccountInv
  BY Zenon
<1>1. /\ bufs = <<>> /\ bufs_accept = <<>> /\ packet_ring = <<>> /\ rx_pkts = <<>>
      /\ wire = <<>> /\ i = 1 /\ received = 0 /\ freed = <<>>
  BY Zenon DEF Init
<1>2. Len(<<>>) = 0 /\ DOMAIN <<>> = {} /\ SubSeq(<<>>, 1, 0) = <<>>
  OBVIOUS
<1>3. Waiting = <<>>
  BY <1>1, <1>2, Zenon DEF Waiting
<1>4. Sent(wire) \in Seq(Packets) /\ DOMAIN Sent(wire) = {}
  BY <1>1, <1>2 DEF Sent
<1>5. Within(Sent(wire), 0, 0) /\ \A n : ~Has(Sent(wire), n)
  BY <1>4, Zenon DEF Within, Has
<1>6. Handled = 0
  <2>1. Len(bufs) = 0 /\ received = 0
    BY <1>1, <1>2, Zenon
  <2>2. received - Len(bufs) = 0
    BY <2>1
  <2>3. QED
    BY <2>2, Zenon DEF Handled
<1>7. Pipeline(Sent(wire), <<>>, <<>>, <<>>, <<>>, 0)
  BY <1>4, <1>5, EmptyStage DEF Pipeline
<1>8. Balance(0, 0, 0, 0, 0, 0, 0)
  BY MoonEmAssumption DEF Balance
<1>9. QED
  BY <1>1, <1>2, <1>3, <1>6, <1>7, <1>8, Zenon DEF AccountInv

\* The invariant in numbers and types.
LEMMA AccountFacts ==
  ASSUME BaseInv, AccountInv
  PROVE  /\ bufs \in Seq(Packets) /\ bufs_accept \in Seq(Packets)
         /\ packet_ring \in Seq(Packets) /\ rx_pkts \in Seq(Packets)
         /\ wire \in Seq([pkt : Packets, at : Nat])
         /\ Len(bufs) \in Nat /\ Len(bufs_accept) \in Nat /\ Len(packet_ring) \in Nat
         /\ Len(wire) \in Nat /\ Len(Waiting) \in Nat /\ received \in Nat
         /\ Len(freed) \in Nat /\ freed \in Seq(Packets)
         /\ Handled = received - Len(bufs) /\ Handled \in Nat
         /\ i \in 1 .. Len(rx_pkts) + 1
<1>1. /\ bufs \in Seq(Packets) /\ bufs_accept \in Seq(Packets)
      /\ packet_ring \in Seq(Packets) /\ rx_pkts \in Seq(Packets)
      /\ wire \in Seq([pkt : Packets, at : Nat]) /\ received \in Nat
      /\ i \in 1 .. Len(rx_pkts) + 1
  BY Zenon DEF BaseInv, TypeOK
<1>2. Waiting \in Seq(Packets) /\ Handled \in Nat /\ freed \in Seq(Packets)
  BY Zenon DEF AccountInv, Pipeline
<1>3. /\ Len(freed) \in Nat /\ Len(bufs) \in Nat /\ Len(bufs_accept) \in Nat /\ Len(packet_ring) \in Nat
      /\ Len(wire) \in Nat /\ Len(Waiting) \in Nat
  BY <1>1, <1>2, Elements, ZenonT(30)
<1>4. QED
  BY <1>1, <1>2, <1>3, Zenon DEF Handled

LEMMA AccountReceive ==
  ASSUME BaseInv, AccountInv, Receive PROVE AccountInv'
<1>1. /\ bufs = <<>> /\ bufs_accept' = bufs_accept /\ packet_ring' = packet_ring
      /\ rx_pkts' = rx_pkts /\ wire' = wire /\ i' = i /\ freed' = freed
  BY Zenon DEF Receive, BaseInv, Control, txVars
<1>2. PICK n \in 1 .. BURST_SIZE :
        /\ n <= FreeBufs /\ received' = received + n
        /\ \E t \in Arrivals(n), size \in [1 .. n -> SIZES] :
             bufs' = [k \in 1 .. n |->
                        [id |-> received + k, size |-> size[k], recv |-> t[k],
                         ts |-> 0, burst |-> 0, judged |-> FALSE]]
  BY Zenon DEF Receive
<1>3. n \in Nat /\ DOMAIN bufs' = 1 .. n /\ \A k \in 1 .. n : bufs'[k].id = received + k
  BY <1>2, MoonEmAssumption
<1>4. Len(bufs') = n /\ Len(bufs) = 0
  BY <1>1, <1>2, <1>3
<1>5. Handled' = Handled /\ Handled = received
  BY <1>2, <1>3, <1>4, AccountFacts DEF Handled
<1>6. Sent(wire)' = Sent(wire) /\ Waiting' = Waiting
  BY <1>1, Zenon DEF Sent, Waiting
<1>7. Pipeline(Sent(wire), Waiting, packet_ring, bufs_accept, freed, Handled)'
  BY <1>1, <1>5, <1>6, Zenon DEF AccountInv
<1>8. \A k \in DOMAIN bufs' : bufs'[k].id = Handled' + k
  BY <1>3, <1>5, Zenon
<1>9. Balance(received + n, Len(freed), Len(wire), n, Len(bufs_accept),
              Len(packet_ring), Len(Waiting))
  BY <1>2, <1>3, <1>4, BalanceMoves, Zenon DEF FreeBufs, AccountInv
<1>10. QED
  BY <1>1, <1>2, <1>4, <1>6, <1>7, <1>8, <1>9, Zenon DEF AccountInv

LEMMA AccountHandle ==
  ASSUME BaseInv, AccountInv, Handle PROVE AccountInv'
<1> DEFINE p == Head(bufs)
           h == Handled
<1>1. /\ packet_ring' = packet_ring /\ rx_pkts' = rx_pkts /\ wire' = wire /\ i' = i
      /\ received' = received /\ bufs' = Tail(bufs) /\ bufs # <<>>
  BY Zenon DEF Handle, txVars
<1>2. p \in Packets /\ p = bufs[1] /\ Len(bufs) >= 1
  <2>1. bufs \in Seq(Packets)
    BY AccountFacts, Zenon
  <2>2. QED
    BY <1>1, <2>1, NonEmpty, Zenon
<1>3. /\ Len(bufs') = Len(bufs) - 1
      /\ \A k \in DOMAIN bufs' : k \in 1 .. Len(bufs) - 1 /\ bufs'[k] = bufs[k + 1] /\ k + 1 \in DOMAIN bufs
  BY <1>1, <1>2, AccountFacts
<1>4. h \in Nat /\ Handled' = h + 1 /\ p.id = h + 1
  <2>1. 1 \in DOMAIN bufs
    BY <1>2, AccountFacts, SMTT(20)
  <2>2. p.id = h + 1
    BY <1>2, <2>1, Zenon DEF AccountInv
  <2>3. QED
    BY <1>1, <1>3, <2>2, AccountFacts DEF Handled
<1>5. \A k \in DOMAIN bufs' : bufs'[k].id = Handled' + k
  <2>1. TAKE k \in DOMAIN bufs'
  <2>2. bufs[k + 1].id = h + (k + 1) /\ bufs'[k] = bufs[k + 1] /\ k \in Nat
    <3>1. bufs[k + 1].id = h + (k + 1) /\ bufs'[k] = bufs[k + 1]
      BY <1>3, Zenon DEF AccountInv
    <3>2. k \in Nat
      BY <1>3, AccountFacts, SMTT(20)
    <3>3. QED
      BY <3>1, <3>2, Zenon
  <2>3. QED
    BY <1>4, <2>2
<1>6. Sent(wire)' = Sent(wire) /\ Waiting' = Waiting
  BY <1>1, Zenon DEF Sent, Waiting
<1>7. Pipeline(Sent(wire), Waiting, packet_ring, bufs_accept, freed, h)
  BY Zenon DEF AccountInv
<1>8. /\ Balance(received, Len(freed) + 1, Len(wire), Len(bufs'), Len(bufs_accept),
                 Len(packet_ring), Len(Waiting))
      /\ Balance(received, Len(freed), Len(wire), Len(bufs'), Len(bufs_accept) + 1,
                 Len(packet_ring), Len(Waiting))
  <2>1. Balance(received, Len(freed), Len(wire), Len(bufs), Len(bufs_accept),
                Len(packet_ring), Len(Waiting))
    BY Zenon DEF AccountInv
  <2>2. /\ Balance(received, Len(freed) + 1, Len(wire), Len(bufs) - 1, Len(bufs_accept),
                   Len(packet_ring), Len(Waiting))
        /\ Balance(received, Len(freed), Len(wire), Len(bufs) - 1, Len(bufs_accept) + 1,
                   Len(packet_ring), Len(Waiting))
    BY <1>2, <2>1, BalanceMoves, Zenon
  <2>3. QED
    BY <1>3, <2>2, Zenon
<1>9. CASE freed' = Append(freed, p) /\ bufs_accept' = bufs_accept
  <2>1. Pipeline(Sent(wire), Waiting, packet_ring, bufs_accept, freed', h + 1)
    BY <1>2, <1>4, <1>7, <1>9, PassNext, Zenon
  <2>2. Len(freed') = Len(freed) + 1
    BY <1>9, AccountFacts
  <2>3. QED
    BY <1>1, <1>4, <1>5, <1>6, <1>8, <1>9, <2>1, <2>2, Zenon DEF AccountInv
<1>10. CASE freed' = freed /\ \E ts \in Nat, judged \in BOOLEAN :
              bufs_accept' = Append(bufs_accept, [p EXCEPT !.ts = ts, !.judged = judged])
  <2>1. PICK e \in Packets : e.id = h + 1 /\ bufs_accept' = Append(bufs_accept, e)
    <3>1. PICK ts \in Nat, judged \in BOOLEAN :
              bufs_accept' = Append(bufs_accept, [p EXCEPT !.ts = ts, !.judged = judged])
      BY <1>10, Zenon
    <3>2. /\ [p EXCEPT !.ts = ts, !.judged = judged] \in Packets
          /\ [p EXCEPT !.ts = ts, !.judged = judged].id = p.id
      BY <1>2, Zenon DEF Packets
    <3>3. QED
      BY <1>4, <3>1, <3>2, Zenon
  <2>2. Pipeline(Sent(wire), Waiting, packet_ring, bufs_accept', freed, h + 1)
    BY <1>7, <2>1, PassNext, Zenon
  <2>3. Len(bufs_accept') = Len(bufs_accept) + 1
    BY <2>1, AccountFacts
  <2>4. QED
    BY <1>1, <1>4, <1>5, <1>6, <1>8, <1>10, <2>2, <2>3, Zenon DEF AccountInv
<1>11. QED
  BY <1>9, <1>10, HandleOutcome, Zenon

LEMMA AccountEnqueue ==
  ASSUME BaseInv, AccountInv, Enqueue PROVE AccountInv'
<1>1. /\ bufs' = bufs /\ rx_pkts' = rx_pkts /\ wire' = wire /\ i' = i /\ freed' = freed
      /\ received' = received /\ bufs_accept' = <<>>
      /\ packet_ring' = IF Len(packet_ring) + Len(bufs_accept) <= RING_SIZE
                        THEN packet_ring \o Stamped ELSE packet_ring
  BY Zenon DEF Enqueue, txVars
<1>2. Sent(wire)' = Sent(wire) /\ Waiting' = Waiting /\ Handled' = Handled
  BY <1>1, Zenon DEF Sent, Waiting, Handled
<1>3. Balance(received, Len(freed), Len(wire), Len(bufs), Len(bufs_accept),
              Len(packet_ring), Len(Waiting))
  BY Zenon DEF AccountInv
<1>4. /\ Len(packet_ring) + Len(bufs_accept) <= NUM_BUFS
      /\ Balance(received, Len(freed), Len(wire), Len(bufs), 0,
                 Len(packet_ring) + Len(bufs_accept), Len(Waiting))
  BY <1>3, BalanceMoves, Zenon
<1>5. packet_ring' = packet_ring \o Stamped
  BY <1>1, <1>4, AccountFacts, MoonEmAssumption
<1>6. /\ Stamped \in Seq(Packets) /\ Len(Stamped) = Len(bufs_accept)
      /\ \A k \in 1 .. Len(bufs_accept) : Stamped[k].id = bufs_accept[k].id
  BY StampedType, AccountFacts
<1>7. Len(packet_ring') = Len(packet_ring) + Len(bufs_accept)
  <2>1. packet_ring \in Seq(Packets)
    BY AccountFacts, Zenon
  <2>2. Len(packet_ring \o Stamped) = Len(packet_ring) + Len(Stamped)
    BY <1>6, <2>1
  <2>3. QED
    BY <1>5, <1>6, <2>2, Zenon
<1>8. Pipeline(Sent(wire), Waiting, packet_ring', <<>>, freed, Handled)
  BY <1>5, <1>6, MoveToRing, Zenon DEF AccountInv
<1>9. Len(bufs_accept') = 0
  BY <1>1, Zenon
<1>10. \A k \in DOMAIN bufs : bufs[k].id = Handled + k
  BY Zenon DEF AccountInv
<1>11. QED
  BY <1>1, <1>2, <1>4, <1>7, <1>8, <1>9, <1>10, Zenon DEF AccountInv

LEMMA AccountForward ==
  ASSUME BaseInv, AccountInv, Forward PROVE AccountInv'
<1>1. /\ bufs' = bufs /\ rx_pkts' = rx_pkts /\ i' = i /\ freed' = freed
      /\ received' = received /\ bufs_accept' = <<>> /\ packet_ring' = packet_ring
      /\ wire' = wire \o OnWire(bufs_accept) /\ loop \in FwdLoops
  BY Zenon DEF Forward, txVars
<1>2. packet_ring = <<>> /\ rx_pkts = <<>> /\ bufs_accept \in Seq(Packets)
  BY <1>1, AccountFacts, Zenon DEF BaseInv, Control
<1>3. Waiting' = Waiting /\ Handled' = Handled /\ Waiting = <<>>
  <2>1. Len(<<>>) = 0 /\ SubSeq(<<>>, 1, 0) = <<>>
    OBVIOUS
  <2>2. i = 1
    <3>1. i \in 1 .. Len(<<>>) + 1
      BY <1>2, AccountFacts, Zenon
    <3>2. QED
      BY <2>1, <3>1
  <2>3. QED
    BY <1>1, <1>2, <2>1, <2>2, Zenon DEF Waiting, Handled
<1>4. Sent(wire)' = Sent(wire) \o bufs_accept /\ Len(wire') = Len(wire) + Len(bufs_accept)
  BY <1>1, <1>2, SentMore, Zenon
<1>5. Pipeline(Sent(wire), <<>>, <<>>, bufs_accept, freed, Handled)
  BY <1>2, <1>3, Zenon DEF AccountInv
<1>6. /\ <<>> \o bufs_accept = bufs_accept /\ bufs_accept \o <<>> = bufs_accept
      /\ <<>> \in Seq(Packets)
  BY <1>2
<1>7. Pipeline(Sent(wire), <<>>, bufs_accept, <<>>, freed, Handled)
  <2>1. Pipeline(Sent(wire), <<>>, <<>> \o bufs_accept, <<>>, freed, Handled)
    BY <1>2, <1>5, MoveToRing, Zenon
  <2>2. QED
    BY <1>6, <2>1, Zenon
<1>8. Pipeline(Sent(wire), bufs_accept, <<>>, <<>>, freed, Handled)
  <2>1. Pipeline(Sent(wire), <<>>, bufs_accept \o <<>>, <<>>, freed, Handled)
    BY <1>6, <1>7, Zenon
  <2>2. QED
    BY <1>2, <1>6, <2>1, MoveToTransmitter, Zenon
<1>9. Pipeline(Sent(wire) \o bufs_accept, <<>>, <<>>, <<>>, freed, Handled)
  <2>1. Pipeline(Sent(wire), bufs_accept \o <<>>, <<>>, <<>>, freed, Handled)
    BY <1>6, <1>8, Zenon
  <2>2. QED
    BY <1>2, <1>6, <2>1, MoveToWire, Zenon
<1>10. Balance(received, Len(freed), Len(wire) + Len(bufs_accept), Len(bufs), 0,
               Len(packet_ring), Len(Waiting))
  <2>1. Balance(received, Len(freed), Len(wire), Len(bufs), Len(bufs_accept),
                Len(packet_ring), Len(Waiting))
    BY Zenon DEF AccountInv
  <2>2. QED
    BY <2>1, BalanceMoves, Zenon
<1>11. Len(bufs_accept') = 0
  BY <1>1, Zenon
<1>12. \A k \in DOMAIN bufs : bufs[k].id = Handled + k
  BY Zenon DEF AccountInv
<1>13. QED
  BY <1>1, <1>2, <1>3, <1>4, <1>9, <1>10, <1>11, <1>12, Zenon DEF AccountInv

\* Only the stages behind the receiver change.
LEMMA AccountBehind ==
  ASSUME AccountInv, bufs' = bufs, bufs_accept' = bufs_accept, freed' = freed, received' = received,
         Pipeline(Sent(wire)', Waiting', packet_ring', bufs_accept, freed, Handled),
         Balance(received, Len(freed), Len(wire'), Len(bufs), Len(bufs_accept),
                 Len(packet_ring'), Len(Waiting'))
  PROVE  AccountInv'
<1>1. Handled' = Handled
  BY Zenon DEF Handled
<1>2. \A k \in DOMAIN bufs : bufs[k].id = Handled + k
  BY Zenon DEF AccountInv
<1>3. QED
  BY <1>1, <1>2, Zenon DEF AccountInv

LEMMA NothingWaiting ==
  ASSUME BaseInv, rx_pkts = <<>>
  PROVE  Waiting = <<>> /\ Len(Waiting) = 0 /\ i = 1
<1>1. Len(<<>>) = 0 /\ SubSeq(<<>>, 1, 0) = <<>>
  OBVIOUS
<1>2. i \in 1 .. Len(<<>>) + 1
  BY Zenon DEF BaseInv, TypeOK
<1>3. i = 1
  BY <1>1, <1>2
<1>4. QED
  BY <1>1, <1>3, Zenon DEF Waiting

LEMMA AccountDequeue ==
  ASSUME BaseInv, AccountInv, Dequeue PROVE AccountInv'
<1>1. /\ bufs' = bufs /\ bufs_accept' = bufs_accept /\ freed' = freed /\ received' = received
      /\ wire' = wire /\ i' = 1 /\ tx_at # "send"
  BY Zenon DEF Dequeue, rxVars
<1>2. PICK n \in 1 .. Len(packet_ring) :
        /\ rx_pkts' = SubSeq(packet_ring, 1, n)
        /\ packet_ring' = SubSeq(packet_ring, n + 1, Len(packet_ring))
  BY DequeueCount, Zenon
<1> DEFINE u == SubSeq(packet_ring, 1, n)
           v == SubSeq(packet_ring, n + 1, Len(packet_ring))
           l == Len(packet_ring)
<1>3. /\ u \in Seq(Packets) /\ Len(u) = n /\ v \in Seq(Packets) /\ Len(v) = l - n
      /\ packet_ring = u \o v
  <2>1. packet_ring \in Seq(Packets) /\ n \in 0 .. Len(packet_ring)
    BY AccountFacts
  <2>2. QED
    BY <2>1, CutFront, ZenonT(30)
<1>4. Waiting = <<>> /\ Len(Waiting) = 0
  BY <1>1, NothingWaiting, Zenon DEF BaseInv, Control
<1>5. Waiting' = u
  BY <1>1, <1>2, <1>3, Whole, Zenon DEF Waiting
<1>6. Sent(wire)' = Sent(wire)
  BY <1>1, Zenon DEF Sent
<1>7. Pipeline(Sent(wire), u, v, bufs_accept, freed, Handled)
  <2> HIDE DEF u, v
  <2>1. Pipeline(Sent(wire), <<>>, u \o v, bufs_accept, freed, Handled)
    BY <1>3, <1>4, Zenon DEF AccountInv
  <2>2. QED
    BY <1>3, <2>1, MoveToTransmitter, Zenon
<1>8. Balance(received, Len(freed), Len(wire), Len(bufs), Len(bufs_accept), l - n, n)
  <2>1. Balance(received, Len(freed), Len(wire), Len(bufs), Len(bufs_accept), l, 0)
    BY <1>4, Zenon DEF AccountInv
  <2>2. n \in Nat /\ n <= l
    BY <1>2, AccountFacts
  <2>3. Balance(received, Len(freed), Len(wire), Len(bufs), Len(bufs_accept), l - n, 0 + n)
    BY <2>1, <2>2, BalanceMoves, Zenon
  <2>4. 0 + n = n
    BY <2>2
  <2>5. QED
    BY <2>3, <2>4, Zenon
<1> HIDE DEF u, v, l
<1>9. packet_ring' = v
  BY <1>2, Zenon DEF v
<1>10. QED
  BY <1>1, <1>3, <1>5, <1>6, <1>7, <1>8, <1>9, AccountBehind, Zenon

LEMMA AccountSend ==
  ASSUME BaseInv, AccountInv, Send PROVE AccountInv'
<1>1. /\ bufs' = bufs /\ bufs_accept' = bufs_accept /\ freed' = freed /\ received' = received
      /\ packet_ring' = packet_ring /\ rx_pkts' = rx_pkts
  BY Zenon DEF Send, rxVars
<1>2. PICK n \in 1 .. Len(rx_pkts) - i + 1 :
        wire' = wire \o OnWire(SubSeq(rx_pkts, i, i + n - 1)) /\ i' = i + n
  BY SendCount, Zenon
<1> DEFINE u == SubSeq(rx_pkts, i, i + n - 1)
           v == SubSeq(rx_pkts, i + n, Len(rx_pkts))
           l == Len(rx_pkts)
<1>3. /\ rx_pkts \in Seq(Packets) /\ l \in Nat /\ i \in 1 .. l + 1 /\ n \in 0 .. l - i + 1
      /\ l - i + 1 \in Nat /\ n \in Nat /\ n <= l - i + 1 /\ l - i - n + 1 = (l - i + 1) - n
      /\ l \in i - 1 .. l
  BY AccountFacts, SMTT(20)
<1>4. /\ u \in Seq(Packets) /\ Len(u) = n /\ v \in Seq(Packets) /\ Len(v) = l - i - n + 1
      /\ Waiting = u \o v
  <2>1. /\ u \in Seq(Packets) /\ Len(u) = n /\ v \in Seq(Packets) /\ Len(v) = l - i - n + 1
        /\ SubSeq(rx_pkts, i, Len(rx_pkts)) = u \o v
    BY <1>3, Cut
  <2>2. QED
    BY <2>1, Zenon DEF Waiting
<1>5. Len(Waiting) = l - i + 1
  <2>1. Len(SubSeq(rx_pkts, i, Len(rx_pkts))) = l - i + 1
    BY <1>3, Parts
  <2>2. QED
    BY <2>1 DEF Waiting
<1>6. Waiting' = v
  BY <1>1, <1>2 DEF Waiting
<1> HIDE DEF u, v, l
<1>7. Sent(wire)' = Sent(wire) \o u /\ Len(wire') = Len(wire) + n
  <2>1. wire' = wire \o OnWire(u)
    BY <1>2 DEF u
  <2>2. QED
    BY <1>4, <2>1, SentMore, Zenon
<1>8. Pipeline(Sent(wire) \o u, v, packet_ring, bufs_accept, freed, Handled)
  <2>1. Pipeline(Sent(wire), u \o v, packet_ring, bufs_accept, freed, Handled)
    BY <1>4, Zenon DEF AccountInv
  <2>2. QED
    BY <1>4, <2>1, MoveToWire, Zenon
<1>9. Balance(received, Len(freed), Len(wire) + n, Len(bufs), Len(bufs_accept),
              Len(packet_ring), (l - i + 1) - n)
  <2>1. Balance(received, Len(freed), Len(wire), Len(bufs), Len(bufs_accept),
                Len(packet_ring), l - i + 1)
    BY <1>5, Zenon DEF AccountInv
  <2>2. QED
    BY <1>3, <2>1, BalanceMoves, Zenon
<1>10. QED
  BY <1>1, <1>3, <1>4, <1>6, <1>7, <1>8, <1>9, AccountBehind, Zenon

LEMMA AccountBurstDone ==
  ASSUME BaseInv, AccountInv, BurstDone PROVE AccountInv'
<1>1. /\ bufs' = bufs /\ bufs_accept' = bufs_accept /\ freed' = freed /\ received' = received
      /\ wire' = wire /\ packet_ring' = packet_ring /\ i > Len(rx_pkts) /\ rx_pkts' = <<>> /\ i' = 1
  BY DEF BurstDone, rxVars
<1>2. Len(<<>>) = 0 /\ SubSeq(<<>>, 1, 0) = <<>>
  OBVIOUS
<1>3. Waiting' = <<>>
  BY <1>1, <1>2 DEF Waiting
<1>4. Waiting = <<>>
  <2>1. rx_pkts \in Seq(Packets) /\ Len(rx_pkts) \in Nat /\ i = Len(rx_pkts) + 1
    <3>1. rx_pkts \in Seq(Packets) /\ i \in 1 .. Len(rx_pkts) + 1
      BY AccountFacts
    <3>2. QED
      BY <1>1, <3>1
  <2>2. SubSeq(rx_pkts, i, Len(rx_pkts)) = <<>>
    <3>1. /\ i \in 1 .. Len(rx_pkts) + 1 /\ Len(rx_pkts) \in i - 1 .. Len(rx_pkts)
          /\ Len(rx_pkts) - i + 1 = 0
      BY <2>1
    <3>2. /\ SubSeq(rx_pkts, i, Len(rx_pkts)) \in Seq(Packets)
          /\ Len(SubSeq(rx_pkts, i, Len(rx_pkts))) = 0
      BY <2>1, <3>1, Parts
    <3>3. ASSUME NEW s \in Seq(Packets), Len(s) = 0 PROVE s = <<>>
      BY <3>3
    <3>4. QED
      BY <3>2, <3>3
  <2>3. QED
    BY <2>2 DEF Waiting
<1>5. Sent(wire)' = Sent(wire)
  BY <1>1 DEF Sent
<1>6. QED
  BY <1>1, <1>3, <1>4, <1>5, AccountBehind, Zenon DEF AccountInv

LEMMA AccountEmulator ==
  ASSUME BaseInv, AccountInv, EmulatorTakes PROVE AccountInv'
<1>1. /\ bufs' = bufs /\ bufs_accept' = bufs_accept /\ freed' = freed /\ received' = received
      /\ rx_pkts' = rx_pkts /\ i' = i /\ rx_pkts = <<>>
  BY DEF EmulatorTakes, rxVars, txVars, BaseInv, Control
<1>2. PICK n \in 1 .. Len(packet_ring) :
        /\ wire' = wire \o OnWire(SubSeq(packet_ring, 1, n))
        /\ packet_ring' = SubSeq(packet_ring, n + 1, Len(packet_ring))
  BY EmulatorCount
<1> DEFINE u == SubSeq(packet_ring, 1, n)
           v == SubSeq(packet_ring, n + 1, Len(packet_ring))
           l == Len(packet_ring)
<1>3. /\ u \in Seq(Packets) /\ Len(u) = n /\ v \in Seq(Packets) /\ Len(v) = l - n
      /\ packet_ring = u \o v
  <2>1. packet_ring \in Seq(Packets) /\ n \in 0 .. Len(packet_ring)
    BY AccountFacts
  <2>2. QED
    BY <2>1, CutFront, Zenon
<1>4. Waiting = <<>> /\ Len(Waiting) = 0 /\ Waiting' = Waiting
  BY <1>1, NothingWaiting DEF Waiting
<1> HIDE DEF u, v, l
<1>5. Sent(wire)' = Sent(wire) \o u /\ Len(wire') = Len(wire) + n
  <2>1. wire' = wire \o OnWire(u)
    BY <1>2 DEF u
  <2>2. QED
    BY <1>3, <2>1, SentMore, Zenon
<1>6. Pipeline(Sent(wire) \o u, <<>>, v, bufs_accept, freed, Handled)
  <2>1. Pipeline(Sent(wire), <<>>, u \o v, bufs_accept, freed, Handled)
    BY <1>3, <1>4 DEF AccountInv
  <2>2. Pipeline(Sent(wire), u, v, bufs_accept, freed, Handled)
    BY <1>3, <2>1, MoveToTransmitter, Zenon
  <2>3. u \o <<>> = u /\ <<>> \in Seq(Packets)
    BY <1>3
  <2>4. Pipeline(Sent(wire), u \o <<>>, v, bufs_accept, freed, Handled)
    BY <2>2, <2>3, Zenon
  <2>5. QED
    BY <1>3, <2>3, <2>4, MoveToWire, ZenonT(30)
<1>7. Balance(received, Len(freed), Len(wire) + n, Len(bufs), Len(bufs_accept), l - n, Len(Waiting))
  <2>1. Balance(received, Len(freed), Len(wire), Len(bufs), Len(bufs_accept), l, Len(Waiting))
    BY DEF AccountInv, l
  <2>2. n \in Nat /\ n <= l
    BY <1>2, AccountFacts DEF l
  <2>3. QED
    BY <2>1, <2>2, BalanceMoves, ZenonT(30)
<1>8. packet_ring' = v
  BY <1>2 DEF v
<1>9. QED
  BY <1>1, <1>3, <1>4, <1>5, <1>6, <1>7, <1>8, AccountBehind

\* Every step keeps each packet in one place.
LEMMA AccountStep == BaseInv /\ AccountInv /\ [Next]_vars => AccountInv'
<1> SUFFICES ASSUME BaseInv, AccountInv, [Next]_vars PROVE AccountInv'
  OBVIOUS
<1>1. ASSUME UNCHANGED <<bufs, bufs_accept, freed, received, wire, packet_ring, rx_pkts, i>>
      PROVE  AccountInv'
  BY <1>1, Zenon DEF AccountInv, Sent, Waiting, Handled
<1>2. CASE RxLeave
  BY <1>1, <1>2 DEF RxLeave, txVars
<1>3. CASE TxLeave
  BY <1>1, <1>3 DEF TxLeave, rxVars
<1>4. CASE Tick \/ Stop
  BY <1>1, <1>4 DEF Tick, Stop, rxVars, txVars
<1>5. CASE UNCHANGED vars
  BY <1>1, <1>5 DEF vars, rxVars, txVars
<1>6. QED
  BY <1>2, <1>3, <1>4, <1>5, AccountReceive, AccountHandle, AccountEnqueue, AccountForward,
     AccountDequeue, AccountSend, AccountBurstDone, AccountEmulator
     DEF Next, Receiver, Transmitter

-----------------------------------------------------------------------------
(* What the invariants say.                                                 *)

\* A place holds a packet at one position, or not at all.
One(place, s, n) == Has(s, n) /\ \E k \in Nat : Slots(place, s, n) = {<<place, k>>}

No(place, s, n) == ~Has(s, n) /\ Slots(place, s, n) = {}

\* One of the six places holds a packet, and holds it once.
LEMMA OneFilled ==
  ASSUME NEW S, NEW U, U = UNION S, NEW A \in S, NEW e, A = {e}, \A B \in S : B = A \/ B = {}
  PROVE  \E slot \in U : U = {slot}
<1>1. U = {e}
  OBVIOUS
<1>2. QED
  BY <1>1, Zenon

\* In a stage with increasing identifiers a packet is there once or not at all.
LEMMA StageSlot ==
  ASSUME NEW place, NEW s \in Seq(Packets), NEW lo \in Nat, NEW hi \in Nat, Within(s, lo, hi),
         NEW n \in Nat
  PROVE  No(place, s, n) \/ (One(place, s, n) /\ lo < n /\ n <= hi)
<1>1. /\ Len(s) \in Nat /\ DOMAIN s = 1 .. Len(s)
      /\ \A k \in DOMAIN s : s[k].id \in Nat /\ lo < s[k].id /\ s[k].id <= hi
      /\ \A j, k \in DOMAIN s : j < k => s[j].id < s[k].id
  BY PacketsOf DEF Within
<1>2. CASE Has(s, n)
  <2>1. PICK k \in DOMAIN s : s[k].id = n
    BY <1>2, SMTT(20) DEF Has
  <2>2. ASSUME NEW j \in DOMAIN s, s[j].id = n PROVE j = k
    <3>1. ~(j < k) /\ ~(k < j)
      BY <1>1, <2>1, <2>2
    <3>2. QED
      BY <1>1, <3>1
  <2>3. {j \in DOMAIN s : s[j].id = n} = {k} /\ k \in Nat
    BY <1>1, <2>1, <2>2
  <2>4. Slots(place, s, n) = {<<place, k>>}
    BY <2>3 DEF Slots
  <2>5. lo < n /\ n <= hi
    BY <1>1, <2>1
  <2>6. QED
    BY <1>2, <2>3, <2>4, <2>5, Zenon DEF One
<1>3. CASE ~Has(s, n)
  <2>1. {j \in DOMAIN s : s[j].id = n} = {}
    BY <1>3 DEF Has
  <2>2. QED
    BY <1>3, <2>1 DEF No, Slots
<1>4. QED
  BY <1>2, <1>3

\* What is left of the burst in the receiver's hands.
LEMMA BurstIds ==
  ASSUME NEW s \in Seq(Packets), NEW h \in Nat, \A k \in DOMAIN s : s[k].id = h + k
  PROVE  /\ Within(s, h, h + Len(s))
         /\ \A n \in Nat : h < n /\ n <= h + Len(s) => Has(s, n)
<1>1. Len(s) \in Nat /\ DOMAIN s = 1 .. Len(s)
  BY PacketsOf
<1>2. Within(s, h, h + Len(s))
  BY <1>1 DEF Within
<1>3. ASSUME NEW n \in Nat, h < n, n <= h + Len(s) PROVE Has(s, n)
  <2>1. n - h \in 1 .. Len(s) /\ h + (n - h) = n
    BY <1>1, <1>3
  <2>2. QED
    BY <1>1, <2>1, Zenon DEF Has
<1>4. QED
  BY <1>2, <1>3

LEMMA OnePlace ==
  ASSUME BaseInv, AccountInv, NEW n \in 1 .. received
  PROVE  \E slot \in Places(n) : Places(n) = {slot}
<1> DEFINE w == Sent(wire)
           x == Waiting
           r == packet_ring
           q == bufs_accept
           h == Handled
<1>1. /\ w \in Seq(Packets) /\ x \in Seq(Packets) /\ r \in Seq(Packets) /\ q \in Seq(Packets)
      /\ h \in Nat /\ freed \in Seq(Packets) /\ Within(freed, 0, h)
      /\ \A m \in 1 .. h :
           Has(freed, m) <=> ~(Has(w, m) \/ Has(x, m) \/ Has(r, m) \/ Has(q, m))
  BY Zenon DEF AccountInv, Pipeline
<1>2. PICK a, b, c \in 0 .. h :
        /\ a <= b /\ b <= c
        /\ Within(w, 0, a) /\ Within(x, a, b) /\ Within(r, b, c) /\ Within(q, c, h)
  BY Zenon DEF AccountInv, Pipeline
<1>3. /\ a \in Nat /\ b \in Nat /\ c \in Nat /\ c <= h /\ n \in Nat /\ n >= 1 /\ 0 \in Nat
      /\ h = received - Len(bufs) /\ n <= h + Len(bufs) /\ bufs \in Seq(Packets)
      /\ h + Len(bufs) \in Nat
  BY <1>1, <1>2, AccountFacts, SMTT(20)
<1>4. Within(bufs, h, h + Len(bufs)) /\ (h < n => Has(bufs, n))
  <2>1. \A k \in DOMAIN bufs : bufs[k].id = h + k
    BY Zenon DEF AccountInv
  <2>2. QED
    BY <1>1, <1>3, <2>1, BurstIds, Zenon
<1>5. /\ x = IF tx_at = "send" THEN SubSeq(rx_pkts, i, Len(rx_pkts)) ELSE <<>>
      /\ w = [k \in DOMAIN wire |-> wire[k].pkt]
  BY NothingWaiting, Zenon DEF Waiting, Sent, BaseInv, Control
<1> DEFINE places == {Slots("bufs", bufs, n), Slots("bufs_accept", q, n),
                      Slots("packet_ring", r, n), Slots("rx_pkts", x, n),
                      Slots("wire", w, n), Slots("freed", freed, n)}
<1>6. Places(n) = UNION places
  BY <1>5, Zenon DEF Places
<1>7. n <= h => (Has(freed, n) <=> ~(Has(w, n) \/ Has(x, n) \/ Has(r, n) \/ Has(q, n)))
  BY <1>1, <1>3, SMTT(30)
<1> HIDE DEF w, x, r, q, h, places
<1>8. /\ No("bufs", bufs, n) \/ (One("bufs", bufs, n) /\ h < n)
      /\ No("bufs_accept", q, n) \/ (One("bufs_accept", q, n) /\ c < n /\ n <= h)
      /\ No("packet_ring", r, n) \/ (One("packet_ring", r, n) /\ b < n /\ n <= c)
      /\ No("rx_pkts", x, n) \/ (One("rx_pkts", x, n) /\ a < n /\ n <= b)
      /\ No("wire", w, n) \/ (One("wire", w, n) /\ n <= a)
      /\ No("freed", freed, n) \/ (One("freed", freed, n) /\ n <= h)
  <2>1. No("bufs", bufs, n) \/ (One("bufs", bufs, n) /\ h < n)
    BY <1>1, <1>3, <1>4, StageSlot, Zenon
  <2>2. No("bufs_accept", q, n) \/ (One("bufs_accept", q, n) /\ c < n /\ n <= h)
    BY <1>1, <1>2, <1>3, StageSlot, Zenon
  <2>3. No("packet_ring", r, n) \/ (One("packet_ring", r, n) /\ b < n /\ n <= c)
    BY <1>1, <1>2, <1>3, StageSlot, Zenon
  <2>4. No("rx_pkts", x, n) \/ (One("rx_pkts", x, n) /\ a < n /\ n <= b)
    BY <1>1, <1>2, <1>3, StageSlot, Zenon
  <2>5. No("wire", w, n) \/ (One("wire", w, n) /\ n <= a)
    BY <1>1, <1>2, <1>3, StageSlot, Zenon
  <2>6. No("freed", freed, n) \/ (One("freed", freed, n) /\ n <= h)
    BY <1>1, <1>3, StageSlot, Zenon
  <2>7. QED
    BY <2>1, <2>2, <2>3, <2>4, <2>5, <2>6, Zenon
<1>9. /\ n <= c => n <= h /\ ~(c < n)
      /\ n <= b => n <= c /\ ~(b < n)
      /\ n <= a => n <= b /\ ~(a < n)
      /\ n <= h => ~(h < n)
      /\ ~(h < n) => n <= h
  BY <1>1, <1>2, <1>3, SMTT(30)
<1>10. CASE h < n
  <2>1. One("bufs", bufs, n)
    BY <1>4, <1>8, <1>9, <1>10, Zenon DEF No
  <2>2. /\ No("bufs_accept", q, n) /\ No("packet_ring", r, n) /\ No("rx_pkts", x, n)
        /\ No("wire", w, n) /\ No("freed", freed, n)
    BY <1>4, <1>8, <1>9, <1>10, <2>1, Zenon DEF One, No
  <2>3. PICK e : Slots("bufs", bufs, n) = {e}
    BY <2>1, Zenon DEF One
  <2>4. Slots("bufs", bufs, n) \in places /\ \A B \in places : B = Slots("bufs", bufs, n) \/ B = {}
    BY <2>2, Zenon DEF No, places
  <2>5. QED
    BY <1>6, <2>3, <2>4, OneFilled
<1>11. CASE ~(h < n) /\ Has(q, n)
  <2>1. One("bufs_accept", q, n)
    BY <1>7, <1>8, <1>9, <1>11, Zenon DEF No
  <2>2. /\ No("bufs", bufs, n) /\ No("packet_ring", r, n) /\ No("rx_pkts", x, n)
        /\ No("wire", w, n) /\ No("freed", freed, n)
    BY <1>7, <1>8, <1>9, <1>11, <2>1, Zenon DEF One, No
  <2>3. PICK e : Slots("bufs_accept", q, n) = {e}
    BY <2>1, Zenon DEF One
  <2>4. Slots("bufs_accept", q, n) \in places /\ \A B \in places : B = Slots("bufs_accept", q, n) \/ B = {}
    BY <2>2, Zenon DEF No, places
  <2>5. QED
    BY <1>6, <2>3, <2>4, OneFilled
<1>12. CASE ~(h < n) /\ Has(r, n)
  <2>1. One("packet_ring", r, n)
    BY <1>7, <1>8, <1>9, <1>12, Zenon DEF No
  <2>2. /\ No("bufs", bufs, n) /\ No("bufs_accept", q, n) /\ No("rx_pkts", x, n)
        /\ No("wire", w, n) /\ No("freed", freed, n)
    BY <1>7, <1>8, <1>9, <1>12, <2>1, Zenon DEF One, No
  <2>3. PICK e : Slots("packet_ring", r, n) = {e}
    BY <2>1, Zenon DEF One
  <2>4. Slots("packet_ring", r, n) \in places /\ \A B \in places : B = Slots("packet_ring", r, n) \/ B = {}
    BY <2>2, Zenon DEF No, places
  <2>5. QED
    BY <1>6, <2>3, <2>4, OneFilled
<1>13. CASE ~(h < n) /\ Has(x, n)
  <2>1. One("rx_pkts", x, n)
    BY <1>7, <1>8, <1>9, <1>13, Zenon DEF No
  <2>2. /\ No("bufs", bufs, n) /\ No("bufs_accept", q, n) /\ No("packet_ring", r, n)
        /\ No("wire", w, n) /\ No("freed", freed, n)
    BY <1>7, <1>8, <1>9, <1>13, <2>1, Zenon DEF One, No
  <2>3. PICK e : Slots("rx_pkts", x, n) = {e}
    BY <2>1, Zenon DEF One
  <2>4. Slots("rx_pkts", x, n) \in places /\ \A B \in places : B = Slots("rx_pkts", x, n) \/ B = {}
    BY <2>2, Zenon DEF No, places
  <2>5. QED
    BY <1>6, <2>3, <2>4, OneFilled
<1>14. CASE ~(h < n) /\ Has(w, n)
  <2>1. One("wire", w, n)
    BY <1>7, <1>8, <1>9, <1>14, Zenon DEF No
  <2>2. /\ No("bufs", bufs, n) /\ No("bufs_accept", q, n) /\ No("packet_ring", r, n)
        /\ No("rx_pkts", x, n) /\ No("freed", freed, n)
    BY <1>7, <1>8, <1>9, <1>14, <2>1, Zenon DEF One, No
  <2>3. PICK e : Slots("wire", w, n) = {e}
    BY <2>1, Zenon DEF One
  <2>4. Slots("wire", w, n) \in places /\ \A B \in places : B = Slots("wire", w, n) \/ B = {}
    BY <2>2, Zenon DEF No, places
  <2>5. QED
    BY <1>6, <2>3, <2>4, OneFilled
<1>15. CASE ~(h < n) /\ ~(Has(q, n) \/ Has(r, n) \/ Has(x, n) \/ Has(w, n))
  <2>1. One("freed", freed, n)
    BY <1>7, <1>8, <1>9, <1>15, Zenon DEF No
  <2>2. /\ No("bufs", bufs, n) /\ No("bufs_accept", q, n) /\ No("packet_ring", r, n)
        /\ No("rx_pkts", x, n) /\ No("wire", w, n)
    BY <1>7, <1>8, <1>9, <1>15, <2>1, Zenon DEF One, No
  <2>3. PICK e : Slots("freed", freed, n) = {e}
    BY <2>1, Zenon DEF One
  <2>4. Slots("freed", freed, n) \in places /\ \A B \in places : B = Slots("freed", freed, n) \/ B = {}
    BY <2>2, Zenon DEF No, places
  <2>5. QED
    BY <1>6, <2>3, <2>4, OneFilled
<1>16. QED
  BY <1>10, <1>11, <1>12, <1>13, <1>14, <1>15, Zenon

LEMMA InOrder ==
  ASSUME BaseInv, AccountInv
  PROVE  \A j, k \in DOMAIN wire : j < k => wire[j].pkt.id < wire[k].pkt.id
<1>1. \E a : Within(Sent(wire), 0, a)
  BY Zenon DEF AccountInv, Pipeline
<1>2. \A j, k \in DOMAIN Sent(wire) : j < k => Sent(wire)[j].id < Sent(wire)[k].id
  BY <1>1, Zenon DEF Within
<1>3. DOMAIN Sent(wire) = DOMAIN wire /\ \A k \in DOMAIN wire : Sent(wire)[k] = wire[k].pkt
  BY DEF Sent
<1>4. QED
  BY <1>2, <1>3, SMTT(20)

-----------------------------------------------------------------------------
(* The theorems.                                                            *)

LEMMA BaseAlways == Spec => []BaseInv
<1>1. QED
  BY BaseInit, BaseStep, PTL DEF Spec

\* Variables stay in range, and every packet in the ring of the software loops
\* carries a burst of at least itself, so that sw_transmitter_loop_delay always
\* moves forward.
THEOREM LoopsTypeCorrect == Spec => []TypeOK
<1>1. BaseInv => TypeOK
  BY DEF BaseInv
<1>2. QED
  BY <1>1, BaseAlways, PTL

\* Every delaying loop gives a packet a departure time of at least its arrival
\* time and the delay, and no packet leaves a software loop before that time,
\* although the transmitter waits only for the first packet of a burst and the
\* ring may split bursts.
THEOREM NoPacketEarly == Spec => []NeverEarly
<1>1. BurstInv /\ DelayInv => NeverEarly
  BY Zenon DEF BurstInv, DelayInv, NeverEarly
<1>2. QED
  BY <1>1, BurstInit, DelayInit, BaseAlways, BurstStep, DelayStep, PTL DEF Spec

\* The token buckets of the software loop and of the hardware loops let pass no
\* more than capacity and inflow in any interval, for every rate and capacity.
THEOREM TokenBucketContract == Spec => []TokenBucketConforms
<1>1. BaseInv /\ TokenInv => TokenBucketConforms
  <2> SUFFICES ASSUME BaseInv, TokenInv, loop \in TokenLoops, NEW k \in DOMAIN charged,
                      NEW j \in 1 .. k
               PROVE  charged[k].total - (IF j = 1 THEN 0 ELSE charged[j - 1].total)
                        <= CAPACITY + TOKEN_RATE * (charged[k].recv - charged[j].recv)
    BY Zenon DEF TokenBucketConforms, TokenLoops
  <2>1. Conforms(charged) /\ DOMAIN charged = 1 .. Len(charged)
    BY DEF TokenInv, BaseInv, TypeOK
  <2>2. QED
    BY <2>1, ZenonT(30) DEF Conforms, Before, Inflow
<1>2. Init => TokenInv
  BY BucketsInit, SMTT(20)
<1>3. QED
  BY <1>1, <1>2, BaseAlways, TokenStep, PTL DEF Spec

\* The leaky buckets leave room between two departures for all that was let pass
\* from the first to before the second, and bound the backlog.
THEOREM LeakyBucketContract == Spec => []LeakyBucketSpaces
<1>1. BaseInv /\ LeakyInv => LeakyBucketSpaces
  <2> SUFFICES ASSUME BaseInv, LeakyInv, loop \in LeakyLoops
               PROVE  LeakyBucketSpaces
    BY SMTT(20) DEF LeakyBucketSpaces, LeakyLoops
  <2>1. DOMAIN charged = 1 .. Len(charged)
    BY SMTT(30) DEF BaseInv, TypeOK
  <2>2. QED
    BY <2>1, SMTT(30) DEF LeakyInv, LeakyBucketSpaces, Spaced, Before, Room
<1>2. Init => LeakyInv
  BY BucketsInit
<1>3. QED
  BY <1>1, <1>2, BaseAlways, LeakyStep, PTL DEF Spec

\* Every packet received is in exactly one place and packets leave in order: the
\* enqueue whose answer the receivers ignore never fails, for every burst size,
\* because the ring is at least as large as the pool.
THEOREM EveryPacketOnce == Spec => []EachPacketOnce
<1>1. BaseInv /\ AccountInv => EachPacketOnce
  BY OnePlace, InOrder DEF EachPacketOnce
<1>2. QED
  BY <1>1, AccountInit, BaseAlways, AccountStep, PTL DEF Spec

=============================================================================
