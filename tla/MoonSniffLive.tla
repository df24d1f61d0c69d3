---------------------------- MODULE MoonSniffLive ---------------------------
(***************************************************************************)
(* Live mode of MoonSniff (src/moonsniff.cpp, examples/moonsniff/           *)
(* sniffer.lua): a task on the tap before the device under test records the *)
(* timestamp of every packet in hit_list, a task on the tap behind it looks *)
(* the packet up and adds the difference to the latency estimate.  The      *)
(* slots of hit_list are shared by packets whose identifiers agree in the   *)
(* low bits, and guarded by one mutex each.                                 *)
(*                                                                          *)
(* A packet is [n, id, ts]: its number, the identifier in its payload, and  *)
(* the timestamp the NIC of the tap took.  Of the estimate the samples are  *)
(* kept, not their mean and variance.                                       *)
(***************************************************************************)
EXTENDS Integers, Sequences, FiniteSets

CONSTANTS
  SLOTS,      \* entries of hit_list (2^24)
  Ids,        \* identifiers packets carry
  Latencies,  \* what the two taps may measure between them, clock error included
  PreTs,      \* PreTs[n]: time of packet n at the first tap
  BUFS,       \* packets tryRecv returns at most
  MaxPackets

ASSUME LiveAssumption ==
  /\ SLOTS \in Nat \ {0}
  /\ Ids \subseteq Nat /\ Latencies \subseteq Int
  /\ BUFS \in Nat \ {0} /\ MaxPackets \in Nat
  /\ PreTs \in [1 .. MaxPackets -> Nat \ {0}]
  /\ \A m, n \in 1 .. MaxPackets : PreTs[m] = PreTs[n] => m = n

VARIABLES
  expired,           \* the measurement period is over, or the program ends
  pre_rx, post_rx,   \* receive queues of the two tasks
  dut,               \* packets in the device under test
  passed,            \* history: packets seen at the first tap
  hit_list, mtx,     \* mtx[s]: the task that holds the mutex, or "free"
  pre, post,         \* where the tasks stand
  pre_bufs, post_bufs, \* packets received and not yet handled
  old_ts,            \* local of test_for
  hits, misses,      \* of stats
  samples,           \* what went into count, mean and m2
  added,             \* history: entries written by add_entry
  tested,            \* history: calls of test_for that returned
  report             \* what fetch_stats returned

wireVars == <<expired, dut, passed>>
preVars == <<pre, pre_bufs, added>>
postVars == <<post, post_bufs, old_ts, hits, misses, samples, tested>>
vars == <<wireVars, pre_rx, post_rx, hit_list, mtx, preVars, postVars, report>>

Slots == 0 .. SLOTS - 1
Index(id) == id % SLOTS
Empty == [timestamp |-> 0, identifier |-> 0]
NoReport == [hits |-> 0, misses |-> 0, count |-> -1]

Init ==
  /\ expired = FALSE
  /\ pre_rx = <<>> /\ post_rx = <<>>
  /\ dut = {} /\ passed = {}
  /\ hit_list = [s \in Slots |-> Empty]
  /\ mtx = [s \in Slots |-> "free"]
  /\ pre = "recv" /\ post = "recv"
  /\ pre_bufs = <<>> /\ post_bufs = <<>>
  /\ old_ts = 0
  /\ hits = 0 /\ misses = 0
  /\ samples = <<>>
  /\ added = {}
  /\ tested = 0
  /\ report = NoReport

-----------------------------------------------------------------------------
(***************************************************************************)
(* The wire: the device under test drops, delays and reorders packets.      *)
(***************************************************************************)
Arrive(id) ==
  LET n == Cardinality(passed) + 1
      p == [n |-> n, id |-> id, ts |-> PreTs[n]]
  IN /\ n <= MaxPackets
     /\ pre_rx' = Append(pre_rx, p)
     /\ dut' = dut \cup {p}
     /\ passed' = passed \cup {p}
     /\ UNCHANGED <<expired, post_rx, hit_list, mtx, preVars, postVars, report>>

Forward(p, latency) ==
  /\ p \in dut
  /\ dut' = dut \ {p}
  /\ post_rx' = Append(post_rx, [p EXCEPT !.ts = @ + latency])
  /\ UNCHANGED <<expired, passed, pre_rx, hit_list, mtx, preVars, postVars, report>>

Drop(p) ==
  /\ p \in dut
  /\ dut' = dut \ {p}
  /\ UNCHANGED <<expired, passed, pre_rx, post_rx, hit_list, mtx, preVars,
                 postVars, report>>

Expire ==
  /\ ~expired
  /\ expired' = TRUE
  /\ UNCHANGED <<dut, passed, pre_rx, post_rx, hit_list, mtx, preVars, postVars,
                 report>>

-----------------------------------------------------------------------------
(***************************************************************************)
(* core_online of the first tap, and add_entry.                             *)
(***************************************************************************)
NumRecv(rx) == IF Len(rx) < BUFS THEN Len(rx) ELSE BUFS

\* Where core_online goes with bufs still to handle.  It asks for the timestamp
\* of the first of them; when the NIC took none, the call of the C function
\* raises, which ends the task and leaves the packets in the array.
Continues(bufs) == IF bufs = <<>> THEN {"recv"} ELSE {"lock", "done"}

PreGoes(to) == pre' = to /\ UNCHANGED <<wireVars, post_rx, postVars, report>>

PreRecv ==
  /\ pre = "recv" /\ ~expired /\ pre_rx # <<>>
  /\ pre_bufs' = SubSeq(pre_rx, 1, NumRecv(pre_rx))
  /\ pre_rx' = SubSeq(pre_rx, NumRecv(pre_rx) + 1, Len(pre_rx))
  /\ \E to \in Continues(pre_bufs') : PreGoes(to)
  /\ UNCHANGED <<hit_list, mtx, added>>

PreLeave ==
  /\ pre = "recv" /\ expired
  /\ PreGoes("done")
  /\ UNCHANGED <<pre_rx, pre_bufs, hit_list, mtx, added>>

PreSlot == Index(Head(pre_bufs).id)

PreLock_NoMutex ==
  /\ pre = "lock"
  /\ PreGoes("timestamp")
  /\ UNCHANGED <<pre_rx, pre_bufs, hit_list, mtx, added>>

\* while (!mtx[index].try_lock());
PreLock ==
  /\ pre = "lock"
  /\ mtx[PreSlot] = "free"
  /\ mtx' = [mtx EXCEPT ![PreSlot] = "pre"]
  /\ PreGoes("timestamp")
  /\ UNCHANGED <<pre_rx, pre_bufs, hit_list, added>>

AddTimestamp ==
  /\ pre = "timestamp"
  /\ hit_list' = [hit_list EXCEPT ![PreSlot].timestamp = Head(pre_bufs).ts]
  /\ PreGoes("identifier")
  /\ UNCHANGED <<pre_rx, pre_bufs, mtx, added>>

AddIdentifier ==
  /\ pre = "identifier"
  /\ hit_list' = [hit_list EXCEPT ![PreSlot].identifier = Head(pre_bufs).id]
  /\ added' = added \cup {Head(pre_bufs)}
  /\ PreGoes("unlock")
  /\ UNCHANGED <<pre_rx, pre_bufs, mtx>>

PreUnlock_Forgotten ==
  /\ pre = "unlock"
  /\ pre_bufs' = Tail(pre_bufs)
  /\ \E to \in Continues(pre_bufs') : PreGoes(to)
  /\ UNCHANGED <<pre_rx, hit_list, mtx, added>>

PreUnlock ==
  /\ pre = "unlock"
  /\ mtx' = [mtx EXCEPT ![PreSlot] = "free"]
  /\ pre_bufs' = Tail(pre_bufs)
  /\ \E to \in Continues(pre_bufs') : PreGoes(to)
  /\ UNCHANGED <<pre_rx, hit_list, added>>

Pre ==
  \/ PreRecv \/ PreLeave \/ PreLock \/ AddTimestamp \/ AddIdentifier
  \/ PreUnlock

-----------------------------------------------------------------------------
(***************************************************************************)
(* core_online of the second tap, and test_for.                             *)
(***************************************************************************)
PostGoes(to) == post' = to /\ UNCHANGED <<wireVars, pre_rx, preVars, report>>

PostRecv ==
  /\ post = "recv" /\ ~expired /\ post_rx # <<>>
  /\ post_bufs' = SubSeq(post_rx, 1, NumRecv(post_rx))
  /\ post_rx' = SubSeq(post_rx, NumRecv(post_rx) + 1, Len(post_rx))
  /\ \E to \in Continues(post_bufs') : PostGoes(to)
  /\ UNCHANGED <<hit_list, mtx, old_ts, hits, misses, samples, tested>>

PostLeave ==
  /\ post = "recv" /\ expired
  /\ PostGoes("done")
  /\ UNCHANGED <<post_rx, post_bufs, hit_list, mtx, old_ts, hits, misses, samples,
                 tested>>

PostSlot == Index(Head(post_bufs).id)

PostLock ==
  /\ post = "lock"
  /\ mtx[PostSlot] = "free"
  /\ mtx' = [mtx EXCEPT ![PostSlot] = "post"]
  /\ PostGoes("read")
  /\ UNCHANGED <<post_rx, post_bufs, hit_list, old_ts, hits, misses, samples, tested>>

ReadEntry_NoIdCheck ==
  /\ post = "read"
  /\ old_ts' = hit_list[PostSlot].timestamp
  /\ PostGoes("clear")
  /\ UNCHANGED <<post_rx, post_bufs, hit_list, mtx, hits, misses, samples, tested>>

ReadEntry ==
  /\ post = "read"
  /\ old_ts' = IF hit_list[PostSlot].identifier = Head(post_bufs).id
               THEN hit_list[PostSlot].timestamp ELSE 0
  /\ PostGoes("clear")
  /\ UNCHANGED <<post_rx, post_bufs, hit_list, mtx, hits, misses, samples, tested>>

ClearEntry_Kept ==
  /\ post = "clear"
  /\ PostGoes("unlock")
  /\ UNCHANGED <<post_rx, post_bufs, hit_list, mtx, old_ts, hits, misses, samples,
                 tested>>

ClearEntry ==
  /\ post = "clear"
  /\ hit_list' = [hit_list EXCEPT ![PostSlot] = Empty]
  /\ PostGoes("unlock")
  /\ UNCHANGED <<post_rx, post_bufs, mtx, old_ts, hits, misses, samples, tested>>

PostUnlock ==
  /\ post = "unlock"
  /\ mtx' = [mtx EXCEPT ![PostSlot] = "free"]
  /\ PostGoes("stats")
  /\ UNCHANGED <<post_rx, post_bufs, hit_list, old_ts, hits, misses, samples, tested>>

\* A sample below the threshold is reported on stderr, and counted like any other.
UpdateStats ==
  /\ post = "stats"
  /\ IF old_ts # 0
     THEN /\ hits' = hits + 1
          /\ samples' = Append(samples, [post |-> Head(post_bufs), old_ts |-> old_ts])
          /\ UNCHANGED misses
     ELSE /\ misses' = misses + 1
          /\ UNCHANGED <<hits, samples>>
  /\ tested' = tested + 1
  /\ post_bufs' = Tail(post_bufs)
  /\ \E to \in Continues(post_bufs') : PostGoes(to)
  /\ UNCHANGED <<post_rx, hit_list, mtx, old_ts>>

Post ==
  \/ PostRecv \/ PostLeave \/ PostLock \/ ReadEntry \/ ClearEntry
  \/ PostUnlock \/ UpdateStats

-----------------------------------------------------------------------------
\* printStats of the master, after both tasks: fetch_stats.
FetchStats ==
  /\ pre = "done" /\ post = "done" /\ report = NoReport
  /\ report' = [hits |-> hits, misses |-> misses, count |-> Len(samples)]
  /\ UNCHANGED <<wireVars, pre_rx, post_rx, hit_list, mtx, preVars, postVars>>

Next ==
  \/ \E id \in Ids : Arrive(id)
  \/ \E p \in dut : \E latency \in Latencies : Forward(p, latency)
  \/ \E p \in dut : Drop(p)
  \/ Expire \/ Pre \/ Post \/ FetchStats

Spec ==
  Init /\ [][Next]_vars /\ WF_vars(Pre) /\ WF_vars(Post) /\ WF_vars(FetchStats)

-----------------------------------------------------------------------------
Pkt == [n : Nat, id : Nat, ts : Int]

LiveTypeOK ==
  /\ expired \in BOOLEAN
  /\ pre_rx \in Seq(Pkt) /\ post_rx \in Seq(Pkt)
  /\ pre_bufs \in Seq(Pkt) /\ post_bufs \in Seq(Pkt)
  /\ pre \in {"recv", "lock", "timestamp", "identifier", "unlock", "done"}
  /\ post \in {"recv", "lock", "read", "clear", "unlock", "stats", "done"}
  /\ pre_bufs = <<>> => pre \in {"recv", "done"}
  /\ post_bufs = <<>> => post \in {"recv", "done"}
  /\ pre = "recv" => pre_bufs = <<>>
  /\ post = "recv" => post_bufs = <<>>
  /\ dut \subseteq passed /\ passed \subseteq Pkt
  /\ hit_list \in [Slots -> [timestamp : Int, identifier : Nat]]
  /\ mtx \in [Slots -> {"free", "pre", "post"}]
  /\ old_ts \in Int
  /\ hits \in Nat /\ misses \in Nat /\ tested \in Nat
  /\ samples \in Seq([post : Pkt, old_ts : Int])
  /\ added \subseteq Pkt

\* An entry whose mutex is free is one that add_entry wrote: the timestamp and
\* the identifier in it are those of the same packet, or it is empty.
EntryWhole ==
  \A s \in Slots : mtx[s] = "free" =>
    \/ hit_list[s] = Empty
    \/ \E p \in added : /\ Index(p.id) = s
                        /\ hit_list[s] = [timestamp |-> p.ts, identifier |-> p.id]

\* Every latency in the estimate is taken from a packet of the first tap that
\* carries the identifier of the packet of the second tap, although unrelated
\* packets share the slot; with unique identifiers that is the same packet.
SamplesPaired ==
  \A k \in 1 .. Len(samples) : \E p \in added :
    p.id = samples[k].post.id /\ p.ts = samples[k].old_ts

\* No recorded timestamp is used for two packets of the second tap.
EntryUsedOnce ==
  \A j, k \in 1 .. Len(samples) : samples[j].old_ts = samples[k].old_ts => j = k

\* Every packet test_for handled is a hit or a miss, exactly the hits are in
\* the estimate, and fetch_stats reports the final numbers.
StatsAddUp ==
  /\ hits + misses = tested
  /\ hits = Len(samples)
  /\ report # NoReport =>
       report = [hits |-> hits, misses |-> misses, count |-> Len(samples)]

\* During the period every packet behind the device is eventually looked up,
\* unless a packet without a timestamp has ended the task: whatever becomes of
\* the other task, it never waits for a mutex for ever.
PostKeepsUp == post_rx # <<>> ~> (post_rx = <<>> \/ expired \/ post = "done")

=============================================================================
