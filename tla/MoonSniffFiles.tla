--------------------------- MODULE MoonSniffFiles ---------------------------
(***************************************************************************)
(* MoonSniff with files: two tasks of sniffer.lua capture the packets of    *)
(* the taps before and behind the device under test (ms_log_pkts and        *)
(* pcap_log_pkts of src/moonsniff.cpp), and post-processing.lua matches the *)
(* two mscap files (arrmatch.lua, moonsniff-io.lua) and enters the          *)
(* latencies into the histogram.                                            *)
(*                                                                          *)
(* A packet of the trace is [at, lat, pre, post, len]: its true time at the *)
(* first tap, its latency, whether the NIC of a tap stamped it (post is     *)
(* "lost" if it never gets there), and its length.  Its identifier is       *)
(* counted up by traffic-gen.lua.  An mscap file is the sequence of the     *)
(* values written, two for a record.                                        *)
(***************************************************************************)
EXTENDS Histogram

CONSTANTS
  MODES,             \* out of {"mscap", "pcap"}
  WORD,              \* 2^32
  INDEX_BITMASK, MARGIN, \* slots of the map less one; the 100 kept free of them
  TIME_THRESH,       \* smallest latency that is entered
  FIRST_IDS,         \* identifiers of the first packet captured
  TRACES, NUM_PKTS,  \* traces of that many packets
  SEQ_OFFSET, SNAP_LEN, INITIAL_FILE_SIZE

HALF == WORD \div 2

ASSUME FilesAssumption ==
  /\ MODES \subseteq {"mscap", "pcap"}
  /\ WORD \in Nat /\ WORD % 2 = 0 /\ WORD > 0
  /\ INDEX_BITMASK \in Nat /\ MARGIN \in Nat /\ WORD % (INDEX_BITMASK + 1) = 0
  /\ TIME_THRESH \in Int /\ TIME_THRESH <= 0 /\ -HALF < TIME_THRESH
  /\ FIRST_IDS \subseteq Nat /\ NUM_PKTS \in Nat
  /\ TRACES \subseteq [1 .. NUM_PKTS -> [at : Nat, lat : Int, pre : BOOLEAN,
                                        post : {"yes", "no", "lost"}, len : Nat]]
  /\ \A tr \in TRACES : \A k \in 1 .. NUM_PKTS :
       8 <= tr[k].len /\ tr[k].len + 16 <= INITIAL_FILE_SIZE
  /\ SEQ_OFFSET \in Nat /\ SNAP_LEN \in Nat
  /\ INITIAL_FILE_SIZE \in Nat /\ 24 <= INITIAL_FILE_SIZE

Taps == {"pre", "post"}

VARIABLES
  mode, embedded,    \* pcap or mscap; timestamps in the dynfield of the mbuf
  trace, first_id,
  running, expired,  \* of libmoon; args.time has passed
  task,              \* task[tap]: "log" or "done"
  logged,            \* logged[tap]: packets of the trace the task has handled
  file,              \* file[tap]: content of the mscap file
  size, offset,      \* of the pcap file and its mapping, per tap
  at,                \* post-processing: "wait", "fill", "match", "done", "error"
  pos,               \* pos[tap]: values the reader has passed
  precap, postcap, fillcap,   \* current records; fillcap is that of initialFill
  map, overwrites, misses, pre_pkts, post_pkts,
  taken,             \* history: identifiers entered into the map
  below,             \* history: latencies refused as below the threshold
  samples            \* history: latencies entered, with their identifier

config == <<mode, embedded, trace, first_id>>
capture == <<running, expired, task, logged, file, size, offset>>
matching == <<at, pos, precap, postcap, fillcap, map, overwrites, misses,
              pre_pkts, post_pkts, taken, below, samples>>
vars == <<config, capture, matching, hist>>

Nil == [ts |-> -1, id |-> -1]
Slots == 0 .. INDEX_BITMASK
Empty == [timestamp |-> 0, identifier |-> 0]
Id(k) == (first_id + k - 1) % WORD

Init ==
  /\ mode \in MODES /\ embedded \in BOOLEAN
  /\ trace \in TRACES /\ first_id \in FIRST_IDS
  /\ running = TRUE /\ expired = FALSE
  /\ task = [t \in Taps |-> "log"]
  /\ logged = [t \in Taps |-> {}]
  /\ file = [t \in Taps |-> << >>]
  /\ size = [t \in Taps |-> INITIAL_FILE_SIZE]
  /\ offset = [t \in Taps |-> 24]
  /\ at = "wait"
  /\ pos = [t \in Taps |-> 0]
  /\ precap = Nil /\ postcap = Nil /\ fillcap = Nil
  /\ map = [s \in Slots |-> Empty]
  /\ overwrites = 0 /\ misses = 0 /\ pre_pkts = 0 /\ post_pkts = 0
  /\ taken = {} /\ below = 0 /\ samples = << >>
  /\ HistInit

-----------------------------------------------------------------------------
(* Capturing.                                                               *)

\* Time of a packet at a tap, by the clock of its NIC.
TrueTime(t, p) == IF t = "pre" THEN p.at ELSE p.at + p.lat

\* The driver of an E810 sets no flag: every packet is taken as stamped.
Stamped(t, p) == embedded \/ IF t = "pre" THEN p.pre ELSE p.post = "yes"

\* A NIC without the dynfield writes seconds and nanoseconds behind the packet;
\* ms_log_pkts puts them together in 32 bits.
Timestamp(t, p) ==
  IF embedded THEN TrueTime(t, p) ELSE TrueTime(t, p) % WORD

\* The next packet of a tap: by number before the device, by time behind it.
IsNext(t, k) ==
  LET Coming == {j \in DOMAIN trace : t = "post" => trace[j].post # "lost"} \ logged[t] IN
  /\ k \in Coming
  /\ \A j \in Coming :
       IF t = "pre" THEN k <= j ELSE TrueTime(t, trace[k]) <= TrueTime(t, trace[j])

\* One packet of ms_log_pkts.
LogMscap(t, p, id) ==
  /\ mode = "mscap"
  /\ file' = IF Stamped(t, p) /\ SEQ_OFFSET < p.len
             THEN [file EXCEPT ![t] = @ \o <<Timestamp(t, p), id>>]
             ELSE file
  /\ UNCHANGED <<size, offset>>

InclLen(p) ==
  LET len == p.len - (IF embedded THEN 0 ELSE 8)
  IN IF len < SNAP_LEN THEN len ELSE SNAP_LEN

HasRoom_PacketOnly(t, p) == offset[t] + p.len - 8 < size[t]

\* The test before a record is written.
HasRoom(t, p) == offset[t] + p.len + 8 < size[t]

\* One packet of pcap_log_pkts: the mapping is doubled when the packet may not
\* fit, then the record is written.
LogPcap(t, p) ==
  /\ mode = "pcap"
  /\ IF Stamped(t, p)
     THEN /\ size' = IF HasRoom(t, p) THEN size ELSE [size EXCEPT ![t] = 2 * @]
          /\ offset' = [offset EXCEPT ![t] = @ + InclLen(p) + 16]
     ELSE UNCHANGED <<size, offset>>
  /\ UNCHANGED file

LogGoesOn_NoTime(t) == running

\* pcap_log_pkts looks at the time, ms_log_pkts only at the program's end.
LogGoesOn(t) == running /\ (mode = "pcap" => ~expired)

Log(t) ==
  /\ task[t] = "log" /\ LogGoesOn(t)
  /\ \E k \in DOMAIN trace :
       /\ IsNext(t, k)
       /\ LogMscap(t, trace[k], Id(k)) \/ LogPcap(t, trace[k])
       /\ logged' = [logged EXCEPT ![t] = @ \union {k}]
  /\ UNCHANGED <<config, running, expired, task, matching, hist>>

\* The stream is flushed when it is closed; the pcap file is unmapped and cut to
\* the offset.
LogEnds(t) ==
  /\ task[t] = "log" /\ ~LogGoesOn(t)
  /\ task' = [task EXCEPT ![t] = "done"]
  /\ size' = IF mode = "pcap" THEN [size EXCEPT ![t] = offset[t]] ELSE size
  /\ UNCHANGED <<config, running, expired, logged, file, offset, matching, hist>>

\* args.time, which ms_log_pkts is not given.
Expire ==
  /\ mode = "pcap" /\ ~expired /\ expired' = TRUE
  /\ UNCHANGED <<config, running, task, logged, file, size, offset, matching, hist>>

Stop ==
  /\ running /\ running' = FALSE
  /\ UNCHANGED <<config, expired, task, logged, file, size, offset, matching, hist>>

\* The program dies: what the stream had flushed of an mscap file need not end
\* with a record.  A file that lacks more is that of a task that is farther behind.
Kill ==
  /\ \E t \in Taps : task[t] = "log"
  /\ running' = FALSE
  /\ task' = [t \in Taps |-> "done"]
  /\ \E torn \in SUBSET {t \in Taps : task[t] = "log" /\ file[t] # << >>} :
       file' = [t \in Taps |-> IF t \in torn
                               THEN SubSeq(file[t], 1, Len(file[t]) - 1) ELSE file[t]]
  /\ UNCHANGED <<config, expired, logged, size, offset, matching, hist>>

-----------------------------------------------------------------------------
(* Matching.                                                                *)

\* readSingle of a reader that has passed n values: what is left behind the last
\* whole record is no record.
Record(t, n) ==
  IF Len(file[t]) - n < 2 THEN Nil
  ELSE [ts |-> file[t][n + 1], id |-> file[t][n + 2]]

Advance(t) == IF Record(t, pos[t]) = Nil THEN pos[t] ELSE pos[t] + 2

Index(id) == id % (INDEX_BITMASK + 1)

\* hs_initialize, and reading the first records; with an empty file getId(nil) raises an error.
Open ==
  /\ at = "wait" /\ mode = "mscap" /\ \A t \in Taps : task[t] = "done"
  /\ precap' = Record("pre", 0) /\ postcap' = Record("post", 0)
  /\ fillcap' = precap'
  /\ at' = IF Nil \in {precap', postcap'} THEN "error" ELSE "fill"
  /\ pos' = [t \in Taps |-> Advance(t)]
  /\ hs_initialize
  /\ UNCHANGED <<config, capture, map, overwrites, misses, pre_pkts, post_pkts, taken,
                 below, samples>>

Entered(m, cap) ==
  [m EXCEPT ![Index(cap.id)] = [timestamp |-> cap.ts, identifier |-> cap.id]]
Overwritten(cap) == IF map[Index(cap.id)].timestamp # 0 THEN 1 ELSE 0

\* The condition of the loop of initialFill; precap is still the first record.
FillGoesOn ==
  /\ fillcap # Nil
  /\ Index(fillcap.id) >= Index(precap.id)
  /\ Index(fillcap.id) < INDEX_BITMASK - MARGIN

Fill ==
  /\ at = "fill" /\ FillGoesOn
  /\ pre_pkts' = pre_pkts + 1
  /\ overwrites' = overwrites + Overwritten(fillcap)
  /\ map' = Entered(map, fillcap)
  /\ taken' = taken \union {fillcap.id}
  /\ fillcap' = Record("pre", pos["pre"])
  /\ pos' = [pos EXCEPT !["pre"] = Advance("pre")]
  /\ UNCHANGED <<config, capture, at, precap, postcap, misses, post_pkts, below,
                 samples, hist>>

FillEnds ==
  /\ at = "fill" /\ ~FillGoesOn
  /\ at' = "match"
  /\ UNCHANGED <<config, capture, pos, precap, postcap, fillcap, map, overwrites,
                 misses, pre_pkts, post_pkts, taken, below, samples, hist>>

Unwrapped_None(diff) == diff

Unwrapped_AllNegative(diff) == IF diff < 0 /\ diff > -WORD THEN diff + WORD ELSE diff

\* The work-around for timestamps that wrapped between the taps.
Unwrapped(diff) == IF diff < -HALF /\ diff > -WORD THEN diff + WORD ELSE diff

\* computeLatency(postcap, ...) on the map m.
computeLatency(m) ==
  LET idx == Index(postcap.id)
      diff == Unwrapped(postcap.ts - m[idx].timestamp)
      found == m[idx].identifier = postcap.id /\ m[idx].timestamp # 0
  IN
  /\ \/ /\ found /\ diff < TIME_THRESH
        /\ below' = below + 1
        /\ UNCHANGED <<misses, samples, hist>>
     \/ /\ found /\ diff >= TIME_THRESH
        /\ Update(diff)
        /\ samples' = Append(samples, [id |-> postcap.id, diff |-> diff])
        /\ UNCHANGED <<misses, below>>
     \/ /\ ~found
        /\ misses' = misses + 1
        /\ UNCHANGED <<below, samples, hist>>
  /\ map' = [m EXCEPT ![idx] = Empty]
  /\ postcap' = Record("post", pos["post"])
  /\ post_pkts' = post_pkts + 1

\* One record of each file.
Match ==
  /\ at = "match" /\ precap # Nil /\ postcap # Nil
  /\ pre_pkts' = pre_pkts + 1
  /\ overwrites' = overwrites + Overwritten(precap)
  /\ precap' = Record("pre", pos["pre"])
  /\ taken' = taken \union {precap.id}
  /\ computeLatency(Entered(map, precap))
  /\ pos' = [t \in Taps |-> Advance(t)]
  /\ UNCHANGED <<config, capture, at, fillcap>>

\* The records left in the file of the second tap.
MatchRest ==
  /\ at = "match" /\ precap = Nil /\ postcap # Nil
  /\ computeLatency(map)
  /\ pos' = [pos EXCEPT !["post"] = Advance("post")]
  /\ UNCHANGED <<config, capture, at, precap, fillcap, pre_pkts, taken, overwrites>>

MatchEnds_WithFirstFile ==
  /\ at = "match" /\ precap = Nil
  /\ at' = "done"
  /\ Finalize
  /\ UNCHANGED <<config, capture, pos, precap, postcap, fillcap, map, overwrites,
                 misses, pre_pkts, post_pkts, taken, below, samples>>

MatchEnds ==
  /\ at = "match" /\ postcap = Nil
  /\ at' = "done"
  /\ Finalize
  /\ UNCHANGED <<config, capture, pos, precap, postcap, fillcap, map, overwrites,
                 misses, pre_pkts, post_pkts, taken, below, samples>>

-----------------------------------------------------------------------------
Capture == \E t \in Taps : Log(t) \/ LogEnds(t)
PostProcessing == Open \/ Fill \/ FillEnds \/ Match \/ MatchRest \/ MatchEnds

Next == Capture \/ Expire \/ Stop \/ Kill \/ PostProcessing

\* A task polls without blocking, and the time of a measurement passes.
Spec ==
  /\ Init /\ [][Next]_vars
  /\ \A t \in Taps : WF_vars(Log(t) \/ LogEnds(t))
  /\ WF_vars(Expire) /\ WF_vars(PostProcessing)

-----------------------------------------------------------------------------
Records(t) == Len(file[t]) \div 2
InFile(t, id) == \E r \in 1 .. Records(t) : file[t][2 * r] = id
Packet(id) == trace[CHOOSE k \in DOMAIN trace : Id(k) = id]

\* Latencies that a timestamp of 32 bits can tell from others: those from zero
\* to a word less the threshold.  With 64 bits those that the work-around, which
\* is applied there too, leaves alone.
Measurable(p) ==
  IF embedded THEN p.lat >= -HALF ELSE p.lat >= 0 /\ p.lat < WORD + TIME_THRESH

\* initialFill took the whole file of the first tap.
FilledAll == fillcap = Nil

\* What a capturing task and the post-processing keep, by type.
FilesTypeOK ==
  /\ mode \in MODES /\ embedded \in BOOLEAN /\ first_id \in Nat
  /\ running \in BOOLEAN /\ expired \in BOOLEAN
  /\ task \in [Taps -> {"log", "done"}]
  /\ logged \in [Taps -> SUBSET (1 .. NUM_PKTS)]
  /\ file \in [Taps -> Seq(Int)]
  /\ size \in [Taps -> Nat] /\ offset \in [Taps -> Nat]
  /\ at \in {"wait", "fill", "match", "done", "error"}
  /\ pos \in [Taps -> Nat]
  /\ map \in [Slots -> [timestamp : Int, identifier : Int]]
  /\ {overwrites, misses, pre_pkts, post_pkts, below} \subseteq Nat
  /\ taken \subseteq Int

\* Every latency in the histogram is the one its packet had, although the two
\* 32-bit timestamps it is computed from may have wrapped, or only one of them;
\* and no packet is in it twice.
SamplesTrue ==
  \A i \in DOMAIN samples :
    /\ Measurable(Packet(samples[i].id)) =>
         samples[i].diff = Packet(samples[i].id).lat
    /\ \A j \in DOMAIN samples : samples[i].id = samples[j].id => i = j

\* A packet that is in both files is in the histogram in the end, if initialFill
\* got all of the first file, its latency is below half a word, as the comment
\* in computeLatency claims, and its timestamp at the first tap is not 0, which
\* stands for no entry.
MatchComplete ==
  at = "done" /\ FilledAll =>
    \A k \in DOMAIN trace :
      LET p == trace[k] IN
      /\ InFile("pre", Id(k)) /\ InFile("post", Id(k))
      /\ p.lat >= 0 /\ p.lat < HALF /\ Timestamp("pre", p) # 0
      => \E i \in DOMAIN samples : samples[i].id = Id(k)

\* Every whole record of the second file is a sample, a miss or refused, whatever
\* a killed program left at the end of it; of the first file no record that was
\* read is left out of the map, but for the one initialFill stopped at, which its
\* caller never sees, and all are read unless the second file ends first.
RecordsAccounted ==
  at = "done" =>
    /\ post_pkts = Records("post")
    /\ post_pkts = Len(samples) + misses + below
    /\ \A r \in 1 .. Records("pre") :
         2 * r <= pos["pre"] => file["pre"][2 * r] \in taken \union {fillcap.id, precap.id}
    /\ precap = Nil => pos["pre"] = 2 * Records("pre")

\* The histogram that is written is that of the samples, by definition of
\* nearest bucket, mean and variance.
HistogramExact ==
  /\ HistogramOf([i \in DOMAIN samples |-> samples[i].diff])
  /\ at = "done" /\ count >= 2 =>
       variance * count * (count - 1) =
         SCALE * SCALE * Spread([i \in DOMAIN samples |-> samples[i].diff])

\* A pcap record ends within the mapping, which is doubled at most once for it;
\* with timestamps in the mbuf it may end up to 7 bytes behind it, as the room
\* asked for is 8 bytes less than the header and the packet take then.
PcapRoom == \A t \in Taps : offset[t] <= size[t] + (IF embedded THEN 7 ELSE 0)

\* Capturing ends: pcap_log_pkts after the time of the measurement, ms_log_pkts
\* only once the program is stopped; then the files are matched.
CaptureEnds ==
  /\ mode = "pcap" ~> \A t \in Taps : task[t] = "done"
  /\ mode = "mscap" /\ ~running ~> at \in {"done", "error"}
=============================================================================
