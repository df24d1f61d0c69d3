# MoonGen in TLA+

A verification project for MoonGen, the scriptable packet generator in this
repository: TLA+ modules that model its C++ and Lua components, TLC
configurations that check them on small instances, and TLAPS proofs of the
properties that matter most for instances of any size.

## The system

MoonGen runs Lua scripts on top of libmoon and DPDK. A *master task* configures
the NICs and starts *tasks*; each task is a thread with a Lua VM of its own, and
tasks share state only through C memory: rings of packets, counters, barriers,
tables. libmoon is not part of this tree. It is modelled from the way the code
here uses it and marked external in `PROJECT.json`.

| part | source | what it does |
|---|---|---|
| CRC rate limiter | `src/crc-ratecontrol.cpp`, `lua/crc-ratecontrol.lua` | makes gaps between packets from invalid filler frames |
| Delay emulator | `src/launch-timestamp.cpp`, `lua/launch-timestamp.lua` | sends every packet of a ring at the time it carries, counting bytes for a clock; uses the CRC rate limiter |
| Software rate limiter | `src/software-rate-limiter.cpp`, `lua/software-ratecontrol.lua` | a task that takes packets from a ring and sends each at its time |
| Flow interface | `interface/` | flows from configuration files: load, count, statistics, ARP and timestamp tasks; the load task uses the software rate limiter |
| MoonSniff | `src/moonsniff.cpp`, `lua/moonsniff-io.lua`, `src/histogram.cpp`, `examples/moonsniff/` | latency of a device between two taps, live or from capture files |
| MoonEm | `src/moonem*.cpp`, `src/moonem_common.*`, `lua/loss-model.lua`, `examples/moonem.lua` | emulates a network path: delay, rate and loss; its hardware variant uses the delay emulator |
| RFC 2544 | `rfc2544/` | benchmark suite: binary searches with load and counter tasks |
| Examples, tests, start-up | `examples/`, `test/`, `lua/moongen*.lua` | user scripts and thin wrappers |

`PROJECT.json` lists every part with its sources and status, the map from
definitions to source lines, the runs, the mutants, the hazards of the code and
the theorems.

## Modules

| module | models | extends |
|---|---|---|
| `CrcRateControl` | `RateLimiterCRC`: `send_packets`, `get_delay_packet`, `empty_delay`, `set_invalid_packet_size` | |
| `CrcSender` | direct users of it: `sendWithDelay`, and C++ callers that delete entries or change the filler size | `CrcRateControl` |
| `LaunchTimestamp` | `DelayEmulator`: `transmit_loop`, `send_batch`, `launchTimer:send` | `CrcRateControl` |
| `SoftwareRateLimiter` | `main_loop`, `main_loop_poisson`, `main_loop_cbr`; `rateLimiter:send`, `sendN`, `stop` | |
| `LoadTask` | `loadThread` of the flow interface on a software rate limiter | `SoftwareRateLimiter` |
| `Devmgr` | the master task of the flow interface with the device manager: `prepare`, `configure`, `start`, and the queues they reserve and hand out | |
| `FlowTasks` | the tasks of all flows around the activity counter: load, count, ARP manager, timestamping, device statistics | `Devmgr` |
| `FlowLife` | what those tasks promise about the life of flows, without tasks, locks or lists (abstract) | |
| `MoonSniffLive` | `add_entry`, `test_for`, `fetch_stats`, `core_online` | |
| `Histogram` | `histogram.cpp`: buckets, mean, variance, and what they are by definition | |
| `MoonSniffFiles` | `ms_log_pkts`, `pcap_log_pkts`, the mscap reader, `initialFill`, `computeLatency` and the matching loop | `Histogram` |
| `MoonEm` | the receiver loops of MoonEm, its ring and its transmitter; how `moonem.lua` selects them | |
| `MoonEmLoss` | the uniform, Gilbert-Elliot and NetEm loss models and the scaling of their parameters | |
| `BinarySearch` | `utils.binarySearch` as operators | |
| `Rfc2544` | what the benchmarks share: iterations, results, the frames inside the device | |
| `Rfc2544Trial` | one trial: load tasks, counter task, barrier, device under test | `Rfc2544` |
| `Rfc2544Bench` | `bench` of the throughput and of the frame loss benchmark | `Rfc2544Trial`, `BinarySearch` |
| `BackToBack` | the two tasks of the back-to-back benchmark and its `bench` | `Rfc2544`, `BinarySearch` |
| `MC*` | the instances TLC checks | the module named |
| `*_proofs` | theorems and their proofs, one module for each group of components | the modules it is about |

A definition whose name ends in `_Something` next to the one it varies
(`Bucket_Down` beside `Bucket`) is a *mutant*: a plausible mistake in that piece of code.
Each checked property is violated when a mutant takes the place of the
definition, so each property says something about the code.

### CRC rate limiter

One call of `send_packets` is a sequence of steps: entry (`send_packets`), a
deleted entry skipped (`SkipDeleted`), a packet taken up (`TakePacket`), one
filler (`SendFiller`), the packet itself (`SendPacket`), the end of the call
(`Return`). `pc`, `i`, `delay`, `pkts` and `num_bad` are its locals;
`previous_missing_delay` and `invalid_packet_size` the members of the class;
`bad_sent` the counters of the port. Frames are not modelled one by one: what
the properties tell apart is how many there are, how many are fillers, how many
bytes they take and how many of these bytes make gaps. `tx`, `lost` and `asked`
are history variables. `lost` holds frames that are in the local array when the
call returns; fillers among them were made and count for the gap.

`MIN_PACKET_SIZE` is what `crc-ratecontrol.lua` passes to the constructor, and that
depends on the target rate. Below half the packet rate of the NIC it is 84, far
below the filler size of 1500. From there on, and so by default, it is
`floor(speed * 10^9 / 10^6 / 8 / 14.88)`, 84005 on 10 GbE, far above every filler
size: gaps below 84 025 bytes (67 microseconds) are carried over, and longer ones
take many fillers. The model therefore has two bounds: `MinGap`, below which
nothing is filled, and `MinWire`, what the smallest frame of the NIC takes. `CrcAssumption`
relates only the latter to the filler sizes.

### Delay emulator

The transmit loop is a state machine over `at`: start (warm-up, the timestamped
frame, reading its timestamp), poll, plan (one step per entry of the batch, with
the three cases late, slightly late, ahead), send (the steps of `send_packets`).
The clock of the loop is `first_timestamp` plus the time of
`current_byte_offset` bytes; a byte takes `NS_NUM / NS_DEN` nanoseconds, and
both conversions truncate as the code's do. Doubles are replaced by rationals, so
`CurrentSendingTime` truncates once where the code also rounds to a double before.
`launchTimer` creates its rate limiter at the default rate; what is carried over, and
makes a packet early, is then up to the 67 microseconds above.

### Software rate limiter and load task

The mode selects the loop. The loops differ in how much they dequeue (`Halve`
exists in the mode custom only), whether rate control restarts after an idle
time (`Restart`), and where the gap of a packet goes (`DueTime`, `Wait`); how a
gap is computed from bytes or a rate is left out, a gap is any of a set of
numbers. The history `epoch`, `owed` and `spent` of the gaps starts anew by itself
(`Recount`), when the schedule is more than the restart time behind, and not when
the code restarts; so `RateCeiling` also sees a restart that should not have
happened. `ring_dequeue` returns all packets asked for or none. `Tick` is the
time stamp counter. The NIC takes a packet (`TxTaken`) or refuses it; a refusal
matters only when the limiter is to stop (`TxRefused`).

`LoadTask` puts `loadThread` in the place of the user: arrays are filled and
counted (`Fill`), handed over (`SendArray`, `SendLast`), retried while the ring
is full (`SendFails`, `AfterRetry`), and the limiter is stopped at the end
(`StopQueue`). No data limit is `NoLimit`; a limit of 0 makes the task send an
array of 0 packets, which the ring may report as failed. The user may also be a script that sends and stops as it likes
(`at = "script"`), so that one module covers all users of the limiter.

### Flow interface

A task is `<<kind, flow, position>>`. In `Devmgr` the prepare functions reserve
queues one kind after another (`Prepare`), the devices are configured with what
was reserved (`Configure`), and the start functions hand queues out and start the
tasks one by one, in the order of the code (`Start`); RSS queues come first on
each device, the receive queues of the ARP manager and of timestamping behind them.
The assertion of the ARP thread that the first flow on a device has a static MAC
ends the master (`PrepareFails`); that of the timestamping task, that its flows are
all UDP or all not, ends this task (`TsMixed`).

`FlowTasks` runs the tasks that were started while others still wait to be.
`counter[f]` is the shared `{active, count}` of a flow. `inc` and `dec` are a step
for lock and read and one for each assignment; the readers (`isZero`) take no
lock, so they may look between the two assignments of `inc`. Each look at a flow
is a step of the scanning tasks (`Look`, `Round`; `StatsSkip`, `StatsUpdate`,
`StatsFinalize`), so a flow may begin or end behind the scan. `deviceStatsThread`
compacts its list while it goes through it: `counters` keeps the holes and
`stats.offset` counts them. `running` has three values because a task that asks
`mg.running(delay)` sees the end of the program later than one that asks
`mg.running()`.

`FlowLife` has no tasks: a flow is idle, active, then over, and whoever watches it
stays until it has been over or the program is stopped. `Stubborn` monitors do
not ask for the latter. `LifeSpec` is `FlowLife` under the mapping

| `FlowLife` | `FlowTasks` |
|---|---|
| `life[f]` | idle while `active` is 0, active while `count` is not 0, else over |
| `ended` | the history variable of the same name |
| `watching` | count, ARP and timestamping tasks started and not done; device counters not finalized while their task runs |
| `stopped` | `running # "yes"` |
| `several` | flows with more than one sender |
| `Stubborn` | the ARP manager |

The mapping works because `inc` assigns `count` before `active`: in the other
order a flow would seem over before it began, which is the mutant of `LifeSpec`.

### MoonSniff live mode

The wire (`Arrive`, `Forward`, `Drop`) feeds the receive queues of the two
tasks; the device in between drops, delays and reorders. Each of the two
assignments of `add_entry` is a step, as are lock, lookup, clearing, unlock and
the update of the statistics in `test_for`. A packet without a timestamp has none
to pass to either of them, and the task ends with an error (`Continues`). `samples` keeps what goes into the
running mean and variance, which are not computed.

### MoonSniff files and the histogram

A trace of packets (one of the constant `TRACES`), each with its true time, its
latency and whether the NICs stamped it, is captured by two tasks (`Log` with `LogMscap` or `LogPcap`,
`LogEnds`); the program may be stopped (`Stop`) or die (`Kill`), and then an mscap
file may end within a record. Timestamps have 32 bits, or 64 with the dynamic
field (`embedded`). Then the files are matched (`Open`, `Fill`, `FillEnds`,
`Match`, `MatchRest`, `MatchEnds`) through a table of `INDEX_BITMASK + 1` slots.
`samples` is a history of what went into the histogram; the properties compare it
with the trace. An mscap file is the sequence of the values written, a pcap file
its offset and the size of its mapping.

`Histogram` computes mean and variance with the online algorithm of the code.
Doubles are multiples of `1 / SCALE`, with a `SCALE` for which no division
rounds. `HistogramOf` and `Spread` are the reference: nearest bucket, mean and
variance by their definitions.

### MoonEm

`Args` is the command line, `Refused` what the script rejects, `ReceiverLoop` the
loop it picks; the loop is fixed at the start. A burst is received (`Receive`)
and its packets are handled one by one: `HandleDelay`, `HandleSwToken`,
`HandleHwToken`, `HandleLeaky` compute departure times and drop, `AcceptOrLose`
asks the loss model, whose verdict is arbitrary here. `Enqueue` puts the accepted
packets into the ring, all or none. The software transmitter (`Dequeue`, `Send`,
`BurstDone`, `TxLeave`) waits for the time of the first packet of each stored
burst; in the hardware variant the delay emulator takes over (`EmulatorTakes`),
which is module `LaunchTimestamp`. Times and token counts are integers.

`MoonEmLoss` runs the models themselves: `scale_to_uint64`, the parameters as the
scripts compute them, and the state machines, in words of a few bits instead of
64, so that sums wrap as they do in the code. The random number is any word. The
script checks each percentage alone, so sums above 100 and the negative
parameters they lead to are modelled too.

### RFC 2544

Load and counter tasks of throughput and frame loss are the same code, one module
(`Rfc2544Trial`): they meet at the barrier (`Arrive`), warm up on the port below
the trial's, send and count. The device under test forwards (`Count`) and loses
(`Lose`). It has a capacity, the highest rate at which its losses stay within
`maxLossRate`, or follows no rule. The master reads the counts of a trial when the
device is empty: the counter task runs for seconds after the load has ended, and a
device that keeps a frame longer than that is not modelled.
`Rfc2544Bench` has the loops around it: both files share configuration, trial and
clean-up and differ in how a trial is judged (`JudgeThroughput`,
`JudgeFrameLoss`). Rates are integers. In the frame loss sweep a rate of exactly 5
percent may or may not get a trial, since the code reaches it by floating-point
subtraction; with the step of 5 percent rounding makes it skip that rate.

In `BackToBack` each task has its own search. The barrier is a counter: who brings
it to 0 passes at once (`LoadWaits`, `CounterWaits`), the other one wakes up later
(`LoadLeaves`, `CounterLeaves`). `Reinit` is the load task's `bar:reinit`, which may
come before the counter has woken up (`Overtaken`): the code has a comment
"reinit interferes with wait" and sleeps for 100 microseconds. Three timing assumptions of the
code are guards: the counter's timer outlasts the burst, the 100 microseconds are over
before a first burst can have been counted, and the sleep of two seconds outlasts the
other task's verdict. The fourth, that the counter is out of the barrier within the 100
microseconds, is not a guard but a hypothesis of `BackToBackEnds`.

## Runs

| run | checks | shows |
|---|---|---|
| `crc_sender` | `SpacingKept`, `FillersValid`, `LossNeedsDeletedTail`, `SendTerminates` | over any sequence of calls, gaps are kept up to less than `MinGap`, which is carried on; fillers have legal sizes at low rates and at the default rate; frames are lost only behind a deleted last entry; calls end |
| `launch_timestamp` | `OnTime`, `PacketsAccounted`, `LoopServes` | but for the gap below `MinGap` carried over to the next packet, no packet is early by a byte, or late by a nanosecond unless it was late already; none disappears; the loop drains the ring and ends |
| `load_task` | `NothingLost`, `RateCeiling`, `LimitRespected`, `LoadEnds` | all three loops of the software rate limiter, with the load task or any script as user: no loss, duplication or reordering; the rate is a ceiling since the schedule was last behind by the restart time; the data limit bounds what is handed over and is reached; load task and limiter end, and the halving drains the ring |
| `data_limit` | `DataLimitSent` (violated) | a finding: the limiter may stop with packets of the flow in its ring |
| `flow_tasks` | `QueuesOwned`, `CounterExact`, `StatsKept`, `LifeSpec`, `TasksEnd` | no queue is given to two tasks or lies outside what was configured; the activity counter is the number of senders; no device counter is lost while the list is compacted; the tasks implement `FlowLife`; they end when the flows have limits, or when the program is stopped, the ARP manager only if each of its flows has a sender |
| `moonsniff_live` | `EntryWhole`, `SamplesPaired`, `EntryUsedOnce`, `PostKeepsUp` | the mutexes make entries whole; a sample pairs packets of one identifier; no timestamp is used twice; packets behind the device are looked up in the end, unless the task has ended |
| `moonsniff_files` | `SamplesTrue`, `MatchComplete`, `RecordsAccounted`, `HistogramExact`, `PcapRoom`, `CaptureEnds` | latencies are true although timestamps wrap; a packet in both files gets into the histogram, if `initialFill` took the whole first file; every whole record of the second file counts once and none of the first is skipped but the one `initialFill` stopped at, whatever a crash left behind; the histogram equals its definition; a pcap record ends within its mapping, or at most 7 bytes behind it with timestamps in the mbuf; a pcap capture ends after its time, an mscap capture with the program |
| `moonem` | `NeverEarly`, `TokenBucketConforms`, `LeakyBucketSpaces`, `EachPacketOnce`, `AllLeave` | no departure time is before reception plus delay, and the software transmitter sends no packet before it; no packet overtakes another, is duplicated or leaked; over every interval a token bucket passes no more than capacity and rate allow; a leaky bucket spaces departures and bounds its backlog; everything leaves |
| `moonem_loss` | `LossModelApplied` (violated) | a finding: software rate limiting never asks two of the loss models |
| `loss_models` | `LossFollowsState`, `SharesAsConfigured` | NetEm's losses coincide with its loss states, and of all random numbers the configured share leaves a state, and leaves q2 for q3, where sums of parameters stay within 100 percent and do not wrap |
| `rfc2544_bench` | `ResultsValid`, `SearchPrecise`, `SweepComplete`, `BenchEnds` | frames are attributed to their trial; the search is precise to two thresholds and reports valid trials; the sweep ends at two clean trials or below 5 percent and nowhere else; `bench` returns |
| `back_to_back` | `LockStep`, `BurstPrecise`, `BackToBackEnds` | both searches agree round by round although frames come late; both tasks return the same length, the buffer of the device to two granularities; they do not wait for each other for ever if the counter leaves the barrier before it is re-initialised |

Four results are theorems only and no run repeats them: the array of `send_packets`
is not overrun, its statistics are exact, the byte counter of the delay emulator
follows the wire, and the statistics of MoonSniff's live mode add up. The same holds
for the type invariants.

### Bounds

Sizes are scaled down so that every case is within a few steps. In `crc_sender`
gaps below 8 bytes are carried over, the smallest frame takes 2, and the filler sizes
16 and 4 stand for a low rate and for the default rate; the array has 3 entries. The gaps 0, 3, 9
and 25 cover nothing to fill, a remainder only, one filler or several, a gap that is
halved and a gap that flushes the array several times; batches have up to two entries,
each possibly deleted, and calls go on until 6 frames have left (`MaxFrames`),
so remainders are carried across several calls and size changes.
`launch_timestamp` has the default rate, with fillers of 6 and 9 and gaps below 11
carried over, 1.5 ns per byte (both truncations happen), goals on all
four sides of the current time, batches of at most two, a ring of three
and four packets in all (`MaxPackets`), which is two batches with a full ring in
between; `MaxBytes` stops the idle fillers. `load_task` has batches
and arrays of two, a ring of three and scripts that send up to four packets, so
that bulk operations fail on both sides; time runs to 6 ticks (`MaxTime`), three
times the restart interval, and further while a packet waits; the limits are none, 0, below and
above an array and two arrays, and some leave a tail no batch takes. The ring holds
each of an array and a batch, as with the sizes in the code: with a smaller one sender
and limiter would wait for each other. `data_limit` needs a batch
larger than an array.

`flow_tasks` has seven command lines on two devices: a flow with ARP beside one with
timestamps; one flow with two senders, a receiver and ARP; a flow sent twice on one device without
a limit beside one that is received twice and answers ARP; one flow with everything and
no limit; timestamps for UDP beside others, which fails an assertion; ARP without a
MAC on one of two devices, which fails another; and nothing to send.
They make every kind of task run beside every other, two load tasks share a
counter and a device, RSS queues and own queues share a device, and the list
of device counters loses its first entry, its last ones, or all in one round.

`moonsniff_live` has three packets and identifiers that share a slot; packets
may repeat an identifier. `moonsniff_files` has traces of three packets out of six
kinds: latencies below and above half a word, a negative one, a packet lost in the
device, one not stamped at the first tap, one too short for its sequence number and not
stamped at the second. Timestamps have 4 bits (`WORD` 16) and begin at 10, so they
wrap between the packets and between the taps; eight slots and first identifiers
0 and 5 make `initialFill` take the whole file or stop at its margin; bucket sizes
are 1 and 4; the pcap mapping begins at 112 bytes and has to be doubled.
`moonem` has every loop, three packets of two sizes in bursts of up to two, a ring
as large as the pool (a DPDK ring of size n holds n - 1 packets, but of the pool the
script sizes it after the receive descriptors of the NIC always hold some), and a bucket that is emptied, refilled and capped; the ring
and the transmitter see bursts split by a dequeue. Packets arrive at two
instants, early enough for all departures to lie within `MAX_TIME`. `loss_models` has 16 random
numbers (`M`) and the percentages 0, 10, 25, 50 and 100, of which one has to be
rounded, in all combinations. `rfc2544_bench` has a link rate of 20, thresholds 2 and 4, an allowed loss of
a third, so that of one frame none and of three one may be lost, two iterations,
steps of 5, and of 19, which ends at exactly 5 percent, one frame per load
task and one or three load tasks; `MAX_PORT` leaves a port for each
trial there can be. `back_to_back` has bursts of up to four frames, arrays of two,
two iterations, devices that take 0, 1, 3 or 4 frames and one that loses and
delays at will.

Deadlock is not checked where the modelled program ends (all runs but
`crc_sender`, whose callers may always call again, and `loss_models`).

### Fairness

Weak fairness of a task's steps: each task is a thread of its own on a core of
its own, and no step of the code blocks for ever when its guard stays true. The
busy-waits are guards (`Wait`, `PreLock`, `PostLock`); the mutexes are taken with
weak fairness only, which suffices because each task needs a slot a bounded
number of times. `Tick` is fair: the time stamp counter advances. The wire, the
user, the end of the program and the refusals of the NIC are not fair. In the RFC
2544 modules the timers of the tasks expire and the device under test does not
keep a frame for ever. `BackToBackEnds` is stated for executions in which MoonGen
is not stopped, since the two tasks read `dpdk.running` separately and a stop between
the two reads leaves one of them at the barrier; and in which the counter is never
overtaken by `bar:reinit`, since then it waits on for an arrival that does not come.

In `FlowTasks` the master, the load tasks, the count tasks that may leave, and
each scanning task go on; a load task waits for another one only at the lock, held for two
assignments, and takes finitely many steps, so fairness of the set of load tasks
is enough. Nothing makes `recv` return while the program runs, so `CountSees` is
not fair, and nothing has to stop the program. What `TasksEnd` says of the ARP
manager needs a sender in each flow with ARP: it does not look at `mg.running`, and
without one it never ends. After a failed assertion of the master nothing more is
claimed. `LoadEnds` does not claim that a load task with a data limit of 0 ends before the
program does: if the ring reports 0 packets as failed it tries again. In `MoonSniffFiles` the capture tasks poll without blocking
and the time of a measurement passes (`Expire`); the packets, the stop and the crash
are not fair.

## Proofs

TLAPS checks the following for every value of the constants that satisfies the
named assumptions (`CrcAssumption`, `SenderAssumption`, `LaunchAssumption`,
`LimiterAssumption`, `LoadAssumption`, `LiveAssumption`, `DevmgrAssumption`,
`MoonEmAssumption`, `LossAssumption`, `FilesAssumption`, `HistogramAssumption`,
`BackToBackAssumption`, `BenchAssumption`); TLC evaluates the same assumptions on each
instance. Every safety invariant the passing runs check is proved, except
`HistogramExact`, and so is the refinement.

| module | theorems |
|---|---|
| `CrcRateControl_proofs` | rate limiter: `CrcTypeCorrect`, `SpacingIsKept`, `FillersAreValid`, `BufferIsBounded`, `StatsAreExact`, `LossOnlyAfterDeletedTail`; delay emulator: `LoopTypeCorrect`, `OffsetIsTheWire`, `PacketsAreOnTime`, `PacketsAreAccounted` |
| `LoadTask_proofs` | `LimiterLosesNothing`, `RateIsBounded`, `DataLimitIsRespected` |
| `FlowTasks_proofs` | `QueuesAreOwned`, `CountersAreExact`, `StatsAreKept`, `TasksImplementLife` (the refinement) |
| `MoonSniffLive_proofs` | `LiveTypeCorrect`, `EntriesAreWhole`, `SamplesArePaired`, `StatsAreComplete`, `EntriesAreUsedOnce` |
| `MoonSniffFiles_proofs` | `FilesTypeCorrect`, `RecordsInMapping`, `AllRecordsAccounted`, `SamplesAreTrue`, `MatchingIsComplete` |
| `MoonEm_proofs` | `LoopsTypeCorrect`, `NoPacketEarly`, `TokenBucketContract`, `LeakyBucketContract`, `EveryPacketOnce` |
| `MoonEmLoss_proofs` | `LossesFollowChain`, `SharesFollowConfiguration` |
| `Rfc2544_proofs` | back-to-back: `BurstsInRange`, `TasksInStep`, `BufferMeasured`; throughput and frame loss: `ResultsAreValid`, `SearchIsPrecise`, `SweepIsComplete` |

Three theorems have a hypothesis of their own. `SearchIsPrecise` asks for an allowed
loss below one (`LOSS_NUM < LOSS_DEN`): otherwise every trial is valid.
`SamplesAreTrue` asks that the capture is not longer than the counter of the
identifiers (`NUM_PKTS <= WORD`), `MatchingIsComplete` that it fits the map
(`NUM_PKTS <= INDEX_BITMASK + 1`): a longer one reuses identifiers or slots, and
then two packets are told apart by their age only.

The inductive invariants, and why the properties alone are not inductive:

* **`CrcIInv`** (`RateLimiterCRC`). The gap asked for is, at every step, what fillers
  made so far plus what is left in `delay` or `previous_missing_delay`; the
  statistics are exact once the running call's `num_bad` is added.
  `FillersAreValid` rests on the lemma `DelayPacketSize`: for every gap of at least
  `MinGap` the filler is at least the smallest frame, at most `invalid_packet_size` and
  at most the gap, because the size is at least two smallest frames on the wire and at
  least half the slack of the middle branch (`CrcAssumption`; 1500 and 9000 satisfy it,
  with a `MIN_PACKET_SIZE` of 84 and of 84005 alike).
* **`LaunchIInv`** (transmit loop) relates the planned entries to `ends`, the value of
  the byte counter around each entry, and the wire to both: when packet *i* is about to
  leave, the bytes on the wire are `ends[i]` plus its gap, less what the rate
  limiter still carries. `OnTime` follows from the two truncations.
* **`AccountInv`** (transmit loop). `PacketsAccounted` is about the moments between
  batches. In between, the packets planned and not yet sent have to be counted,
  without those deleted as late; a function `c` with `c[k]` entries up to the
  *k*-th that are not deleted does so, step by step, without a cardinality.
* **`LimiterInv`, `LimitInv`** (software rate limiter and load task). The schedule
  is the start of the history plus the gaps since, whatever loop computes it, and a batch
  is in hand only while it is sent; what the ring accepted, the array being filled
  and what is left of the limit add up at each place of the load task.
* **`LiveIInv`** (MoonSniff live). A mutex is held by exactly the task between lock
  and unlock on its slot, and only the entry being written is not whole.
  `EntryWhole` says nothing of locked slots.
* **`ArrivalInv`, `UsedInv`** (MoonSniff live). The packets of the first tap are numbered;
  a timestamp is in one slot, or looked up, or in the estimate, and those not yet
  written come later than all of these. `LiveAssumption` makes the timestamps of the first tap
  distinct, which the clock of a NIC does.
* **`MgrInv`** (device manager). As many queues are reserved on a device as tasks that
  asked for one, as many handed out as tasks started: so an index stays below what
  was reserved, and receive queues stay behind all RSS queues, also those
  of tasks not yet started.
* **`CounterInv`** (activity counter). Who is in `inc` or `dec` holds the lock and
  what it read is still true; a counter that reads as zero belongs to a flow that
  has ended, also between the two assignments of `inc`.
* **`StatsInv`** (device statistics). While a round compacts the list, the *live*
  positions are those before the hole and those not yet visited; they hold each
  counter that is not finalized exactly once.
* **`WatchInv`** (monitors). The flows a scan has passed without finding one active
  have ended. This is what a monitor knows when it leaves, although it looked at its
  flows one after another and without the lock.

* **`RoomInv`, `FileInv`, `UniqueInv`** (capture). A mapping is never smaller than it
  began, which is why doubling it once makes room for a record; each whole record in
  a file is that of a packet the tap has handled, and only a crash leaves a file within a
  record; identifiers differ within a file.
* **`MatchInv`** (matching). Where a reader is in its file follows from how many records
  were entered or looked up; the first record of the first file stays in `precap` when
  `initialFill` took the whole file, which is why it is entered twice.
* **`SampleInv`** (matching). The map holds entries of captured packets only. With the
  lemmas `DiffOfWords`, `LatencyOfWords` and `LatencyOfHalf` about differences
  modulo a word, the difference of two timestamps of one packet is its latency
  exactly for the `Measurable` ones.
* **`CompleteInv`** (matching). Each record of the first file is in the map and
  nothing asked for it yet, or it was asked for and is a sample. Lemma `IndicesDiffer`: identifiers less than a map apart
  have slots of their own.
* **`BurstInv`** (MoonEm, software). All packets of a burst carry one departure time, in
  the ring and, where a dequeue may have cut the burst off, with the transmitter; so
  waiting for the first packet is waiting for each.
* **`DelayInv`** (MoonEm, all loops that delay). A packet keeps the departure time it was
  accepted with from the receiver to the wire, and that is at least its reception plus
  the delay.
* **`TokenInv`, `LeakyInv`** (MoonEm, buckets). `TokenBucketConforms` is about every
  interval, so the invariant is about every suffix of the packets let pass: the tokens
  left, and what flowed in since it began, cover it. For the leaky bucket it is about the
  time the link is free again: all let pass since any packet has left by then.
* **`AccountInv`** (MoonEm). Receiver, ring, transmitter, wire and pool are the stages of
  a pipeline, each in order and before the next; each packet received is in
  exactly one of them. As a ring at least as large as the pool has room for a burst
  taken from it, no enqueue fails.
* **`LossInv`** (loss models). The parameters are the scaled ones; lemmas `ScaleExact` and
  `DrawsBelow` count the random numbers below a threshold.
* **`StepInv`** (back-to-back). One of the two tasks is ahead by a verdict at most, what
  the other one will decide on is already published, and the barrier counts
  those who wait, unless the counter has been overtaken; then neither of
  them passes it again.
* **`PreciseInv`** (back-to-back). The buffer of an orderly device lies between the bounds
  of the search, and the frames in the device and those counted are the burst.
* **`TrialInv`, `RateInv`** (throughput and frame loss). Where each task of a trial stands
  decides which frames are under way on which port; every trial narrows the
  search or lowers the rate, so ports do not run out and frames of an earlier
  trial are never on the port of a later one.
* **`ValidInv`, `SearchInv`, `SweepInv`** (throughput and frame loss). What is reported
  was a trial; the capacity lies between the bounds of the search; the sweep has
  seen all its rates down to the current one.

`TasksImplementLife` shows that under `Inv`, the conjunction of `MgrInv`, `CounterInv`,
`StatsInv` and `WatchInv`, the initial states map to initial states of `FlowLife` and
each step of each task to one of its steps or to a stutter.

Only model-checked: everything about liveness; and `HistogramExact`, whose reference
definitions of mean and variance sum over a sequence by a recursive function, and what
such a function computes for every input needs an induction that is out of the
installed provers' reach.

## Findings

* `data_limit`: `stop` is honoured as soon as a dequeue fails, not when the ring is
  empty; with cbr and poisson a tail shorter than a batch is never sent.
* `moonem_loss`: the software rate limiters test `config.loss`, which only the
  uniform model sets, instead of `config.loss_type`.

The models show more places where the code does not do what it seems meant to;
they have no run of their own:

* `send_packets` skips deleted entries with `continue`, also the last one, and then
  the flush that follows in the loop body does not happen (`LossNeedsDeletedTail`
  says that this is the only way to lose frames).
* `test_for` reports a latency below the threshold as ignored and then counts it
  (`UpdateStats` of `MoonSniffLive`).
* The two parameters of q2 of the NetEm model add up to 2^64 unless rounding makes the
  sum smaller; then (with 25, 50 or 75 percent, for example) it wraps to 0 and q2 is
  left for q4, not for q3 as its comment says. The second parameter of q1 is 100 - p14
  where the probability of going to q4 belongs, so its sum wraps as well and p14 hardly
  matters. Those of q3 and q4 lie behind the struct. `SharesAsConfigured` leaves these targets out.
* `bench` of back-to-back compares the result of the load task with a global that is
  never assigned, so it notes -1 for every device and warns although both tasks agree
  (`Report` of `BackToBack`; libmoon's `wait` is taken to return the result on every
  call, as the code expects). `BurstPrecise` is about the lengths the tasks return,
  which are not used otherwise.
* `bar:reinit` before the counter has left the barrier makes both tasks wait for ever
  (`Overtaken`); only the 100 microseconds prevent it.
* A stop between the two tasks' reads of `dpdk.running` leaves one of them at the
  barrier of back-to-back, and a burst cut short by a stop is credited in full.
* A flow with several senders can be over and begin again, when one sender is done
  before the next is started; its monitors may have left by then
  (`several` of `FlowLife`).
* The ARP manager does not look at `mg.running`, and for a flow with ARP that nobody
  sends it never ends (`TasksEnd`).
* `countThread` goes on *while* its timer is not running, the reverse of what a timer
  for late packets is for (`CountEnds`).
* With 32-bit timestamps a small negative latency across a wrap becomes a sample of
  about 2^32 ns (`Measurable`), and a timestamp of 0 counts as no entry. The
  work-around for that wrap is applied to 64-bit timestamps as well, where it changes
  negative latencies of more than half a word.
* When `initialFill` takes the whole first file, its first record is entered and counted
  twice, so `pre_pkts`, by its comment the "number of packets received on pre port"
  (`arrmatch.lua:70`), is one more than there are. When it stops earlier, the record it
  stopped at is never entered (`RecordsAccounted`).
* A packet without a timestamp ends a task of MoonSniff's live mode (`Continues`).
* Two assertions of the flow interface are left to the user: `PrepareFails` and
  `TsMixed`. The latter ends the timestamping task only, and the program goes on.
* `pcap_log_pkts` asks for 8 bytes less than it writes when timestamps are in the mbuf,
  so a record may end up to 7 bytes behind the mapping's nominal end (`PcapRoom`).
* `ms_log_pkts` is not given `--time` and ends with the program only
  (`CaptureEnds`); it appends to a file that exists, and the model begins without one.

## Not modelled

* RFC 2544's latency benchmark: load tasks and a timestamping task that meet once at a
  barrier, without a search; what it measures happens in libmoon's timestamper. The step of the frame loss sweep is floating point in the
  code; the model allows both outcomes at exactly 5 percent.
* Matching of pcap files (`pkt-matcher.lua`): a user-supplied function decides what
  matches. The mscap writer in Lua is called by a debugging function only.
* The running mean and variance of MoonSniff's live mode and its histogram of
  inter-arrival times: they are written by one task and read after it has ended.
* How `loadThread` updates the fields of a packet, and the identifiers (`uid`) the
  count and the load task pass each other.
* Flow files, options, units, the command line and help of the interface: sequential
  text processing on data no other task shares.
* SSH, SNMP and report generation of `rfc2544/utils`: I/O. `snmpc.c` exports
  `luaopen_snmp` while `snmp.lua` requires `utils.snmpc` and then uses a global
  and a session nothing sets, so no run of the program gets there.
* Software timestamping (one memory write), start-up code, the example scripts other than
  MoonEm's and MoonSniff's, the hardware tests.

Floating-point rounding, the contents of packets and the failure of allocations and
system calls are abstracted everywhere.
