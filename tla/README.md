# A verification project for WireDAQ

WireDAQ is a data-acquisition link: nodes encode sample blocks into CRC-checked frames with a
32-bit sequence number, a link carries them (and loses, doubles, reorders, corrupts or delays
them), and a ground station decodes them and works out from the sequence numbers alone what the
link did. This directory models that path in TLA+, checks it with TLC and proves parts of it
with TLAPS. Paths below are relative to the repository root; the Python package is `src/wiredaq`.

## 1. Inventory

| component | state it keeps | operations | what makes it correct |
|---|---|---|---|
| `Collector` (`daq_sim/collector/collector.py`) | per node: packets, samples, lost, reordered, duplicated, heartbeats, first and newest sequence number, last-seen time, a bounded window of remembered numbers; totals; the sinks | `process` (`_track`, `_remember`, fan-out), `run`, `expected`, `stale_nodes` | the record agrees with what happened to the frames, up to the stated limits of the window |
| `ImpairmentTransport` (`daq_sim/transports/impairment_transport.py`) | one hold-back slot, a heap of delayed frames, seven counters, the inner transport | `send`, `recv`, `flush`, `close` | counters tell exactly what was done to frames; nothing else is lost, doubled or reordered; nothing stays behind |
| `InProcessTransport` and the `Transport` port (`in_process.py`, `core/interfaces.py`) | a FIFO | `send`, `recv`, `close` | loss-free, ordered |
| `SyntheticNode` (`daq_sim/nodes/synthetic_node.py`) | sequence number, data budget, blocks since the last heartbeat | `next_frame` | every frame one new number, heartbeats included, and not charged to the budget |
| `FrameReceiver` (`ground_station/receiver/frame_receiver.py`) | received, CRC errors, framing errors | `packets` | every frame pulled off the link is counted once |
| slice CLI (`cli/slice.py`) | where `run()` is, the generators still active | send loop, flush, final drain, close | ends; leaves nothing in the link |
| clocks (`core/clock.py`) | the time | `advance`, `set_to` | never goes back |
| `StreamReceiver` (`ground_station/receiver/stream_receiver.py`) | a byte buffer, four counters | `packets` (`_fill` and the framing loop) | finds the same frames however reads cut the stream; accounts for every byte; loses no intact frame but to a false header |
| serial transports (`serial_transport.py`, `serial_port.py`) | a byte pipe, noise counters | `send`, `recv` | bytes stay in order |
| `UdpTransport` (`udp_transport.py`) | two sockets; in the kernel, datagrams under way and a receive buffer | `send`, `recv`, `close` | what the kernel drops shows up as loss; the drain keeps up |
| `RawFrameLogger`, `ReplayNode` (`logger/raw_logger.py`, `nodes/replay_node.py`) | a file of length-prefixed records, two counters; the frames and an index | open, `consume`, `close`, `read_raw_log`; `next_frame` | the archive is what was received; a torn tail costs only the torn record; the replay reproduces the session |
| `ClockModel` (`timing/clock_model.py`) | per node: number of points, two means, three co-moments | `update`, `ready`, `skew`, `to_ref`, residual | the streaming fit is least squares; exact where latency is constant; never backwards without disorder |
| codecs (Python, C, C++, Rust) | none | encode, decode | same frames accepted, same order of checks |
| clock-sync CLI (`cli/clocksync.py`) | the reference clock, a block's arrivals | `run` | the clock is never asked to go back |
| Rust scenario simulator (`crates/wiredaq-rs/src/scenario.rs`) | per node: a wire of deliveries, a stuck channel, a receiver; the report | `run_scenario` | the report is what happened on the wire |
| sinks, dashboard, CSV, serial CLI, reference encoder, firmware `main` | presentation (the CSV sink's time column reads the clock fit) | | |

**Interaction.** The programs are single-threaded. `slice.run` makes nodes, link, receiver and
collector; in each round it asks each active generator for a frame and calls
`transport.send(frame)` for all of them on *one* shared link, then `collector.run()`, which pulls
`receiver.packets()`, which calls `transport.recv()` until it returns `None`; then it advances
the simulated clock. When every generator is dry it flushes the link, drains once more and closes
everything. The nondeterminism is in the link's random draws, in when the clock moves between two
calls (other programs use a wall clock), and in a sink that raises.

**What is hard here.** The record of the collector is an *inference*: loss is credited when a gap
opens and taken back when a frame comes late, duplicates are known only within a bounded window,
numbers wrap, the first frame heard need not be the first sent. The link combines four draws with
a hold-back slot and a time-ordered heap; a frame can be held when the stream ends; with jitter
the frame a held one was to follow may be released after it. On a serial line a read may end
anywhere, and a sync word may be noise or samples. Over UDP the kernel drops
datagrams behind the program's back and the last drain stops on a count and a deadline. A capture
may be cut by a death anywhere, in a length or in a frame, and its frames are not the received bytes
but encoded again. A clock fit takes whatever point comes: copies, late ones, several at one instant.
`PROJECT.json` lists these hazards
at their lines, with the properties that cover each.

## 2. Modules

| module | models | in the code |
|---|---|---|
| `SeqRing` | the sequence ring and the signed delta on it, for any even modulus (2^32 in the code) | `seq_delta`, `_SEQ_HALF`; `next_frame`'s mask |
| `LossyLink` | **abstract**: what any WireDAQ link promises: a frame is lost when sent or comes out once or twice, in any order | the `Transport` port |
| `Impairment` | the link, every operation, with its counters, slot, heap, inner FIFO and clock | `impairment_transport.py`, `in_process.py` |
| `Collector` | `_track`, `_remember`, `process`, `stale_nodes` | `collector.py` |
| `Station` | **abstract** environment: nodes that emit, a `LossyLink`, and the real `Collector`; history variables hold what really happened | the promise of the whole path |
| `Pipeline` | `slice.run` step by step: nodes, `Impairment` (instanced), CRC check, `Collector` | `slice.py`, `synthetic_node.py`, `frame_receiver.py` |
| `WireFormat` | the frame: layout, encoder, the decoder's checks | `wiredaq_codec.py` |
| `StreamReceiver` | the framing loop, one action per way through an iteration | `stream_receiver.py` |
| `OrderedLink` | **abstract**: frames may be lost; what comes out was sent, at most once, in order | the `ByteStreamTransport` port with its receiver |
| `SerialLine` | a noisy serial line and the receiver behind it | `serial_transport.py`, `serial_port.py`, loop of `cli/serial.py` |
| `RawLog` | the archive: records, the file and its buffer, a death, `read_raw_log` | `raw_logger.py` |
| `UdpLink` | the sockets and the kernel behind them | `udp_transport.py` |
| `Capture` | the slice over UDP with a raw log, its polling drain, deaths, restarts and the replay of what was captured | `slice.py`, `replay_node.py` |
| `ClockModel` | the fit, as pure operators in exact fractions | `clock_model.py` |
| `ClockSync` | where the collector fits: the clock-sync program, and the slice with its CSV time column | `clocksync.py`, `slice.py`, `csv_logger.py` |
| `Scenario` | the simulator: sender, link, receiver, one node after the other | `scenario.rs` |
| `NumberProofs`, `LinkProofs`, `StationProofs`, `PipelineProofs`, `SerialProofs`, `ClockProofs`, `CaptureProofs`, `ScenarioProofs` | the proofs | |
| `MCImpairment`, `MCStation`, `MCPipeline`, `MCSerialLine`, `MCCapture`, `MCClockSync`, `MCScenario` | constants for TLC | |

How they compose: `Pipeline` instances `Impairment` and extends `Collector`; `Station` instances
`LossyLink` and extends `Collector`; `SerialLine` extends `StreamReceiver`, which extends
`WireFormat`; `Capture` extends `Collector`, `RawLog` (which extends `WireFormat`) and `UdpLink`;
`ClockSync` extends `ClockModel`; `Scenario` stands alone, as the simulator does. Three refinements tie the levels together:
`Impairment!IsLossyLink` (the transport implements the abstract link),
`Pipeline!ImplementsStation` (the program implements the collector behind an abstract link, where
a corrupted copy is one that never arrives) and `SerialLine!IsOrderedLink`. So a property of `Station`, checked over *every*
behaviour of a lossy link, holds of the program. All three are proved as well as checked.

**State and actions against the code.**

- *`Impairment.link`* is the object: `held` is `_held` (0 for `None`), `scheduled` the heap
  `_scheduled` in the order `heappop` would return it (the tiebreak counter makes that order
  total, so a push goes behind its equals), `inner` the queue of the wrapped transport, the rest
  `ImpairmentStats`. A knob of the configuration is the *set of outcomes* its draw can have:
  `{FALSE}` for probability 0, `{TRUE}` for 1, `BOOLEAN` in between. `send` is one action per
  path through it (`SendLost`, `SendHeld`, `SendPassed`, `SendOvertaking`); `Emit` draws corrupt
  and duplicate and a latency per copy; `Recv` first releases what is due, as `recv()` does.
  Frames are numbered in the order they are offered and a copy carries only its number and
  whether it is intact: payloads are data no property reads.
- *`Collector.nodes[n]`* is the `NodeStats` of node `n`. `_seen` is the set of entries of `_seen_q`
  (the code adds to and discards from both together), so only the queue is a variable. `Process`
  is the whole of `process()`; `reached` says how many sinks consumed the packet before one raised.
- *`Pipeline`*: `pc` and `turn` are the position in the loop, `source[n]` a node's counters,
  `sent` the frames handed to the link. `SendFrame` is one iteration of the inner `for`,
  `ReceivePacket` one of `FrameReceiver.packets` together with the `process` of what it yields
  (the generator hands the packet over before the next `recv`), `EndRound` the end of
  `collector.run()` and `sim_clock.advance`, `FlushLink`, `Close` the rest. A tick is one round.
- *`WireFormat`* keeps one cell for each header field a receiver branches on; the four fields no
  receiver branches on are one cell, a sample and the check sum take one each (24 bytes become 7
  cells). The alphabet is the two bytes of the sync word, the values a good header can have and
  one more. The check sum is ideal: different contents, different sums.
- *`StreamReceiver`*: `buf` is `_buf`, `scanning` says that the `while True` of `packets()` runs.
  Each iteration is `NoSync` or, for the first sync word at `at`, one of `AwaitHeader`,
  `FalseSync`, `AwaitFrame`, `Reject` (`CrcError`), `Refuse` (`FramingError`), `Yield`; each
  includes discarding the noise before the sync word. `front` and `spans` are history.
- *`SerialLine`*: `Send` is `NoisySerialTransport.send`, `Poll(n)` a call of `packets()` that finds
  `n` bytes of the wire to read, `n = 0` included. The loopback pipe hands over everything (its
  chunked `recv` is called until it is empty); a real port, or a test that sends slices, any part.
- *`RawLog`*: `written` is what was handed to the open file, `disk` what is there once the process
  is gone: all of it after `close`, any prefix after a death (`DieWith`), because the file object
  writes its buffer through when it likes. `Reencode` is the logger's choice of encoder by type.
- *`Capture`*: `pc` is the place in `run` and `_final_drain`, then in the replay. `Receive` is one
  iteration of `FrameReceiver.packets` with the whole of `process`, counting, CSV and logger
  included; what a death between two of those leaves differs from a death before or after them
  only in the file, of which any prefix may remain anyway. `Kernel` moves a datagram at any moment.
  `run.clock` is the wall clock of the last drain, in timeouts of `select` and up to the deadline: a
  timeout moves it by one, and the reading and handling of a round's packets (`EndPoll`) by any amount.
  `past.rounds` is the history of that drain, round by round: whether `select` timed out, whether a
  packet was decoded, whether a frame was damaged.
- *`ClockModel`* keeps the means times `Scale` and the co-moments times `Scale` squared; `Scale` is
  a multiple of every number of points, so that no division leaves a rest and every comparison is
  exact. A skew is a fraction; `Nearest` is Python's `round`, halves to even.
- *`ClockSync`*: in the clock-sync program a block is `EmitJittered` and one `DeliverDue` per
  arrival, in the order of `sorted`; `SetToRaises` is the refusal of `SimClock.set_to`. In the slice
  `pending` is all of the link: any frame in it may come out next, in any later round, which is
  what `LossyLink` promises and `Impairment` is proved to keep.
- *`Scenario`*: one node after the other goes through `Emit` (one packet: samples, loss, jitter,
  hold-back, doubling), `Receive` (the next delivery in the order of the stable sort) and `EndNode`.
  Time is in thirds of a microsecond in the run. `at`, `duration` and the multiples of a period are the
  exact times a scenario means; the numbers the code compares differ from them by up to `rounding`,
  each time of sending (`Rounded`) and arrival by an amount of its own, and the two ends of a burst and
  the begin of a stuck fault by amounts that the scenario fixes (`from`, `until`). Floating point
  rounds nearly everywhere here: `205 / 100 * 1e6` is 2049999.9999999998. The three counters of the sender that no
  draw touches, `decoded_ok` (always `delivered_packets`) and the frames' contents are left out.

## 3. Runs

| run | question | bounds |
|---|---|---|
| `Impairment` | do the counters tell the truth, is order kept, does it implement `LossyLink`, does every kept frame arrive? | 3 frames, 1 tick, 5 configurations |
| `ImpairmentOvertaken` | is every reorder counted an overtaking? **no** | 2 frames, 1 tick, jitter 1 |
| `StationTracking` | is the record right, over every order, loss and duplication; is the stale-node alarm? | 1 node, 4 frames across the wrap, window 2, ring of 16, 3 ticks, threshold and latency 1 |
| `StationFanOut` | do totals, records and sinks agree, whichever sink raises? | 2 nodes, 2 frames each, 2 sinks, no clock |
| `StationLateCredit` | does a late frame always fill a counted gap? **no** | 1 node, 4 frames |
| `Pipeline` | end to end: accounting, termination, refinement of `Station` | 2 nodes, 2 data frames and a heartbeat each, 7 configurations |
| `SerialLine` | does the framing loop find what is there, however the stream is cut and damaged? | 2 frames, 1 burst of noise, 1 flipped byte anywhere, every cut |
| `Capture` | is the archive what was received, whatever a death leaves; does the replay reproduce the session; does the UDP drain keep up and end? | 2 nodes, 4 packets in 3 rounds, the last empty, a buffer of 2, 2 idle polls or 3 timeouts, any number of deaths |
| `ClockSync` | is the streaming fit right, and what does jitter, loss or disorder do to it? | 1 or 2 nodes, up to 4 blocks, jitter 2 at a block of 3, 1 frame doubled, 6 setups |
| `Scenario` | does the simulator's report say what happened on its wire? | 1 or 2 nodes, up to 5 packets, 9 scenarios |
| `ScenarioHeld` | is a packet held back overtaken by its neighbour? **no** | 2 packets, no jitter, no rounding |
| `ClockSyncBeacons` | is a heartbeat an anchor of the clock fit? **no** | 1 node, 2 blocks and a heartbeat |

*Why the bounds are enough.* The slot of the link is one deep and the heap orders by time only:
three frames give a held frame, its overtaker and one behind them (or a second held frame), each
possibly doubled, lost or delayed past a tick. Both jitter configurations allow a latency of 0,
of the tick, and (with a base delay) of one beyond the last tick the model has, so that only
`flush` releases it; with a negative draw the code's clamp at zero is exercised. In
`StationTracking` four frames exceed the window of two by two, so that stale duplicates occur,
and the node's numbers wrap after the second frame, so that late frames, gaps and repeats straddle
the wrap; the ring of 16 keeps every distance below half the ring, as 2^31 does for any session
the programs can run. The alarm needs the clock to pass threshold plus latency (2) and one more; each node has an
alarm of its own, so one node is enough. In `StationFanOut` the second of two sinks has one before it, and either may raise on any of
four packets, so that a raise is followed by packets that reach both, one or none of them. A tick in `Pipeline` is a round; two rounds after the last frame end every run, and the
alarm threshold there is that: over the perfect link without latency every node has been silent for
exactly the threshold at the close, over the one with a latency of two rounds its last frames come
with the flush. In `Pipeline` knobs are combined pairwise: each property relates at
most two kinds of impairment, and `Impairment` covers their full product. In `SerialLine` the first
frame's samples spell a sync word; a flipped byte may be any of its bytes (so a count that grows
makes it swallow the start of the second frame, or wait for bytes that never come, and one that
shrinks leaves its samples behind as noise), and the bursts hold half a sync word, a whole one, and
the starts of two false headers. `MaxPacketBytes` (11 cells for 256 bytes) is one cell more than
the first frame, so that headers claim lengths on both sides of it. `Capture` sends two blocks, a
block and a heartbeat, and nothing (the round in which the generators run dry), each frame
corrupted or not: two per round fill the buffer exactly, so one datagram late by a round overflows it; two idle polls and three timeouts (5 and 30 in the code)
let the drain end by the count, by the deadline (be it that handling packets used it up), and with a
poll that starts the count again; every
prefix of every file is a death. Deaths and restarts need no bound, because a restart empties
everything. In `ClockSync` a jitter of two thirds of a block makes an arrival come after the next
one is due; three or four points are where the fit is no longer two points on a line; `Scale` is 12,
which one to four and six points divide (`ScaleDivides` says so of every number of points a set-up can
give a node's fit: its blocks, the heartbeats between them and the doubled frames). In `Scenario` the jitter of a serial line is on both sides
of half a period, and jitter may be as large as three quarters of a period on a datagram link; the
burst begins exactly at a packet and ends exactly at another, in one scenario with both of its ends
rounded away from it. A rounding of one is a twelfth of a period: enough to break any tie, and no
packet is mistaken for its neighbour (`ScenarioAssumption` asks for less than half a period).

*Constants.* `MaxFrames`, `MaxEmit` bound the frames, `MaxTime` the clock; they stand in the
guards of `Send*`, `Emit` and `Tick` and nowhere else; `MaxBursts`, `MaxDamage` bound the noise in
`SerialLine!Send`, `MaxDoubled` the doubled frames in `ClockSync!EmitRound`. `Capacity`, `IdleRounds`
and `Deadline` are numbers of the code or the kernel, smaller. `SessionAssumption`
says that a node sends at most half a ring of frames (2^31 in the code): beyond that a sequence
number alone cannot tell old from new. `Pipeline` has it too, for the frames of its packets and heartbeats. `MaxLatency` (a copy that arrives does so
within it) is an assumption on the link, used by `StaleContract` only: without it no alarm can
tell an old copy from life. `NodeSymmetry` is used where nodes start alike and only state
invariants are checked.

*Deadlock* is not checked: all these systems stop (all frames sent and received, or the run closed).

*Fairness.* `Impairment!FairSpec`: the programs send all frames, poll `recv()` until the end and
flush when the stream is over, all from one thread that waits for nothing, so each of these calls
keeps being made: weak fairness on `Send`, `Recv` and on `Flush` *after* the last frame. None on
the clock: `EveryKeptFrameArrives` holds though it may stop. `Pipeline!FairSpec` is weak fairness
of the single thread's next step. `SerialLine!FairSpec`: weak fairness of the framing loop, and
strong fairness of a poll that finds everything sent, because a program that keeps polling (it does)
meets the line's bytes sooner or later while polls that find less come in between; none on sending.
`Capture!Spec`: weak fairness of the program's and the replay's next step, which waits for nothing but
`select`'s timeout; none on the kernel, a death or a restart: `Ends` holds though datagrams may stay
under way for ever. `ClockSync!Spec`: weak fairness of the one thread. `Scenario` states none.

### What the runs show

*Link.* `Conservation`: at every moment the counters balance the frames offered and the copies in the
slot, the heap and the queue. `CountersTell`: the frames gone without trace are `dropped`, the doubled
ones `duplicated`, no others, with a held or delayed frame counted in neither. `ReorderedExact`: without
jitter the reorder counter is exactly the number of frames overtaken (a held frame whose overtakers
were all lost, or that `flush` released, does not count), and with the knob off the link is FIFO, copies
and `flush` included. `EveryKeptFrameArrives`; `IsLossyLink`.

*Collector.* `HighWaterExact`: the newest number is found across the wrap in any order.
`LossNeverOverstated`, `LossUnderstatedAtMost`: `lost` lies between what is really missing and
that less one for every frame older than the first heard and every stale duplicate beyond the
window. `DuplicatesExact`: within the window duplicates are recognised however old. `StaleContract`:
no false alarm, no missed one, given the latency. `TotalsAgree`: the totals are the sums of the records
whether or not a sink raises, and what a sink consumed and what it raised on are together exactly what
the sink before it consumed (for the first: all packets counted); so earlier sinks have a packet that
a later one raised on, and still later ones do not.

*Slice.* `NothingLeftBehind`, `LossIsReal` and `LinkExplainsStats` relate the collector's record to
the link's counters, damaged frames included: at the end the CRC errors are the rejected copies, these
are copies of exactly as many frames as the link damaged, and no copy of such a frame was accepted.
That the duplicates found are *all* the link made needs a window that holds a whole session: a long
heartbeating session may forget the number of a frame before its copy comes. Reorders: where nodes
share a link, its counter may count an overtaking by another node's frame, never the reverse.
`PerfectLinkPerfectStats` is the absence of false findings, of stale nodes too: a threshold off by one
would report every node at the end of a run without latency; `Terminates`; `ImplementsStation`.

*Serial line.* `ChunkingIrrelevant`: once the loop waits, it has taken exactly the frames that
`Whole`, a definition over the whole stream with no buffer, takes. `BytesAccounted`: the buffer is the
unread tail of the line, the frames taken are disjoint and in order in what is before it, every other
byte there is counted once in `resync_bytes`, and the counters of received and rejected frames are the
numbers of those. `BufferBounded`: what waits is less than one frame. `IntactLostOnlyToFalseHeader`: an
undamaged frame read in full is yielded unless a header before it claimed its first byte. So the damage
to a stream is limited to one frame length behind each bad header, and at the end of a stream such a
header can withhold intact frames for good. `CleanLineDelivers`: without noise every frame arrives,
whatever the samples look like. `ScanEnds`: the loop never spins. `IsOrderedLink`.

*Capture.* `ArchiveIdentical`: the file reads back as the received frames, byte for byte, though
each was decoded and encoded again. `WholeRecordsRecovered`: of a capture a death has cut, at any
byte, `read_raw_log` yields every whole record, then raises exactly if one is torn. `ReplayReproduces`:
the replay of a session ends in the session's record (`last_seen` aside: the log has no times of
arrival), also on a file an earlier session died on. The run's script repeats no packet; that
duplicates are reproduced too is only in the theorem `ReplayExact`. `LeftBehindWasLate`: the drain leaves
a datagram behind only if its deadline is reached (the clock also runs while packets are handled), or
if its last two rounds (five in the code), one after the other, brought no packet, each having waited
out its timeout or read a damaged frame: a poll that reads only those counts as idle and takes no time.
`OverflowNeedsLag`: a buffer that
holds a round's frames overflows only if one was still under way when its round's drain ended. `Ends`:
no run hangs. `TypeOK`: the counts never pass their limits, nor the position the script.

*Clock fit.* `FitIsLeastSquares`: Welford's moments are those of all the points, at every packet; a
slope exists from the second *instant*, not the second point. `SteadyIsExact`: under a constant
latency, whatever is lost or doubled, skew, `to_ref` and the CSV column are exact. `ForwardUnlessDisorder`:
no jitter turns a fit back; only late or doubled packets or heartbeats do. `Completes`: the
reference clock is never asked to go back (the theorem `NeverRefused` has that the refusal is unreachable).

*Simulator.* `ObservedIsDropped`: what the receivers miss is what the link dropped. `SerialInOrder`: a
serial line keeps its order up to a jitter of half a period. `OvertakenByNeighbourOnly`: without jitter
a packet is overtaken by the one sent next or by none, whichever way rounding breaks the tie of a held
packet and its neighbour. `FaultsInTheirWindow`: a sure burst loses the packets of its window and no
others, and a stuck channel has one value from its fault on, its own before it, and on other nodes
always; only packets within the rounding error of a fault's begin or end may do either.

`TypeOK` of `Impairment`, `Station`, `Scenario` and `SerialLine`, and `Accounted` of `Scenario` (copies
delivered, dropped and doubled add up), are proved and not run.

*Limits met on the way*, each at the property that has it as a condition or leaves it open:

- `collector.py:58` calls `expected` the packets that "*should* have arrived in-order"; it is
  `packets + lost`, and `packets` counts duplicates, so that one frame delivered twice makes two
  expected and the loss percentage is diluted.
- `stream_receiver.py:57` calls CRC errors "well-framed packets rejected by the CRC check (corruption)".
  Noise that spells the first bytes of a header takes the rest of it from the undamaged frame behind it;
  that frame is lost and counted as corrupted (`IntactLostOnlyToFalseHeader` allows it, and no more).
  In the code it takes eight bytes of noise, `57 44 01 01` and any four: the counts
  then are bytes 14 and 15 of the good frame, high bytes of its time, zero in the first 70 minutes.
- `scenario.rs:182-183`: "a single serial wire delivers bytes in order, so packets can't overtake each
  other there", but only the hold-back knob is kept from it; jitter of more than half a period reorders
  packets on a serial wire (`SerialInOrder`).
- `scenario.rs:48`: "during `[at_s, at_s+duration_s)`", but both sides of the comparison are rounded: a
  burst of `at_s` 0.1 and `duration_s` 0.2 ends at 0.30000000000000004, and the packet a 10 Hz node sends
  at 0.3 is lost (`FaultsInTheirWindow` claims nothing within the rounding error).
- `scenario.rs:49-50`: a stuck channel "freezes at its last live value", but healthy packets leave `None`
  behind, and the first packet under the fault freezes the value it would have had
  (`FaultsInTheirWindow` claims one value, not which).
- The simulator's observed loss uses the number of packets the *sender* made; the losses a receiver
  can know from the numbers it has are those before the newest.
- `ReplayNode` reads the whole file at once, so that a torn tail makes it refuse the intact records in
  front of it too; `read_raw_log`, used as an iterator, yields them.
- A row of the CSV has the fit of its moment. In runs of more than a few packets the column of a
  jittered node can step back; no property says otherwise.

### Findings

1. `ReorderedReal` (`impairment_transport.py:176-178`): with jitter the held frame and its
   overtaker draw their own latencies; the held one may come out first and is counted as
   reordered all the same.
2. `LateFillsGap` (`collector.py:139-140`): a late frame older than the first one heard takes back
   a loss it never caused: arrivals 1, 3, 0 end with `lost = 0` and frame 2 missing.
3. `HeldIsOvertaken` (`scenario.rs:244-245`): "so its neighbour overtakes it". A whole period makes the
   held packet *tie* with its neighbour, and the stable sort keeps the order. With one sample per packet
   at 1000 Hz, 1952 of the first 2000 packets would tie exactly in `f64` and 24 be overtaken by a
   rounding error; otherwise only jitter makes the overtaking real. What holds of the knob is
   `OvertakenByNeighbourOnly`.
4. `BeaconsAreAnchors` (`collector.py:112-113`, `clock_model.py:11-13`, `slice.py:142`): "every frame carries
   `t_node_us` (data or beacon), so each is one regression anchor" for a skew that is the injected drift.
   In the slice a heartbeat takes a round of the reference clock and none of its node's, so the next
   block has the heartbeat's time a block later, and the fit shows a drift that is not there: 40 blocks
   without drift, with a heartbeat every 10, are fitted as -86379 ppm. `SteadyIsExact` excludes such nodes.

## 4. Proofs

**The link.** `LinkProofs` proves, for every set of configurations and all bounds:

- `TypeCorrect`: `Spec => []TypeOK`;
- `FramesConserved`: `Spec => []Conservation`.

From: `ConfigAssumption` (knobs are sets of Booleans, times are naturals) and `BoundAssumption`.
Argument: a transport has *books*, `Ledger` (copies emitted less duplicates) and `Slack` (inner
queue against `delivered`). `KeepsBooks(l, p, n)` says that going from `l` to `p` emits `n` frames
and leaves slot, `offered` and `dropped` alone. Each helper has its lemma: `PushEffect`,
`ScheduleBooks` (1, with or without latency), `EmitBooks` (1, doubled or not: the extra copy and
`duplicated` cancel), `ReleaseBooks`, `ReleaseDueBooks` (0); they compose by `BooksAdd`. The
inductive invariant `IInv` is the types with the two balances in terms of the books; types are
needed because the counters are read through sequences' lengths, and the balances are already
inductive given them. One lemma per action shows that it preserves `IInv`.
`InsertLength` is the fact about the heap they rest on: a push makes it one longer.

It goes on to prove that the detailed transport implements the abstract link:

- `CountersTellAll`: `Spec => []CountersTell`;
- `ImplementsLossyLink`: `Spec => IsLossyLink`, the refinement, safety and all;
- `ReordersCounted`: `Spec => []ReorderedExact`.

The books are not enough for it: they balance when one frame vanishes and another is tripled. The
invariant counts *per frame*: `Total` is the copies of a frame in the inner queue, the latency buffer,
the slot and the reader's hands, and `Census` says that it is 0, 1 or 2, 0 for a frame not yet
offered, 1 for the one in the slot (which is emitted only later, and may be doubled only then), and
that `dropped` and `duplicated` are the sizes of the sets of frames offered with 0 and of those with 2.
`CountConcat` makes counts additive; from it each helper has its lemma (`InsertCounts`: wherever the heap puts an
entry, nothing else moves; `ScheduleMoves`, `EmitMoves`, `ReleaseMoves`, `ReleaseDueMoves`), and four
lemmas keep the census through the four things a call can do with a frame (`CensusMoves`, `CensusLoses`,
`CensusEnters`, `CensusReleases`). The same counts are the refinement mapping (`View`), so that each
action's lemma (`LostStep` to `FlushStep`) gives both the census after it and the abstract step: an
overtaking `send()` is an `Accept` of the new frame that may double the held one with it, a `flush()`
a `Double` of one frame or none.

A second invariant, `Truth`, is about damage, which the counts are blind to: of a frame either both copies
are damaged or neither is, `corrupted` is the number of frames with a damaged copy anywhere, and each
impairment happens only where its knob allows it (`Told`, `Knobs`). The lemmas on what each helper
*carries* (`ScheduleCarries` to `ReleaseDueCarries`) give it action by action. Then comes
what a program that owns the transport may count on at each call (`SendOffers`, `RecvTakes`,
`FlushEmpties`, `SendView`, `RecvView`, `FlushView`).

A third, `Ordered`, is about order. What a heap does depends on all its keys, but without jitter all frames
have one latency, release times never fall, and a push is an append (`InsertLast`): the heap is a
queue (`Punctual`). So there is one line, `InOrder`, of what was read and what will be, and a call only
appends to it. `LineFacts` says of the line that copies of a frame follow one another (`Together`), that
no frame in it was sent later than the one in the slot, that `reordered` is the number of frames behind
one sent later (`Late`), and that with the knob off there are none.

**Numbers.** `NumberProofs` has the facts the other modules share, about no constant of theirs: division
with remainder, slices of sequences, sums.

Of sums, those that speak of all nodes' records at once. `SumFunction` of the
community modules is a recursive function on the subsets of its domain, and induction over data is out
of reach; but a statement about *finite sets* that has a counterexample has a smallest one
(`SmallestSubset`, from the cardinality), and a smallest counterexample contradicts itself in one step
of the recursion. So `SumIsUnits`: the sum is the number of pairs `<<x, i>>` with `1 <= i <= f[x]`. From it
`SumChange`, `SumMonotone`, and `SumIsPairs`: a sum of sizes of sets is the number of pairs of an index and
a member. `LabelsCounted`: items of which no label has more than two are as many as their labels and the
labels that occur twice. `RecursionExists` and `RecursionFollowed` do the same for a function on `0 .. N`
whose values each come from the one before: it is total, and what `CHOOSE` picks for it is it.

**The collector.** `StationProofs` proves, for all nodes, heartbeats, windows and latencies:

- `TypeCorrect`: `Spec => []TypeOK`;
- `HighWater`: `Spec => []HighWaterExact`;
- `NoPhantomLoss`: `Spec => []LossNeverOverstated`.

From: the assumptions of `SeqRing`, `Collector` and `Station`, of which `SessionAssumption` is the
one that matters. `DeltaIsDistance` is the lemma on the ring that all of it rests on: the signed delta of the
numbers of the i-th and the j-th frame is `i - j` when that is in the signed range, across any number of
wraps. `LossNeverOverstated` alone is not inductive: what a frame does to `lost` depends
on how `_track` classifies it, so the strengthening `IInv` must say what the record means.
Its core is `Known`: a node never heard has nothing in its record; otherwise
`first_seq` and `last_seq` are the numbers of the frames in `first` and `high`, nothing newer than
`high` was heard, *every remembered number is that of a frame heard*, and `lost` is at most the
number of gaps. The clause on remembered numbers is what keeps a frame never heard, whose first copy
fills a gap, out of the duplicate path, on which `lost` stays as it is: numbers tell the frames of a
session apart (`SeqOfDelta`), so a number remembered means a frame heard. `TrackKnown` shows that
`_track` preserves `Known`, path by path: a jump over `k` frames opens `k` gaps (`GapsGrow`), a late
arrival fills at most one (`GapsShrink`), both facts about cardinalities of finite sets.
`FirstEffect` to `LateEffect` say what each path of `_track` does to the record, `LinkLose` to
`LinkTake` that the link keeps a frame's copies at two in all (`CopiesBounded`, without which its
types are not inductive). `ArriveEffect` gathers what an arrival changes; one lemma per action of
`Station` puts them together.

The module continues with how far the estimates are off, the alarm and the totals:

- `DuplicatesCountedRight`: `Spec => []DuplicatesExact`;
- `LossNearlyExact`: `Spec => []LossUnderstatedAtMost`;
- `AlarmTruthful`: `Spec => []StaleContract`;
- `TotalsTheSums`: `Spec => []TotalsAgree`;
- `RecordBracketsLoss`: `Spec => []LossBracketed`, what the two counters of a record tell by themselves;
- `OutageRead`, what `_track` makes of a frame any distance round the ring ahead.

The first three need more than `Known`, which allows a window that has forgotten everything. `Estimated`
compares the packets tracked, less those called duplicates, with the *set* of frames heard: the
`Excess` of the first is never negative, and while the frames heard fit in the window it is zero
because the window then holds exactly their numbers (`RememberGrows`: nothing was evicted yet). A
repetition not recognised raises the excess by one and takes at most one off `lost`, which is why gaps
never outnumber `lost`, early frames and excess together (`GapsGrowAtMost` for a jump, `GapFilled` for
a late frame). For the alarm, `SentFirst` says that a frame is in the link only after its node
emitted it, and `Timely` that a node's `last_seen` is no earlier than any frame heard was sent, and
within the link's latency of some frame the node sent: any copy, late or doubled, refreshes the
record, and can do so only within the latency.

`LossUnderstatedAtMost` measures the error of `lost` by what only the model can see. `Estimated` also has
that early frames and excess together are at most `reordered`, because `_track` counts each of them there
(`TrackReordered`, `EarlyGrow`). Hence `LossBracketed`, in which nothing but the record occurs: the frames
missing between the first and the newest heard are at least `lost` and at most `lost + reordered`, and
known exactly where nothing was reordered.

All this is for sessions below half the ring. `OutageRead` says for a single frame, and without that
bound, what is on either side: `d` numbers ahead of the newest, it adds `d - 1` losses while `d` is less than
half the ring, and from there on is counted as reordered, takes one loss back and leaves `last_seq`.

`TotalsTheSums` is a sum over the nodes: `_track` adds to one node's record
what `process` adds to the totals (`SumChange`), before any sink can raise; and a step adds one to what the
sinks up to the one that raises consumed, and one to what that one raised on.

**The slice.** `PipelineProofs` proves, for any number of nodes, packets and heartbeats and every set of
configurations:

- `RunLeavesNothing`: `Spec => []NothingLeftBehind`;
- `SliceImplementsStation`: `Spec => ImplementsStation`, the refinement;
- `LossesAreTheLinks`: `Spec => []LossIsReal`;
- `FaultsAreTheLinks`: `Spec => []LinkExplainsStats`;
- `PerfectRun`: `Spec => []PerfectLinkPerfectStats`;
- `SliceRecordsBracket`: `Spec => [](S!HighWaterExact /\ S!LossBracketed)`, of the collector's records.

From: `PipelineAssumption`, `LinkAssumption`, `SessionAssumption` and the assumptions of `SeqRing` and
`Collector`. The module instances the proofs of the transport (`W`) and of `Station` (`S`): it shows that
every step of the slice is a step of the transport or none (`DrivesLink`) and, under the refinement
mapping, a step of `Station` or none (`BehavesAsStation`), and then has the theorems of both.

`Schedule` is the invariant of the loop in `run`: where `pc` and `turn` are against the rounds gone by,
which generators are active, and what each has made: `Made(s, k)` ties a generator's sequence number,
budget and blocks since the last heartbeat to the `k` frames it has sent, by a number of whole
periods. Hence the bound on frames and the refinement's `HeartbeatAt(i)`: which frames are heartbeats is
a function of their index, as `Station` has it. `Books` is the receiver's accounting: every frame pulled off
the link is in one of its counters and the collector's totals. The mapping is by frames, not numbers:
`FrameOf` finds the frame of a node and index, `UnderWay` its copies in the link and those rejected as
damaged, `Processed` those handed to `process`, `FirstHeard` and `NewestHeard` the extremes of what
was. One lemma per action (`SendImplements`, `ReceiveImplements`, `FlushImplements`) gives the step of
`Station`; the clock's round is its tick.

So every theorem about `Station` is one about the program, whatever the link's knobs:
`SliceRecordsBracket` is two of them as they stand, and the three before it use that. For `LossIsReal`: a node's losses are at most its gaps (`NoPhantomLoss`), a gap is a frame sent and
not heard, and a frame sent and not heard was dropped, damaged or is under way (`TroubleCounted`, from
`CountersTell` and `Truth`); different nodes' gaps are different frames. For `LinkExplainsStats`: a node's
duplicates are at most its frames processed twice (`Excess` is never negative), as many where the window
held the session; a frame processed twice has two copies in `arrived`, and `duplicated` counts those. Its
reorders are at most its frames that arrived late (`Overtakings`): the second copy of one is not counted
again, because it comes directly behind the first, whose number no window has forgotten; different nodes'
late frames are different frames of the line, and `ReordersCounted` has their number.

`PerfectRun` is about the end of a run with every knob off: then the link's counters are zero
(`NothingHappened`, from `Truth` and `Ordered`), so that by the two theorems before it the records show no
fault (`NoFaults`), and each frame sent has arrived once (`AllDelivered`). `Payload` ties the generators'
and the collector's counts to sets of data frames, and `EachSampleOnce` maps one set to the other.
`NoFalseAlarm` uses `Timely`: the last frame of a node was sent two rounds before the end.

**The serial line.** `SerialProofs` proves, for all packets, bursts, damage and every chunking:

- `TypeCorrect`: `Spec => []TypeOK`;
- `Bounded`: `Spec => []BufferBounded`;
- `EveryByteOnce`: `Spec => []BytesAccounted`;
- `ImplementsOrderedLink`: `Spec => IsOrderedLink`, the refinement;
- `IntactSurvive`: `Spec => []IntactLostOnlyToFalseHeader`;
- `ChunksDoNotMatter`: `Spec => []ChunkingIrrelevant`;
- `NeverSpins`: `Spec => [][TurnConsumes]_vars`;
- `CleanLine`: `Spec => []CleanLineKept`.

From: `MaxPacketAssumption` (a frame holds at least a header and a check sum), `PacketsAssumption` (the
packets are encodable and differ, as their sequence numbers make them) and `LineBounds`. The accounting
is not inductive alone, because the counters must agree with *sets* of bytes while the code only ever
drops a prefix of its buffer. The strengthening `IInv` has, besides the types: `InLine`, the buffer and
the wire are the rest of what was sent, byte for byte; `InOrder`, the frames taken lie one behind the
other in what has left the buffer; `NoiseCounted`, the bytes before the buffer that are in no frame are
as many as `resync_bytes`; and `Counted`, received and rejected are the numbers of spans of each kind.
Every branch of the loop is a `Consume`; `ConsumeInLine` and `ConsumeCounts` say what it does to the
buffer and to the counters, `DiscardKeeps` what follows for a branch that takes only noise, `TakeKeeps`
for one that takes noise and then a frame: the new span is disjoint from the old ones because it begins
behind the front, and the noise grows by exactly what is between. For these first three theorems it
plays no part whether a check sum is right.

For the others it does. The ideal check sum is a number of which the content's cells are the digits;
`HornerTells` reads them back, so equal sums are equal contents (`CrcTells`), and no sum is a byte
(`CrcIsNoByte`). Noise and flipped bits are bytes, so that only the last cells of frames sent are not
(`SumsAtEnds`); `Laid` has that with the place of every frame in the line and the integrity of
the undamaged ones. Hence `GoodIsSent`: a candidate the decoder accepts, wherever the loop found its sync
word, ends where a frame sent ends, has its content, and so *is* that frame, at its place. With `Passed`
(what has come out lies in what has left the buffer) each frame that comes out is one sent behind the ones
before it: the step of `OrderedLink` (`PassStep`), where a poll that takes nothing is a stutter.

`IntactSurvive` needs, of every iteration, that it cannot step over an undamaged frame's first byte: that
byte begins a sync word and a good header, so noise is never dropped past it (`NoneInNoise`), and an
iteration that takes it either starts there, and then accepts (`IntactSeen`), or takes a rejected
frame that starts before it. `Claimed` accumulates that; `Stalled` says for what the loop waits.

`ChunksDoNotMatter` is about `Whole`, a recursive function, and induction over data is out of reach. But
where such a function, defined from the end of the stream backwards, had no value or the wrong one, there
would be a last such place, and one step of the definition contradicts it (`LookExists`, `SpansFromIs`).
The invariant `Chunked` then speaks of *every* stream `t` that continues the bytes read: what a receiver
takes who has all of `t` at hand is what was taken so far, followed by what it finds from the front of the
buffer on. One iteration moves one span from the second part to the first (`TurnReads`), because what
the loop decides on, it decides by bytes it has (`HeaderSeen`, `FrameSeen`, `NothingBetween`); a poll
only leaves fewer streams. When the loop waits, the bytes read are themselves such a stream, and it finds
nothing more in it (`NothingWaits`).

The last two are the safety halves of the liveness properties `ScanEnds` and `CleanLineDelivers`.
`TurnConsumes`: each turn of the `while` loop either shortens the buffer or is the last before it
waits, on any bytes whatever, so between two reads there are no more turns than bytes and one.
`CleanLineKept`: as long as the line inserts no noise, damages and tears nothing, no byte is skipped
and no frame rejected; what was received is a beginning of the packets, and all that were sent whenever
the loop waits with the wire empty. `Gapless` has the frames sent, and those taken, end to end, so that the
buffer always begins with a frame's first byte (`NextFrame`); then an iteration accepts that frame or,
where it is not all there, waits (`CleanTurn`). What is left to TLC is that turns and reads happen.

**The clock fit.** `ClockProofs` proves, for all set-ups, drifts, jitter, losses and doublings:

- `TypeCorrect`: `Spec => []TypeOK`;
- `LeastSquares`: `Spec => []FitIsLeastSquares`;
- `SteadyExact`: `Spec => []SteadyIsExact`;
- `Forward`: `Spec => []ForwardUnlessDisorder`;
- `NeverRefused`: `Spec => [](pc # "raised")`.

From: `ScaleAssumption`, `ClockAssumption` and `ScaleDivides`, the price of exact fractions: without a
`Scale` that every number of points divides, the model's means would be rounded down where the code's
are not, and nothing would hold exactly. To use it one must know that a node's fit never has more points
than `MostPoints`: `Few` counts points and frames under way against rounds begun and frames doubled, and
`RoundsOfBlocks` turns rounds into blocks and heartbeats.

The arithmetic comes first, over integers only: `IsMean` and `IsMoment` say that a mean, or a co-moment
of the two columns, is that of so many points with these sums, and `MeanStep` and `MomentStep` that
one step of Welford's update keeps them so. Here the mixture of deviations before and after the point is
right or wrong: the step multiplies the *old* deviation of one column by the *new* one of the other.
A sum over one point more is the sum and its term (`SumAppend`, from the folds' own recursion), so that
`FitsStep` says the fit is that of all its points.

What else must be known of a fit, to be inductive point by point, is in `Kept`: `Fits`; `Spread` (the
moment of the arrivals is never negative, and positive exactly if two differ; until then their mean is
the one instant); `Onward` (arrivals never fall, the last is no earlier than their mean; where the
node's times rise strictly, the same holds of them, and the mixed moment is not negative, and is
positive where there is a spread); and `OnLine` (where every packet had the same lag, the means lie on
the line of the node's clock and the moments are in its ratio). `LineExact` then computes `Skew`,
`Residual` and `ToRef` on that line, where the rounding has nothing to round (`NearestExact`).

The invariant `IInv` is `Types`, `Underway` (what is pending was emitted; in the clock-sync program in this
round), `Paced` (the reference clock against the rounds), `Few`, `Fitted` (`Kept` of every node), `Stamped`
(a point has its frame's time and came no later than now) and `Written` (the CSV column against the
points). It says of the program counter that it is never at the refusal: the loop clamps its target, so
`SetToRaises` is false at every `DeliverDue` (`DeliverDueKeeps`).

**The capture session.** `CaptureProofs` proves, for every script of rounds, buffer, count and deadline
and any number of deaths and restarts:

- `DrainWaits`: `Spec => []LeftBehindWasLate`;
- `DrainKeepsUp`: `Spec => []OverflowNeedsLag`;
- `TypeCorrect`: `Spec => []TypeOK`;
- `ArchiveFaithful`: `Spec => []ArchiveIdentical`;
- `RecoversWhole`: `Spec => []WholeRecordsRecovered`;
- `ReplayExact`: `Spec => []ReplayReproduces`;
- `ReplayGoesOn`: `Spec => []Replayable`, no frame of a capture is refused where it is replayed, so that the
  replay's guard leaves out no case of the code;
- `RoundTrip`, of the codec: encoding, then decoding.

From: `CaptureAssumption` (packets are encodable, a header's number is a sequence number, at least one
idle round is allowed), `CapacityAssumption` and those of `Collector`.

Two invariants. `IInv` is about the drain. `LeftBehindWasLate` speaks of its end only; `Waits` says of
every moment in it that the last `idle` of the rounds that are over were quiet (`CountsQuiet`), and that
a round in progress which neither waited nor decoded nor rejected anything still has a datagram in
the buffer; a packet decoded in it is one more in the totals, by which the code tells, so that a round
in which one came starts the count again. `run.clock` is left alone but for its bound: the invariant holds
however the wall clock moves.
`OverflowNeedsLag` needs to know how many datagrams may be pending: `KeepsUp` says that as long as no
round ended with one under way, at the n-th turn of a round fewer than n are, and none between rounds.
`Placed` ties the program counter to the script and the limits.

`JInv` is about the file, the records and the replay. `Stored`: what is under way, in the buffer and archived
is encodable, and the records are typed. `Filing`: the file as written is `Filed` with the packets archived
(the record of each at its `Offset`, and nothing else), and on the disk is all of it after a close and some
beginning of it after a death. `RecordsAre`: every node's record is, times aside, `After` the packets
archived. `Replaying`: the frames played are the first so many of those packets', all of them if the
session was closed, and the records behind the replay are `After` those played so far.

Most of the work is in what the functions compute, lemmas without a state:

- the decoder finds no fault with the frame of any packet the encoders accept and returns the packet
  (`RoundTrip`), and the logger's encoding by type is the packet's own (`ReencodeIsEncode`);
- `read_raw_log` is a recursive function on positions that looks only ahead. `EntriesExist`: the position
  nearest the end where no such function exists contradicts itself. `ReadsBack`: of a file that begins with the
  records of some frames, behind which no record is whole, it returns those frames, and an error exactly if
  anything is left; again, the last record that does not read back leads to a later one. `CutReads` and `AllReads` apply this to the beginnings of a
  `Filed` file: the offsets rise, so exactly one record is the first that does not fit;
- `FiledAppend`: a packet more is one record more, and moves nothing;
- `TrackBlind`: when a packet is heard decides nothing of its node's record but `last_seen`, so that the live
  records, heard in their rounds, and those of the replay, which are all heard at 0, differ in nothing else.

**The scenario simulator.** `ScenarioProofs` proves, for all scenarios:

- `TypeCorrect`: `Spec => []TypeOK`;
- `LossObserved`: `Spec => []ObservedIsDropped`;
- `AllAccounted`: `Spec => []Accounted`;
- `SerialOrder`: `Spec => []SerialInOrder`;
- `NeighboursOnly`: `Spec => []OvertakenByNeighbourOnly`;
- `FaultsConfined`: `Spec => []FaultsInTheirWindow`.

From: `ScenarioAssumption`. The strengthening `IInv` has, besides the types: `Sending`, the numbers on
the wire are below the next one and the receiver is fresh while a node sends; `Losses`, the distinct
numbers on the wire and all drops so far are the packets of this node and the losses observed before it;
`Accounts`, what was delivered, dropped and is unread makes up the packets and their doubles; `Reading`,
`seen` and `high_water` are those of what was read, which sorts before what was not; and `InTurn`:
where no frame can be late (a serial line with little jitter), nothing was counted
as reordered, every number has a copy that arrives within its slot, and hence a copy of every
smaller number sorts before any delivery of a greater one. The last is the heart of `SerialOrder`:
a receiver that reads in sorted order has read a smaller number's first copy before it
reads a greater number, and so counts no first copy as overtaken.

`NeighboursOnly` needs one fact more, `Spaced`: without jitter every number on the wire has a copy that
arrives at most a slot and the rounding error after it was sent, and none arrives earlier than the
rounding error before. A frame read before one sent two slots earlier or more would contradict it,
because two rounding errors are less than a period.

`FaultsConfined` rests on a second invariant, `Faults`. `Values`: what is on the wire and behind it is the
live value if it was surely sent before the fault or on another node, and the value the sender holds if
surely under it; the sender holds that to the end of its node, whatever became of the frames that
carried it, and `Live` once a node is over. `Decoded`: the receiver has what it has seen, and nothing yet
of a node whose turn is to come. `Bursts`: where the link loses frames only in bursts, and there all, no
number on the wire is surely inside one and all that are surely outside are there, and so it is with
those that arrived of the nodes before. `RoundedBound` and `ScenarioAssumption` bound both sides of each
comparison the code makes, which is where twice the rounding error comes from.

**Only model-checked.** Everything under fairness (`EveryKeptFrameArrives`, `Terminates`, `ScanEnds`,
`CleanLineDelivers`, `Ends`, `Completes`), which this prover does not reach, as it does not reach ENABLED.
Of `ScanEnds` and `CleanLineDelivers` the theorems `NeverSpins` and `CleanLine` leave only that: nothing but
the fairness of reads and turns is taken from the runs.
Every safety invariant and every action property that a passing run checks is stated by a theorem.
Induction over data is not available either (the induction theorems take an operator), so what a
recursive function computes is proved where a smallest counterexample does instead: for sums, for the
check sum, for `Whole`, for `read_raw_log` and for the record after so many packets.

## 5. Not modelled, and why

Frames the receiver never sees *after* the newest one heard, and an outage of half the ring or
more, are invisible to the collector by design: the gap properties speak of the frames between the
first and the newest heard. A check sum that misses damage (1 in 65536) is not modelled: the check
sum of `WireFormat` is ideal, and `Pipeline` rejects every corrupted copy; nor do its check sums ever look
like a sync word, as bytes of a real one may. The framing errors of
`FrameReceiver` cannot occur behind this link: no knob changes a frame's length or magic.

`ClockModel` is in exact fractions: the rounding of its floating point, the square roots of
`residual_std_us` and `drift_ppm_stderr`, and `drift_ppm` are not modelled, nor does the model say
how far from the truth a jittered fit may be. Of the simulator, the Lua loader and its validation,
the sizes of frames and `check_assertions` are left out: the last is a comparison of numbers of the
report, of which `require_crc` cannot fail (a frame that does not decode ends the run with an error)
and `require_monotonic_sequence` asks only that something was delivered. UDP is modelled on loopback,
in order. The C, C++ and Rust ports of the frame format have no state; `WireFormat` is the Python one,
and the golden vectors tie the others to it. Metrics, the dashboard and the printed summaries only
present; the firmware's `main` sends nothing; `reference_encoder.py` generates golden vectors.

## 6. Plan

1. `FrameChecks`: the order of the decoders' checks in the four codecs and the shapes they accept,
   over the abstract frames of `WireFormat`.
2. `SerialLine` with the `Collector` behind it: an `OrderedLink` implements `LossyLink` once it is
   known which frames will not come out.
