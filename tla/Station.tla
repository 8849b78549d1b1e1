------------------------------ MODULE Station ------------------------------
(***************************************************************************)
(* Nodes, a lossy link, the Collector: what the ground station's counters  *)
(* say against what really happened to the frames.                         *)
(*                                                                         *)
(* Frame <<n, i>> is the i-th frame node n emits, its sequence number is   *)
(* Start[n] + i on the ring: the collector may join a node at any number.  *)
(* The link is LossyLink, which ImpairmentTransport implements             *)
(* (Impairment!IsLossyLink); a frame the receiver rejects for its CRC      *)
(* counts as lost.                                                         *)
(***************************************************************************)
EXTENDS Collector, FiniteSetsExt

CONSTANTS
    Start,              \* the first sequence number of each node
    HeartbeatEvery,     \* data frames between two heartbeats, 0 for none
    BlockSamples,       \* samples in a data frame
    MaxLatency,         \* a copy that is to arrive does so within this many ticks
    MaxEmit, MaxTime    \* bounds of the model: frames per node, clock ticks

ASSUME StartAssumption == Start \in [Nodes -> Seqs]
ASSUME NodeAssumption == HeartbeatEvery \in Nat /\ BlockSamples \in Nat
ASSUME StationBounds == MaxLatency \in Nat /\ MaxEmit \in Nat /\ MaxTime \in Nat

\* A session is below half the ring: 2^31 frames of a node in the code.
ASSUME SessionAssumption == MaxEmit <= SeqHalf

VARIABLES
    emitted,            \* frames each node has emitted
    sentAt,             \* when it emitted each of them
    now,                \* the clock
    offered, lost, inflight, taken,   \* the link
    first, high,        \* history: index of the first and of the newest frame heard
    raised              \* history: packets each sink was handed and raised on

nodeVars == <<emitted, sentAt>>
linkVars == <<offered, lost, inflight, taken>>
history == <<first, high, raised>>
vars == <<collectorVars, nodeVars, now, linkVars, history>>

Index == 0 .. MaxEmit - 1
Frame == Nodes \X Index

Link == INSTANCE LossyLink

SeqOf(n, i) == (Start[n] + i) % SeqMod

\* A heartbeat follows every HeartbeatEvery data frames and shares their numbering.
IsHeartbeat(i) == HeartbeatEvery > 0 /\ i % (HeartbeatEvery + 1) = HeartbeatEvery

PacketOf(f) == [node |-> f[1], seq |-> SeqOf(f[1], f[2]),
                heartbeat |-> IsHeartbeat(f[2]),
                samples |-> IF IsHeartbeat(f[2]) THEN 0 ELSE BlockSamples]

TypeOK ==
    /\ CollectorTypeOK
    /\ emitted \in [Nodes -> 0 .. MaxEmit]
    /\ sentAt \in [Frame -> 0 .. MaxTime]
    /\ now \in 0 .. MaxTime
    /\ Link!TypeOK
    /\ first \in [Nodes -> Index \union {Never}]
    /\ high \in [Nodes -> Index \union {Never}]
    /\ raised \in [1 .. SinkCount -> Nat]

Init ==
    /\ CollectorInit
    /\ emitted = [n \in Nodes |-> 0]
    /\ sentAt = [f \in Frame |-> 0]
    /\ now = 0
    /\ Link!Init
    /\ first = [n \in Nodes |-> Never]
    /\ high = [n \in Nodes |-> Never]
    /\ raised = [s \in 1 .. SinkCount |-> 0]

Emit(n) ==
    LET f == <<n, emitted[n]>>
    IN  /\ emitted[n] < MaxEmit
        /\ emitted' = [emitted EXCEPT ![n] = @ + 1]
        /\ sentAt' = [sentAt EXCEPT ![f] = now]
        /\ \/ Link!Lose(f)
           \/ \E copies \in 1 .. 2, doubled \in SUBSET Link!Single : Link!Accept(f, copies, doubled)
        /\ UNCHANGED <<collectorVars, now, history>>

\* Frames waiting in the link are doubled.
Duplicate ==
    /\ \E doubled \in SUBSET Link!Single : Link!Double(doubled)
    /\ UNCHANGED <<collectorVars, nodeVars, now, history>>

\* The receiver pulls a copy off the link and the collector processes its packet.
Arrive(f, reached) ==
    LET n == f[1]
        i == f[2]
    IN  /\ now <= sentAt[f] + MaxLatency
        /\ Link!Take(f)
        /\ Process(PacketOf(f), now, reached)
        /\ first' = [first EXCEPT ![n] = IF @ = Never THEN i ELSE @]
        /\ high' = [high EXCEPT ![n] = IF i > @ THEN i ELSE @]
        /\ raised' = [s \in 1 .. SinkCount |->
                         IF s = reached + 1 THEN raised[s] + 1 ELSE raised[s]]
        /\ UNCHANGED <<nodeVars, now>>

Tick ==
    /\ now < MaxTime
    /\ now' = now + 1
    /\ UNCHANGED <<collectorVars, nodeVars, linkVars, history>>

Next ==
    \/ \E n \in Nodes : Emit(n)
    \/ Duplicate
    \/ \E f \in Frame, reached \in 0 .. SinkCount : Arrive(f, reached)
    \/ Tick

Spec == Init /\ [][Next]_vars
-----------------------------------------------------------------------------
(* What really happened. *)

Heard(n) == {i \in Index : taken[<<n, i>>] > 0}

Gaps(n) == {i \in Index : first[n] <= i /\ i <= high[n] /\ taken[<<n, i>>] = 0}

Early(n) == {i \in Heard(n) : i < first[n]}

\* Copies of frames heard before that did not count as duplicates.
Misread(n) == nodes[n].packets - nodes[n].duplicated - Cardinality(Heard(n))

-----------------------------------------------------------------------------
(* Properties. *)

\* The ring arithmetic finds the newest frame heard, across the wrap of the sequence
\* number and whatever the order of arrival; first_seq is the frame heard first.
HighWaterExact ==
    \A n \in Nodes : high[n] # Never =>
        /\ nodes[n].last_seq = SeqOf(n, high[n])
        /\ nodes[n].first_seq = SeqOf(n, first[n])

\* `lost` never overstates: it counts no more frames than are really missing between the
\* first and the newest frame heard, however copies are reordered, doubled or forgotten.
LossNeverOverstated == \A n \in Nodes : nodes[n].lost <= Cardinality(Gaps(n))

\* `lost` understates by at most one for each frame older than the first one heard and one
\* for each stale duplicate beyond the window; without these it is exact.
LossUnderstatedAtMost ==
    \A n \in Nodes :
        Cardinality(Gaps(n)) <= nodes[n].lost + Cardinality(Early(n)) + Misread(n)

\* Up to SeenWindow frames heard, every repeated frame counts as a duplicate and nothing
\* else does, however old the repeated frame is.
DuplicatesExact ==
    \A n \in Nodes : Cardinality(Heard(n)) <= SeenWindow => Misread(n) = 0

\* The totals are the sums over the nodes (no packet is credited to another node's record),
\* counted whether or not a sink raises; and a fan-out hands each sink exactly the packets the
\* sink before it has consumed, the first sink every packet counted: each consumed all of these
\* but the ones it raised on itself, which the sinks after it never get.
TotalsAgree ==
    /\ totals.packets = SumFunction([n \in Nodes |-> nodes[n].packets])
    /\ totals.samples = SumFunction([n \in Nodes |-> nodes[n].samples])
    /\ \A s \in 1 .. SinkCount :
          consumed[s] + raised[s] = IF s = 1 THEN totals.packets ELSE consumed[s - 1]

\* The alarm against the node's own clockwork: of a node reported stale nothing sent within
\* the threshold has arrived, and a node once heard whose last frame was sent longer ago
\* than the threshold and the link's latency together is reported, though late and doubled
\* copies of its old frames refresh it.
StaleContract ==
    \A n \in Nodes :
        /\ n \in StaleNodes(now) => \A i \in Heard(n) : now - sentAt[<<n, i>>] > StaleAfter
        /\ /\ Heard(n) # {}
           /\ \A i \in 0 .. emitted[n] - 1 : now - sentAt[<<n, i>>] > StaleAfter + MaxLatency
           => n \in StaleNodes(now)

\* "it fills a gap we already counted as lost" (collector.py:139): the frame for which a
\* loss is taken back was missing between the first and the newest frame heard.
LateFillsGap ==
    [][\A f \in Frame :
          nodes'[f[1]].lost < nodes[f[1]].lost /\ taken'[f] > taken[f] => f[2] \in Gaps(f[1])]_vars
=============================================================================
