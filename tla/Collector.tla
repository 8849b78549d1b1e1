----------------------------- MODULE Collector -----------------------------
(***************************************************************************)
(* The Collector (daq_sim/collector/collector.py): it counts, per node,    *)
(* what the sequence numbers say about the link, watches for silent nodes  *)
(* and fans every packet out to the sinks.                                 *)
(*                                                                         *)
(* A packet is what _track reads of one: its node, its sequence number,    *)
(* how many samples it carries and whether it is a heartbeat.  The         *)
(* bounded set _seen is the set of the entries of its eviction queue.      *)
(***************************************************************************)
EXTENDS SeqRing, Sequences, FiniteSets

CONSTANTS
    Nodes,          \* node ids
    SeenWindow,     \* _SEEN_WINDOW
    StaleAfter,     \* stale_after_us, in clock ticks
    SinkCount       \* sinks, in the order they were given

ASSUME NodesAssumption == IsFiniteSet(Nodes)
ASSUME SeenWindowAssumption == SeenWindow \in Nat \ {0}
ASSUME StaleAfterAssumption == StaleAfter \in Nat
ASSUME SinkAssumption == SinkCount \in Nat

VARIABLES
    nodes,          \* stats.nodes: the NodeStats of each node
    totals,         \* stats.total_packets and stats.total_samples
    consumed        \* packets each sink has consumed

collectorVars == <<nodes, totals, consumed>>

Never == -1         \* first_seq, last_seq and last_seen_us before the first packet

NodeStats == [packets : Nat, samples : Nat, lost : Nat, reordered : Nat,
              duplicated : Nat, heartbeats : Nat,
              first_seq : Seqs \union {Never}, last_seq : Seqs \union {Never},
              last_seen : Nat \union {Never}, seen_q : Seq(Seqs)]

CollectorTypeOK ==
    /\ nodes \in [Nodes -> NodeStats]
    /\ totals \in [packets : Nat, samples : Nat]
    /\ consumed \in [1 .. SinkCount -> Nat]

Unheard == [packets |-> 0, samples |-> 0, lost |-> 0, reordered |-> 0,
            duplicated |-> 0, heartbeats |-> 0, first_seq |-> Never, last_seq |-> Never,
            last_seen |-> Never, seen_q |-> <<>>]

CollectorInit ==
    /\ nodes = [n \in Nodes |-> Unheard]
    /\ totals = [packets |-> 0, samples |-> 0]
    /\ consumed = [s \in 1 .. SinkCount |-> 0]

-----------------------------------------------------------------------------
(* _track *)

Seen(ns) == {ns.seen_q[i] : i \in 1 .. Len(ns.seen_q)}

\* Mutant: the window holds one sequence number less.
RememberOneLess(queue, seq) ==
    IF Len(queue) >= SeenWindow - 1 THEN Tail(Append(queue, seq)) ELSE Append(queue, seq)

Remember(queue, seq) ==
    IF Len(queue) >= SeenWindow THEN Tail(Append(queue, seq)) ELSE Append(queue, seq)

\* What every packet does to its node's record, whatever its sequence number.
Hear(ns, p, now) ==
    [ns EXCEPT !.packets = @ + 1,
               !.samples = @ + p.samples,
               !.heartbeats = IF p.heartbeat THEN @ + 1 ELSE @,
               !.last_seen = now]

IsFirst(ns) == ns.last_seq < 0
IsDuplicate(ns, p) == p.seq \in Seen(ns)
IsForward(ns, p) == SeqDelta(p.seq, ns.last_seq) > 0

TrackFirst(ns, p) ==
    [ns EXCEPT !.first_seq = p.seq, !.last_seq = p.seq, !.seen_q = Remember(@, p.seq)]

TrackDuplicate(ns) == [ns EXCEPT !.duplicated = @ + 1]

\* Mutant: the frame that closes the gap is counted as lost too.
TrackForwardOffByOne(ns, p) ==
    [ns EXCEPT !.lost = @ + SeqDelta(p.seq, ns.last_seq),
               !.last_seq = p.seq, !.seen_q = Remember(@, p.seq)]

\* Mutant: the newest gap replaces the losses counted so far.
TrackForwardReset(ns, p) ==
    [ns EXCEPT !.lost = SeqDelta(p.seq, ns.last_seq) - 1,
               !.last_seq = p.seq, !.seen_q = Remember(@, p.seq)]

\* A forward gap counts as lost.
TrackForward(ns, p) ==
    [ns EXCEPT !.lost = @ + SeqDelta(p.seq, ns.last_seq) - 1,
               !.last_seq = p.seq, !.seen_q = Remember(@, p.seq)]

\* A late arrival takes back one loss, if any is counted.
TrackLate(ns, p) ==
    [ns EXCEPT !.reordered = @ + 1, !.lost = IF @ > 0 THEN @ - 1 ELSE @,
               !.seen_q = Remember(@, p.seq)]

Track(ns, p, now) ==
    LET heard == Hear(ns, p, now)
    IN  IF IsFirst(ns) THEN TrackFirst(heard, p)
        ELSE IF IsDuplicate(ns, p) THEN TrackDuplicate(heard)
        ELSE IF IsForward(ns, p) THEN TrackForward(heard, p)
        ELSE TrackLate(heard, p)

\* Mutant: the totals are updated after the fan-out, which may raise.
ProcessTotalsLast(p, now, reached) ==
    /\ nodes' = [nodes EXCEPT ![p.node] = Track(@, p, now)]
    /\ consumed' = [s \in 1 .. SinkCount |-> IF s <= reached THEN consumed[s] + 1 ELSE consumed[s]]
    /\ totals' = IF reached < SinkCount THEN totals
                 ELSE [packets |-> totals.packets + 1, samples |-> totals.samples + p.samples]

\* process(): the fan-out reaches the first `reached` sinks; if that is not all of them, the
\* next one raised and the exception leaves run().
Process(p, now, reached) ==
    /\ nodes' = [nodes EXCEPT ![p.node] = Track(@, p, now)]
    /\ totals' = [packets |-> totals.packets + 1, samples |-> totals.samples + p.samples]
    /\ consumed' = [s \in 1 .. SinkCount |-> IF s <= reached THEN consumed[s] + 1 ELSE consumed[s]]

-----------------------------------------------------------------------------
(* What callers read off the collector. *)

\* Mutant: a node silent for exactly the threshold is reported.
StaleAtThreshold(now) ==
    {n \in Nodes : nodes[n].last_seen >= 0 /\ now - nodes[n].last_seen >= StaleAfter}

StaleNodes(now) ==
    {n \in Nodes : nodes[n].last_seen >= 0 /\ now - nodes[n].last_seen > StaleAfter}
=============================================================================
