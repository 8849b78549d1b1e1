----------------------------- MODULE ClockSync -----------------------------
(***************************************************************************)
(* Where the Collector fits the nodes' clocks: the clock-sync program      *)
(* (cli/clocksync.py), whose frames come in order but at jittered times,   *)
(* and the slice (cli/slice.py), whose link may lose, double, delay and    *)
(* reorder them and whose CSV sink writes down each packet's reconstructed *)
(* time.  Every packet is one point of its node's fit: the node's own time *)
(* against the time of arrival.                                            *)
(***************************************************************************)
EXTENDS ClockModel, Sequences, FiniteSets, Functions

CONSTANTS
    Setups,         \* program, --nodes, --jitter-us, --blocks or --packets, --heartbeat-every
    Tick,           \* duration of a block on the reference clock
    BlockDt,        \* ... and on the clock of each node: Tick but for its drift
    MaxDoubled      \* bound: frames the link doubles in a run

ASSUME ClockAssumption ==
    /\ Tick \in Nat \ {0} /\ MaxDoubled \in Nat
    /\ \A s \in Setups : s.program \in {"clocksync", "slice"} /\ s.nodes \in Nat \ {0}
                          /\ {s.jitter, s.blocks, s.heartbeat_every} \subseteq Nat
                          /\ (s.program = "clocksync" => s.heartbeat_every = 0)
                          /\ \A n \in 1 .. s.nodes : BlockDt[n] \in Nat \ {0}

\* The points a fit can have: a node's blocks, the heartbeats between them, doubled frames.
Heartbeats(s) ==
    IF s.heartbeat_every = 0 \/ s.blocks = 0 THEN 0 ELSE (s.blocks - 1) \div s.heartbeat_every
MostPoints(s) ==
    s.blocks + Heartbeats(s) + (IF s.program = "slice" THEN MaxDoubled ELSE 0)

ASSUME ScaleDivides == \A s \in Setups : \A k \in 1 .. MostPoints(s) : Scale % k = 0

VARIABLES
    setup,
    pc,
    round,          \* rounds of the loop that are over
    now,            \* SimClock._now
    pending,        \* frames between the nodes and the collector
    doubled,        \* frames the link doubled
    fits,           \* NodeStats.clock
    points,         \* history: the points of each fit, in order
    csv             \* history: the t_ref_us column, by node

vars == <<setup, pc, round, now, pending, doubled, fits, points, csv>>

Blank == -1
Nodes == 1 .. setup.nodes

TypeOK ==
    /\ setup \in Setups
    /\ pc \in {"emit", "deliver", "drain", "raised", "done"}
    /\ round \in Nat /\ now \in Nat /\ doubled \in 0 .. MaxDoubled
    /\ now >= (round - 1) * Tick - setup.jitter
    /\ pc \in {"emit", "done"} /\ setup.program = "clocksync" => pending = {}
    /\ \A n \in Nodes : fits[n].n = Len(points[n]) /\ Len(csv[n]) = Len(points[n])

Init ==
    /\ setup \in Setups
    /\ pc = "emit" /\ round = 0 /\ now = 0 /\ pending = {} /\ doubled = 0
    /\ fits = [n \in Nodes |-> NoPoints]
    /\ points = [n \in Nodes |-> <<>>]
    /\ csv = [n \in Nodes |-> <<>>]

-----------------------------------------------------------------------------
\* CsvLogger: what it writes of a packet's first sample, with the fit of that moment; of a
\* heartbeat it writes nothing.
Column(fit, frame) ==
    IF Ready(fit) /\ ~frame.heartbeat THEN ToRef(fit, frame.t_node) ELSE Blank

\* Collector._track and, in the slice, the CSV sink behind it.
Accept(frame, at) ==
    LET fit == Update(fits[frame.node], frame.t_node, at)
    IN  /\ fits' = [fits EXCEPT ![frame.node] = fit]
        /\ points' = [points EXCEPT ![frame.node] =
                         Append(@, [t_node |-> frame.t_node, t_ref |-> at, round |-> frame.round])]
        /\ csv' = [csv EXCEPT ![frame.node] = Append(@, Column(fit, frame))]

\* SyntheticNode: the blocks a node has emitted before round r.  A heartbeat comes after
\* every heartbeat_every blocks and takes a round, but none of the node's time.
Emitted(r) ==
    IF setup.heartbeat_every = 0 THEN r ELSE r - r \div (setup.heartbeat_every + 1)

Exhausted == Emitted(round) >= setup.blocks

Frame(n) == [node |-> n, t_node |-> Emitted(round) * BlockDt[n], round |-> round,
             heartbeat |-> Emitted(round + 1) = Emitted(round)]

-----------------------------------------------------------------------------
(* clocksync.run *)

\* One frame of every node, each due at its own jittered time.
EmitJittered ==
    /\ setup.program = "clocksync" /\ pc = "emit" /\ ~Exhausted
    /\ \E jitter \in [Nodes -> (-setup.jitter) .. setup.jitter] :
          pending' = {[frame |-> Frame(n), due |-> round * Tick + jitter[n]] : n \in Nodes}
    /\ pc' = "deliver"
    /\ UNCHANGED <<setup, round, now, doubled, fits, points, csv>>

\* sorted(arrivals): by time, then by node.
IsFirst(a) ==
    \A b \in pending : a.due < b.due \/ (a.due = b.due /\ a.frame.node <= b.frame.node)

\* Mutant: the clock is set to the arrival, be it in the past.
TargetUnclamped(a) == a.due

Target(a) == IF a.due > now THEN a.due ELSE now

\* Mutant: the arrivals are not sorted and the clock follows each.
DeliverDueAnyOrder ==
    /\ setup.program = "clocksync" /\ pc = "deliver"
    /\ \E a \in pending :
          /\ pending' = pending \ {a}
          /\ now' = a.due /\ Accept(a.frame, a.due)
          /\ IF pending' = {} THEN pc' = "emit" /\ round' = round + 1 ELSE UNCHANGED <<pc, round>>
    /\ UNCHANGED <<setup, doubled>>

\* SimClock.set_to
SetToRaises(t) == t < now

\* The next arrival.
DeliverDue ==
    /\ setup.program = "clocksync" /\ pc = "deliver"
    /\ \E a \in pending :
          /\ IsFirst(a)
          /\ pending' = pending \ {a}
          /\ IF SetToRaises(Target(a))
             THEN pc' = "raised" /\ UNCHANGED <<round, now, fits, points, csv>>
             ELSE /\ now' = Target(a) /\ Accept(a.frame, Target(a))
                  /\ IF pending' = {}
                     THEN pc' = "emit" /\ round' = round + 1
                     ELSE UNCHANGED <<pc, round>>
    /\ UNCHANGED <<setup, doubled>>

-----------------------------------------------------------------------------
(* slice.run *)

\* A round of the send loop: every node's frame is lost, kept or doubled.
EmitRound ==
    /\ setup.program = "slice" /\ pc = "emit"
    /\ IF Exhausted
       THEN UNCHANGED <<pending, doubled>>
       ELSE \E copies \in [Nodes -> 0 .. 2] :
              LET twice == {n \in Nodes : copies[n] = 2}
              IN  /\ doubled + Cardinality(twice) <= MaxDoubled
                  /\ doubled' = doubled + Cardinality(twice)
                  /\ pending' = pending \union
                        {[frame |-> Frame(n), copy |-> 1] : n \in {m \in Nodes : copies[m] > 0}} \union
                        {[frame |-> Frame(n), copy |-> 2] : n \in twice}
    /\ pc' = "deliver"
    /\ UNCHANGED <<setup, round, now, fits, points, csv>>

\* Collector.run: any frame in the link may be the next to come out of it, now or in a later
\* round.
DeliverAny ==
    /\ setup.program = "slice" /\ pc \in {"deliver", "drain"}
    /\ \E f \in pending : pending' = pending \ {f} /\ Accept(f.frame, now)
    /\ UNCHANGED <<setup, pc, round, now, doubled>>

\* Time passes, the last round, in which no node had a frame left, included.
EndRound ==
    /\ setup.program = "slice" /\ pc = "deliver"
    /\ now' = now + Tick
    /\ IF Exhausted THEN pc' = "drain" /\ UNCHANGED round ELSE pc' = "emit" /\ round' = round + 1
    /\ UNCHANGED <<setup, pending, doubled, fits, points, csv>>

\* The end of either program; the slice has flushed and drained the link.
Finish ==
    /\ pending = {}
    /\ \/ setup.program = "clocksync" /\ pc = "emit" /\ Exhausted
       \/ setup.program = "slice" /\ pc = "drain"
    /\ pc' = "done"
    /\ UNCHANGED <<setup, round, now, pending, doubled, fits, points, csv>>

Next == EmitJittered \/ DeliverDue \/ EmitRound \/ DeliverAny \/ EndRound \/ Finish

\* One thread, which never waits: an in-process link.
Spec == Init /\ [][Next]_vars /\ WF_vars(Next)
-----------------------------------------------------------------------------
(* Properties. *)

PointsOf(n) == 1 .. Len(points[n])
Arrivals(n) == [i \in PointsOf(n) |-> points[n][i].t_ref]
Stamps(n) == [i \in PointsOf(n) |-> points[n][i].t_node]

Product(f, g) == [i \in DOMAIN f |-> f[i] * g[i]]
Moment(n, f, g) ==
    Scale * Scale * (Len(points[n]) * SumFunction(Product(f, g)) - SumFunction(f) * SumFunction(g))

\* "Welford's streaming covariance" (clock_model.py:23-25): the moments kept one packet at a
\* time are those of all the points at once, and a slope is defined from the moment two of
\* them differ in their time of arrival, however many came at the first instant.
FitIsLeastSquares ==
    \A n \in Nodes :
        LET m == fits[n]
            k == Len(points[n])
        IN  /\ k * m.mean_ref = Scale * SumFunction(Arrivals(n))
            /\ k * m.mean_node = Scale * SumFunction(Stamps(n))
            /\ k * m.m_rr = Moment(n, Arrivals(n), Arrivals(n))
            /\ k * m.m_nn = Moment(n, Stamps(n), Stamps(n))
            /\ k * m.m_rn = Moment(n, Arrivals(n), Stamps(n))
            /\ Ready(m) <=> \E i, j \in PointsOf(n) : points[n][i].t_ref # points[n][j].t_ref

\* "Packet loss doesn't bias it either" (clock_model.py:20-21), nor does a constant latency: as
\* long as every packet of a node that arrives does so the same number of rounds after it was
\* sent, lost or doubled ones between them or not, the fit has the node's drift exactly, leaves
\* no residual, gives every block its place on the reference timeline but for that latency, and
\* so does the CSV column, which is blank only as long as a single instant was seen.  (Only of a
\* node without heartbeats: see BeaconsAreAnchors.)
SteadyIsExact ==
    \A n \in Nodes, lag \in 0 .. round + 1 :
        LET Due(r) == (r + lag) * Tick
        IN  /\ Ready(fits[n]) /\ setup.heartbeat_every = 0
            /\ \A i \in PointsOf(n) : points[n][i].t_ref = Due(points[n][i].round)
            => /\ Skew(fits[n]).num * Tick = Skew(fits[n]).den * BlockDt[n]
               /\ Residual(fits[n]) = 0
               /\ \A r \in 0 .. round : ToRef(fits[n], r * BlockDt[n]) = Due(r)
               /\ \A i \in PointsOf(n) :
                     IF points[n][i].t_ref = points[n][1].t_ref
                     THEN csv[n][i] = Blank
                     ELSE csv[n][i] = Due(points[n][i].round)

\* "Every frame carries t_node_us (data or beacon), so each is one regression anchor"
\* (collector.py:112-113), and the skew is "the very drift_ppm SyntheticNode injects"
\* (clock_model.py:11-13): where each packet, heartbeats included, arrives in the round it was
\* sent in, the fit has the node's drift.
BeaconsAreAnchors ==
    \A n \in Nodes :
        /\ Ready(fits[n])
        /\ \A i \in PointsOf(n) : points[n][i].t_ref = points[n][i].round * Tick
        => Skew(fits[n]).num * Tick = Skew(fits[n]).den * BlockDt[n]

\* A fit turns a node's clock backwards, or stops it (to_ref then returns the node's own time),
\* only if the node's packets were doubled, overtook each other or were heartbeats: no jitter
\* and no loss does it, since the reference clock never goes back.
ForwardUnlessDisorder ==
    \A n \in Nodes :
        /\ Ready(fits[n])
        /\ \A i, j \in PointsOf(n) : i < j => points[n][i].t_node < points[n][j].t_node
        => Skew(fits[n]).num > 0

\* Either program runs to its end: jitter larger than the gap between two arrivals asks the
\* reference clock to go back, which it refuses (clock.py:69), and run never lets it come to
\* that ("deliver in arrival order so the reference clock only moves forward",
\* clocksync.py:59-60).
Completes == <>(pc = "done")
=============================================================================
