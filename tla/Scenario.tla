------------------------------ MODULE Scenario ------------------------------
(***************************************************************************)
(* The scenario simulator of the Rust crate                                *)
(* (crates/wiredaq-rs/src/scenario.rs, run_scenario): one node after the   *)
(* other, a sender and its link put deliveries with a time of arrival on a *)
(* wire, then a receiver takes them in the order of those times and counts *)
(* losses and overtakings from the sequence numbers.                       *)
(*                                                                         *)
(* Time is in fractions of a microsecond, Micro of which are one.  `at`,   *)
(* `duration` and multiples of a period are the exact times a scenario     *)
(* file means; the code compares floating-point numbers, each within       *)
(* `rounding` of the exact one (205 / 100 * 1e6 is 2049999.9999999998).    *)
(* A rate is 0 (never), 1 (at times) or 2 (always); sizes and contents of  *)
(* the frames are left out, but for whether a channel is live.             *)
(***************************************************************************)
EXTENDS Integers, Sequences, FiniteSets

CONSTANTS
    Scenarios,          \* what load_scenario_str gives and validate_scenario lets pass
    Micro

Rate == 0 .. 2

Near(x, y, bound) == x - y \in (-bound) .. bound

ASSUME ScenarioAssumption ==
    /\ Micro \in Nat \ {0}
    /\ \A s \in Scenarios :
          /\ s.kind \in {"udp", "serial"}
          /\ {s.loss, s.duplicate, s.reorder} \subseteq Rate
          /\ s.jitter \in Nat /\ s.rounding \in Nat
          /\ s.nodes \in Seq([packets : Nat, period : Nat \ {0}]) /\ s.nodes # <<>>
          /\ \A n \in DOMAIN s.nodes : 2 * s.rounding < s.nodes[n].period
          /\ s.bursts \subseteq [at : Nat, duration : Nat, from : Int, until : Int, loss : Rate]
          /\ \A b \in s.bursts :
                Near(b.from, b.at, s.rounding) /\ Near(b.until, b.at + b.duration, s.rounding)
          /\ s.stuck \in [node : Nat, at : Nat, from : Int]
          /\ Near(s.stuck.from, s.stuck.at, s.rounding)

VARIABLES
    scenario,
    pc,
    node,           \* the node whose turn it is
    seq,
    stuck,          \* its channel's frozen value, Live if there is none
    wire,           \* its deliveries, in the order they were pushed
    taken,          \* those the receiver has read, by index
    high_water,
    seen,
    report,         \* RunReport
    received        \* history: what the receivers decoded, in order

vars == <<scenario, pc, node, seq, stuck, wire, taken, high_water, seen, report, received>>

Live == -1
Counters == {"packets", "delivered", "dropped", "duplicates", "reordered", "observed_lost"}
Period == scenario.nodes[node].period
Sent(s) == s * Period

\* What the code makes of the time packet s is sent; that of the first is exact.
Rounded(s) ==
    IF s = 0 THEN {0} ELSE Sent(s) - scenario.rounding .. Sent(s) + scenario.rounding

TypeOK ==
    /\ scenario \in Scenarios
    /\ pc \in {"emit", "receive", "done"}
    /\ node \in 1 .. Len(scenario.nodes)
    /\ seq \in 0 .. scenario.nodes[node].packets
    /\ stuck \in Int /\ high_water \in Int
    /\ wire \in Seq([seq : Nat, arrival : Int, value : Int])
    /\ taken \subseteq 1 .. Len(wire)
    /\ seen \subseteq Nat
    /\ report \in [Counters -> Nat]

Init ==
    /\ scenario \in Scenarios
    /\ pc = "emit" /\ node = 1 /\ seq = 0 /\ stuck = Live
    /\ wire = <<>> /\ taken = {} /\ high_water = -1 /\ seen = {}
    /\ report = [c \in Counters |-> 0]
    /\ received = <<>>

-----------------------------------------------------------------------------
(* The sender and the link. *)

\* The outcomes of rng.next_f64() < rate.
Outcomes(rate) == {happens \in BOOLEAN : IF happens THEN rate > 0 ELSE rate < 2}

\* Mutant: a burst's end belongs to it.
BurstCoversEnd(b, now) == b.from <= now /\ now <= b.until

BurstCovers(b, now) == b.from <= now /\ now < b.until

\* effective_loss: the greatest of the rates.
EffectiveLoss(now) ==
    LET rates == {scenario.loss} \union {b.loss : b \in {c \in scenario.bursts : BurstCovers(c, now)}}
    IN  CHOOSE r \in rates : \A q \in rates : q <= r

\* synthetic_samples: a stuck channel keeps the first value it would have had; what it had
\* before is not asked.
Frozen(now) ==
    IF node = scenario.stuck.node /\ now >= scenario.stuck.from
    THEN IF stuck = Live THEN seq ELSE stuck
    ELSE Live

Value(now) == IF Frozen(now) = Live THEN seq ELSE Frozen(now)

\* Mutant: on a serial line, too, packets are held back.
HoldsAnywhere == Outcomes(scenario.reorder)

\* The reorder knob holds a datagram back for a period; a serial line it leaves alone.
Holds == IF scenario.kind = "serial" THEN {FALSE} ELSE Outcomes(scenario.reorder)

\* Mutant: it is held back for two.
HeldBackTwice(held) == IF held THEN 2 * Period ELSE 0

HeldBack(held) == IF held THEN Period ELSE 0

\* Mutant: the second copy has a sequence number of its own.
CopiesRenumbered(arrival, value, twice) ==
    LET d == [seq |-> seq, arrival |-> arrival, value |-> value]
    IN  IF twice THEN <<d, [d EXCEPT !.arrival = @ + Micro, !.seq = @ + 1]>> ELSE <<d>>

Copies(arrival, value, twice) ==
    LET d == [seq |-> seq, arrival |-> arrival, value |-> value]
    IN  IF twice THEN <<d, [d EXCEPT !.arrival = @ + Micro]>> ELSE <<d>>

Emit ==
    /\ pc = "emit" /\ seq < scenario.nodes[node].packets
    /\ \E now \in Rounded(seq) :
          /\ \/ /\ TRUE \in Outcomes(EffectiveLoss(now))
                /\ report' = [report EXCEPT !.packets = @ + 1, !.dropped = @ + 1]
                /\ UNCHANGED wire
             \/ /\ FALSE \in Outcomes(EffectiveLoss(now))
                /\ \E jitter \in (-scenario.jitter) .. scenario.jitter,
                      rounding \in (-scenario.rounding) .. scenario.rounding,
                      held \in Holds, twice \in Outcomes(scenario.duplicate) :
                      /\ wire' = wire \o Copies(Sent(seq) + jitter * Micro + rounding
                                                   + HeldBack(held), Value(now), twice)
                      /\ report' = [report EXCEPT !.packets = @ + 1,
                                                  !.duplicates = IF twice THEN @ + 1 ELSE @]
          /\ stuck' = Frozen(now)
    /\ seq' = seq + 1
    /\ UNCHANGED <<scenario, pc, node, taken, high_water, seen, received>>

Emitted ==
    /\ pc = "emit" /\ seq = scenario.nodes[node].packets
    /\ pc' = "receive"
    /\ UNCHANGED <<scenario, node, seq, stuck, wire, taken, high_water, seen, report, received>>

-----------------------------------------------------------------------------
(* The receiver. *)

\* sort_by is stable.
Before(i, j) ==
    \/ wire[i].arrival < wire[j].arrival
    \/ wire[i].arrival = wire[j].arrival /\ i < j

Receive ==
    /\ pc = "receive"
    /\ \E i \in (1 .. Len(wire)) \ taken :
          LET first == wire[i].seq \notin seen
              late == first /\ wire[i].seq < high_water
          IN  /\ \A j \in (1 .. Len(wire)) \ taken : j = i \/ Before(i, j)
              /\ taken' = taken \union {i}
              /\ seen' = seen \union {wire[i].seq}
              /\ high_water' = IF first /\ ~late THEN wire[i].seq ELSE high_water
              /\ report' = [report EXCEPT !.delivered = @ + 1, !.reordered = IF late THEN @ + 1 ELSE @]
              /\ received' = Append(received, [node |-> node, seq |-> wire[i].seq,
                                               value |-> wire[i].value])
    /\ UNCHANGED <<scenario, pc, node, seq, stuck, wire>>

\* The node's observed losses; on to the next node, with a wire and a receiver of its own.
EndNode ==
    /\ pc = "receive" /\ taken = 1 .. Len(wire)
    /\ report' = [report EXCEPT !.observed_lost = @ + seq - Cardinality(seen)]
    /\ IF node < Len(scenario.nodes)
       THEN /\ pc' = "emit" /\ node' = node + 1 /\ seq' = 0 /\ stuck' = Live
            /\ wire' = <<>> /\ taken' = {} /\ high_water' = -1 /\ seen' = {}
       ELSE pc' = "done" /\ UNCHANGED <<node, seq, stuck, wire, taken, high_water, seen>>
    /\ UNCHANGED <<scenario, received>>

Next == Emit \/ Emitted \/ Receive \/ EndNode

Spec == Init /\ [][Next]_vars
-----------------------------------------------------------------------------
(* Properties. *)

\* What the receivers miss in the sequence numbers is what the link dropped ("this equals
\* `dropped` for the node", scenario.rs:276), whatever was doubled or overtaken, at the end of
\* every node.
ObservedIsDropped ==
    pc = "done" \/ (pc = "emit" /\ seq = 0) => report.observed_lost = report.dropped

\* "Distinct arrivals + drops == offered (delivered also counts duplicate copies)" (the test,
\* scenario.rs:559).
Accounted ==
    pc = "done" => report.delivered - report.duplicates + report.dropped = report.packets

\* "A single serial wire delivers bytes in order, so packets can't overtake each other there"
\* (scenario.rs:182-183) is true of the hold-back knob, but jitter is applied there as on any
\* other link: no packet overtakes another as long as the jitter is at most half the time
\* between two packets (and beyond that they do).
SerialInOrder ==
    /\ scenario.kind = "serial"
    /\ \A n \in DOMAIN scenario.nodes :
          2 * (scenario.jitter * Micro + scenario.rounding) <= scenario.nodes[n].period
    => report.reordered = 0

\* "Hold this one back a slot so its neighbour overtakes it" (scenario.rs:244): where times
\* are exact and nothing is doubled, a frame that arrives late is read after the frame sent
\* next, if that one is in time.
HeldIsOvertaken ==
    scenario.jitter = 0 /\ scenario.rounding = 0 /\ scenario.duplicate = 0 =>
        \A i \in taken, j \in DOMAIN wire :
            /\ wire[i].arrival > Sent(wire[i].seq)
            /\ wire[j].seq = wire[i].seq + 1 /\ wire[j].arrival = Sent(wire[j].seq)
            => j \in taken

\* What holds of it: without jitter no frame is overtaken by any but the one sent next,
\* however many are held back, doubled or lost, and whatever rounding does to the tie between
\* a frame held back and its neighbour.
OvertakenByNeighbourOnly ==
    scenario.jitter = 0 =>
        \A i \in taken, j \in DOMAIN wire :
            wire[j].seq \notin seen /\ wire[j].seq < wire[i].seq => wire[i].seq = wire[j].seq + 1

\* Packet s of node n is sent at time t or later, or before t, however the times are rounded.
SentAt(n, s) == s * scenario.nodes[n].period
SurelyFrom(n, s, t) == SentAt(n, s) >= t + 2 * scenario.rounding
SurelyBefore(n, s, t) == SentAt(n, s) + 2 * scenario.rounding < t

\* Faults act in their windows and nowhere else: on a link that loses nothing else, a packet
\* sent from a burst's beginning up to but not including its end is lost and one sent outside
\* of all bursts arrives; a stuck sensor (scenario.rs:49-50) has one value from the fault on,
\* to the end, whatever packets are lost, and its own in every packet before and on every other
\* channel; that it is the "last live value" is not claimed (see Frozen).  Packets sent within the rounding error of a fault's begin or end may do either.
FaultsInTheirWindow ==
    LET Arrived(n, s) == \E i \in DOMAIN received : received[i].node = n /\ received[i].seq = s
        Inside(n, s, b) == SurelyFrom(n, s, b.at) /\ SurelyBefore(n, s, b.at + b.duration)
        Outside(n, s, b) == SurelyBefore(n, s, b.at) \/ SurelyFrom(n, s, b.at + b.duration)
        UnderFault(p) == p.node = scenario.stuck.node /\ SurelyFrom(p.node, p.seq, scenario.stuck.at)
        Faultless(p) == p.node = scenario.stuck.node => SurelyBefore(p.node, p.seq, scenario.stuck.at)
    IN  /\ pc = "done" /\ scenario.loss = 0 /\ (\A b \in scenario.bursts : b.loss = 2) =>
              \A n \in DOMAIN scenario.nodes : \A s \in 0 .. scenario.nodes[n].packets - 1 :
                  /\ (\E b \in scenario.bursts : Inside(n, s, b)) => ~Arrived(n, s)
                  /\ (\A b \in scenario.bursts : Outside(n, s, b)) => Arrived(n, s)
        /\ \A i \in DOMAIN received : Faultless(received[i]) => received[i].value = received[i].seq
        /\ \A i, k \in DOMAIN received :
              UnderFault(received[i]) /\ UnderFault(received[k])
              => received[i].value = received[k].value
=============================================================================
