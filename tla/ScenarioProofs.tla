--------------------------- MODULE ScenarioProofs ---------------------------
(***************************************************************************)
(* Proofs about Scenario, for every set of scenarios: type correctness,    *)
(* the equality of observed and injected losses, the accounts of a run,    *)
(* when frames cannot be reordered or only by their neighbours, and where  *)
(* faults act.                                                             *)
(***************************************************************************)
EXTENDS Scenario, FiniteSetTheorems, SequenceTheorems, TLAPS

Delivery == [seq : Nat, arrival : Int, value : Int]
Indices == 1 .. Len(wire)
Pushed == {wire[i].seq : i \in Indices}

(***************************************************************************)
(* The inductive invariant.  The numbers on the wire and those dropped add *)
(* up to those sent (Losses), every copy on the wire is read once          *)
(* (Accounts), and the receiver knows what it has read (Reading).          *)
(***************************************************************************)
Sending ==
    /\ \A i \in Indices : wire[i].seq < seq
    /\ pc = "emit" => taken = {} /\ seen = {} /\ high_water = -1
    /\ seq = 0 /\ pc = "emit" => wire = <<>>

Losses ==
    IF pc = "done"
    THEN report.dropped = report.observed_lost
    ELSE Cardinality(Pushed) + report.dropped = seq + report.observed_lost

Unread == Len(wire) - Cardinality(taken)

Accounts ==
    /\ report.delivered + report.dropped + Unread = report.packets + report.duplicates
    /\ pc = "done" => taken = Indices

Reading ==
    /\ seen = {wire[i].seq : i \in taken}
    /\ high_water \in seen \union {-1}
    /\ \A i \in taken, j \in Indices \ taken : Before(i, j)

(***************************************************************************)
(* Links that cannot reorder: with little jitter and nothing held back.    *)
(* There the first copy of a frame arrives within its slot, and so before  *)
(* whatever is sent after it (InTurn).                                     *)
(***************************************************************************)
Wobble == scenario.jitter * Micro + scenario.rounding

Orderly ==
    /\ scenario.kind = "serial"
    /\ \A n \in DOMAIN scenario.nodes : 2 * Wobble <= scenario.nodes[n].period

InTurn ==
    Orderly =>
        /\ report.reordered = 0
        /\ \A k \in Indices : \E i \in Indices :
              wire[i].seq = wire[k].seq /\ wire[i].arrival + Wobble <= Sent(wire[k].seq) + Period
        /\ \A j, k \in Indices : wire[k].seq < wire[j].seq =>
              \E i \in Indices : wire[i].seq = wire[k].seq /\ Before(i, j)

IInv == TypeOK /\ Sending /\ Losses /\ Accounts /\ Reading /\ InTurn
-----------------------------------------------------------------------------
\* What the assumption on the scenarios says of the one that runs.
LEMMA ScenarioTypes ==
    ASSUME TypeOK
    PROVE  /\ Period \in Nat \ {0} /\ scenario.nodes[node].packets \in Nat
           /\ Micro \in Nat /\ scenario.jitter \in Nat /\ scenario.rounding \in Nat
           /\ Len(scenario.nodes) \in Nat /\ node \in DOMAIN scenario.nodes
           /\ Wobble \in Nat
           /\ 2 * scenario.rounding < Period
           /\ scenario.stuck.at \in Nat /\ scenario.stuck.from \in Int
           /\ scenario.stuck.from <= scenario.stuck.at + scenario.rounding
           /\ scenario.stuck.from >= scenario.stuck.at - scenario.rounding
           /\ \A m \in 1 .. Len(scenario.nodes) : scenario.nodes[m].packets \in Nat
<1> DEFINE N == [packets : Nat, period : Nat \ {0}]
<1>1. /\ Micro \in Nat /\ scenario.jitter \in Nat /\ scenario.rounding \in Nat
      /\ scenario.nodes \in Seq(N) /\ scenario.stuck \in [node : Nat, at : Nat, from : Int]
      /\ node \in 1 .. Len(scenario.nodes)
      /\ \A m \in DOMAIN scenario.nodes : 2 * scenario.rounding < scenario.nodes[m].period
      /\ Near(scenario.stuck.from, scenario.stuck.at, scenario.rounding)
  BY ScenarioAssumption DEF TypeOK
<1>2. \A m \in 1 .. Len(scenario.nodes) : scenario.nodes[m] \in N
  BY <1>1, ElementOfSeq
<1>3. Len(scenario.nodes) \in Nat /\ DOMAIN scenario.nodes = 1 .. Len(scenario.nodes)
  BY <1>1, LenProperties
<1>4. \A x, y, z \in Nat : x * y + z \in Nat
  OBVIOUS
<1>5. Wobble \in Nat
  BY <1>1, <1>4 DEF Wobble
<1>6. /\ scenario.stuck.at \in Nat /\ scenario.stuck.from \in Int
      /\ scenario.stuck.from <= scenario.stuck.at + scenario.rounding
      /\ scenario.stuck.from >= scenario.stuck.at - scenario.rounding
  <2>1. /\ scenario.stuck.at \in Nat /\ scenario.stuck.from \in Int
        /\ scenario.stuck.from - scenario.stuck.at \in (-scenario.rounding) .. scenario.rounding
    BY <1>1 DEF Near
  <2>2. \A x, y, b \in Int : x - y \in (-b) .. b => x <= y + b /\ x >= y - b
    OBVIOUS
  <2>3. scenario.rounding \in Int /\ scenario.stuck.at \in Int
    BY <1>1, <2>1
  <2> QED
    BY <2>1, <2>2, <2>3, Zenon
<1>7. node \in DOMAIN scenario.nodes /\ 2 * scenario.rounding < Period
  BY <1>1, <1>3 DEF Period
<1> QED
  BY <1>1, <1>2, <1>3, <1>5, <1>6, <1>7 DEF Period

\* The numbers on the wire are finitely many, all of them below seq.
LEMMA PushedFinite ==
    ASSUME TypeOK, Sending
    PROVE  /\ seq \in Nat /\ wire \in Seq(Delivery) /\ Len(wire) \in Nat
           /\ \A i \in Indices : wire[i] \in Delivery
           /\ IsFiniteSet(Pushed) /\ Cardinality(Pushed) \in 0 .. seq
           /\ IsFiniteSet(taken) /\ Cardinality(taken) \in Nat /\ Unread \in Int
<1>1. seq \in Nat /\ wire \in Seq(Delivery) /\ Len(wire) \in Nat
  BY ScenarioTypes, LenProperties DEF TypeOK, Delivery
<1>2. \A i \in Indices : wire[i] \in Delivery
  BY <1>1, ElementOfSeq DEF Indices
<1>3. Pushed \subseteq 0 .. (seq - 1)
  BY <1>1, <1>2 DEF Pushed, Sending, Delivery
<1>4. IsFiniteSet(0 .. (seq - 1)) /\ Cardinality(0 .. (seq - 1)) = seq
  <2>1. 0 \in Int /\ seq - 1 \in Int
    BY <1>1
  <2>2. /\ IsFiniteSet(0 .. (seq - 1))
        /\ Cardinality(0 .. (seq - 1)) = IF 0 > seq - 1 THEN 0 ELSE seq - 1 - 0 + 1
    BY <2>1, FS_Interval
  <2> QED
    BY <1>1, <2>2
<1>5. IsFiniteSet(Pushed) /\ Cardinality(Pushed) <= seq
  BY <1>3, <1>4, FS_Subset
<1>6. IsFiniteSet(taken)
  <2>1. IsFiniteSet(1 .. Len(wire))
    BY <1>1, FS_Interval
  <2> QED
    BY <2>1, FS_Subset DEF TypeOK
<1> QED
  BY <1>1, <1>2, <1>5, <1>6, FS_CardinalityType DEF Unread

\* What is pushed for a frame: one copy at its time of arrival, perhaps a second one behind.
LEMMA PushEffect ==
    ASSUME TypeOK, Sending, NEW a \in Int, NEW value \in Int, NEW twice \in BOOLEAN,
           wire' = wire \o Copies(a, value, twice)
    PROVE  /\ wire' \in Seq(Delivery)
           /\ Len(wire') = Len(wire) + (IF twice THEN 2 ELSE 1)
           /\ \A i \in Indices : wire'[i] = wire[i]
           /\ \A i \in Len(wire) + 1 .. Len(wire') :
                 wire'[i].seq = seq /\ wire'[i].arrival >= a /\ wire'[i].value = value
           /\ wire'[Len(wire) + 1].arrival = a
<1> DEFINE d == [seq |-> seq, arrival |-> a, value |-> value]
           e == [d EXCEPT !.arrival = @ + Micro]
<1>1. wire \in Seq(Delivery) /\ Len(wire) \in Nat /\ seq \in Nat /\ Micro \in Nat
  BY PushedFinite, ScenarioTypes
<1>3. d \in Delivery /\ e \in Delivery /\ e.seq = seq /\ e.arrival = a + Micro
        /\ d.seq = seq /\ d.arrival = a
        /\ d.value = value /\ e.value = value
  BY <1>1 DEF Delivery
<1>4. Copies(a, value, twice) = IF twice THEN <<d, e>> ELSE <<d>>
  BY DEF Copies
<1> HIDE DEF d, e
<1>5. CASE twice
  <2>1. <<d, e>> \in Seq(Delivery) /\ Len(<<d, e>>) = 2 /\ <<d, e>>[1] = d /\ <<d, e>>[2] = e
    BY <1>3
  <2>2. /\ wire' \in Seq(Delivery) /\ Len(wire') = Len(wire) + 2
        /\ \A i \in 1 .. Len(wire) + 2 :
              wire'[i] = IF i <= Len(wire) THEN wire[i] ELSE <<d, e>>[i - Len(wire)]
    BY <1>1, <1>4, <1>5, <2>1, ConcatProperties
  <2>3. wire'[Len(wire) + 1] = d /\ wire'[Len(wire) + 2] = e
    <3>1. Len(wire) + 1 \in 1 .. Len(wire) + 2 /\ Len(wire) + 2 \in 1 .. Len(wire) + 2
          /\ ~(Len(wire) + 1 <= Len(wire)) /\ ~(Len(wire) + 2 <= Len(wire))
          /\ Len(wire) + 1 - Len(wire) = 1 /\ Len(wire) + 2 - Len(wire) = 2
      BY <1>1
    <3> QED
      BY <2>1, <2>2, <3>1
  <2>4. \A i \in Len(wire) + 1 .. Len(wire) + 2 : i = Len(wire) + 1 \/ i = Len(wire) + 2
    <3>1. \A n \in Nat : \A i \in n + 1 .. n + 2 : i = n + 1 \/ i = n + 2
      OBVIOUS
    <3> QED
      BY <1>1, <3>1, Zenon
  <2>5. a + Micro >= a /\ a >= a
    BY <1>1
  <2>6. \A i \in Indices : i \in 1 .. Len(wire) + 2 /\ i <= Len(wire)
    BY <1>1 DEF Indices
  <2>7. \A i \in Indices : wire'[i] = wire[i]
    BY <2>2, <2>6, Zenon
  <2>8. ASSUME NEW i \in Len(wire) + 1 .. Len(wire) + 2
        PROVE  wire'[i].seq = seq /\ wire'[i].arrival >= a /\ wire'[i].value = value
    <3>1. CASE i = Len(wire) + 1
      BY <1>3, <2>3, <2>5, <3>1
    <3>2. CASE i = Len(wire) + 2
      BY <1>3, <2>3, <2>5, <3>2
    <3> QED
      BY <2>4, <2>8, <3>1, <3>2, Zenon
  <2>9. Len(wire) + 1 .. Len(wire') = Len(wire) + 1 .. Len(wire) + 2
    BY <2>2
  <2>10. wire'[Len(wire) + 1].arrival = a
    BY <1>3, <2>3, Zenon
  <2> QED
    BY <1>5, <2>2, <2>7, <2>8, <2>9, <2>10, Zenon
<1>6. CASE ~twice
  <2>1. <<d>> \in Seq(Delivery) /\ Len(<<d>>) = 1 /\ <<d>>[1] = d
    BY <1>3
  <2>2. /\ wire' \in Seq(Delivery) /\ Len(wire') = Len(wire) + 1
        /\ \A i \in 1 .. Len(wire) + 1 :
              wire'[i] = IF i <= Len(wire) THEN wire[i] ELSE <<d>>[i - Len(wire)]
    BY <1>1, <1>4, <1>6, <2>1, ConcatProperties
  <2>3. wire'[Len(wire) + 1] = d
    <3>1. Len(wire) + 1 \in 1 .. Len(wire) + 1 /\ ~(Len(wire) + 1 <= Len(wire))
          /\ Len(wire) + 1 - Len(wire) = 1
      BY <1>1
    <3> QED
      BY <2>1, <2>2, <3>1
  <2>4. \A i \in Len(wire) + 1 .. Len(wire) + 1 : i = Len(wire) + 1
    BY <1>1
  <2>5. a >= a
    OBVIOUS
  <2>6. \A i \in Indices : i \in 1 .. Len(wire) + 1 /\ i <= Len(wire)
    BY <1>1 DEF Indices
  <2> QED
    BY <1>3, <1>6, <2>2, <2>3, <2>4, <2>5, <2>6
<1> QED
  BY <1>5, <1>6

\* A frame is due within the slot of the one sent before it at the latest when it is sent.
LEMMA SlotsInOrder ==
    ASSUME NEW p \in Nat \ {0}, NEW s \in Nat, NEW t \in Nat, s < t
    PROVE  s * p \in Nat /\ t * p \in Nat /\ s * p + p <= t * p
<1>1. s * p \in Nat /\ t * p \in Nat /\ (s + 1) * p = s * p + p
  OBVIOUS
<1>2. (s + 1) * p <= t * p
  <2>1. t - (s + 1) \in Nat
    OBVIOUS
  <2>2. (t - (s + 1)) * p \in Nat
    BY <2>1
  <2>3. t * p = (t - (s + 1)) * p + (s + 1) * p
    OBVIOUS
  <2> QED
    BY <1>1, <2>2, <2>3
<1> QED
  BY <1>1, <1>2

\* The counters are numbers, and one more of one of them is one too.
LEMMA CounterTypes ==
    ASSUME TypeOK
    PROVE  /\ report \in [Counters -> Nat]
           /\ report.packets \in Nat /\ report.delivered \in Nat /\ report.dropped \in Nat
           /\ report.duplicates \in Nat /\ report.reordered \in Nat /\ report.observed_lost \in Nat
BY DEF TypeOK, Counters

-----------------------------------------------------------------------------
LEMMA InitIInv == Init => IInv
<1> SUFFICES ASSUME Init PROVE IInv
  OBVIOUS
<1>1. /\ Len(wire) = 0 /\ wire = <<>> /\ taken = {} /\ seen = {} /\ seq = 0 /\ pc = "emit"
      /\ high_water = -1 /\ node = 1 /\ stuck = -1 /\ scenario \in Scenarios
  BY DEF Init, Live
<1>2. Indices = {} /\ Pushed = {}
  BY <1>1 DEF Indices, Pushed
<1>3. report \in [Counters -> Nat] /\ \A c \in Counters : report[c] = 0
  BY DEF Init
<1>4. report.packets = 0 /\ report.delivered = 0 /\ report.dropped = 0
      /\ report.duplicates = 0 /\ report.reordered = 0 /\ report.observed_lost = 0
  BY <1>3 DEF Counters
<1>5. 1 \in 1 .. Len(scenario.nodes) /\ scenario.nodes[1].packets \in Nat
  <2> DEFINE N == [packets : Nat, period : Nat \ {0}]
  <2>1. scenario.nodes \in Seq(N) /\ scenario.nodes # <<>>
    BY <1>1, ScenarioAssumption
  <2>2. Len(scenario.nodes) \in Nat /\ Len(scenario.nodes) # 0
    BY <2>1, EmptySeq, LenProperties
  <2>3. 1 \in 1 .. Len(scenario.nodes)
    BY <2>2
  <2> HIDE DEF N
  <2>4. scenario.nodes[1] \in N
    BY <2>1, <2>3, ElementOfSeq
  <2> QED
    BY <2>3, <2>4 DEF N
<1>6. TypeOK
  BY <1>1, <1>3, <1>5 DEF TypeOK
<1>7. Cardinality(Pushed) = 0 /\ Cardinality(taken) = 0
  BY <1>1, <1>2, FS_EmptySet
<1> QED
  BY <1>1, <1>2, <1>4, <1>6, <1>7 DEF IInv, Sending, Losses, Accounts, Unread, Reading, InTurn

\* A frame the link drops.
Drop ==
    /\ wire' = wire
    /\ report' = [report EXCEPT !.packets = @ + 1, !.dropped = @ + 1]

LEMMA DropIInv ==
    ASSUME IInv, Emit, Drop
    PROVE  IInv'
<1>1. /\ pc = "emit" /\ pc' = "emit" /\ scenario' = scenario /\ node' = node /\ seq' = seq + 1
      /\ taken' = taken /\ seen' = seen /\ high_water' = high_water
      /\ seq < scenario.nodes[node].packets /\ \E now \in Rounded(seq) : stuck' = Frozen(now)
      /\ wire' = wire
  BY DEF Emit, Drop
<1>2. /\ seq \in Nat /\ wire \in Seq(Delivery) /\ Len(wire) \in Nat
      /\ \A i \in Indices : wire[i] \in Delivery
      /\ Cardinality(Pushed) \in Nat /\ Cardinality(taken) \in Nat
      /\ scenario.nodes[node].packets \in Nat
  BY PushedFinite, ScenarioTypes DEF IInv
<1>3. /\ report' \in [Counters -> Nat]
      /\ report'.packets = report.packets + 1 /\ report'.dropped = report.dropped + 1
      /\ report'.delivered = report.delivered /\ report'.duplicates = report.duplicates
      /\ report'.observed_lost = report.observed_lost /\ report'.reordered = report.reordered
  <2>1. report \in [Counters -> Nat] /\ report.packets + 1 \in Nat /\ report.dropped + 1 \in Nat
    BY CounterTypes DEF IInv
  <2>2. report' = [report EXCEPT !.packets = report.packets + 1, !.dropped = report.dropped + 1]
    BY DEF Drop
  <2> QED
    BY <2>1, <2>2 DEF Counters
<1>4. stuck' \in Int
  BY <1>1, <1>2 DEF Frozen, Live, IInv, TypeOK
<1>5. TypeOK'
  <2>1. seq' \in 0 .. scenario'.nodes[node'].packets
    BY <1>1, <1>2
  <2> QED
    BY <1>1, <1>3, <1>4, <2>1 DEF IInv, TypeOK
<1>6. Indices' = Indices /\ Pushed' = Pushed /\ Period' = Period /\ Wobble' = Wobble
      /\ (Orderly' <=> Orderly)
  BY <1>1 DEF Indices, Pushed, Period, Wobble, Orderly
<1>7. Sending'
  <2>1. \A i \in Indices : wire[i].seq < seq + 1
    BY <1>2 DEF IInv, Sending, Delivery
  <2> QED
    BY <1>1, <1>2, <1>6, <2>1 DEF IInv, Sending
<1>8. Losses' /\ Accounts'
  <2>1. Cardinality(Pushed) + (report.dropped + 1) = (seq + 1) + report.observed_lost
    <3>1. /\ Cardinality(Pushed) \in Int /\ report.dropped \in Int
          /\ seq \in Int /\ report.observed_lost \in Int
      BY <1>2, CounterTypes DEF IInv
    <3>2. Cardinality(Pushed) + report.dropped = seq + report.observed_lost
      BY <1>1 DEF IInv, Losses
    <3> QED
      BY <3>1, <3>2
  <2>2. report.delivered + (report.dropped + 1) + Unread = (report.packets + 1) + report.duplicates
    <3>1. /\ report.delivered \in Int /\ report.dropped \in Int /\ Unread \in Int
          /\ report.packets \in Int /\ report.duplicates \in Int
      BY PushedFinite, CounterTypes DEF IInv
    <3>2. report.delivered + report.dropped + Unread = report.packets + report.duplicates
      BY DEF IInv, Accounts
    <3> QED
      BY <3>1, <3>2
  <2>3. Cardinality(Pushed)' = Cardinality(Pushed) /\ Unread' = Unread
    BY <1>1, <1>6 DEF Unread
  <2> QED
    BY <1>1, <1>3, <2>1, <2>2, <2>3 DEF Losses, Accounts
<1>9. Reading'
  BY <1>1, <1>6 DEF IInv, Reading, Before
<1>10. InTurn'
  BY <1>1, <1>3, <1>6 DEF IInv, InTurn, Sent, Before
<1> QED
  BY <1>5, <1>7, <1>8, <1>9, <1>10 DEF IInv

\* A frame the link lets pass, in one copy or two.
Arrival(jitter, rounding, held) ==
    Sent(seq) + jitter * Micro + rounding + HeldBack(held)

Push(arrival, value, twice) ==
    /\ wire' = wire \o Copies(arrival, value, twice)
    /\ report' = [report EXCEPT !.packets = @ + 1, !.duplicates = IF twice THEN @ + 1 ELSE @]

\* Jitter and rounding together move a frame by the wobble at most.
LEMMA WobbleBound ==
    ASSUME NEW j \in Nat, NEW r \in Nat, NEW m \in Nat, NEW x \in (-j) .. j, NEW y \in (-r) .. r
    PROVE  /\ x * m \in Int /\ j * m \in Nat
           /\ x * m + y <= j * m + r /\ x * m + y >= -(j * m + r)
<1>1. j * m \in Nat /\ x * m \in Int /\ (j - x) * m \in Int /\ (j + x) * m \in Int
  OBVIOUS
<1>2. (j - x) * m >= 0 /\ (j + x) * m >= 0
  <2>1. j - x \in Nat /\ j + x \in Nat
    OBVIOUS
  <2>2. \A a, b \in Nat : a * b >= 0
    OBVIOUS
  <2> QED
    BY <2>1, <2>2
<1>3. (j - x) * m = j * m - x * m /\ (j + x) * m = j * m + x * m
  OBVIOUS
<1>4. x * m <= j * m /\ x * m >= -(j * m)
  BY <1>1, <1>2, <1>3
<1> QED
  BY <1>1, <1>4

\* On an orderly link a first copy arrives within its slot and not before it is sent, but for
\* the wobble; without jitter a slot late at most and not before it is sent, but for rounding.
LEMMA ArrivalBound ==
    ASSUME TypeOK, seq \in Nat, NEW jitter \in (-scenario.jitter) .. scenario.jitter,
           NEW rounding \in (-scenario.rounding) .. scenario.rounding, NEW held \in Holds
    PROVE  /\ Arrival(jitter, rounding, held) \in Int
           /\ Orderly => /\ Arrival(jitter, rounding, held) + Wobble <= Sent(seq) + Period
                         /\ Sent(seq) <= Arrival(jitter, rounding, held) + Wobble
           /\ scenario.jitter = 0 =>
                 /\ Arrival(jitter, rounding, held) <= Sent(seq) + Period + scenario.rounding
                 /\ Sent(seq) <= Arrival(jitter, rounding, held) + scenario.rounding
<1> DEFINE shift == jitter * Micro + rounding
           hold == HeldBack(held)
<1>1. /\ Period \in Nat \ {0} /\ Wobble \in Nat /\ Micro \in Nat
      /\ scenario.jitter \in Nat /\ scenario.rounding \in Nat /\ node \in DOMAIN scenario.nodes
  BY ScenarioTypes
<1>2. Sent(seq) \in Nat
  BY <1>1 DEF Sent
<1>3. jitter * Micro \in Int /\ rounding \in Int /\ shift <= Wobble /\ shift >= -Wobble
  BY <1>1, WobbleBound DEF Wobble
<1>4. hold \in Nat /\ hold <= Period
  BY <1>1 DEF HeldBack
<1>5. Arrival(jitter, rounding, held) = Sent(seq) + shift + hold
  <2>1. \A a, b, c, d \in Int : a + b + c + d = a + (b + c) + d
    OBVIOUS
  <2> HIDE DEF hold
  <2>2. Arrival(jitter, rounding, held) = Sent(seq) + jitter * Micro + rounding + hold
    BY DEF Arrival, hold
  <2> QED
    BY <1>2, <1>3, <1>4, <2>1, <2>2
<1>6. shift \in Int
  BY <1>3
<1>7. Orderly => hold = 0 /\ 2 * Wobble <= Period
  BY <1>1 DEF Orderly, Holds, HeldBack, Period
<1>8. scenario.jitter = 0 => Wobble = scenario.rounding
  BY <1>1 DEF Wobble
<1> HIDE DEF shift, hold
<1>9. Arrival(jitter, rounding, held) \in Int
  BY <1>2, <1>4, <1>5, <1>6
<1>10. Orderly => /\ Arrival(jitter, rounding, held) + Wobble <= Sent(seq) + Period
                  /\ Sent(seq) <= Arrival(jitter, rounding, held) + Wobble
  BY <1>1, <1>2, <1>3, <1>5, <1>6, <1>7
<1>11. /\ Arrival(jitter, rounding, held) <= Sent(seq) + Period + Wobble
       /\ Sent(seq) <= Arrival(jitter, rounding, held) + Wobble
  BY <1>1, <1>2, <1>3, <1>4, <1>5, <1>6
<1> QED
  BY <1>8, <1>9, <1>10, <1>11

LEMMA PushIInv ==
    ASSUME IInv, Emit, NEW jitter \in (-scenario.jitter) .. scenario.jitter,
           NEW rounding \in (-scenario.rounding) .. scenario.rounding,
           NEW held \in Holds, NEW value \in Int, NEW twice \in BOOLEAN,
           Push(Arrival(jitter, rounding, held), value, twice)
    PROVE  IInv'
<1> DEFINE a == Arrival(jitter, rounding, held)
           n == Len(wire)
<1>1. /\ pc = "emit" /\ pc' = "emit" /\ scenario' = scenario /\ node' = node /\ seq' = seq + 1
      /\ taken' = taken /\ seen' = seen /\ high_water' = high_water
      /\ seq < scenario.nodes[node].packets /\ \E now \in Rounded(seq) : stuck' = Frozen(now)
  BY DEF Emit
<1>2. /\ seq \in Nat /\ wire \in Seq(Delivery) /\ n \in Nat
      /\ \A i \in Indices : wire[i] \in Delivery
      /\ Cardinality(Pushed) \in Nat /\ IsFiniteSet(Pushed)
      /\ scenario.nodes[node].packets \in Nat
  BY PushedFinite, ScenarioTypes DEF IInv
<1>3. a \in Int /\ (Orderly => a + Wobble <= Sent(seq) + Period /\ Sent(seq) <= a + Wobble)
  BY <1>2, ArrivalBound DEF IInv
<1> HIDE DEF a
<1>4. wire' = wire \o Copies(a, value, twice)
  BY DEF Push, a
<1>5. /\ wire' \in Seq(Delivery)
      /\ Len(wire') = n + (IF twice THEN 2 ELSE 1)
      /\ \A i \in Indices : wire'[i] = wire[i]
      /\ \A i \in n + 1 .. Len(wire') : wire'[i].seq = seq /\ wire'[i].arrival >= a
      /\ wire'[n + 1].arrival = a
  BY <1>3, <1>4, PushEffect DEF IInv
<1>6. /\ Len(wire') \in Nat /\ Indices' = 1 .. Len(wire') /\ Indices = 1 .. n
      /\ n + 1 \in n + 1 .. Len(wire') /\ Indices' = Indices \union (n + 1 .. Len(wire'))
      /\ \A i \in Indices, j \in n + 1 .. Len(wire') : i < j
  BY <1>2, <1>5 DEF Indices
<1>7. /\ report' \in [Counters -> Nat]
      /\ report'.packets = report.packets + 1
      /\ report'.duplicates = report.duplicates + (IF twice THEN 1 ELSE 0)
      /\ report'.delivered = report.delivered /\ report'.dropped = report.dropped
      /\ report'.observed_lost = report.observed_lost /\ report'.reordered = report.reordered
  <2> DEFINE p == report.packets + 1
             d == IF twice THEN report.duplicates + 1 ELSE report.duplicates
  <2>1. report \in [Counters -> Nat] /\ p \in Nat /\ d \in Nat
          /\ d = report.duplicates + (IF twice THEN 1 ELSE 0)
    BY CounterTypes DEF IInv
  <2>2. report' = [report EXCEPT !.packets = p, !.duplicates = d]
    BY DEF Push
  <2> HIDE DEF p, d
  <2>3. /\ report' \in [Counters -> Nat] /\ report'.packets = p /\ report'.duplicates = d
        /\ report'.delivered = report.delivered /\ report'.dropped = report.dropped
        /\ report'.observed_lost = report.observed_lost /\ report'.reordered = report.reordered
    BY <2>1, <2>2 DEF Counters
  <2> QED
    BY <2>1, <2>3 DEF p
<1>8. TypeOK'
  <2>1. seq' \in 0 .. scenario'.nodes[node'].packets
    BY <1>1, <1>2
  <2>2. stuck' \in Int
    BY <1>1, <1>2 DEF Frozen, Live, IInv, TypeOK
  <2>3. taken' \subseteq 1 .. Len(wire')
    BY <1>1 DEF IInv, Sending
  <2> QED
    BY <1>1, <1>5, <1>7, <2>1, <2>2, <2>3 DEF IInv, TypeOK, Delivery
<1>9. Sending'
  <2>1. \A i \in Indices' : wire'[i].seq < seq'
    <3>1. \A i \in Indices : wire'[i].seq \in Nat /\ wire'[i].seq < seq
      BY <1>2, <1>5 DEF IInv, Sending, Delivery
    <3>2. \A i \in Indices' : (i \in Indices /\ wire'[i] = wire[i]) \/ wire'[i].seq = seq
      BY <1>5, <1>6, Zenon
    <3>3. seq \in Nat /\ seq' = seq + 1
      BY <1>1, <1>2
    <3>4. \A k \in Nat : k <= seq => k < seq + 1
      BY <3>3
    <3>5. \A i \in Indices' : wire'[i].seq \in Nat /\ wire'[i].seq <= seq
      BY <3>1, <3>2, <3>3
    <3> QED
      BY <3>3, <3>4, <3>5
  <2> QED
    BY <1>1, <1>2, <2>1 DEF IInv, Sending
<1>10. Losses'
  <2>1. Pushed' = Pushed \union {seq}
    BY <1>5, <1>6 DEF Pushed
  <2>2. seq \notin Pushed
    <3>1. \A i \in Indices : wire[i].seq \in Nat /\ wire[i].seq < seq
      BY <1>2 DEF IInv, Sending, Delivery
    <3>2. seq \in Nat
      BY <1>2
    <3> QED
      BY <3>1, <3>2 DEF Pushed
  <2>3. Cardinality(Pushed') = Cardinality(Pushed) + 1
    BY <1>2, <2>1, <2>2, FS_AddElement
  <2>4. (Cardinality(Pushed) + 1) + report.dropped = (seq + 1) + report.observed_lost
    <3>1. /\ Cardinality(Pushed) \in Int /\ report.dropped \in Int
          /\ seq \in Int /\ report.observed_lost \in Int
      BY <1>2, CounterTypes DEF IInv
    <3>2. Cardinality(Pushed) + report.dropped = seq + report.observed_lost
      BY <1>1 DEF IInv, Losses
    <3> QED
      BY <3>1, <3>2
  <2> QED
    BY <1>1, <1>7, <2>3, <2>4 DEF Losses
<1>11. Accounts'
  <2> DEFINE extra == IF twice THEN 1 ELSE 0
  <2>1. Unread' = Unread + (1 + extra)
    <3>1. Cardinality(taken) \in Nat /\ taken' = taken
      BY <1>1, PushedFinite DEF IInv
    <3>2. Len(wire') = n + (1 + extra)
      BY <1>2, <1>5
    <3>3. \A c, e \in Int : (n + e) - c = (n - c) + e
      BY <1>2
    <3> QED
      BY <3>1, <3>2, <3>3 DEF Unread
  <2>2. report.delivered + report.dropped + (Unread + (1 + extra))
          = (report.packets + 1) + (report.duplicates + extra)
    <3>1. /\ report.delivered \in Int /\ report.dropped \in Int /\ Unread \in Int
          /\ report.packets \in Int /\ report.duplicates \in Int /\ extra \in Int
      BY SMTT(30), PushedFinite, CounterTypes DEF IInv
    <3>2. report.delivered + report.dropped + Unread = report.packets + report.duplicates
      BY DEF IInv, Accounts
    <3> HIDE DEF extra
    <3> QED
      BY <3>1, <3>2
  <2> QED
    BY <1>1, <1>7, <2>1, <2>2 DEF Accounts
<1>12. Reading'
  BY <1>1 DEF IInv, Sending, Reading
<1>13. InTurn'
  <2>1. /\ Period' = Period /\ Wobble' = Wobble /\ (Orderly' <=> Orderly)
        /\ \A s : Sent(s)' = s * Period /\ Sent(s) = s * Period
    BY <1>1 DEF Period, Wobble, Orderly, Sent
  <2> SUFFICES ASSUME Orderly
               PROVE  /\ report'.reordered = 0
                      /\ \A k \in Indices' : \E i \in Indices' :
                            /\ wire'[i].seq = wire'[k].seq
                            /\ wire'[i].arrival + Wobble <= wire'[k].seq * Period + Period
                      /\ \A j, k \in Indices' : wire'[k].seq < wire'[j].seq =>
                            \E i \in Indices' :
                               /\ wire'[i].seq = wire'[k].seq
                               /\ \/ wire'[i].arrival < wire'[j].arrival
                                  \/ wire'[i].arrival = wire'[j].arrival /\ i < j
    BY <2>1 DEF InTurn, Before, Sent
  <2>2. \A k \in Indices : \E i \in Indices :
            wire[i].seq = wire[k].seq /\ wire[i].arrival + Wobble <= wire[k].seq * Period + Period
    BY <2>1 DEF IInv, InTurn
  <2>3. report'.reordered = 0
    BY <1>7 DEF IInv, InTurn
  <2>10. \A i \in Indices' : wire'[i].seq \in Nat /\ wire'[i].arrival \in Int
    <3>1. \A i \in 1 .. Len(wire') : wire'[i] \in Delivery
      BY <1>5, ElementOfSeq
    <3> QED
      BY <1>6, <3>1 DEF Delivery
  <2>4. ASSUME NEW k \in Indices'
        PROVE  \E i \in Indices' :
                   /\ wire'[i].seq = wire'[k].seq
                   /\ wire'[i].arrival + Wobble <= wire'[k].seq * Period + Period
    <3>1. CASE k \in Indices
      BY <1>5, <1>6, <2>2, <3>1
    <3>2. CASE k \in n + 1 .. Len(wire')
      <4>1. wire'[n + 1].seq = wire'[k].seq /\ wire'[k].seq = seq /\ n + 1 \in Indices'
        BY <1>5, <1>6, <3>2
      <4>2. wire'[n + 1].arrival + Wobble <= seq * Period + Period
        BY <1>3, <1>5, <2>1
      <4> QED
        BY <4>1, <4>2
    <3> QED
      BY <1>6, <3>1, <3>2
  <2>5. ASSUME NEW j \in Indices', NEW k \in Indices', wire'[k].seq < wire'[j].seq
        PROVE  \E i \in Indices' :
                   /\ wire'[i].seq = wire'[k].seq
                   /\ \/ wire'[i].arrival < wire'[j].arrival
                      \/ wire'[i].arrival = wire'[j].arrival /\ i < j
    <3>1. k \in Indices
      <4>1. ASSUME k \notin Indices PROVE FALSE
        <5>1. wire'[k].seq = seq
          BY <1>5, <1>6, <4>1
        <5>2. \A i \in Indices' : wire'[i].seq \in Nat /\ wire'[i].seq < seq + 1
          BY <1>1, <1>9, <2>10 DEF Sending
        <5> QED
          BY <1>2, <2>5, <5>1, <5>2
      <4> QED
        BY <4>1
    <3>2. CASE j \in Indices
      <4>1. PICK i \in Indices : /\ wire[i].seq = wire[k].seq
                                 /\ \/ wire[i].arrival < wire[j].arrival
                                    \/ wire[i].arrival = wire[j].arrival /\ i < j
        BY <1>5, <2>5, <3>1, <3>2 DEF IInv, InTurn, Before
      <4> QED
        BY <1>5, <1>6, <3>1, <3>2, <4>1
    <3>3. CASE j \in n + 1 .. Len(wire')
      <4>1. PICK i \in Indices : /\ wire[i].seq = wire[k].seq
                                 /\ wire[i].arrival + Wobble <= wire[k].seq * Period + Period
        BY <2>2, <3>1
      <4>2. wire[k].seq \in Nat /\ wire[k].seq < seq /\ wire[i].arrival \in Int
        BY <1>2, <3>1 DEF IInv, Sending, Delivery
      <4>3. wire[k].seq * Period + Period <= seq * Period /\ wire[k].seq * Period \in Int
              /\ seq * Period \in Int /\ Period \in Int /\ Wobble \in Int
        <5>1. Period \in Nat \ {0} /\ Wobble \in Int
          BY ScenarioTypes DEF IInv
        <5>2. \A s, t \in Nat : s < t => /\ s * Period \in Nat /\ t * Period \in Nat
                                         /\ s * Period + Period <= t * Period
          BY <5>1, SlotsInOrder
        <5>3. wire[k].seq \in Nat /\ seq \in Nat /\ wire[k].seq < seq
          BY <1>2, <4>2
        <5>4. /\ wire[k].seq * Period \in Nat /\ seq * Period \in Nat
              /\ wire[k].seq * Period + Period <= seq * Period
          BY <5>2, <5>3, Zenon
        <5>5. \A x \in Nat : x \in Int
          OBVIOUS
        <5> QED
          BY <5>1, <5>4, <5>5, Zenon
      <4>4. seq * Period <= a + Wobble
        BY <1>3, <2>1
      <4>5. wire[i].arrival <= a
        BY <1>3, <4>1, <4>2, <4>3, <4>4
      <4>6. wire'[j].arrival >= a /\ wire'[j].arrival \in Int
        BY <1>5, <1>6, <2>10, <3>3
      <4>7. wire[i].arrival <= wire'[j].arrival
        BY <1>3, <4>2, <4>5, <4>6
      <4>8. wire'[i] = wire[i] /\ wire'[k] = wire[k] /\ i \in Indices' /\ i < j
        BY <1>5, <1>6, <3>1, <3>3
      <4>9. wire'[i].arrival < wire'[j].arrival \/ wire'[i].arrival = wire'[j].arrival
        BY <4>2, <4>6, <4>7, <4>8
      <4>10. wire'[i].seq = wire'[k].seq
        BY <4>1, <4>8
      <4> QED
        BY <4>8, <4>9, <4>10
    <3> QED
      BY <1>6, <3>2, <3>3
  <2> QED
    BY <2>3, <2>4, <2>5
<1> QED
  BY <1>8, <1>9, <1>10, <1>11, <1>12, <1>13 DEF IInv

\* What Emit does: a frame is dropped or pushed, and the sender keeps its frozen value.
LEMMA Offered ==
    ASSUME TypeOK, Emit
    PROVE  \E now \in Rounded(seq) :
              /\ stuck' = Frozen(now) /\ Value(now) \in Int
              /\ \/ TRUE \in Outcomes(EffectiveLoss(now)) /\ Drop
                 \/ /\ FALSE \in Outcomes(EffectiveLoss(now))
                    /\ \E jitter \in (-scenario.jitter) .. scenario.jitter,
                          rounding \in (-scenario.rounding) .. scenario.rounding,
                          held \in Holds, twice \in BOOLEAN :
                          Push(Arrival(jitter, rounding, held), Value(now), twice)
<1>1. PICK now \in Rounded(seq) :
          /\ \/ /\ TRUE \in Outcomes(EffectiveLoss(now))
                /\ report' = [report EXCEPT !.packets = @ + 1, !.dropped = @ + 1]
                /\ UNCHANGED wire
             \/ /\ FALSE \in Outcomes(EffectiveLoss(now))
                /\ \E jitter \in (-scenario.jitter) .. scenario.jitter,
                      rounding \in (-scenario.rounding) .. scenario.rounding,
                      held \in Holds, twice \in Outcomes(scenario.duplicate) :
                      /\ wire' = wire \o Copies(Sent(seq) + jitter * Micro + rounding
                                                   + HeldBack(held), Value(now), twice)
                      /\ report' = [report EXCEPT !.packets = @ + 1,
                                                  !.duplicates = IF twice THEN @ + 1 ELSE @]
          /\ stuck' = Frozen(now)
  BY DEF Emit
<1>2. Value(now) \in Int
  <2>1. seq \in Int /\ stuck \in Int
    BY ScenarioTypes DEF TypeOK
  <2> QED
    BY <2>1 DEF Value, Frozen, Live
<1>3. CASE TRUE \in Outcomes(EffectiveLoss(now)) /\ Drop
  BY <1>1, <1>2, <1>3
<1>4. ASSUME FALSE \in Outcomes(EffectiveLoss(now)),
             NEW jitter \in (-scenario.jitter) .. scenario.jitter,
             NEW rounding \in (-scenario.rounding) .. scenario.rounding,
             NEW held \in Holds, NEW twice \in Outcomes(scenario.duplicate),
             Push(Arrival(jitter, rounding, held), Value(now), twice)
      PROVE  \E h \in Holds, again \in BOOLEAN :
                Push(Arrival(jitter, rounding, h), Value(now), again)
  <2>1. twice \in BOOLEAN
    BY DEF Outcomes
  <2> QED
    BY <1>4, <2>1
<1>5. ASSUME FALSE \in Outcomes(EffectiveLoss(now)),
             \E jitter \in (-scenario.jitter) .. scenario.jitter,
                rounding \in (-scenario.rounding) .. scenario.rounding,
                held \in Holds, twice \in Outcomes(scenario.duplicate) :
                Push(Arrival(jitter, rounding, held), Value(now), twice)
      PROVE  \E jitter \in (-scenario.jitter) .. scenario.jitter,
                rounding \in (-scenario.rounding) .. scenario.rounding,
                held \in Holds, twice \in BOOLEAN :
                Push(Arrival(jitter, rounding, held), Value(now), twice)
  BY <1>4, <1>5
<1> QED
  BY <1>1, <1>2, <1>3, <1>5 DEF Drop, Push, Arrival

LEMMA EmitIInv == IInv /\ Emit => IInv'
<1> SUFFICES ASSUME IInv, Emit PROVE IInv'
  OBVIOUS
<1>1. ASSUME Drop PROVE IInv'
  BY <1>1, DropIInv
<1>2. ASSUME NEW jitter \in (-scenario.jitter) .. scenario.jitter,
             NEW rounding \in (-scenario.rounding) .. scenario.rounding,
             NEW held \in Holds, NEW value \in Int, NEW twice \in BOOLEAN,
             Push(Arrival(jitter, rounding, held), value, twice)
      PROVE  IInv'
  BY <1>2, PushIInv
<1> QED
  BY <1>1, <1>2, Offered DEF IInv

LEMMA EmittedIInv == IInv /\ Emitted => IInv'
<1> SUFFICES ASSUME IInv, Emitted PROVE IInv'
  OBVIOUS
<1>1. /\ pc = "emit" /\ pc' = "receive"
      /\ UNCHANGED <<scenario, node, seq, stuck, wire, taken, high_water, seen, report>>
  BY DEF Emitted
<1>2. TypeOK'
  BY <1>1 DEF IInv, TypeOK
<1>3. Indices' = Indices /\ Pushed' = Pushed /\ Period' = Period /\ Wobble' = Wobble
      /\ (Orderly' <=> Orderly) /\ Unread' = Unread
  BY <1>1 DEF Indices, Pushed, Period, Wobble, Orderly, Unread
<1>4. taken = {} /\ seen = {} /\ high_water = -1
  BY <1>1 DEF IInv, Sending
<1>5. Sending' /\ Losses' /\ Accounts'
  BY <1>1, <1>3 DEF IInv, Sending, Losses, Accounts
<1>6. Reading'
  BY <1>1, <1>4 DEF Reading
<1>7. InTurn'
  BY <1>1, <1>3 DEF IInv, InTurn, Sent, Before
<1> QED
  BY <1>2, <1>5, <1>6, <1>7 DEF IInv

\* On an orderly link the first copy of a number not yet seen is not late: had the receiver read
\* a later number, the copy would have been read before it.
LEMMA NeverLate ==
    ASSUME IInv, Orderly, NEW i \in Indices \ taken, wire[i].seq \notin seen
    PROVE  ~(wire[i].seq < high_water)
<1> SUFFICES ASSUME wire[i].seq < high_water PROVE FALSE
  OBVIOUS
<1>1. \A k \in Indices : wire[k].seq \in Nat /\ wire[k].arrival \in Int /\ k \in Nat
  <2>1. \A k \in Indices : wire[k] \in Delivery
    BY PushedFinite DEF IInv
  <2>2. \A k \in Indices : k \in Nat
    BY PushedFinite DEF IInv, Indices
  <2> QED
    BY <2>1, <2>2 DEF Delivery
<1>2. PICK h \in taken : wire[h].seq = high_water
  BY <1>1 DEF IInv, Reading
<1>3. h \in Indices
  BY DEF IInv, TypeOK, Indices
<1>4. PICK first \in Indices : wire[first].seq = wire[i].seq /\ Before(first, h)
  BY <1>2, <1>3 DEF IInv, InTurn
<1>5. first \notin taken
  BY <1>4 DEF IInv, Reading
<1>6. Before(h, first)
  BY <1>4, <1>5 DEF IInv, Reading
<1> QED
  BY <1>1, <1>3, <1>4, <1>6 DEF Before

LEMMA ReceiveIInv == IInv /\ Receive => IInv'
<1> SUFFICES ASSUME IInv, Receive PROVE IInv'
  OBVIOUS
<1> DEFINE First(i) == wire[i].seq \notin seen
           Late(i) == First(i) /\ wire[i].seq < high_water
<1>1. PICK i \in Indices \ taken :
          /\ \A j \in Indices \ taken : j = i \/ Before(i, j)
          /\ taken' = taken \union {i}
          /\ seen' = seen \union {wire[i].seq}
          /\ high_water' = IF First(i) /\ ~Late(i) THEN wire[i].seq ELSE high_water
          /\ report' = [report EXCEPT !.delivered = @ + 1,
                                      !.reordered = IF Late(i) THEN @ + 1 ELSE @]
  BY DEF Receive, Indices
<1> DEFINE first == First(i)
           late == Late(i)
<1>2. /\ pc = "receive" /\ pc' = "receive"
      /\ UNCHANGED <<scenario, node, seq, stuck, wire>>
  BY DEF Receive
<1>3. /\ wire \in Seq(Delivery) /\ seq \in Nat /\ i \in Indices /\ i \notin taken
      /\ \A k \in Indices : wire[k].seq \in Nat /\ wire[k].arrival \in Int /\ k \in Nat
      /\ IsFiniteSet(taken) /\ Cardinality(taken) \in Nat /\ Len(wire) \in Nat
  <2>1. TypeOK /\ Sending
    BY DEF IInv
  <2>2. /\ wire \in Seq(Delivery) /\ seq \in Nat /\ Len(wire) \in Nat
        /\ \A k \in Indices : wire[k] \in Delivery
        /\ IsFiniteSet(taken) /\ Cardinality(taken) \in Nat
    BY <2>1, PushedFinite
  <2>3. \A k \in Indices : wire[k].seq \in Nat /\ wire[k].arrival \in Int /\ k \in Nat
    BY SMTT(30), <2>2 DEF Delivery, Indices
  <2> QED
    BY <1>1, <2>2, <2>3
<1>4. /\ report' \in [Counters -> Nat]
      /\ report'.delivered = report.delivered + 1
      /\ report'.reordered = IF late THEN report.reordered + 1 ELSE report.reordered
      /\ report'.packets = report.packets /\ report'.dropped = report.dropped
      /\ report'.duplicates = report.duplicates /\ report'.observed_lost = report.observed_lost
  <2> DEFINE d == report.delivered + 1
             r == IF late THEN report.reordered + 1 ELSE report.reordered
  <2>1. report \in [Counters -> Nat] /\ d \in Nat /\ r \in Nat
    BY CounterTypes DEF IInv
  <2>2. report' = [report EXCEPT !.delivered = d, !.reordered = r]
    BY <1>1
  <2> HIDE DEF d, r
  <2>3. /\ report' \in [Counters -> Nat] /\ report'.delivered = d /\ report'.reordered = r
        /\ report'.packets = report.packets /\ report'.dropped = report.dropped
        /\ report'.duplicates = report.duplicates /\ report'.observed_lost = report.observed_lost
    BY <2>1, <2>2 DEF Counters
  <2> QED
    BY <2>3 DEF d, r
<1>5. TypeOK'
  <2>1. taken' \subseteq 1 .. Len(wire') /\ seen' \subseteq Nat /\ high_water' \in Int
    <3>1. /\ taken \subseteq 1 .. Len(wire) /\ seen \subseteq Nat /\ high_water \in Int
          /\ i \in 1 .. Len(wire) /\ wire[i].seq \in Nat
      BY <1>3 DEF IInv, TypeOK, Indices
    <3>2. taken' \subseteq 1 .. Len(wire')
      BY <1>1, <1>2, <3>1
    <3>3. seen' \subseteq Nat
      BY <1>1, <3>1
    <3>4. high_water' = wire[i].seq \/ high_water' = high_water
      BY <1>1
    <3>5. \A x \in Nat : x \in Int
      OBVIOUS
    <3> QED
      BY <3>1, <3>2, <3>3, <3>4, <3>5
  <2> QED
    BY <1>2, <1>4, <2>1 DEF IInv, TypeOK
<1>6. Indices' = Indices /\ Pushed' = Pushed /\ Period' = Period /\ Wobble' = Wobble
      /\ (Orderly' <=> Orderly)
  BY <1>2 DEF Indices, Pushed, Period, Wobble, Orderly
<1>7. Sending' /\ Losses'
  BY <1>2, <1>4, <1>6 DEF IInv, Sending, Losses
<1>8. Accounts'
  <2>1. Unread' = Unread - 1
    <3>1. Cardinality(taken') = Cardinality(taken) + 1
      BY <1>1, <1>3, FS_AddElement
    <3>2. \A m, c \in Int : m - (c + 1) = (m - c) - 1
      OBVIOUS
    <3> QED
      BY <1>2, <1>3, <3>1, <3>2 DEF Unread
  <2>2. (report.delivered + 1) + report.dropped + (Unread - 1) = report.packets + report.duplicates
    <3>1. /\ report.delivered \in Int /\ report.dropped \in Int /\ Unread \in Int
          /\ report.packets \in Int /\ report.duplicates \in Int
      BY PushedFinite, CounterTypes DEF IInv
    <3>2. report.delivered + report.dropped + Unread = report.packets + report.duplicates
      BY DEF IInv, Accounts
    <3> HIDE DEF late, first
    <3> QED
      BY <3>1, <3>2
  <2> QED
    BY <1>2, <1>4, <2>1, <2>2 DEF Accounts
<1>9. Reading'
  <2>1. seen' = {wire[k].seq : k \in taken'}
    BY <1>1 DEF IInv, Reading
  <2>2. high_water' \in seen' \union {-1}
    BY <1>1 DEF IInv, Reading
  <2>3. ASSUME NEW k \in taken', NEW j \in Indices \ taken' PROVE Before(k, j)
    BY <1>1, <2>3 DEF IInv, Reading
  <2> QED
    BY <1>2, <1>6, <2>1, <2>2, <2>3 DEF Reading, Before
<1>10. InTurn'
  <2>1. Orderly => ~late
    BY <1>3, NeverLate
  <2>2. Orderly => report'.reordered = 0
    BY <1>4, <2>1 DEF IInv, InTurn
  <2> QED
    BY <1>2, <1>6, <2>2 DEF IInv, InTurn, Sent, Before
<1> QED
  BY <1>5, <1>7, <1>8, <1>9, <1>10 DEF IInv

LEMMA EndNodeIInv == IInv /\ EndNode => IInv'
<1> SUFFICES ASSUME IInv, EndNode PROVE IInv'
  OBVIOUS
<1>1. /\ pc = "receive" /\ taken = Indices /\ scenario' = scenario
      /\ report' = [report EXCEPT !.observed_lost = @ + seq - Cardinality(seen)]
  BY DEF EndNode, Indices
<1>2. /\ seq \in Nat /\ Len(wire) \in Nat /\ Cardinality(Pushed) \in 0 .. seq
      /\ Unread \in Int /\ Cardinality(taken) \in Nat
  BY PushedFinite DEF IInv
<1>3. seen = Pushed
  BY <1>1 DEF IInv, Reading, Pushed
<1>4. /\ report.observed_lost \in Nat /\ report.dropped \in Nat /\ report \in [Counters -> Nat]
      /\ report.packets \in Nat /\ report.delivered \in Nat /\ report.duplicates \in Nat
  BY CounterTypes DEF IInv
<1>5. report.observed_lost + seq - Cardinality(seen) = report.dropped
  <2>1. Cardinality(Pushed) + report.dropped = seq + report.observed_lost
    BY <1>1 DEF IInv, Losses
  <2>2. Cardinality(Pushed) \in Int
    BY <1>2
  <2>3. report.observed_lost \in Int /\ report.dropped \in Int /\ seq \in Int
    BY <1>2, <1>4
  <2>4. report.observed_lost + seq - Cardinality(Pushed) = report.dropped
    BY <2>1, <2>2, <2>3
  <2> QED
    BY <1>3, <2>4
<1>6. /\ report' \in [Counters -> Nat] /\ report'.observed_lost = report.dropped
      /\ report'.packets = report.packets /\ report'.dropped = report.dropped
      /\ report'.duplicates = report.duplicates /\ report'.delivered = report.delivered
      /\ report'.reordered = report.reordered
  <2>1. report' = [report EXCEPT !.observed_lost = report.dropped]
    BY <1>1, <1>5
  <2> QED
    BY <1>4, <2>1 DEF Counters
<1>7. Unread = 0
  <2>1. Cardinality(1 .. Len(wire)) = Len(wire)
    <3>1. Len(wire) \in Nat
      BY <1>2
    <3>2. \A n \in Nat : Cardinality(1 .. n) = n
      BY FS_Interval
    <3> QED
      BY <3>1, <3>2, Zenon
  <2> QED
    BY <1>1, <1>2, <2>1 DEF Unread, Indices
<1>8. (Orderly' <=> Orderly)
  BY <1>1 DEF Orderly, Wobble
<1>9. report.delivered + report.dropped + 0 = report.packets + report.duplicates
  BY <1>7 DEF IInv, Accounts
<1>10. CASE node < Len(scenario.nodes)
  <2>1. /\ pc' = "emit" /\ node' = node + 1 /\ seq' = 0 /\ stuck' = -1
        /\ wire' = <<>> /\ taken' = {} /\ high_water' = -1 /\ seen' = {}
    BY <1>10 DEF EndNode, Live
  <2>2. Indices' = {} /\ Pushed' = {} /\ Len(wire') = 0
    BY <2>1 DEF Indices, Pushed
  <2>3. Cardinality(Pushed') = 0 /\ Unread' = 0
    BY <2>1, <2>2, FS_EmptySet DEF Unread
  <2>4. TypeOK'
    <3>1. node' \in 1 .. Len(scenario.nodes) /\ scenario.nodes[node'].packets \in Nat
      <4>1. node \in Nat /\ node >= 1 /\ Len(scenario.nodes) \in Nat
        BY ScenarioTypes DEF IInv, TypeOK
      <4>2. node' \in 1 .. Len(scenario.nodes)
        BY <1>10, <2>1, <4>1
      <4>3. \A k \in 1 .. Len(scenario.nodes) : scenario.nodes[k].packets \in Nat
        BY ScenarioTypes DEF IInv, TypeOK
      <4> QED
        BY <4>2, <4>3, Zenon
    <3>2. seq' \in 0 .. scenario'.nodes[node'].packets
      BY <1>1, <2>1, <3>1
    <3>3. wire' \in Seq(Delivery) /\ taken' \subseteq 1 .. Len(wire')
      BY <2>1
    <3>4. scenario' \in Scenarios /\ node' \in 1 .. Len(scenario'.nodes)
      BY <1>1, <3>1 DEF IInv, TypeOK
    <3>5. pc' \in {"emit", "receive", "done"} /\ stuck' \in Int /\ high_water' \in Int
            /\ seen' \subseteq Nat
      BY <2>1
    <3> QED
      BY <1>6, <3>2, <3>3, <3>4, <3>5 DEF TypeOK, Delivery
  <2>5. Sending' /\ Reading'
    BY <2>1, <2>2 DEF Sending, Reading
  <2>6. Losses' /\ Accounts'
    <3>1. 0 + report.dropped = 0 + report.dropped
      OBVIOUS
    <3> QED
      BY <1>6, <1>9, <2>1, <2>3, <3>1 DEF Losses, Accounts
  <2>7. InTurn'
    BY <1>6, <1>8, <2>2 DEF IInv, InTurn
  <2> QED
    BY <2>4, <2>5, <2>6, <2>7 DEF IInv
<1>11. CASE ~(node < Len(scenario.nodes))
  <2>1. /\ pc' = "done" /\ UNCHANGED <<node, seq, stuck, wire, taken, high_water, seen>>
    BY <1>11 DEF EndNode
  <2>2. Indices' = Indices /\ Pushed' = Pushed /\ Period' = Period /\ Wobble' = Wobble /\ Unread' = 0
    BY <1>1, <1>7, <2>1 DEF Indices, Pushed, Period, Wobble, Unread
  <2>3. TypeOK'
    BY <1>1, <1>6, <2>1 DEF IInv, TypeOK
  <2>4. Sending' /\ Reading'
    BY <2>1, <2>2 DEF IInv, Sending, Reading, Before
  <2>5. Losses' /\ Accounts'
    BY <1>1, <1>6, <1>9, <2>1, <2>2 DEF Losses, Accounts
  <2>6. InTurn'
    BY <1>6, <1>8, <2>1, <2>2 DEF IInv, InTurn, Sent, Before
  <2> QED
    BY <2>3, <2>4, <2>5, <2>6 DEF IInv
<1> QED
  BY <1>10, <1>11
-----------------------------------------------------------------------------
(* The theorems. *)

\* The invariant holds throughout: it is the strengthening the properties below rest on.
THEOREM Inductive == Spec => []IInv
<1>1. IInv /\ [Next]_vars => IInv'
  <2> SUFFICES ASSUME IInv, [Next]_vars PROVE IInv'
    OBVIOUS
  <2>1. CASE Emit
    BY <2>1, EmitIInv
  <2>2. CASE Emitted
    BY <2>2, EmittedIInv
  <2>3. CASE Receive
    BY <2>3, ReceiveIInv
  <2>4. CASE EndNode
    BY <2>4, EndNodeIInv
  <2>5. CASE UNCHANGED vars
    <3>1. UNCHANGED <<scenario, pc, node, seq, stuck, wire, taken, high_water, seen, report>>
      BY <2>5 DEF vars
    <3>2. TypeOK' /\ Sending' /\ Losses' /\ Accounts'
      BY <3>1 DEF IInv, TypeOK, Sending, Losses, Accounts, Indices, Pushed, Unread
    <3>3. Reading' /\ InTurn'
      BY <3>1 DEF IInv, Reading, InTurn, Indices, Before, Sent, Period, Orderly, Wobble
    <3> QED
      BY <3>2, <3>3 DEF IInv
  <2> QED
    BY <2>1, <2>2, <2>3, <2>4, <2>5 DEF Next
<1> QED
  BY InitIInv, <1>1, PTL DEF Spec

\* Every variable of a run keeps its type, for any set of valid scenarios.
THEOREM TypeCorrect == Spec => []TypeOK
<1>1. IInv => TypeOK
  BY DEF IInv
<1> QED
  BY Inductive, <1>1, PTL

\* "This equals `dropped` for the node" (scenario.rs:276), at the end of every node of every
\* scenario, whatever the link doubles, delays or holds back.
THEOREM LossObserved == Spec => []ObservedIsDropped
<1>1. IInv => ObservedIsDropped
  <2> SUFFICES ASSUME IInv, pc = "done" \/ (pc = "emit" /\ seq = 0)
               PROVE  report.observed_lost = report.dropped
    BY DEF ObservedIsDropped
  <2>1. CASE pc = "done"
    BY <2>1 DEF IInv, Losses
  <2>2. CASE pc = "emit" /\ seq = 0
    <3>1. Pushed = {}
      BY <2>2 DEF IInv, Sending, Pushed, Indices
    <3>2. Cardinality(Pushed) = 0
      BY <3>1, FS_EmptySet
    <3>3. 0 + report.dropped = 0 + report.observed_lost
      BY <2>2, <3>2 DEF IInv, Losses
    <3>4. report.dropped \in Nat /\ report.observed_lost \in Nat
      BY CounterTypes DEF IInv
    <3> QED
      BY <3>3, <3>4
  <2> QED
    BY <2>1, <2>2
<1> QED
  BY Inductive, <1>1, PTL

\* "Distinct arrivals + drops == offered" (scenario.rs:559), for every scenario.
THEOREM AllAccounted == Spec => []Accounted
<1>1. IInv => Accounted
  <2> SUFFICES ASSUME IInv, pc = "done"
               PROVE  report.delivered - report.duplicates + report.dropped = report.packets
    BY DEF Accounted
  <2>1. Unread = 0
    <3>1. Len(wire) \in Nat
      BY PushedFinite DEF IInv
    <3>2. \A n \in Nat : Cardinality(1 .. n) = n
      BY FS_Interval
    <3>3. Cardinality(1 .. Len(wire)) = Len(wire)
      BY <3>1, <3>2, Zenon
    <3> QED
      BY <3>1, <3>3 DEF Unread, IInv, Accounts, Indices
  <2>2. report.delivered + report.dropped + 0 = report.packets + report.duplicates
    BY <2>1 DEF IInv, Accounts
  <2>3. /\ report.delivered \in Nat /\ report.dropped \in Nat
        /\ report.packets \in Nat /\ report.duplicates \in Nat
    BY CounterTypes DEF IInv
  <2> QED
    BY <2>2, <2>3
<1> QED
  BY Inductive, <1>1, PTL

\* "A single serial wire delivers bytes in order" (scenario.rs:182-183), for every scenario
\* whose jitter is at most half of every node's period.
THEOREM SerialOrder == Spec => []SerialInOrder
<1>1. IInv => SerialInOrder
  BY DEF IInv, InTurn, Orderly, Wobble, SerialInOrder
<1> QED
  BY Inductive, <1>1, PTL

-----------------------------------------------------------------------------
(* What the knob for reordering can do. *)

\* Without jitter the first copy of a frame is a slot late at most, and none is early, but for
\* rounding.
Spaced ==
    scenario.jitter = 0 =>
        /\ \A k \in Indices : \E i \in Indices :
              /\ wire[i].seq = wire[k].seq
              /\ wire[i].arrival <= Sent(wire[k].seq) + Period + scenario.rounding
        /\ \A k \in Indices : Sent(wire[k].seq) <= wire[k].arrival + scenario.rounding

LEMMA EmitSpaced == IInv /\ Spaced /\ Emit => Spaced'
<1> SUFFICES ASSUME IInv, Spaced, Emit PROVE Spaced'
  OBVIOUS
<1>1. scenario' = scenario /\ node' = node /\ Period' = Period /\ \A s : Sent(s)' = Sent(s)
  BY DEF Emit, Period, Sent
<1>2. ASSUME Drop PROVE Spaced'
  BY <1>1, <1>2 DEF Drop, Spaced, Indices, Sent
<1>3. ASSUME NEW jitter \in (-scenario.jitter) .. scenario.jitter,
             NEW rounding \in (-scenario.rounding) .. scenario.rounding,
             NEW held \in Holds, NEW value \in Int, NEW twice \in BOOLEAN,
             Push(Arrival(jitter, rounding, held), value, twice)
      PROVE  Spaced'
  <2> DEFINE a == Arrival(jitter, rounding, held)
             n == Len(wire)
  <2>1. /\ a \in Int /\ Sent(seq) \in Int /\ scenario.rounding \in Int
        /\ scenario.jitter = 0 => /\ a <= Sent(seq) + Period + scenario.rounding
                                  /\ Sent(seq) <= a + scenario.rounding
    <3>1. TypeOK /\ seq \in Nat /\ Period \in Nat /\ scenario.rounding \in Nat
      BY PushedFinite, ScenarioTypes DEF IInv
    <3>2. seq * Period \in Int
      BY <3>1
    <3> QED
      BY <3>1, <3>2, ArrivalBound DEF Sent
  <2> HIDE DEF a
  <2>2. wire' = wire \o Copies(a, value, twice)
    BY <1>3 DEF Push, a
  <2>3. /\ wire' \in Seq(Delivery)
        /\ Len(wire') = n + (IF twice THEN 2 ELSE 1)
        /\ \A i \in Indices : wire'[i] = wire[i]
        /\ \A i \in n + 1 .. Len(wire') : wire'[i].seq = seq /\ wire'[i].arrival >= a
        /\ wire'[n + 1].arrival = a
    BY <2>1, <2>2, PushEffect DEF IInv
  <2>4. n \in Nat /\ Len(wire') \in Nat
    BY <2>3, PushedFinite, LenProperties DEF IInv
  <2>5. /\ Indices = 1 .. n /\ Indices' = 1 .. Len(wire')
        /\ \A i \in Indices' : i \in Indices \/ i \in n + 1 .. Len(wire')
        /\ \A i \in Indices : i \in Indices'
        /\ n + 1 \in Indices' /\ n + 1 \in n + 1 .. Len(wire')
    BY <2>3, <2>4 DEF Indices
  <2>6. \A i \in Indices' : wire'[i].arrival \in Int
    <3>1. \A i \in 1 .. Len(wire') : wire'[i] \in Delivery
      BY <2>3, ElementOfSeq
    <3> QED
      BY <2>5, <3>1 DEF Delivery
  <2> SUFFICES ASSUME scenario.jitter = 0, NEW k \in Indices'
               PROVE  /\ \E i \in Indices' :
                            /\ wire'[i].seq = wire'[k].seq
                            /\ wire'[i].arrival <= Sent(wire'[k].seq) + Period + scenario.rounding
                      /\ Sent(wire'[k].seq) <= wire'[k].arrival + scenario.rounding
    BY <1>1 DEF Spaced
  <2>7. CASE k \in Indices
    <3>1. /\ \E i \in Indices :
                /\ wire[i].seq = wire[k].seq
                /\ wire[i].arrival <= Sent(wire[k].seq) + Period + scenario.rounding
          /\ Sent(wire[k].seq) <= wire[k].arrival + scenario.rounding
      BY <2>7 DEF Spaced
    <3> QED
      BY <2>3, <2>5, <2>7, <3>1
  <2>8. CASE k \in n + 1 .. Len(wire')
    <3>1. wire'[n + 1].seq = seq /\ wire'[k].seq = seq /\ wire'[k].arrival >= a
      BY <2>3, <2>5, <2>8
    <3>2. \A x, y, z, b \in Int : z <= x + b /\ y >= x => z <= y + b
      OBVIOUS
    <3>3. Sent(seq) <= wire'[k].arrival + scenario.rounding
      BY <2>1, <2>6, <3>1, <3>2
    <3>4. wire'[n + 1].arrival <= Sent(seq) + Period + scenario.rounding
      BY <2>1, <2>3
    <3> QED
      BY <2>5, <3>1, <3>3, <3>4
  <2> QED
    BY <2>5, <2>7, <2>8
<1> QED
  BY <1>2, <1>3, Offered DEF IInv

\* Without jitter a frame is overtaken by the one sent next or by none, for every scenario,
\* whatever is lost, doubled or held back and however times are rounded.
THEOREM NeighboursOnly == Spec => []OvertakenByNeighbourOnly
<1>1. Init => Spaced
  BY DEF Init, Spaced, Indices
<1>2. IInv /\ Spaced /\ [Next]_vars => Spaced'
  <2> SUFFICES ASSUME IInv, Spaced, [Next]_vars PROVE Spaced'
    OBVIOUS
  <2>1. CASE Emit
    BY <2>1, EmitSpaced
  <2>2. CASE UNCHANGED <<scenario, node, wire>>
    BY <2>2 DEF Spaced, Indices, Sent, Period
  <2>3. CASE EndNode /\ node < Len(scenario.nodes)
    <3>1. wire' = <<>>
      BY <2>3 DEF EndNode
    <3> QED
      BY <3>1 DEF Spaced, Indices
  <2>4. Emitted \/ Receive \/ UNCHANGED vars => UNCHANGED <<scenario, node, wire>>
    BY DEF Emitted, Receive, vars
  <2>5. EndNode /\ ~(node < Len(scenario.nodes)) => UNCHANGED <<scenario, node, wire>>
    BY DEF EndNode
  <2> QED
    BY <2>1, <2>2, <2>3, <2>4, <2>5 DEF Next
<1>3. IInv /\ Spaced => OvertakenByNeighbourOnly
  <2> SUFFICES ASSUME IInv, Spaced, scenario.jitter = 0, NEW i \in taken, NEW j \in DOMAIN wire,
                      wire[j].seq \notin seen, wire[j].seq < wire[i].seq
               PROVE  wire[i].seq = wire[j].seq + 1
    BY DEF OvertakenByNeighbourOnly
  <2>1. /\ wire \in Seq(Delivery) /\ i \in Indices /\ j \in Indices
        /\ \A k \in Indices : wire[k].seq \in Nat /\ wire[k].arrival \in Int
    <3>1. wire \in Seq(Delivery) /\ \A k \in Indices : wire[k] \in Delivery
      BY PushedFinite DEF IInv
    <3>2. DOMAIN wire = Indices
      BY <3>1, LenProperties DEF Indices
    <3> QED
      BY <3>1, <3>2 DEF IInv, TypeOK, Indices, Delivery
  <2>2. /\ Period \in Nat \ {0} /\ scenario.rounding \in Nat /\ 2 * scenario.rounding < Period
    BY ScenarioTypes DEF IInv
  <2>3. PICK k \in Indices : /\ wire[k].seq = wire[j].seq
                             /\ wire[k].arrival <= Sent(wire[j].seq) + Period + scenario.rounding
    BY <2>1 DEF Spaced
  <2>4. k \in Indices \ taken
    BY <2>3 DEF IInv, Reading
  <2>5. wire[i].arrival <= wire[k].arrival
    <3>1. Before(i, k)
      BY <2>4 DEF IInv, Reading
    <3> QED
      BY <2>1, <2>3, <3>1 DEF Before
  <2>6. Sent(wire[i].seq) <= wire[i].arrival + scenario.rounding
    BY <2>1 DEF Spaced
  <2> DEFINE x == wire[j].seq
             y == wire[i].seq
  <2>7. x \in Nat /\ y \in Nat /\ x < y
    BY <2>1
  <2> HIDE DEF x, y
  <2>8. ASSUME x + 1 < y PROVE FALSE
    <3>1. x * Period \in Int /\ y * Period \in Int /\ (x + 1) * Period \in Int
      BY <2>2, <2>7
    <3>2. x * Period + Period <= (x + 1) * Period /\ (x + 1) * Period + Period <= y * Period
      BY <2>2, <2>7, <2>8, SlotsInOrder
    <3>3. y * Period <= x * Period + Period + scenario.rounding + scenario.rounding
      <4>1. y * Period <= wire[i].arrival + scenario.rounding
        BY <2>6 DEF Sent, y
      <4>2. wire[k].arrival <= x * Period + Period + scenario.rounding
        BY <2>3 DEF Sent, x
      <4>3. wire[i].arrival \in Int /\ wire[k].arrival \in Int
        BY <2>1
      <4> QED
        BY <2>2, <2>5, <3>1, <4>1, <4>2, <4>3
    <3> QED
      BY <2>2, <3>1, <3>2, <3>3
  <2>9. y = x + 1
    BY <2>7, <2>8
  <2> QED
    BY <2>9 DEF x, y
<1> QED
  BY Inductive, <1>1, <1>2, <1>3, PTL DEF Spec
-----------------------------------------------------------------------------
(* Where faults act. *)

\* Packet s of node n is surely sent under the stuck fault, or surely not.
UnderFault(n, s) == n = scenario.stuck.node /\ SurelyFrom(n, s, scenario.stuck.at)
Faultless(n, s) == n = scenario.stuck.node => SurelyBefore(n, s, scenario.stuck.at)

\* It is surely sent in a burst, or surely in none.
Inside(n, s) ==
    \E b \in scenario.bursts :
        SurelyFrom(n, s, b.at) /\ SurelyBefore(n, s, b.at + b.duration)
Outside(n, s) ==
    \A b \in scenario.bursts :
        SurelyBefore(n, s, b.at) \/ SurelyFrom(n, s, b.at + b.duration)

\* Before the fault all values are live; under it all are the one the sender keeps, which it
\* keeps to the end of its node.
Values ==
    /\ \A i \in Indices :
          /\ Faultless(node, wire[i].seq) => wire[i].value = wire[i].seq
          /\ UnderFault(node, wire[i].seq) => stuck # Live /\ wire[i].value = stuck
    /\ \A i \in DOMAIN received :
          /\ Faultless(received[i].node, received[i].seq) => received[i].value = received[i].seq
          /\ received[i].node = node /\ UnderFault(node, received[i].seq)
                => stuck # Live /\ received[i].value = stuck
    /\ \A i, k \in DOMAIN received :
          UnderFault(received[i].node, received[i].seq) /\ UnderFault(received[k].node, received[k].seq)
             => received[i].value = received[k].value
    /\ stuck # Live =>
          /\ node = scenario.stuck.node /\ seq > 0
          /\ SentAt(node, seq - 1) + scenario.rounding >= scenario.stuck.from

Arrived(n, s) == \E i \in DOMAIN received : received[i].node = n /\ received[i].seq = s

\* The receiver has decoded what it has seen, and nothing of a node whose turn is to come.
Decoded ==
    /\ received \in Seq([node : Nat, seq : Nat, value : Int])
    /\ \A i \in DOMAIN received : received[i].node <= node
    /\ pc # "done" => \A s \in Nat : Arrived(node, s) <=> s \in seen
    /\ pc # "emit" => seq = scenario.nodes[node].packets
    /\ pc = "done" => node = Len(scenario.nodes)

\* The link loses nothing but in bursts, and in a burst all.
OnlyBursts == scenario.loss = 0 /\ \A b \in scenario.bursts : b.loss = 2

\* Then the frames pushed are those outside the bursts, and those arrived of the nodes before.
Bursts ==
    OnlyBursts =>
        /\ \A s \in 0 .. seq - 1 :
              (Inside(node, s) => s \notin Pushed) /\ (Outside(node, s) => s \in Pushed)
        /\ \A n \in DOMAIN scenario.nodes : n < node \/ (n = node /\ pc = "done") =>
              \A s \in 0 .. scenario.nodes[n].packets - 1 :
                  (Inside(n, s) => ~Arrived(n, s)) /\ (Outside(n, s) => Arrived(n, s))

Faults == Values /\ Decoded /\ Bursts

\* What the code takes for the time a packet is sent is within the rounding error of it.
LEMMA RoundedBound ==
    ASSUME TypeOK, NEW now \in Rounded(seq)
    PROVE  /\ now \in Int /\ Sent(seq) \in Nat /\ Sent(seq) = SentAt(node, seq)
           /\ now <= Sent(seq) + scenario.rounding /\ now >= Sent(seq) - scenario.rounding
<1>1. seq \in Nat /\ Period \in Nat /\ scenario.rounding \in Nat
  BY ScenarioTypes DEF TypeOK
<1>2. Sent(seq) \in Nat
  <2>1. seq * Period \in Nat
    BY <1>1
  <2> QED
    BY <2>1 DEF Sent
<1>3. seq = 0 => Sent(seq) = 0
  <2>1. 0 * Period = 0
    BY <1>1
  <2> QED
    BY <2>1 DEF Sent
<1>4. Sent(seq) = SentAt(node, seq)
  BY DEF Sent, SentAt, Period
<1> DEFINE sent == Sent(seq)
           r == scenario.rounding
<1>5. now \in IF seq = 0 THEN {0} ELSE sent - r .. sent + r
  BY DEF Rounded
<1>6. sent \in Nat /\ r \in Nat /\ (seq = 0 => sent = 0)
  BY <1>1, <1>2, <1>3
<1> HIDE DEF sent, r
<1>7. now \in Int /\ now <= sent + r /\ now >= sent - r
  BY <1>5, <1>6
<1> QED
  BY <1>2, <1>4, <1>7 DEF sent, r

\* The sender's frozen value: what it is before the fault and under it, and that it is kept.
LEMMA Freezes ==
    ASSUME TypeOK, Values, NEW now \in Rounded(seq)
    PROVE  /\ Faultless(node, seq) => Value(now) = seq
           /\ UnderFault(node, seq) => Frozen(now) # Live /\ Value(now) = Frozen(now)
           /\ stuck # Live => Frozen(now) = stuck
           /\ Frozen(now) # Live =>
                 /\ node = scenario.stuck.node
                 /\ SentAt(node, seq) + scenario.rounding >= scenario.stuck.from
<1> DEFINE sent == SentAt(node, seq)
           r == scenario.rounding
           at == scenario.stuck.at
           from == scenario.stuck.from
<1>1. /\ sent \in Nat /\ r \in Nat /\ at \in Nat /\ from \in Int /\ now \in Int
      /\ from <= at + r /\ from >= at - r /\ now <= sent + r /\ now >= sent - r
  BY ScenarioTypes, RoundedBound
<1>2. seq \in Nat /\ seq # Live
  BY ScenarioTypes DEF TypeOK, Live
<1>3. Faultless(node, seq) => ~(node = scenario.stuck.node /\ now >= from)
  <2>1. SurelyBefore(node, seq, scenario.stuck.at) <=> sent + 2 * r < at
    BY DEF SurelyBefore
  <2> HIDE DEF sent, r, at, from
  <2>2. sent + 2 * r < at => ~(now >= from)
    BY <1>1
  <2> QED
    BY <2>1, <2>2 DEF Faultless
<1>4. UnderFault(node, seq) => node = scenario.stuck.node /\ now >= from
  <2>1. SurelyFrom(node, seq, scenario.stuck.at) <=> sent >= at + 2 * r
    BY DEF SurelyFrom
  <2> HIDE DEF sent, r, at, from
  <2>2. sent >= at + 2 * r => now >= from
    BY <1>1
  <2> QED
    BY <2>1, <2>2 DEF UnderFault
<1>5. stuck # Live => node = scenario.stuck.node /\ now >= from
  <2> SUFFICES ASSUME stuck # Live PROVE node = scenario.stuck.node /\ now >= from
    OBVIOUS
  <2> DEFINE last == SentAt(node, seq - 1)
  <2>1. node = scenario.stuck.node /\ seq > 0 /\ last + r >= from
    BY DEF Values
  <2>2. Period \in Nat \ {0} /\ 2 * r < Period
    BY ScenarioTypes
  <2>3. last \in Nat /\ last + Period <= sent
    <3>1. seq - 1 \in Nat /\ seq - 1 < seq
      BY <1>2, <2>1
    <3>2. (seq - 1) * Period \in Nat /\ (seq - 1) * Period + Period <= seq * Period
      BY <1>2, <2>2, <3>1, SlotsInOrder
    <3> QED
      BY <3>2 DEF SentAt, Period
  <2> HIDE DEF last, sent, r, from
  <2>4. now >= from
    BY <1>1, <2>1, <2>2, <2>3
  <2> QED
    BY <2>1, <2>4
<1>6. Frozen(now) = IF node = scenario.stuck.node /\ now >= from
                    THEN IF stuck = Live THEN seq ELSE stuck ELSE Live
  BY DEF Frozen
<1>7. Value(now) = IF Frozen(now) = Live THEN seq ELSE Frozen(now)
  BY DEF Value
<1>8. now >= from => sent + r >= from
  <2> HIDE DEF sent, r, at, from
  <2> QED
    BY <1>1
<1> QED
  BY <1>2, <1>3, <1>4, <1>5, <1>6, <1>7, <1>8

\* Where nothing but bursts loses frames, whether one is lost is no matter of chance.
LEMMA LossIsTheBursts ==
    ASSUME TypeOK, OnlyBursts, NEW now \in Rounded(seq), NEW lost \in Outcomes(EffectiveLoss(now))
    PROVE  (Inside(node, seq) => lost) /\ (Outside(node, seq) => ~lost)
<1> DEFINE rates == {scenario.loss} \union {b.loss : b \in {c \in scenario.bursts : BurstCovers(c, now)}}
           sent == SentAt(node, seq)
           r == scenario.rounding
<1>1. sent \in Nat /\ r \in Nat /\ now \in Int /\ now <= sent + r /\ now >= sent - r
  BY ScenarioTypes, RoundedBound
<1>2. ASSUME NEW b \in scenario.bursts
      PROVE  /\ SurelyFrom(node, seq, b.at) /\ SurelyBefore(node, seq, b.at + b.duration)
                   => BurstCovers(b, now)
             /\ SurelyBefore(node, seq, b.at) \/ SurelyFrom(node, seq, b.at + b.duration)
                   => ~BurstCovers(b, now)
  <2> DEFINE at == b.at
             end == b.at + b.duration
             from == b.from
             until == b.until
  <2>1. /\ at \in Nat /\ end \in Nat /\ from \in Int /\ until \in Int
        /\ from - at \in (-r) .. r /\ until - end \in (-r) .. r
    <3>1. /\ scenario.bursts \subseteq [at : Nat, duration : Nat, from : Int, until : Int, loss : Rate]
          /\ Near(b.from, b.at, r) /\ Near(b.until, b.at + b.duration, r)
      BY ScenarioAssumption DEF TypeOK
    <3>2. b \in [at : Nat, duration : Nat, from : Int, until : Int, loss : Rate]
      BY <3>1
    <3>3. \A x, y \in Nat : x + y \in Nat
      OBVIOUS
    <3> QED
      BY <3>1, <3>2, <3>3 DEF Near
  <2>2. /\ SurelyFrom(node, seq, b.at) <=> sent >= at + 2 * r
        /\ SurelyFrom(node, seq, b.at + b.duration) <=> sent >= end + 2 * r
        /\ SurelyBefore(node, seq, b.at) <=> sent + 2 * r < at
        /\ SurelyBefore(node, seq, b.at + b.duration) <=> sent + 2 * r < end
        /\ BurstCovers(b, now) <=> from <= now /\ now < until
    BY DEF SurelyFrom, SurelyBefore, BurstCovers
  <2> HIDE DEF at, end, from, until, sent, r
  <2>3. /\ sent >= at + 2 * r => from <= now
        /\ sent >= end + 2 * r => ~(now < until)
        /\ sent + 2 * r < at => ~(from <= now)
        /\ sent + 2 * r < end => now < until
    BY <1>1, <2>1
  <2> QED
    BY <2>2, <2>3
<1>3. EffectiveLoss(now) = CHOOSE q \in rates : \A p \in rates : p <= q
  BY DEF EffectiveLoss
<1>4. scenario.loss = 0 /\ \A b \in scenario.bursts : b.loss = 2
  BY DEF OnlyBursts
<1>5. lost \in BOOLEAN /\ (lost => EffectiveLoss(now) > 0) /\ (~lost => EffectiveLoss(now) < 2)
  BY DEF Outcomes
<1>6. Inside(node, seq) => lost
  <2> SUFFICES ASSUME Inside(node, seq) PROVE lost
    OBVIOUS
  <2>1. \E b \in scenario.bursts : BurstCovers(b, now)
    BY <1>2 DEF Inside
  <2>2. rates = {0, 2}
    BY <1>4, <2>1
  <2> HIDE DEF rates
  <2>3. EffectiveLoss(now) = 2
    BY <1>3, <2>2
  <2>4. ~(EffectiveLoss(now) < 2)
    BY <2>3
  <2> QED
    BY <1>5, <2>4
<1>7. Outside(node, seq) => ~lost
  <2> SUFFICES ASSUME Outside(node, seq) PROVE ~lost
    OBVIOUS
  <2>1. ~\E b \in scenario.bursts : BurstCovers(b, now)
    BY <1>2 DEF Outside
  <2>2. rates = {0}
    BY <1>4, <2>1
  <2> HIDE DEF rates
  <2>3. EffectiveLoss(now) = 0
    BY <1>3, <2>2
  <2>4. ~(EffectiveLoss(now) > 0)
    BY <2>3
  <2> QED
    BY <1>5, <2>4
<1> QED
  BY <1>6, <1>7

\* What the faults are is the scenario's matter.
LEMMA FaultsFixed ==
    ASSUME scenario' = scenario
    PROVE  /\ \A n, s : (UnderFault(n, s)' <=> UnderFault(n, s)) /\ (Faultless(n, s)' <=> Faultless(n, s))
           /\ \A n, s : (Inside(n, s)' <=> Inside(n, s)) /\ (Outside(n, s)' <=> Outside(n, s))
           /\ \A n, s : SentAt(n, s)' = SentAt(n, s)
           /\ OnlyBursts' <=> OnlyBursts
<1>1. \A n, s : SentAt(n, s)' = SentAt(n, s)
  BY DEF SentAt
<1>2. \A n, s : (UnderFault(n, s)' <=> UnderFault(n, s)) /\ (Faultless(n, s)' <=> Faultless(n, s))
  BY DEF UnderFault, Faultless, SurelyFrom, SurelyBefore, SentAt
<1>3. \A n, s : (Inside(n, s)' <=> Inside(n, s)) /\ (Outside(n, s)' <=> Outside(n, s))
  BY DEF Inside, Outside, SurelyFrom, SurelyBefore, SentAt
<1> QED
  BY <1>1, <1>2, <1>3 DEF OnlyBursts

\* A frame offered, and lost or pushed.
LEMMA OfferFaults ==
    ASSUME IInv, Faults, Emit, NEW now \in Rounded(seq), stuck' = Frozen(now),
           NEW lost \in Outcomes(EffectiveLoss(now)),
           \A i \in Indices' : \/ i \in Indices /\ wire'[i] = wire[i]
                               \/ wire'[i].seq = seq /\ wire'[i].value = Value(now),
           Pushed' = IF lost THEN Pushed ELSE Pushed \union {seq}
    PROVE  Faults'
<1>1. /\ pc = "emit" /\ pc' = "emit" /\ scenario' = scenario /\ node' = node /\ seq' = seq + 1
      /\ seen' = seen /\ received' = received
  BY DEF Emit
<1>2. seq \in Nat /\ seq + 1 > 0 /\ (seq + 1) - 1 = seq
  BY SMTT(30), ScenarioTypes DEF IInv, TypeOK
<1>3. Values'
  <2>1. /\ Faultless(node, seq) => Value(now) = seq
        /\ UnderFault(node, seq) => stuck' # Live /\ Value(now) = stuck'
        /\ stuck # Live => stuck' = stuck
        /\ stuck' # Live =>
              /\ node = scenario.stuck.node
              /\ SentAt(node, seq) + scenario.rounding >= scenario.stuck.from
    BY Freezes DEF IInv, Faults
  <2>2. \A i \in Indices' :
           /\ Faultless(node, wire'[i].seq) => wire'[i].value = wire'[i].seq
           /\ UnderFault(node, wire'[i].seq) => stuck' # Live /\ wire'[i].value = stuck'
    BY <2>1 DEF Faults, Values
  <2>3. \A i \in DOMAIN received :
           /\ Faultless(received[i].node, received[i].seq) => received[i].value = received[i].seq
           /\ received[i].node = node /\ UnderFault(node, received[i].seq)
                 => stuck' # Live /\ received[i].value = stuck'
    BY <2>1 DEF Faults, Values
  <2>4. \A i, k \in DOMAIN received :
           UnderFault(received[i].node, received[i].seq) /\ UnderFault(received[k].node, received[k].seq)
              => received[i].value = received[k].value
    BY DEF Faults, Values
  <2>5. stuck' # Live =>
           /\ node' = scenario'.stuck.node /\ seq' > 0
           /\ SentAt(node', seq' - 1) + scenario'.rounding >= scenario'.stuck.from
    BY <1>1, <1>2, <2>1
  <2>6. Live' = Live
    BY DEF Live
  <2> QED
    BY <1>1, <2>2, <2>3, <2>4, <2>5, <2>6, FaultsFixed DEF Values, SentAt
<1>4. \A n, s : Arrived(n, s)' <=> Arrived(n, s)
  BY <1>1 DEF Arrived
<1>5. Decoded'
  BY <1>1, <1>4 DEF Faults, Decoded
<1>6. Bursts'
  <2> SUFFICES ASSUME OnlyBursts PROVE Bursts'
    BY <1>1, FaultsFixed DEF Bursts
  <2>1. lost \in BOOLEAN /\ (Inside(node, seq) => lost) /\ (Outside(node, seq) => ~lost)
    BY LossIsTheBursts DEF IInv, Outcomes
  <2>2. seq \notin Pushed
    <3>1. \A i \in Indices : wire[i].seq # seq
      <4>1. \A i \in Indices : wire[i].seq < seq /\ wire[i].seq \in Nat
        <5>1. \A i \in Indices : wire[i] \in Delivery
          BY PushedFinite DEF IInv
        <5> QED
          BY <5>1 DEF IInv, Sending, Delivery
      <4> QED
        BY <1>2, <4>1
    <3> QED
      BY <3>1 DEF Pushed
  <2>3. ASSUME NEW s \in 0 .. seq
        PROVE  (Inside(node, s) => s \notin Pushed') /\ (Outside(node, s) => s \in Pushed')
    <3>1. CASE s = seq
      BY <2>1, <2>2, <3>1
    <3>2. CASE s # seq
      <4>1. s \in 0 .. seq - 1
        BY <1>2, <3>2
      <4>2. (Inside(node, s) => s \notin Pushed) /\ (Outside(node, s) => s \in Pushed)
        BY <4>1 DEF Faults, Bursts
      <4> QED
        BY <3>2, <4>2
    <3> QED
      BY <3>1, <3>2
  <2>4. 0 .. seq' - 1 = 0 .. seq
    BY <1>1, <1>2
  <2>5. ASSUME NEW n \in DOMAIN scenario.nodes, n < node,
               NEW s \in 0 .. scenario.nodes[n].packets - 1
        PROVE  (Inside(n, s) => ~Arrived(n, s)') /\ (Outside(n, s) => Arrived(n, s)')
    BY <1>4, <2>5 DEF Faults, Bursts
  <2> QED
    BY <1>1, <2>3, <2>4, <2>5, FaultsFixed DEF Bursts
<1> QED
  BY <1>3, <1>5, <1>6 DEF Faults

LEMMA EmitFaults == IInv /\ Faults /\ Emit => Faults'
<1> SUFFICES ASSUME IInv, Faults, Emit PROVE Faults'
  OBVIOUS
<1>1. ASSUME NEW now \in Rounded(seq), stuck' = Frozen(now),
             TRUE \in Outcomes(EffectiveLoss(now)), Drop
      PROVE  Faults'
  <2>1. wire' = wire /\ Indices' = Indices /\ Pushed' = Pushed
    BY <1>1 DEF Drop, Indices, Pushed
  <2> QED
    BY <1>1, <2>1, OfferFaults
<1>2. ASSUME NEW now \in Rounded(seq), stuck' = Frozen(now), Value(now) \in Int,
             FALSE \in Outcomes(EffectiveLoss(now)),
             NEW jitter \in (-scenario.jitter) .. scenario.jitter,
             NEW rounding \in (-scenario.rounding) .. scenario.rounding,
             NEW held \in Holds, NEW twice \in BOOLEAN,
             Push(Arrival(jitter, rounding, held), Value(now), twice)
      PROVE  Faults'
  <2> DEFINE a == Arrival(jitter, rounding, held)
             n == Len(wire)
  <2>1. a \in Int
    <3>1. TypeOK /\ seq \in Nat
      BY PushedFinite DEF IInv
    <3> QED
      BY <3>1, ArrivalBound
  <2> HIDE DEF a
  <2>2. wire' = wire \o Copies(a, Value(now), twice)
    BY <1>2 DEF Push, a
  <2>3. /\ wire' \in Seq(Delivery)
        /\ Len(wire') = n + (IF twice THEN 2 ELSE 1)
        /\ \A i \in Indices : wire'[i] = wire[i]
        /\ \A i \in n + 1 .. Len(wire') : wire'[i].seq = seq /\ wire'[i].value = Value(now)
    BY <1>2, <2>1, <2>2, PushEffect DEF IInv
  <2>4. n \in Nat /\ Len(wire') \in Nat
    BY <2>3, PushedFinite, LenProperties DEF IInv
  <2>5. /\ Indices = 1 .. n /\ Indices' = 1 .. Len(wire')
        /\ \A i \in Indices' : i \in Indices \/ i \in n + 1 .. Len(wire')
        /\ \A i \in Indices : i \in Indices'
        /\ n + 1 \in Indices' /\ n + 1 \in n + 1 .. Len(wire')
    BY <2>3, <2>4 DEF Indices
  <2>6. \A i \in Indices' : \/ i \in Indices /\ wire'[i] = wire[i]
                            \/ wire'[i].seq = seq /\ wire'[i].value = Value(now)
    BY <2>3, <2>5
  <2>7. Pushed' = Pushed \union {seq}
    <3>1. Pushed' = {wire'[i].seq : i \in Indices'}
      BY DEF Pushed
    <3>2. \A x \in Pushed' : x \in Pushed \/ x = seq
      BY <2>6, <3>1 DEF Pushed
    <3>3. \A x \in Pushed : x \in Pushed'
      BY <2>3, <2>5, <3>1 DEF Pushed
    <3>4. seq \in Pushed'
      BY <2>3, <2>5, <3>1
    <3> QED
      BY <3>2, <3>3, <3>4
  <2> QED
    BY <1>2, <2>6, <2>7, OfferFaults
<1>3. PICK now \in Rounded(seq) :
          /\ stuck' = Frozen(now) /\ Value(now) \in Int
          /\ \/ TRUE \in Outcomes(EffectiveLoss(now)) /\ Drop
             \/ /\ FALSE \in Outcomes(EffectiveLoss(now))
                /\ \E jitter \in (-scenario.jitter) .. scenario.jitter,
                      rounding \in (-scenario.rounding) .. scenario.rounding,
                      held \in Holds, twice \in BOOLEAN :
                      Push(Arrival(jitter, rounding, held), Value(now), twice)
  BY Offered DEF IInv
<1> QED
  BY <1>1, <1>2, <1>3

LEMMA EmittedFaults == IInv /\ Faults /\ Emitted => Faults'
<1> SUFFICES ASSUME IInv, Faults, Emitted PROVE Faults'
  OBVIOUS
<1>1. /\ pc = "emit" /\ pc' = "receive" /\ seq = scenario.nodes[node].packets
      /\ UNCHANGED <<scenario, node, seq, stuck, wire, seen, received>>
  BY DEF Emitted
<1>2. Indices' = Indices /\ Pushed' = Pushed /\ \A n, s : Arrived(n, s)' <=> Arrived(n, s)
  BY <1>1 DEF Indices, Pushed, Arrived
<1>3. Values'
  BY <1>1, <1>2, FaultsFixed DEF Faults, Values
<1>4. Decoded'
  BY <1>1, <1>2 DEF Faults, Decoded
<1>5. Bursts'
  BY <1>1, <1>2, FaultsFixed DEF Faults, Bursts
<1> QED
  BY <1>3, <1>4, <1>5 DEF Faults

\* A frame is decoded: it has arrived, and it is of this node.
LEMMA ReceiveFaults == IInv /\ Faults /\ Receive => Faults'
<1> SUFFICES ASSUME IInv, Faults, Receive PROVE Faults'
  OBVIOUS
<1> DEFINE R == [node : Nat, seq : Nat, value : Int]
           n == Len(received)
<1>1. PICK i \in Indices \ taken :
          /\ seen' = seen \union {wire[i].seq}
          /\ received' = Append(received, [node |-> node, seq |-> wire[i].seq,
                                           value |-> wire[i].value])
  BY DEF Receive, Indices
<1> DEFINE p == [node |-> node, seq |-> wire[i].seq, value |-> wire[i].value]
<1>2. /\ pc = "receive" /\ pc' = "receive"
      /\ UNCHANGED <<scenario, node, seq, stuck, wire>>
  BY DEF Receive
<1>3. node \in Nat /\ wire[i] \in Delivery /\ received \in Seq(R)
  <2>1. node \in 1 .. Len(scenario.nodes) /\ Len(scenario.nodes) \in Nat
    BY ScenarioTypes DEF IInv, TypeOK
  <2> QED
    BY <2>1, PushedFinite DEF IInv, Faults, Decoded
<1>4. p \in R /\ p.node = node /\ p.seq = wire[i].seq /\ p.value = wire[i].value
      /\ wire[i].seq \in Nat
  BY <1>3 DEF Delivery
<1>5. received' = Append(received, p)
  BY <1>1
<1> HIDE DEF p, R
<1>6. /\ received' \in Seq(R) /\ n \in Nat /\ DOMAIN received = 1 .. n
      /\ DOMAIN received' = 1 .. n + 1 /\ received'[n + 1] = p
      /\ \A k \in 1 .. n : received'[k] = received[k]
  <2>1. received \in Seq(R) /\ p \in R
    BY <1>3, <1>4
  <2>2. /\ received' \in Seq(R) /\ Len(received') = n + 1
        /\ \A k \in 1 .. n + 1 : received'[k] = IF k <= n THEN received[k] ELSE p
    BY <1>5, <2>1, AppendProperties
  <2>3. n \in Nat /\ DOMAIN received = 1 .. n /\ DOMAIN received' = 1 .. n + 1
    BY <2>1, <2>2, LenProperties
  <2>4. n + 1 \in 1 .. n + 1 /\ ~(n + 1 <= n) /\ \A k \in 1 .. n : k \in 1 .. n + 1 /\ k <= n
    BY <2>3
  <2> QED
    BY <2>2, <2>3, <2>4
<1>7. \A k \in DOMAIN received' : \/ k \in DOMAIN received /\ received'[k] = received[k]
                                  \/ received'[k] = p
  <2>1. \A k \in 1 .. n + 1 : k \in 1 .. n \/ k = n + 1
    BY <1>6
  <2> QED
    BY <1>6, <2>1
<1>8. n + 1 \in DOMAIN received' /\ \A k \in DOMAIN received : k \in DOMAIN received'
  BY <1>6
<1>9. Indices' = Indices /\ Pushed' = Pushed
  BY <1>2 DEF Indices, Pushed
<1>10. Values'
  <2>1. /\ Faultless(p.node, p.seq) => p.value = p.seq
        /\ p.node = node /\ (UnderFault(node, p.seq) => stuck # Live /\ p.value = stuck)
    BY <1>4 DEF Faults, Values
  <2>2. \A k \in DOMAIN received' :
           /\ Faultless(received'[k].node, received'[k].seq) => received'[k].value = received'[k].seq
           /\ received'[k].node = node /\ UnderFault(node, received'[k].seq)
                 => stuck # Live /\ received'[k].value = stuck
    BY <1>7, <2>1 DEF Faults, Values
  <2>3. ASSUME NEW k \in DOMAIN received', NEW m \in DOMAIN received',
               UnderFault(received'[k].node, received'[k].seq),
               UnderFault(received'[m].node, received'[m].seq)
        PROVE  received'[k].value = received'[m].value
    <3>1. CASE k \in DOMAIN received /\ received'[k] = received[k]
               /\ m \in DOMAIN received /\ received'[m] = received[m]
      BY <2>3, <3>1 DEF Faults, Values
    <3>2. CASE received'[k] = p \/ received'[m] = p
      <4>1. received'[k].node = node /\ received'[m].node = node
        BY <2>1, <2>3, <3>2 DEF UnderFault
      <4> QED
        BY <2>2, <2>3, <4>1
    <3> QED
      BY <1>7, <3>1, <3>2
  <2>4. Live' = Live /\ \A m, s : SentAt(m, s)' = SentAt(m, s)
    BY <1>2, FaultsFixed DEF Live
  <2>5. \A k \in Indices : /\ Faultless(node, wire[k].seq) => wire[k].value = wire[k].seq
                           /\ UnderFault(node, wire[k].seq) => stuck # Live /\ wire[k].value = stuck
    BY DEF Faults, Values
  <2>6. stuck # Live => /\ node = scenario.stuck.node /\ seq > 0
                        /\ SentAt(node, seq - 1) + scenario.rounding >= scenario.stuck.from
    BY DEF Faults, Values
  <2> QED
    BY <1>2, <1>9, <2>2, <2>3, <2>4, <2>5, <2>6, FaultsFixed DEF Values
<1>11. \A m, s : Arrived(m, s)' <=> Arrived(m, s) \/ (m = node /\ s = wire[i].seq)
  BY <1>4, <1>6, <1>7, <1>8 DEF Arrived
<1>12. Decoded'
  <2>1. \A k \in DOMAIN received' : received'[k].node <= node
    <3>1. \A k \in DOMAIN received : received[k].node <= node
      BY DEF Faults, Decoded
    <3>2. node <= node
      BY <1>3
    <3> QED
      BY <1>4, <1>7, <3>1, <3>2
  <2>2. \A s \in Nat : (\E k \in DOMAIN received' : /\ received'[k].node = node'
                                                    /\ received'[k].seq = s) <=> s \in seen'
    <3>1. \A s \in Nat : Arrived(node, s) <=> s \in seen
      BY <1>2 DEF Faults, Decoded
    <3>2. \A s \in Nat : Arrived(node, s) \/ s = wire[i].seq <=> s \in seen'
      BY <1>1, <3>1
    <3>3. \A s \in Nat : (\E k \in DOMAIN received' : /\ received'[k].node = node
                                                      /\ received'[k].seq = s)
                        <=> Arrived(node, s) \/ s = wire[i].seq
      BY <1>4, <1>6, <1>7, <1>8 DEF Arrived
    <3> QED
      BY <1>2, <3>2, <3>3
  <2>3. received' \in Seq([node : Nat, seq : Nat, value : Int])
    BY <1>6 DEF R
  <2>4. seq' = scenario'.nodes[node'].packets
    BY <1>2 DEF Faults, Decoded
  <2> QED
    BY <1>2, <2>1, <2>2, <2>3, <2>4 DEF Decoded, Arrived
<1>13. Bursts'
  <2>1. \A m \in DOMAIN scenario.nodes : m < node => m # node
    <3>1. \A m \in Int : m < node => m # node
      BY <1>3
    <3>2. \A m \in DOMAIN scenario.nodes : m \in Int
      <4>1. DOMAIN scenario.nodes = 1 .. Len(scenario.nodes)
        BY ScenarioTypes, ScenarioAssumption, LenProperties DEF IInv, TypeOK
      <4> QED
        BY <4>1
    <3> QED
      BY <3>1, <3>2
  <2> QED
    BY <1>2, <1>9, <1>11, <2>1, FaultsFixed DEF Faults, Bursts
<1> QED
  BY <1>10, <1>12, <1>13 DEF Faults

\* When a node ends, the frames of it and of those before that arrived are those no burst took.
LEMMA NodeComplete ==
    ASSUME IInv, Faults, OnlyBursts, pc = "receive", taken = Indices,
           NEW n \in DOMAIN scenario.nodes, n < node \/ n = node,
           NEW s \in 0 .. scenario.nodes[n].packets - 1
    PROVE  (Inside(n, s) => ~Arrived(n, s)) /\ (Outside(n, s) => Arrived(n, s))
<1>1. CASE n < node
  BY <1>1 DEF Faults, Bursts
<1>2. CASE n = node
  <2>1. seen = Pushed /\ seq = scenario.nodes[node].packets /\ s \in Nat
    BY <1>2 DEF IInv, Reading, Pushed, Faults, Decoded
  <2>2. Arrived(node, s) <=> s \in seen
    BY <2>1 DEF Faults, Decoded
  <2>3. (Inside(node, s) => s \notin Pushed) /\ (Outside(node, s) => s \in Pushed)
    BY <1>2, <2>1 DEF Faults, Bursts
  <2> QED
    BY <1>2, <2>1, <2>2, <2>3
<1> QED
  BY <1>1, <1>2

LEMMA EndNodeFaults == IInv /\ Faults /\ EndNode => Faults'
<1> SUFFICES ASSUME IInv, Faults, EndNode PROVE Faults'
  OBVIOUS
<1>1. pc = "receive" /\ taken = Indices /\ scenario' = scenario /\ received' = received
  BY DEF EndNode, Indices
<1>2. \A m, s : Arrived(m, s)' <=> Arrived(m, s)
  BY <1>1 DEF Arrived
<1>3. \A m, s : /\ Inside(m, s)' <=> Inside(m, s)
                /\ Outside(m, s)' <=> Outside(m, s)
                /\ UnderFault(m, s)' <=> UnderFault(m, s)
                /\ Faultless(m, s)' <=> Faultless(m, s)
  BY <1>1, FaultsFixed
<1>4. /\ \A k \in DOMAIN received :
            Faultless(received[k].node, received[k].seq) => received[k].value = received[k].seq
      /\ \A k, m \in DOMAIN received :
            /\ UnderFault(received[k].node, received[k].seq)
            /\ UnderFault(received[m].node, received[m].seq)
            => received[k].value = received[m].value
  BY DEF Faults, Values
<1>5. node \in Nat /\ \A m \in DOMAIN scenario.nodes : m \in Nat
  <2>1. /\ node \in 1 .. Len(scenario.nodes) /\ Len(scenario.nodes) \in Nat
        /\ DOMAIN scenario.nodes = 1 .. Len(scenario.nodes)
    BY ScenarioTypes, ScenarioAssumption, LenProperties DEF IInv, TypeOK
  <2> QED
    BY <2>1
<1>6. \A k \in DOMAIN received : received[k].node <= node /\ received[k].node \in Nat
  <2>1. received \in Seq([node : Nat, seq : Nat, value : Int])
    BY DEF Faults, Decoded
  <2>2. \A k \in 1 .. Len(received) : received[k] \in [node : Nat, seq : Nat, value : Int]
    BY <2>1, ElementOfSeq
  <2>3. DOMAIN received = 1 .. Len(received)
    BY <2>1, LenProperties
  <2> QED
    BY <2>2, <2>3 DEF Faults, Decoded
<1>7. CASE node < Len(scenario.nodes)
  <2>1. /\ pc' = "emit" /\ node' = node + 1 /\ seq' = 0 /\ stuck' = Live
        /\ wire' = <<>> /\ seen' = {}
    BY <1>7 DEF EndNode
  <2>2. Indices' = {} /\ ~(0 > 0) /\ 0 .. (0 - 1) = {}
    BY <2>1 DEF Indices
  <2>3. Values'
    <3>1. \A k \in DOMAIN received' : received'[k].node # node'
      BY <1>1, <1>5, <1>6, <2>1
    <3>2. Live' = Live /\ stuck' = Live'
      BY <2>1 DEF Live
    <3> QED
      BY <1>1, <1>3, <1>4, <2>2, <3>1, <3>2 DEF Values
  <2>4. Decoded'
    <3>1. \A s : ~Arrived(node + 1, s)
      <4>1. \A k \in DOMAIN received : received[k].node # node + 1
        BY <1>5, <1>6
      <4> QED
        BY <4>1 DEF Arrived
    <3>2. \A k \in DOMAIN received : received[k].node <= node + 1
      BY <1>5, <1>6
    <3>3. \A s : ~\E k \in DOMAIN received' : received'[k].node = node' /\ received'[k].seq = s
      BY <1>1, <2>1, <3>1 DEF Arrived
    <3>4. received' \in Seq([node : Nat, seq : Nat, value : Int])
      BY <1>1 DEF Faults, Decoded
    <3> QED
      BY <1>1, <2>1, <3>2, <3>3, <3>4 DEF Decoded, Arrived
  <2>5. Bursts'
    <3>1. \A m \in DOMAIN scenario.nodes : m < node + 1 => m < node \/ m = node
      BY <1>5
    <3>2. OnlyBursts => \A m \in DOMAIN scenario.nodes : m < node + 1 =>
              \A s \in 0 .. scenario.nodes[m].packets - 1 :
                  (Inside(m, s) => ~Arrived(m, s)) /\ (Outside(m, s) => Arrived(m, s))
      BY <1>1, <3>1, NodeComplete
    <3>3. 0 .. seq' - 1 = {}
      BY <2>1, <2>2
    <3> QED
      BY <1>1, <1>2, <1>3, <2>1, <3>2, <3>3, FaultsFixed DEF Bursts
  <2> QED
    BY <2>3, <2>4, <2>5 DEF Faults
<1>8. CASE ~(node < Len(scenario.nodes))
  <2>1. pc' = "done" /\ UNCHANGED <<node, seq, stuck, wire, seen>>
    BY <1>8 DEF EndNode
  <2>2. Indices' = Indices /\ Pushed' = Pushed
    BY <2>1 DEF Indices, Pushed
  <2>3. Values'
    <3>1. Live' = Live /\ SentAt(node, seq - 1)' = SentAt(node, seq - 1)
      BY <1>1, <2>1, FaultsFixed DEF Live
    <3> QED
      BY <1>1, <1>3, <1>4, <2>1, <2>2, <3>1 DEF Faults, Values
  <2>4. Decoded'
    <3>1. node = Len(scenario.nodes)
      BY <1>8, ScenarioTypes DEF IInv, TypeOK
    <3> QED
      BY <1>1, <2>1, <3>1 DEF Faults, Decoded
  <2>5. Bursts'
    <3>1. OnlyBursts => \A m \in DOMAIN scenario.nodes : m < node \/ m = node =>
              \A s \in 0 .. scenario.nodes[m].packets - 1 :
                  (Inside(m, s) => ~Arrived(m, s)) /\ (Outside(m, s) => Arrived(m, s))
      BY <1>1, NodeComplete
    <3>2. OnlyBursts => \A s \in 0 .. seq - 1 :
              (Inside(node, s) => s \notin Pushed) /\ (Outside(node, s) => s \in Pushed)
      BY DEF Faults, Bursts
    <3> QED
      BY <1>1, <1>2, <1>3, <2>1, <2>2, <3>1, <3>2, FaultsFixed DEF Bursts
  <2> QED
    BY <2>3, <2>4, <2>5 DEF Faults
<1> QED
  BY <1>7, <1>8

\* For every scenario, and but for the packets sent within the rounding error of a fault's begin
\* or end: a burst takes the frames sent while it lasts and no others, if nothing else loses
\* any; a stuck channel has one value from the fault on, and its own before and in every other
\* node (scenario.rs:47-50).
THEOREM FaultsConfined == Spec => []FaultsInTheirWindow
<1>1. Init => Faults
  <2> SUFFICES ASSUME Init PROVE Faults
    OBVIOUS
  <2>1. /\ pc = "emit" /\ node = 1 /\ seq = 0 /\ stuck = Live /\ wire = <<>>
        /\ seen = {} /\ received = <<>>
    BY DEF Init
  <2>2. Indices = {} /\ DOMAIN received = {} /\ 0 .. seq - 1 = {}
    BY <2>1 DEF Indices
  <2>3. \A n, s : ~Arrived(n, s)
    BY <2>2 DEF Arrived
  <2>4. Values
    BY <2>1, <2>2 DEF Values
  <2>5. Decoded
    <3>1. received \in Seq([node : Nat, seq : Nat, value : Int])
      BY <2>1
    <3> QED
      BY <2>1, <2>2, <2>3, <3>1 DEF Decoded
  <2>6. \A n \in DOMAIN scenario.nodes : ~(n < 1)
    <3>1. DOMAIN scenario.nodes = 1 .. Len(scenario.nodes) /\ Len(scenario.nodes) \in Nat
      BY ScenarioTypes, ScenarioAssumption, LenProperties DEF Init
    <3> QED
      BY <3>1
  <2>7. Bursts
    BY <2>1, <2>2, <2>6 DEF Bursts
  <2> QED
    BY <2>4, <2>5, <2>7 DEF Faults
<1>2. IInv /\ Faults /\ [Next]_vars => Faults'
  <2> SUFFICES ASSUME IInv, Faults, [Next]_vars PROVE Faults'
    OBVIOUS
  <2>1. CASE UNCHANGED vars
    <3>1. UNCHANGED <<scenario, pc, node, seq, stuck, wire, seen, received>>
      BY <2>1 DEF vars
    <3>2. Indices' = Indices /\ Pushed' = Pushed /\ \A n, s : Arrived(n, s)' <=> Arrived(n, s)
      BY <3>1 DEF Indices, Pushed, Arrived
    <3>3. Values'
      BY <3>1, <3>2, FaultsFixed DEF Faults, Values
    <3>4. Decoded' /\ Bursts'
      BY <3>1, <3>2, FaultsFixed DEF Faults, Decoded, Bursts
    <3> QED
      BY <3>3, <3>4 DEF Faults
  <2> QED
    BY <2>1, EmitFaults, EmittedFaults, ReceiveFaults, EndNodeFaults DEF Next
<1>3. IInv /\ Faults => FaultsInTheirWindow
  <2> SUFFICES ASSUME IInv, Faults PROVE FaultsInTheirWindow
    OBVIOUS
  <2>1. ASSUME pc = "done", scenario.loss = 0, \A b \in scenario.bursts : b.loss = 2,
               NEW n \in DOMAIN scenario.nodes, NEW s \in 0 .. scenario.nodes[n].packets - 1
        PROVE  (Inside(n, s) => ~Arrived(n, s)) /\ (Outside(n, s) => Arrived(n, s))
    <3>1. n < node \/ n = node
      <4>1. DOMAIN scenario.nodes = 1 .. Len(scenario.nodes) /\ Len(scenario.nodes) \in Nat
        BY ScenarioTypes, ScenarioAssumption, LenProperties DEF IInv, TypeOK
      <4>2. node = Len(scenario.nodes)
        BY <2>1 DEF Faults, Decoded
      <4> QED
        BY <4>1, <4>2
    <3> QED
      BY <2>1, <3>1 DEF Faults, Bursts, OnlyBursts
  <2>2. ASSUME NEW i \in DOMAIN received, Faultless(received[i].node, received[i].seq)
        PROVE  received[i].value = received[i].seq
    BY <2>2 DEF Faults, Values
  <2>3. ASSUME NEW i \in DOMAIN received, NEW k \in DOMAIN received,
               UnderFault(received[i].node, received[i].seq),
               UnderFault(received[k].node, received[k].seq)
        PROVE  received[i].value = received[k].value
    BY <2>3 DEF Faults, Values
  <2> QED
    BY <2>1, <2>2, <2>3
       DEF FaultsInTheirWindow, Arrived, Inside, Outside, UnderFault, Faultless
<1> QED
  BY Inductive, <1>1, <1>2, <1>3, PTL DEF Spec
=============================================================================
