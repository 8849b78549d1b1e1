--------------------------- MODULE StationProofs ---------------------------
(***************************************************************************)
(* Proofs about Station, for all nodes, windows, latencies and sessions    *)
(* below half the ring: what the records mean, how far the estimates are   *)
(* off, the alarm, and the totals.                                         *)
(***************************************************************************)
EXTENDS Station, NumberProofs

(***************************************************************************)
(* The signed delta of two sequence numbers is the true distance of the    *)
(* frames they number, as long as that is below half the ring.             *)
(***************************************************************************)

\* The modulus is twice its half.
LEMMA HalfOfMod == SeqMod \in Nat /\ SeqMod > 0 /\ SeqHalf \in Nat /\ SeqHalf > 0
                   /\ SeqMod = 2 * SeqHalf
  BY SeqModAssumption, SMT DEF SeqHalf

\* The signed delta of the numbers of the i-th and the j-th frame counted from s is i - j
\* (collector.py:33-35), across any number of wraps.
LEMMA DeltaIsDistance ==
    ASSUME NEW s \in Seqs, NEW i \in Nat, NEW j \in Nat,
           i - j < SeqHalf, j - i <= SeqHalf
    PROVE  SeqDelta((s + i) % SeqMod, (s + j) % SeqMod) = i - j
<1> DEFINE a == (s + i) % SeqMod
           b == (s + j) % SeqMod
           p == (s + i) \div SeqMod
           q == (s + j) \div SeqMod
           d == i - j + SeqHalf
<1>1. SeqMod \in Nat /\ SeqHalf \in Nat /\ SeqMod = 2 * SeqHalf
  BY HalfOfMod
<1>2. s + i \in Int /\ s + j \in Int
  BY <1>1 DEF Seqs
<1>3. p \in Int /\ a \in Int /\ s + i = p * SeqMod + a
  <2>1. SeqMod \in Nat \ {0}
    BY HalfOfMod
  <2>2. p \in Int /\ a \in 0 .. SeqMod - 1 /\ s + i = p * SeqMod + a
    BY <1>2, <2>1, Divide
  <2> HIDE DEF p, a
  <2> QED
    BY <2>2
<1>4. q \in Int /\ b \in Int /\ s + j = q * SeqMod + b
  <2>1. SeqMod \in Nat \ {0}
    BY HalfOfMod
  <2>2. q \in Int /\ b \in 0 .. SeqMod - 1 /\ s + j = q * SeqMod + b
    BY <1>2, <2>1, Divide
  <2> HIDE DEF q, b
  <2> QED
    BY <2>2
<1>5. d \in Seqs
  BY <1>1 DEF Seqs
<1> HIDE DEF a, b, p, q
<1>6. (q - p) * SeqMod = q * SeqMod - p * SeqMod
  BY <1>1, <1>3, <1>4
<1>7. a - b + SeqHalf = (q - p) * SeqMod + d
  <2> DEFINE pm == p * SeqMod
             qm == q * SeqMod
  <2>1. pm \in Int /\ qm \in Int
    BY <1>1, <1>3, <1>4
  <2>2. s + i = pm + a /\ s + j = qm + b /\ (q - p) * SeqMod = qm - pm
    BY <1>3, <1>4, <1>6
  <2> HIDE DEF pm, qm
  <2>3. s \in Int
    BY <1>1 DEF Seqs
  <2> QED
    BY <1>1, <1>3, <1>4, <2>1, <2>2, <2>3
<1>8. (a - b + SeqHalf) % SeqMod = d
  <2>1. q - p \in Int
    BY <1>3, <1>4
  <2>2. d \in 0 .. SeqMod - 1 /\ SeqMod \in Nat \ {0}
    BY <1>5, HalfOfMod DEF Seqs
  <2> HIDE DEF d
  <2> QED
    BY <1>7, <2>1, <2>2, RemainderUnique
<1> QED
  BY <1>1, <1>8 DEF SeqDelta, a, b

-----------------------------------------------------------------------------
\* The number of a frame is a sequence number, and numbers tell frames of a session apart
\* and give their distance.
LEMMA SeqOfDelta ==
    ASSUME NEW n \in Nodes, NEW i \in Index, NEW j \in Index
    PROVE  /\ SeqOf(n, i) \in Seqs
           /\ SeqDelta(SeqOf(n, i), SeqOf(n, j)) = i - j
           /\ SeqOf(n, i) = SeqOf(n, j) => i = j
<1>1. i \in Nat /\ j \in Nat /\ i - j < SeqHalf /\ j - i <= SeqHalf /\ j - i < SeqHalf
  BY StationBounds, SessionAssumption, HalfOfMod DEF Index
<1>2. Start[n] \in Seqs
  BY StartAssumption
<1>3. SeqDelta(SeqOf(n, i), SeqOf(n, j)) = i - j
  BY <1>1, <1>2, DeltaIsDistance DEF SeqOf
<1>4. SeqDelta(SeqOf(n, j), SeqOf(n, j)) = 0
  <2>1. j - j < SeqHalf /\ j - j <= SeqHalf /\ j - j = 0
    BY <1>1, HalfOfMod
  <2> QED
    BY <1>1, <1>2, <2>1, DeltaIsDistance DEF SeqOf
<1>5. SeqOf(n, i) \in Seqs
  <2>1. Start[n] + i \in Int /\ Seqs = 0 .. SeqMod - 1 /\ SeqMod \in Nat \ {0}
    BY <1>1, <1>2, HalfOfMod DEF Seqs
  <2> QED
    BY <2>1, Divide DEF SeqOf
<1> QED
  BY <1>1, <1>3, <1>4, <1>5

-----------------------------------------------------------------------------
(* _track: what each of its paths does to a node's record. *)

Packet == [node : Nodes, seq : Seqs, heartbeat : BOOLEAN, samples : Nat]

Elements(q) == {q[i] : i \in 1 .. Len(q)}

\* Remembering a number keeps a window of numbers, all of them known before but the new one.
LEMMA RememberEffect ==
    ASSUME NEW q \in Seq(Seqs), NEW s \in Seqs
    PROVE  /\ Remember(q, s) \in Seq(Seqs)
           /\ Elements(Remember(q, s)) \subseteq Elements(q) \union {s}
<1> DEFINE longer == Append(q, s)
<1>1. Len(q) \in Nat
  BY LenProperties
<1>2. /\ longer \in Seq(Seqs) /\ Len(longer) = Len(q) + 1
      /\ \A i \in 1 .. Len(q) : longer[i] = q[i]
      /\ longer[Len(q) + 1] = s
  BY AppendProperties
<1>3. Elements(longer) \subseteq Elements(q) \union {s}
  <2> SUFFICES ASSUME NEW i \in 1 .. Len(longer)
               PROVE  longer[i] \in Elements(q) \union {s}
    BY DEF Elements
  <2>1. CASE i = Len(q) + 1
    BY <1>2, <2>1
  <2>2. CASE i # Len(q) + 1
    <3>1. i \in 1 .. Len(q)
      BY <1>1, <1>2, <2>2
    <3> QED
      BY <1>2, <3>1 DEF Elements
  <2> QED
    BY <2>1, <2>2
<1>4. longer # <<>>
  BY <1>1, <1>2
<1> HIDE DEF longer
<1>5. /\ Tail(longer) \in Seq(Seqs) /\ Len(Tail(longer)) = Len(longer) - 1
      /\ \A i \in 1 .. Len(Tail(longer)) : Tail(longer)[i] = longer[i + 1]
  BY <1>2, <1>4, HeadTailProperties
<1>6. Elements(Tail(longer)) \subseteq Elements(longer)
  <2> SUFFICES ASSUME NEW i \in 1 .. Len(Tail(longer))
               PROVE  Tail(longer)[i] \in Elements(longer)
    BY DEF Elements
  <2>1. i + 1 \in 1 .. Len(longer)
    BY <1>1, <1>2, <1>5
  <2> QED
    BY <1>5, <2>1 DEF Elements
<1>7. Remember(q, s) = longer \/ Remember(q, s) = Tail(longer)
  BY DEF Remember, longer
<1> QED
  BY <1>2, <1>3, <1>5, <1>6, <1>7

\* The bookkeeping every packet gets leaves the estimates alone.
LEMMA HearEffect ==
    ASSUME NEW ns \in NodeStats, NEW p \in Packet, NEW t \in Nat
    PROVE  /\ Hear(ns, p, t) \in NodeStats
           /\ Hear(ns, p, t).lost = ns.lost
           /\ Hear(ns, p, t).first_seq = ns.first_seq
           /\ Hear(ns, p, t).last_seq = ns.last_seq
           /\ Hear(ns, p, t).seen_q = ns.seen_q
           /\ Hear(ns, p, t).reordered = ns.reordered
           /\ Hear(ns, p, t).duplicated = ns.duplicated
<1> DEFINE beats == IF p.heartbeat THEN ns.heartbeats + 1 ELSE ns.heartbeats
           count == ns.packets + 1
           sum == ns.samples + p.samples
<1>1. count \in Nat /\ sum \in Nat /\ beats \in Nat
  BY DEF NodeStats, Packet
<1>2. Hear(ns, p, t) = [ns EXCEPT !.packets = count, !.samples = sum, !.heartbeats = beats,
                                  !.last_seen = t]
  BY DEF Hear
<1> HIDE DEF beats, count, sum
<1>3. Hear(ns, p, t) \in NodeStats
  BY <1>1, <1>2 DEF NodeStats
<1> QED
  BY <1>2, <1>3 DEF NodeStats

\* The first packet of a node sets both marks.
LEMMA FirstEffect ==
    ASSUME NEW ns \in NodeStats, NEW p \in Packet
    PROVE  LET r == TrackFirst(ns, p)
           IN  /\ r \in NodeStats /\ r.lost = ns.lost
               /\ r.first_seq = p.seq /\ r.last_seq = p.seq
               /\ Elements(r.seen_q) \subseteq Elements(ns.seen_q) \union {p.seq}
<1> DEFINE w == Remember(ns.seen_q, p.seq)
<1>1. p.seq \in Seqs /\ ns.seen_q \in Seq(Seqs)
  BY DEF Packet, NodeStats
<1>2. w \in Seq(Seqs) /\ Elements(w) \subseteq Elements(ns.seen_q) \union {p.seq}
  BY <1>1, RememberEffect
<1>3. TrackFirst(ns, p) = [ns EXCEPT !.first_seq = p.seq, !.last_seq = p.seq, !.seen_q = w]
  BY DEF TrackFirst
<1> HIDE DEF w
<1>4. \A a \in Seqs, q \in Seq(Seqs) :
        [ns EXCEPT !.first_seq = a, !.last_seq = a, !.seen_q = q] \in NodeStats
  BY DEF NodeStats
<1>5. TrackFirst(ns, p) \in NodeStats
  BY <1>1, <1>2, <1>3, <1>4
<1>6. /\ TrackFirst(ns, p).lost = ns.lost
      /\ TrackFirst(ns, p).first_seq = p.seq /\ TrackFirst(ns, p).last_seq = p.seq
      /\ TrackFirst(ns, p).seen_q = w
  BY <1>3 DEF NodeStats
<1> QED
  BY <1>2, <1>5, <1>6

\* A duplicate is counted and changes no estimate.
LEMMA DuplicateEffect ==
    ASSUME NEW ns \in NodeStats
    PROVE  LET r == TrackDuplicate(ns)
           IN  /\ r \in NodeStats /\ r.lost = ns.lost
               /\ r.first_seq = ns.first_seq /\ r.last_seq = ns.last_seq
               /\ r.seen_q = ns.seen_q
<1>1. ns.duplicated + 1 \in Nat
  BY DEF NodeStats
<1>2. TrackDuplicate(ns) = [ns EXCEPT !.duplicated = ns.duplicated + 1]
  BY DEF TrackDuplicate
<1>3. \A a \in Nat : [ns EXCEPT !.duplicated = a] \in NodeStats
  BY DEF NodeStats
<1>4. TrackDuplicate(ns) \in NodeStats
  BY <1>1, <1>2, <1>3
<1> QED
  BY <1>2, <1>4 DEF NodeStats

\* A packet ahead of the newest one moves that mark and counts the gap as lost.
LEMMA ForwardEffect ==
    ASSUME NEW ns \in NodeStats, NEW p \in Packet,
           SeqDelta(p.seq, ns.last_seq) \in Int, IsForward(ns, p)
    PROVE  LET r == TrackForward(ns, p)
           IN  /\ r \in NodeStats
               /\ r.lost = ns.lost + SeqDelta(p.seq, ns.last_seq) - 1
               /\ r.first_seq = ns.first_seq /\ r.last_seq = p.seq
               /\ Elements(r.seen_q) \subseteq Elements(ns.seen_q) \union {p.seq}
<1> DEFINE w == Remember(ns.seen_q, p.seq)
           d == SeqDelta(p.seq, ns.last_seq)
           more == ns.lost + d - 1
           number == p.seq
<1>1. number \in Seqs /\ ns.seen_q \in Seq(Seqs) /\ ns.lost \in Nat
  BY DEF Packet, NodeStats
<1>2. w \in Seq(Seqs) /\ Elements(w) \subseteq Elements(ns.seen_q) \union {p.seq}
  BY <1>1, RememberEffect
<1>3. more \in Nat
  BY <1>1 DEF IsForward
<1>4. TrackForward(ns, p) = [ns EXCEPT !.lost = more, !.last_seq = number, !.seen_q = w]
  BY DEF TrackForward
<1> HIDE DEF w, more, number
<1>5. TrackForward(ns, p) \in NodeStats
  BY <1>1, <1>2, <1>3, <1>4 DEF NodeStats
<1>6. /\ TrackForward(ns, p).lost = more
      /\ TrackForward(ns, p).first_seq = ns.first_seq /\ TrackForward(ns, p).last_seq = number
      /\ TrackForward(ns, p).seen_q = w
  BY <1>4 DEF NodeStats
<1> QED
  BY <1>2, <1>5, <1>6 DEF more, number

\* A late packet takes back one loss, if there is one.
LEMMA LateEffect ==
    ASSUME NEW ns \in NodeStats, NEW p \in Packet
    PROVE  LET r == TrackLate(ns, p)
           IN  /\ r \in NodeStats
               /\ r.lost = IF ns.lost > 0 THEN ns.lost - 1 ELSE ns.lost
               /\ r.first_seq = ns.first_seq /\ r.last_seq = ns.last_seq
               /\ Elements(r.seen_q) \subseteq Elements(ns.seen_q) \union {p.seq}
<1> DEFINE w == Remember(ns.seen_q, p.seq)
           less == IF ns.lost > 0 THEN ns.lost - 1 ELSE ns.lost
           late == ns.reordered + 1
<1>1. p.seq \in Seqs /\ ns.seen_q \in Seq(Seqs) /\ ns.lost \in Nat /\ late \in Nat
  BY DEF Packet, NodeStats
<1>2. w \in Seq(Seqs) /\ Elements(w) \subseteq Elements(ns.seen_q) \union {p.seq}
  BY <1>1, RememberEffect
<1>3. less \in Nat
  BY <1>1
<1>4. TrackLate(ns, p) =
        [ns EXCEPT !.reordered = late, !.lost = less, !.seen_q = w]
  BY DEF TrackLate
<1> HIDE DEF w, less, late
<1>5. TrackLate(ns, p) \in NodeStats
  BY <1>1, <1>2, <1>3, <1>4 DEF NodeStats
<1>6. /\ TrackLate(ns, p).lost = less
      /\ TrackLate(ns, p).first_seq = ns.first_seq /\ TrackLate(ns, p).last_seq = ns.last_seq
      /\ TrackLate(ns, p).seen_q = w
  BY <1>4 DEF NodeStats
<1> QED
  BY <1>2, <1>5, <1>6 DEF less

\* _track as a whole: which path is taken, and its effect.
LEMMA TrackEffect ==
    ASSUME NEW ns \in NodeStats, NEW p \in Packet, NEW t \in Nat,
           ~IsFirst(ns) => SeqDelta(p.seq, ns.last_seq) \in Int
    PROVE  /\ Track(ns, p, t) \in NodeStats
           /\ Elements(Track(ns, p, t).seen_q) \subseteq Elements(ns.seen_q) \union {p.seq}
           /\ IsFirst(ns) =>
                 /\ Track(ns, p, t).lost = ns.lost
                 /\ Track(ns, p, t).first_seq = p.seq /\ Track(ns, p, t).last_seq = p.seq
           /\ ~IsFirst(ns) => Track(ns, p, t).first_seq = ns.first_seq
           /\ ~IsFirst(ns) /\ IsDuplicate(ns, p) =>
                 /\ Track(ns, p, t).lost = ns.lost
                 /\ Track(ns, p, t).last_seq = ns.last_seq
           /\ ~IsFirst(ns) /\ ~IsDuplicate(ns, p) /\ IsForward(ns, p) =>
                 /\ Track(ns, p, t).lost = ns.lost + SeqDelta(p.seq, ns.last_seq) - 1
                 /\ Track(ns, p, t).last_seq = p.seq
           /\ ~IsFirst(ns) /\ ~IsDuplicate(ns, p) /\ ~IsForward(ns, p) =>
                 /\ Track(ns, p, t).lost = IF ns.lost > 0 THEN ns.lost - 1 ELSE ns.lost
                 /\ Track(ns, p, t).last_seq = ns.last_seq
<1> DEFINE h == Hear(ns, p, t)
           r == Track(ns, p, t)
<1>1. /\ h \in NodeStats /\ h.lost = ns.lost
      /\ h.first_seq = ns.first_seq /\ h.last_seq = ns.last_seq /\ h.seen_q = ns.seen_q
  BY HearEffect
<1>2. r = IF IsFirst(ns) THEN TrackFirst(h, p)
          ELSE IF IsDuplicate(ns, p) THEN TrackDuplicate(h)
          ELSE IF IsForward(ns, p) THEN TrackForward(h, p)
          ELSE TrackLate(h, p)
  BY DEF Track
<1> HIDE DEF h, r
<1> SUFFICES
           /\ r \in NodeStats
           /\ Elements(r.seen_q) \subseteq Elements(ns.seen_q) \union {p.seq}
           /\ IsFirst(ns) => r.lost = ns.lost /\ r.first_seq = p.seq /\ r.last_seq = p.seq
           /\ ~IsFirst(ns) => r.first_seq = ns.first_seq
           /\ ~IsFirst(ns) /\ IsDuplicate(ns, p) =>
                 r.lost = ns.lost /\ r.last_seq = ns.last_seq
           /\ ~IsFirst(ns) /\ ~IsDuplicate(ns, p) /\ IsForward(ns, p) =>
                 /\ r.lost = ns.lost + SeqDelta(p.seq, ns.last_seq) - 1
                 /\ r.last_seq = p.seq
           /\ ~IsFirst(ns) /\ ~IsDuplicate(ns, p) /\ ~IsForward(ns, p) =>
                 /\ r.lost = IF ns.lost > 0 THEN ns.lost - 1 ELSE ns.lost
                 /\ r.last_seq = ns.last_seq
  BY DEF r
<1>3. CASE IsFirst(ns)
  <2>1. r = TrackFirst(h, p)
    BY <1>2, <1>3
  <2>2. /\ r \in NodeStats /\ r.lost = h.lost
        /\ r.first_seq = p.seq /\ r.last_seq = p.seq
        /\ Elements(r.seen_q) \subseteq Elements(h.seen_q) \union {p.seq}
    BY <1>1, <2>1, FirstEffect
  <2> QED
    BY <1>1, <1>3, <2>2
<1>4. CASE ~IsFirst(ns) /\ IsDuplicate(ns, p)
  <2>1. r = TrackDuplicate(h)
    BY <1>2, <1>4
  <2>2. /\ r \in NodeStats /\ r.lost = h.lost
        /\ r.first_seq = h.first_seq /\ r.last_seq = h.last_seq /\ r.seen_q = h.seen_q
    BY <1>1, <2>1, DuplicateEffect
  <2> QED
    BY <1>1, <1>4, <2>2
<1>5. CASE ~IsFirst(ns) /\ ~IsDuplicate(ns, p) /\ IsForward(ns, p)
  <2>1. r = TrackForward(h, p)
    BY <1>2, <1>5
  <2>2. IsForward(h, p) /\ SeqDelta(p.seq, h.last_seq) \in Int
    BY <1>1, <1>5 DEF IsForward
  <2>3. /\ r \in NodeStats
        /\ r.lost = h.lost + SeqDelta(p.seq, h.last_seq) - 1
        /\ r.first_seq = h.first_seq /\ r.last_seq = p.seq
        /\ Elements(r.seen_q) \subseteq Elements(h.seen_q) \union {p.seq}
    BY <1>1, <2>1, <2>2, ForwardEffect
  <2> QED
    BY <1>1, <1>5, <2>3
<1>6. CASE ~IsFirst(ns) /\ ~IsDuplicate(ns, p) /\ ~IsForward(ns, p)
  <2>1. r = TrackLate(h, p)
    BY <1>2, <1>6
  <2>2. /\ r \in NodeStats
        /\ r.lost = IF h.lost > 0 THEN h.lost - 1 ELSE h.lost
        /\ r.first_seq = h.first_seq /\ r.last_seq = h.last_seq
        /\ Elements(r.seen_q) \subseteq Elements(h.seen_q) \union {p.seq}
    BY <1>1, <2>1, LateEffect
  <2> QED
    BY <1>1, <1>6, <2>2
<1> QED
  BY <1>3, <1>4, <1>5, <1>6

-----------------------------------------------------------------------------
\* What the signed delta makes of a frame d numbers further round the ring.
LEMMA DeltaRoundTheRing ==
    ASSUME NEW s \in Seqs, NEW d \in 0 .. SeqMod - 1
    PROVE  SeqDelta((s + d) % SeqMod, s) = IF d < SeqHalf THEN d ELSE d - SeqMod
<1>1. /\ SeqMod \in Nat /\ SeqMod > 0 /\ SeqHalf \in Nat /\ SeqHalf > 0 /\ SeqMod = 2 * SeqHalf
      /\ d \in Nat /\ d < SeqMod
  BY HalfOfMod
<1>2. (s + 0) % SeqMod = s /\ (s + SeqMod) % SeqMod = s
  <2>1. s \in 0 .. SeqMod - 1 /\ SeqMod \in Nat \ {0} /\ s \in Int
    BY <1>1 DEF Seqs
  <2>2. (0 * SeqMod + s) % SeqMod = s /\ (1 * SeqMod + s) % SeqMod = s
    BY <2>1, RemainderUnique
  <2>3. 0 * SeqMod + s = s + 0 /\ 1 * SeqMod + s = s + SeqMod
    BY <2>1
  <2> QED  BY <2>2, <2>3
<1>3. CASE d < SeqHalf
  <2>1. d - 0 < SeqHalf /\ 0 - d <= SeqHalf /\ 0 \in Nat
    BY <1>1, <1>3
  <2>2. SeqDelta((s + d) % SeqMod, (s + 0) % SeqMod) = d - 0
    BY <1>1, <2>1, DeltaIsDistance
  <2> QED  BY <1>1, <1>2, <1>3, <2>2
<1>4. CASE ~(d < SeqHalf)
  <2>1. d - SeqMod < SeqHalf /\ SeqMod - d <= SeqHalf
    BY <1>1, <1>4
  <2>2. SeqDelta((s + d) % SeqMod, (s + SeqMod) % SeqMod) = d - SeqMod
    BY <1>1, <2>1, DeltaIsDistance
  <2> QED  BY <1>2, <1>4, <2>2
<1> QED  BY <1>3, <1>4

\* How _track reads an outage (collector.py:132): the first frame heard again, d numbers after
\* the newest one, counts the d - 1 frames between them as lost, up to half the ring; from
\* there on it looks like a late arrival, counts as reordered, takes back one loss and leaves
\* the newest number where it was.  The bound that Station puts on a session is exact.
THEOREM OutageRead ==
    ASSUME NEW ns \in NodeStats, NEW p \in Packet, NEW t \in Nat, NEW d \in 1 .. SeqMod - 1,
           ns.last_seq \in Seqs, p.seq = (ns.last_seq + d) % SeqMod, ~IsDuplicate(ns, p)
    PROVE  LET r == Track(ns, p, t)
           IN  /\ d < SeqHalf => r.lost = ns.lost + (d - 1) /\ r.last_seq = p.seq
               /\ d >= SeqHalf =>
                     /\ r.lost = (IF ns.lost > 0 THEN ns.lost - 1 ELSE 0)
                     /\ r.reordered = ns.reordered + 1 /\ r.last_seq = ns.last_seq
<1> DEFINE delta == SeqDelta(p.seq, ns.last_seq)
<1>1. /\ SeqMod \in Nat /\ SeqHalf \in Nat /\ SeqHalf > 0 /\ SeqMod = 2 * SeqHalf
      /\ d \in Nat /\ d >= 1 /\ d < SeqMod /\ d \in 0 .. SeqMod - 1 /\ ns.lost \in Nat
  BY HalfOfMod DEF NodeStats
<1>2. delta = IF d < SeqHalf THEN d ELSE d - SeqMod
  BY <1>1, DeltaRoundTheRing
<1> HIDE DEF delta
<1>3. delta \in Int /\ (delta > 0 <=> d < SeqHalf)
  BY <1>1, <1>2
<1>4. IsForward(ns, p) <=> d < SeqHalf
  BY <1>3 DEF IsForward, delta
<1>5. ~IsFirst(ns)
  BY <1>1 DEF IsFirst, Seqs
<1>6. ASSUME d < SeqHalf
      PROVE  Track(ns, p, t).lost = ns.lost + (d - 1) /\ Track(ns, p, t).last_seq = p.seq
  BY <1>2, <1>3, <1>4, <1>5, <1>6, TrackEffect DEF delta
<1>7. ASSUME d >= SeqHalf
      PROVE  /\ Track(ns, p, t).lost = (IF ns.lost > 0 THEN ns.lost - 1 ELSE 0)
             /\ Track(ns, p, t).reordered = ns.reordered + 1
             /\ Track(ns, p, t).last_seq = ns.last_seq
  <2> DEFINE heard == Hear(ns, p, t)
  <2>1. Track(ns, p, t) = TrackLate(heard, p)
    BY <1>1, <1>4, <1>5, <1>7 DEF Track
  <2>2. /\ heard \in NodeStats /\ heard.lost = ns.lost /\ heard.reordered = ns.reordered
        /\ heard.last_seq = ns.last_seq
    BY HearEffect
  <2> HIDE DEF heard
  <2>3. TrackLate(heard, p).reordered = heard.reordered + 1
    BY <2>2 DEF TrackLate, NodeStats
  <2>4. /\ TrackLate(heard, p).lost = IF heard.lost > 0 THEN heard.lost - 1 ELSE heard.lost
        /\ TrackLate(heard, p).last_seq = heard.last_seq
    BY <2>2, LateEffect
  <2> QED  BY <1>1, <2>1, <2>2, <2>3, <2>4
<1> QED  BY <1>6, <1>7

-----------------------------------------------------------------------------
(* The frames missing between the first and the newest one heard. *)

GapsOf(a, h, T) == {k \in Index : a <= k /\ k <= h /\ k \notin T}

\* There are finitely many frames, so missing ones can be counted.
LEMMA GapsFinite ==
    ASSUME NEW S \in SUBSET Index
    PROVE  IsFiniteSet(S) /\ Cardinality(S) \in Nat
<1>1. IsFiniteSet(Index)
  BY StationBounds, FS_Interval DEF Index
<1> QED
  BY <1>1, FS_Subset, FS_CardinalityType

\* A frame newer than every frame heard opens as many gaps as it skips frames.
LEMMA GapsGrow ==
    ASSUME NEW T \in SUBSET Index, NEW a \in Index, NEW h \in Index, NEW i \in Index,
           a <= h, h < i, \A k \in T : k <= h
    PROVE  Cardinality(GapsOf(a, h, T)) + (i - h - 1)
              <= Cardinality(GapsOf(a, i, T \union {i}))
<1> DEFINE old == GapsOf(a, h, T)
           new == GapsOf(a, i, T \union {i})
           skipped == h + 1 .. i - 1
<1>1. a \in Nat /\ h \in Nat /\ i \in Nat
  BY DEF Index
<1>2. old \in SUBSET Index /\ new \in SUBSET Index
  BY DEF GapsOf
<1>3. IsFiniteSet(old) /\ IsFiniteSet(new) /\ Cardinality(old) \in Nat /\ Cardinality(new) \in Nat
  BY <1>2, GapsFinite
<1>4. IsFiniteSet(skipped) /\ Cardinality(skipped) = i - h - 1
  <2>1. h + 1 \in Int /\ i - 1 \in Int
    BY <1>1
  <2>2. /\ IsFiniteSet(skipped)
        /\ Cardinality(skipped) = IF h + 1 > i - 1 THEN 0 ELSE (i - 1) - (h + 1) + 1
    BY <2>1, FS_Interval
  <2> QED
    BY <1>1, <2>2
<1>5. old \union skipped \subseteq new
  <2>1. old \subseteq new
    BY <1>1 DEF GapsOf, Index
  <2>2. skipped \subseteq new
    BY <1>1, StationBounds DEF GapsOf, Index
  <2> QED
    BY <2>1, <2>2
<1>6. old \intersect skipped = {}
  BY <1>1 DEF GapsOf
<1> HIDE DEF old, new, skipped
<1>7. Cardinality(old \union skipped) = Cardinality(old) + Cardinality(skipped)
  <2>1. Cardinality(old \union skipped)
          = Cardinality(old) + Cardinality(skipped) - Cardinality(old \intersect skipped)
    BY <1>3, <1>4, FS_Union
  <2>2. Cardinality(old \intersect skipped) = 0
    BY <1>6, FS_EmptySet
  <2>3. Cardinality(skipped) \in Int
    BY <1>1, <1>4
  <2> QED
    BY <1>3, <2>1, <2>2, <2>3
<1>8. Cardinality(old \union skipped) <= Cardinality(new)
  BY <1>3, <1>5, FS_Subset
<1> QED
  BY <1>4, <1>7, <1>8 DEF old, new

\* A frame no newer than the newest one heard fills at most one gap, and none if it was
\* heard before.
LEMMA GapsShrink ==
    ASSUME NEW T \in SUBSET Index, NEW a \in Index, NEW h \in Index, NEW i \in Index
    PROVE  /\ Cardinality(GapsOf(a, h, T)) - 1 <= Cardinality(GapsOf(a, h, T \union {i}))
           /\ i \in T => GapsOf(a, h, T \union {i}) = GapsOf(a, h, T)
<1> DEFINE old == GapsOf(a, h, T)
           new == GapsOf(a, h, T \union {i})
<1>1. old \in SUBSET Index /\ new \in SUBSET Index
  BY DEF GapsOf
<1>2. IsFiniteSet(old) /\ IsFiniteSet(new) /\ Cardinality(old) \in Nat /\ Cardinality(new) \in Nat
  BY <1>1, GapsFinite
<1>3. new = old \ {i}
  BY DEF GapsOf
<1>4. i \in T => new = old
  BY DEF GapsOf
<1> HIDE DEF old, new
<1>5. Cardinality(new) = IF i \in old THEN Cardinality(old) - 1 ELSE Cardinality(old)
  BY <1>2, <1>3, FS_RemoveElement
<1> QED
  BY <1>2, <1>4, <1>5 DEF old, new

-----------------------------------------------------------------------------
(***************************************************************************)
(* What a record ns of node n knows of the node's frames, when a is the    *)
(* first frame heard, h the newest and T the set of all of them.           *)
(***************************************************************************)
Known(ns, n, a, h, T) ==
    /\ h = Never => /\ a = Never /\ T = {}
                    /\ ns.last_seq = Never /\ ns.lost = 0
    /\ h # Never => /\ a \in Index /\ h \in Index /\ a <= h
                    /\ ns.first_seq = SeqOf(n, a) /\ ns.last_seq = SeqOf(n, h)
                    /\ ns.lost <= Cardinality(GapsOf(a, h, T))
    /\ \A k \in T : k <= h
    /\ Elements(ns.seen_q) \subseteq {SeqOf(n, k) : k \in T}

\* Whatever frame comes next, tracking it keeps what the record knows.
LEMMA TrackKnown ==
    ASSUME NEW n \in Nodes, NEW ns \in NodeStats, NEW p \in Packet, NEW t \in Nat,
           NEW T \in SUBSET Index, NEW a \in Index \union {Never},
           NEW h \in Index \union {Never}, NEW i \in Index,
           p.seq = SeqOf(n, i), Known(ns, n, a, h, T)
    PROVE  /\ Track(ns, p, t) \in NodeStats
           /\ Known(Track(ns, p, t), n, IF a = Never THEN i ELSE a,
                    IF i > h THEN i ELSE h, T \union {i})
<1> DEFINE r == Track(ns, p, t)
           U == T \union {i}
<1>1. Index \subseteq Nat /\ Never \notin Nat /\ Never < 0 /\ ns.lost \in Nat
  BY DEF Index, Never, NodeStats
<1>2. SeqOf(n, i) \in Seqs /\ Seqs \subseteq Nat
  BY SeqOfDelta, HalfOfMod DEF Seqs
<1>3. h # Never => /\ SeqDelta(p.seq, ns.last_seq) = i - h
                   /\ SeqDelta(p.seq, ns.last_seq) \in Int
                   /\ ns.last_seq \in Nat
  <2> SUFFICES ASSUME h # Never
               PROVE  /\ SeqDelta(p.seq, ns.last_seq) = i - h
                      /\ SeqDelta(p.seq, ns.last_seq) \in Int
                      /\ ns.last_seq \in Nat
    OBVIOUS
  <2>1. h \in Index /\ ns.last_seq = SeqOf(n, h)
    BY DEF Known
  <2>2. SeqDelta(p.seq, ns.last_seq) = i - h
    BY <2>1, SeqOfDelta
  <2>3. i - h \in Int
    BY <1>1, <2>1
  <2> QED
    BY <1>2, <2>1, <2>2, <2>3, SeqOfDelta
<1>4. IsFirst(ns) <=> h = Never
  BY <1>1, <1>3 DEF IsFirst, Known
<1>5. /\ r \in NodeStats
      /\ Elements(r.seen_q) \subseteq Elements(ns.seen_q) \union {p.seq}
      /\ IsFirst(ns) => r.lost = ns.lost /\ r.first_seq = p.seq /\ r.last_seq = p.seq
      /\ ~IsFirst(ns) => r.first_seq = ns.first_seq
      /\ ~IsFirst(ns) /\ IsDuplicate(ns, p) =>
            r.lost = ns.lost /\ r.last_seq = ns.last_seq
      /\ ~IsFirst(ns) /\ ~IsDuplicate(ns, p) /\ IsForward(ns, p) =>
            /\ r.lost = ns.lost + SeqDelta(p.seq, ns.last_seq) - 1
            /\ r.last_seq = p.seq
      /\ ~IsFirst(ns) /\ ~IsDuplicate(ns, p) /\ ~IsForward(ns, p) =>
            /\ r.lost = IF ns.lost > 0 THEN ns.lost - 1 ELSE ns.lost
            /\ r.last_seq = ns.last_seq
  BY <1>3, <1>4, TrackEffect
<1> HIDE DEF r
<1>6. Elements(r.seen_q) \subseteq {SeqOf(n, k) : k \in U}
  BY <1>5 DEF Known
<1>7. U \in SUBSET Index
  OBVIOUS
<1>8. CASE h = Never
  <2>1. a = Never /\ T = {} /\ U = {i} /\ i > h
    <3>1. a = Never /\ T = {}
      BY <1>8 DEF Known
    <3>2. U = {i}
      BY <3>1
    <3>3. i > h
      BY <1>1, <1>8 DEF Never
    <3> QED
      BY <3>1, <3>2, <3>3
  <2>2. r.lost = 0 /\ r.first_seq = SeqOf(n, i) /\ r.last_seq = SeqOf(n, i)
    BY <1>4, <1>5, <1>8 DEF Known
  <2>3. GapsOf(i, i, U) \in SUBSET Index
    BY DEF GapsOf
  <2>4. r.lost <= Cardinality(GapsOf(i, i, U))
    <3>1. Cardinality(GapsOf(i, i, U)) \in Nat
      BY <2>3, GapsFinite
    <3> QED
      BY <2>2, <3>1
  <2>5. Known(r, n, i, i, U)
    <3>1. i # Never /\ i <= i
      BY <1>1
    <3>2. \A k \in U : k <= i
      BY <2>1, <3>1
    <3> QED
      BY <1>6, <2>2, <2>4, <3>1, <3>2 DEF Known
  <2> QED
    BY <1>5, <2>1, <2>5 DEF r
<1>9. CASE h # Never
  <2>1. /\ a \in Index /\ h \in Index /\ a <= h /\ a # Never
        /\ ns.first_seq = SeqOf(n, a) /\ ns.last_seq = SeqOf(n, h)
        /\ ns.lost <= Cardinality(GapsOf(a, h, T))
        /\ \A k \in T : k <= h
    BY <1>1, <1>9 DEF Known
  <2>2. r.first_seq = SeqOf(n, a)
    BY <1>4, <1>5, <1>9, <2>1
  <2>3. GapsOf(a, h, T) \in SUBSET Index /\ GapsOf(a, h, U) \in SUBSET Index
        /\ GapsOf(a, i, U) \in SUBSET Index
    BY DEF GapsOf
  <2>4. /\ Cardinality(GapsOf(a, h, T)) \in Nat /\ Cardinality(GapsOf(a, h, U)) \in Nat
        /\ Cardinality(GapsOf(a, i, U)) \in Nat
    BY <2>3, GapsFinite
  <2>5. CASE IsDuplicate(ns, p)
    <3>1. PICK k \in T : SeqOf(n, i) = SeqOf(n, k)
      BY <2>5 DEF IsDuplicate, Known, Seen, Elements
    <3>2. k = i
      BY <3>1, SeqOfDelta
    <3>3. i \in T /\ i <= h /\ ~(i > h)
      BY <1>1, <2>1, <3>2
    <3>4. GapsOf(a, h, U) = GapsOf(a, h, T)
      BY <2>1, <3>3, GapsShrink
    <3>5. r.lost = ns.lost /\ r.last_seq = SeqOf(n, h)
      BY <1>4, <1>5, <1>9, <2>1, <2>5
    <3>6. \A j \in U : j <= h
      BY <2>1, <3>3
    <3>7. Known(r, n, a, h, U)
      BY <1>6, <1>9, <2>1, <2>2, <3>4, <3>5, <3>6 DEF Known
    <3> QED
      BY <1>5, <2>1, <3>3, <3>7 DEF r
  <2>6. CASE ~IsDuplicate(ns, p) /\ IsForward(ns, p)
    <3>1. h < i /\ i > h
      BY <1>1, <1>3, <1>9, <2>1, <2>6 DEF IsForward
    <3>2. r.lost = ns.lost + (i - h) - 1 /\ r.last_seq = SeqOf(n, i)
      BY <1>3, <1>4, <1>5, <1>9, <2>6
    <3>3. Cardinality(GapsOf(a, h, T)) + (i - h - 1) <= Cardinality(GapsOf(a, i, U))
      BY <2>1, <3>1, GapsGrow
    <3>4. r.lost <= Cardinality(GapsOf(a, i, U))
      BY <1>1, <2>1, <2>4, <3>2, <3>3
    <3>5. a <= i /\ \A j \in U : j <= i
      BY <1>1, <2>1, <3>1
    <3>6. Known(r, n, a, i, U)
      BY <1>1, <1>6, <2>1, <2>2, <3>2, <3>4, <3>5 DEF Known
    <3> QED
      BY <1>5, <2>1, <3>1, <3>6 DEF r
  <2>7. CASE ~IsDuplicate(ns, p) /\ ~IsForward(ns, p)
    <3>1. i <= h /\ ~(i > h)
      BY <1>1, <1>3, <1>9, <2>1, <2>7 DEF IsForward
    <3>2. /\ r.lost = IF ns.lost > 0 THEN ns.lost - 1 ELSE ns.lost
          /\ r.last_seq = SeqOf(n, h)
      BY <1>4, <1>5, <1>9, <2>1, <2>7
    <3>3. Cardinality(GapsOf(a, h, T)) - 1 <= Cardinality(GapsOf(a, h, U))
      BY <2>1, GapsShrink
    <3>4. r.lost <= Cardinality(GapsOf(a, h, U))
      BY <1>1, <2>1, <2>4, <3>2, <3>3
    <3>5. \A j \in U : j <= h
      BY <2>1, <3>1
    <3>6. Known(r, n, a, h, U)
      BY <1>6, <1>9, <2>1, <2>2, <3>2, <3>4, <3>5 DEF Known
    <3> QED
      BY <1>5, <2>1, <3>1, <3>6 DEF r
  <2> QED
    BY <2>5, <2>6, <2>7
<1> QED
  BY <1>8, <1>9

-----------------------------------------------------------------------------
(* The link: its types need that a frame has at most two copies in all. *)

CopiesBounded ==
    \A f \in Frame : /\ inflight[f] + taken[f] <= 2
                     /\ f \notin offered => inflight[f] = 0 /\ taken[f] = 0

LinkInv == Link!TypeOK /\ CopiesBounded

\* Losing a frame keeps the link's types and its bound on copies.
LEMMA LinkLose ==
    ASSUME LinkInv, NEW f \in Frame, Link!Lose(f)
    PROVE  LinkInv'
  BY DEF LinkInv, Link!TypeOK, Link!CopyCount, CopiesBounded, Link!Lose

\* Accepting a frame in one or two copies, while others are doubled, keeps them.
LEMMA LinkAccept ==
    ASSUME LinkInv, NEW f \in Frame, NEW copies \in 1 .. 2,
           NEW doubled \in SUBSET Link!Single, Link!Accept(f, copies, doubled)
    PROVE  LinkInv'
<1>1. \A g \in Frame : /\ inflight[g] \in 0 .. 2 /\ taken[g] \in 0 .. 2
                       /\ inflight[g] + taken[g] <= 2
  BY DEF LinkInv, Link!TypeOK, Link!CopyCount, CopiesBounded
<1>2. \A g \in Frame : inflight'[g] = IF g = f THEN copies
                                      ELSE IF g \in doubled THEN 2 ELSE inflight[g]
  BY DEF Link!Accept
<1>3. taken' = taken /\ lost' = lost /\ offered' = offered \union {f} /\ taken[f] = 0
  BY DEF Link!Accept, LinkInv, CopiesBounded
<1>4. \A g \in doubled : g \in Frame /\ inflight[g] = 1 /\ taken[g] = 0
  BY DEF Link!Single
<1>5. Link!TypeOK'
  BY <1>1, <1>2, <1>3, <1>4 DEF LinkInv, Link!TypeOK, Link!CopyCount, Link!Accept
<1>6. CopiesBounded'
  <2> SUFFICES ASSUME NEW g \in Frame
               PROVE  /\ inflight'[g] + taken'[g] <= 2
                      /\ g \notin offered' => inflight'[g] = 0 /\ taken'[g] = 0
    BY DEF CopiesBounded
  <2>1. CASE g = f
    BY <1>2, <1>3, <2>1
  <2>2. CASE g # f /\ g \in doubled
    <3>1. g \in offered
      BY <1>4, <2>2 DEF LinkInv, CopiesBounded
    <3> QED
      BY <1>2, <1>3, <1>4, <2>2, <3>1
  <2>3. CASE g # f /\ g \notin doubled
    BY <1>1, <1>2, <1>3, <2>3 DEF LinkInv, CopiesBounded
  <2> QED
    BY <2>1, <2>2, <2>3
<1> QED
  BY <1>5, <1>6 DEF LinkInv

\* Doubling single frames keeps them.
LEMMA LinkDouble ==
    ASSUME LinkInv, NEW doubled \in SUBSET Link!Single, Link!Double(doubled)
    PROVE  LinkInv'
<1>1. \A g \in doubled : g \in Frame /\ inflight[g] = 1 /\ taken[g] = 0
  BY DEF Link!Single
<1>2. \A g \in doubled : g \in offered
  BY <1>1 DEF LinkInv, CopiesBounded
<1> QED
  BY <1>1, <1>2 DEF LinkInv, Link!TypeOK, Link!CopyCount, CopiesBounded, Link!Double

\* Handing a copy to the reader keeps them.
LEMMA LinkTake ==
    ASSUME LinkInv, NEW f \in Frame, Link!Take(f)
    PROVE  /\ LinkInv'
           /\ \A g \in Frame : taken'[g] = IF g = f THEN taken[g] + 1 ELSE taken[g]
<1>1. \A g \in Frame : /\ inflight[g] \in 0 .. 2 /\ taken[g] \in 0 .. 2
                       /\ inflight[g] + taken[g] <= 2
                       /\ g \notin offered => inflight[g] = 0 /\ taken[g] = 0
  BY DEF LinkInv, Link!TypeOK, Link!CopyCount, CopiesBounded
<1>2. /\ inflight \in [Frame -> 0 .. 2] /\ taken \in [Frame -> 0 .. 2]
      /\ offered \subseteq Frame /\ lost \subseteq offered
  BY DEF LinkInv, Link!TypeOK, Link!CopyCount
<1>3. /\ inflight[f] > 0
      /\ inflight' = [inflight EXCEPT ![f] = @ - 1]
      /\ taken' = [taken EXCEPT ![f] = @ + 1]
      /\ offered' = offered /\ lost' = lost
  BY DEF Link!Take
<1>4. \A g \in Frame : /\ taken'[g] = IF g = f THEN taken[g] + 1 ELSE taken[g]
                       /\ inflight'[g] = IF g = f THEN inflight[g] - 1 ELSE inflight[g]
  BY <1>2, <1>3
<1>5. inflight[f] - 1 \in 0 .. 2 /\ taken[f] + 1 \in 0 .. 2
  BY <1>1, <1>3
<1>6. inflight' \in [Frame -> 0 .. 2] /\ taken' \in [Frame -> 0 .. 2]
  BY <1>2, <1>3, <1>5
<1>7. CopiesBounded'
  BY <1>1, <1>3, <1>4 DEF CopiesBounded
<1> QED
  BY <1>2, <1>3, <1>4, <1>6, <1>7 DEF LinkInv, Link!TypeOK, Link!CopyCount

-----------------------------------------------------------------------------
(***************************************************************************)
(* The inductive invariant: types, the link's bound on copies, and of each *)
(* node's record what it knows of the frames really heard.                 *)
(***************************************************************************)
RecordsKnow == \A n \in Nodes : Known(nodes[n], n, first[n], high[n], Heard(n))

IInv == TypeOK /\ CopiesBounded /\ RecordsKnow

\* A step that leaves the records, the copies received and the history alone keeps what
\* the records know.
LEMMA UnheardStep ==
    ASSUME RecordsKnow, UNCHANGED <<nodes, taken, first, high>>
    PROVE  RecordsKnow'
<1>1. \A n \in Nodes : Heard(n)' = Heard(n)
  BY DEF Heard
<1> SUFFICES ASSUME NEW n \in Nodes
             PROVE  Known(nodes'[n], n, first'[n], high'[n], Heard(n)')
  BY DEF RecordsKnow
<1>2. Known(nodes[n], n, first[n], high[n], Heard(n))
  BY DEF RecordsKnow
<1> QED
  BY <1>1, <1>2

\* A new station knows nothing.
LEMMA InitIInv == Init => IInv
<1> SUFFICES ASSUME Init PROVE IInv
  OBVIOUS
<1>1. Unheard \in NodeStats
  BY DEF Unheard, NodeStats, Never
<1>2. CollectorTypeOK
  BY <1>1, SinkAssumption DEF Init, CollectorInit, CollectorTypeOK
<1>3. Link!TypeOK /\ CopiesBounded
  BY DEF Init, Link!Init, Link!TypeOK, Link!CopyCount, CopiesBounded
<1>4. TypeOK
  BY <1>2, <1>3, StationBounds DEF Init, TypeOK
<1>5. RecordsKnow
  <2> SUFFICES ASSUME NEW n \in Nodes
               PROVE  Known(nodes[n], n, first[n], high[n], Heard(n))
    BY DEF RecordsKnow
  <2>1. first[n] = Never /\ high[n] = Never /\ nodes[n] = Unheard
    BY DEF Init, CollectorInit
  <2>2. Heard(n) = {}
    BY DEF Init, Link!Init, Heard, Frame
  <2>3. Unheard.last_seq = Never /\ Unheard.lost = 0 /\ Unheard.seen_q = <<>>
    BY DEF Unheard
  <2>4. Elements(Unheard.seen_q) = {}
    <3>1. Len(<<>>) = 0 /\ 1 .. 0 = {}
      OBVIOUS
    <3> QED
      BY <2>3, <3>1 DEF Elements
  <2> QED
    BY <2>1, <2>2, <2>3, <2>4 DEF Known
<1> QED
  BY <1>3, <1>4, <1>5 DEF IInv

\* A node emits a frame: the collector hears nothing of it.
LEMMA EmitIInv == ASSUME IInv, NEW n \in Nodes, Emit(n) PROVE IInv'
<1> DEFINE f == <<n, emitted[n]>>
<1>1. emitted[n] \in Index /\ f \in Frame
  BY StationBounds DEF Emit, IInv, TypeOK, Index, Frame
<1>2. LinkInv
  BY DEF IInv, TypeOK, LinkInv
<1>3. LinkInv'
  <2>1. CASE Link!Lose(f)
    BY <1>1, <1>2, <2>1, LinkLose
  <2>2. CASE \E copies \in 1 .. 2, doubled \in SUBSET Link!Single :
                 Link!Accept(f, copies, doubled)
    BY <1>1, <1>2, <2>2, LinkAccept
  <2> QED
    BY <2>1, <2>2 DEF Emit
<1>4. taken' = taken
  BY DEF Emit, Link!Lose, Link!Accept
<1>5. /\ emitted' \in [Nodes -> 0 .. MaxEmit]
      /\ sentAt' \in [Frame -> 0 .. MaxTime]
  BY <1>1, StationBounds DEF Emit, IInv, TypeOK, Index
<1>6. UNCHANGED <<nodes, totals, consumed, now, first, high, raised>>
  BY DEF Emit, collectorVars, history
<1>7. TypeOK'
  BY <1>3, <1>5, <1>6 DEF IInv, TypeOK, CollectorTypeOK, LinkInv
<1>8. RecordsKnow'
  BY <1>4, <1>6, UnheardStep DEF IInv
<1> QED
  BY <1>3, <1>7, <1>8 DEF IInv, LinkInv

\* Frames are doubled in the link: the collector hears nothing of it.
LEMMA DuplicateIInv == IInv /\ Duplicate => IInv'
<1> SUFFICES ASSUME IInv, Duplicate PROVE IInv'
  OBVIOUS
<1>1. LinkInv
  BY DEF IInv, TypeOK, LinkInv
<1>2. LinkInv' /\ taken' = taken
  BY <1>1, LinkDouble DEF Duplicate, Link!Double
<1>3. UNCHANGED <<nodes, totals, consumed, emitted, sentAt, now, first, high, raised>>
  BY DEF Duplicate, collectorVars, nodeVars, history
<1>4. TypeOK'
  BY <1>2, <1>3 DEF IInv, TypeOK, CollectorTypeOK, LinkInv
<1>5. RecordsKnow'
  BY <1>2, <1>3, UnheardStep DEF IInv
<1> QED
  BY <1>2, <1>4, <1>5 DEF IInv, LinkInv

\* The clock moves: the collector hears nothing of it.
LEMMA TickIInv == IInv /\ Tick => IInv'
<1> SUFFICES ASSUME IInv, Tick PROVE IInv'
  OBVIOUS
<1>1. UNCHANGED <<nodes, totals, consumed, emitted, sentAt, offered, lost, inflight, taken,
                  first, high, raised>>
  BY DEF Tick, collectorVars, nodeVars, linkVars, history
<1>2. now' \in 0 .. MaxTime
  BY StationBounds DEF IInv, TypeOK, Tick
<1>3. TypeOK' /\ CopiesBounded'
  BY <1>1, <1>2 DEF IInv, TypeOK, CollectorTypeOK, Link!TypeOK, Link!CopyCount, CopiesBounded
<1>4. RecordsKnow'
  BY <1>1, UnheardStep DEF IInv
<1> QED
  BY <1>3, <1>4 DEF IInv

\* What an arriving frame changes: its node's record and marks, and the set of frames heard.
LEMMA ArriveEffect ==
    ASSUME IInv, NEW f \in Frame, NEW reached \in 0 .. SinkCount, Arrive(f, reached),
           NEW n, NEW i, f = <<n, i>>
    PROVE  /\ n \in Nodes /\ i \in Index
           /\ LinkInv'
           /\ PacketOf(f) \in Packet /\ PacketOf(f).seq = SeqOf(n, i)
           /\ nodes' = [nodes EXCEPT ![n] = Track(nodes[n], PacketOf(f), now)]
           /\ first' = [first EXCEPT ![n] = IF first[n] = Never THEN i ELSE first[n]]
           /\ high' = [high EXCEPT ![n] = IF i > high[n] THEN i ELSE high[n]]
           /\ totals' = [packets |-> totals.packets + 1,
                         samples |-> totals.samples + PacketOf(f).samples]
           /\ consumed' = [s \in 1 .. SinkCount |->
                              IF s <= reached THEN consumed[s] + 1 ELSE consumed[s]]
           /\ raised' = [s \in 1 .. SinkCount |->
                            IF s = reached + 1 THEN raised[s] + 1 ELSE raised[s]]
           /\ UNCHANGED <<emitted, sentAt, now, offered>>
           /\ Heard(n)' = Heard(n) \union {i}
           /\ \A m \in Nodes \ {n} : Heard(m)' = Heard(m)
<1> DEFINE p == PacketOf(f)
<1>1. n \in Nodes /\ i \in Index /\ f[1] = n /\ f[2] = i
  BY DEF Frame
<1>2. LinkInv
  BY DEF IInv, TypeOK, LinkInv
<1>3. /\ LinkInv'
      /\ \A g \in Frame : taken'[g] = IF g = f THEN taken[g] + 1 ELSE taken[g]
  BY <1>2, LinkTake DEF Arrive
<1>4. p \in Packet /\ p.node = n /\ p.seq = SeqOf(n, i)
  <2>1. SeqOf(n, i) \in Seqs
    BY <1>1, SeqOfDelta
  <2>2. IsHeartbeat(i) \in BOOLEAN
    BY DEF IsHeartbeat
  <2> QED
    BY <1>1, <2>1, <2>2, NodeAssumption DEF PacketOf, Packet
<1>5. /\ nodes' = [nodes EXCEPT ![n] = Track(nodes[n], p, now)]
      /\ totals' = [packets |-> totals.packets + 1, samples |-> totals.samples + p.samples]
      /\ consumed' = [s \in 1 .. SinkCount |->
                         IF s <= reached THEN consumed[s] + 1 ELSE consumed[s]]
  BY <1>4 DEF Arrive, Process
<1>6. /\ first' = [first EXCEPT ![n] = IF first[n] = Never THEN i ELSE first[n]]
      /\ high' = [high EXCEPT ![n] = IF i > high[n] THEN i ELSE high[n]]
      /\ UNCHANGED <<emitted, sentAt, now, offered>>
      /\ raised' = [s \in 1 .. SinkCount |->
                       IF s = reached + 1 THEN raised[s] + 1 ELSE raised[s]]
  BY <1>1 DEF Arrive, nodeVars, Link!Take
<1> HIDE DEF p
<1>7. Heard(n)' = Heard(n) \union {i}
  <2>1. taken[f] \in 0 .. 2
    BY <1>2 DEF LinkInv, Link!TypeOK, Link!CopyCount
  <2>2. \A k \in Index : <<n, k>> \in Frame /\ (<<n, k>> = f <=> k = i)
    BY <1>1 DEF Frame
  <2>3. \A k \in Index : taken'[<<n, k>>] > 0 <=> (taken[<<n, k>>] > 0 \/ k = i)
    BY <1>3, <2>1, <2>2
  <2> QED
    BY <1>1, <2>3 DEF Heard
<1>8. \A m \in Nodes \ {n} : Heard(m)' = Heard(m)
  <2>1. \A m \in Nodes \ {n}, k \in Index : <<m, k>> \in Frame /\ <<m, k>> # f
    BY <1>1 DEF Frame
  <2> QED
    BY <1>3, <2>1 DEF Heard
<1> QED
  BY <1>1, <1>3, <1>4, <1>5, <1>6, <1>7, <1>8 DEF p

\* A frame arrives: its node's record learns of it, the others stay as they are.
LEMMA ArriveIInv ==
    ASSUME IInv, NEW f \in Frame, NEW reached \in 0 .. SinkCount, Arrive(f, reached)
    PROVE  IInv'
<1> DEFINE n == f[1]
           i == f[2]
           p == PacketOf(f)
<1>1. f = <<n, i>>
  BY DEF Frame
<1> HIDE DEF n, i
<1>2. /\ n \in Nodes /\ i \in Index /\ LinkInv' /\ p \in Packet /\ p.seq = SeqOf(n, i)
      /\ nodes' = [nodes EXCEPT ![n] = Track(nodes[n], p, now)]
      /\ first' = [first EXCEPT ![n] = IF first[n] = Never THEN i ELSE first[n]]
      /\ high' = [high EXCEPT ![n] = IF i > high[n] THEN i ELSE high[n]]
      /\ totals' = [packets |-> totals.packets + 1, samples |-> totals.samples + p.samples]
      /\ consumed' = [s \in 1 .. SinkCount |->
                         IF s <= reached THEN consumed[s] + 1 ELSE consumed[s]]
      /\ raised' = [s \in 1 .. SinkCount |->
                       IF s = reached + 1 THEN raised[s] + 1 ELSE raised[s]]
      /\ UNCHANGED <<emitted, sentAt, now>>
      /\ Heard(n)' = Heard(n) \union {i}
      /\ \A m \in Nodes \ {n} : Heard(m)' = Heard(m)
  BY <1>1, ArriveEffect
<1> HIDE DEF p
<1>3. /\ nodes \in [Nodes -> NodeStats]
      /\ first \in [Nodes -> Index \union {Never}] /\ high \in [Nodes -> Index \union {Never}]
      /\ totals \in [packets : Nat, samples : Nat] /\ consumed \in [1 .. SinkCount -> Nat]
      /\ raised \in [1 .. SinkCount -> Nat]
      /\ now \in Nat
  BY DEF IInv, TypeOK, CollectorTypeOK
<1>4. \A m \in Nodes : Heard(m) \in SUBSET Index
  BY DEF Heard
<1>5. /\ Track(nodes[n], p, now) \in NodeStats
      /\ Known(Track(nodes[n], p, now), n,
               IF first[n] = Never THEN i ELSE first[n],
               IF i > high[n] THEN i ELSE high[n], Heard(n) \union {i})
  <2>1. Known(nodes[n], n, first[n], high[n], Heard(n))
    BY <1>2 DEF IInv, RecordsKnow
  <2> QED
    BY <1>2, <1>3, <1>4, <2>1, TrackKnown
<1>6. RecordsKnow'
  <2> SUFFICES ASSUME NEW m \in Nodes
               PROVE  Known(nodes'[m], m, first'[m], high'[m], Heard(m)')
    BY DEF RecordsKnow
  <2>1. CASE m = n
    BY <1>2, <1>3, <1>5, <2>1
  <2>2. CASE m # n
    <3>1. nodes'[m] = nodes[m] /\ first'[m] = first[m] /\ high'[m] = high[m]
      BY <1>2, <1>3, <2>2
    <3>2. Heard(m)' = Heard(m)
      BY <1>2, <2>2
    <3> QED
      BY <3>1, <3>2 DEF IInv, RecordsKnow
  <2> QED
    BY <2>1, <2>2
<1>7. CollectorTypeOK'
  <2>1. nodes' \in [Nodes -> NodeStats]
    BY <1>2, <1>3, <1>5
  <2>2. totals' \in [packets : Nat, samples : Nat]
    <3>1. totals.packets + 1 \in Nat /\ totals.samples + p.samples \in Nat
      BY <1>2, <1>3 DEF Packet
    <3> QED
      BY <1>2, <3>1
  <2>3. consumed' \in [1 .. SinkCount -> Nat]
    BY <1>2, <1>3
  <2> QED
    BY <2>1, <2>2, <2>3 DEF CollectorTypeOK
<1>8. /\ first' \in [Nodes -> Index \union {Never}]
      /\ high' \in [Nodes -> Index \union {Never}]
      /\ raised' \in [1 .. SinkCount -> Nat]
  BY <1>2, <1>3
<1>9. TypeOK'
  BY <1>2, <1>7, <1>8 DEF IInv, TypeOK, LinkInv
<1> QED
  BY <1>2, <1>6, <1>9 DEF IInv, LinkInv

\* The inductive invariant holds throughout.
THEOREM Inductive == Spec => []IInv
<1>1. IInv /\ [Next]_vars => IInv'
  <2> SUFFICES ASSUME IInv, [Next]_vars PROVE IInv'
    OBVIOUS
  <2>1. ASSUME NEW n \in Nodes, Emit(n) PROVE IInv'
    BY <2>1, EmitIInv
  <2>2. CASE Duplicate
    BY <2>2, DuplicateIInv
  <2>3. ASSUME NEW f \in Frame, NEW reached \in 0 .. SinkCount, Arrive(f, reached)
        PROVE  IInv'
    BY <2>3, ArriveIInv
  <2>4. CASE Tick
    BY <2>4, TickIInv
  <2>5. CASE UNCHANGED vars
    <3>1. UNCHANGED <<nodes, totals, consumed, emitted, sentAt, now, offered, lost, inflight,
                      taken, first, high, raised>>
      BY <2>5 DEF vars, collectorVars, nodeVars, linkVars, history
    <3>2. TypeOK' /\ CopiesBounded'
      BY <3>1 DEF IInv, TypeOK, CollectorTypeOK, Link!TypeOK, Link!CopyCount, CopiesBounded
    <3>3. RecordsKnow'
      BY <3>1, UnheardStep DEF IInv
    <3> QED
      BY <3>2, <3>3 DEF IInv
  <2> QED
    BY <2>1, <2>2, <2>3, <2>4, <2>5 DEF Next
<1> QED
  BY InitIInv, <1>1, PTL DEF Spec

\* Type correctness, for all nodes, windows and bounds: in particular `lost` never goes
\* below zero and the window holds sequence numbers only, whatever arrives.
THEOREM TypeCorrect == Spec => []TypeOK
<1>1. IInv => TypeOK
  BY DEF IInv
<1> QED
  BY <1>1, Inductive, PTL

\* In any session below half the ring, whatever the modulus, the window and the order of
\* arrival, the high-water mark of a node's record is the newest frame really heard and
\* first_seq the one heard first (collector.py:118-136).
THEOREM HighWater == Spec => []HighWaterExact
<1>1. IInv => HighWaterExact
  BY DEF IInv, RecordsKnow, Known, HighWaterExact
<1> QED
  BY <1>1, Inductive, PTL

\* In any such session, `lost` counts no more frames than are really missing between the
\* first and the newest one heard: no reordering, repetition or eviction from the window
\* makes the collector invent a loss (collector.py:124-140).
THEOREM NoPhantomLoss == Spec => []LossNeverOverstated
<1>1. IInv => LossNeverOverstated
  <2> SUFFICES ASSUME IInv, NEW n \in Nodes
               PROVE  nodes[n].lost <= Cardinality(Gaps(n))
    BY DEF LossNeverOverstated
  <2>1. /\ Known(nodes[n], n, first[n], high[n], Heard(n))
        /\ high[n] \in Index \union {Never}
    BY DEF IInv, RecordsKnow, TypeOK
  <2>2. \A k \in Index : taken[<<n, k>>] = 0 <=> ~(taken[<<n, k>>] > 0)
    <3>1. \A k \in Index : taken[<<n, k>>] \in 0 .. 2
      BY DEF IInv, TypeOK, Link!TypeOK, Link!CopyCount, Frame
    <3> QED
      BY <3>1
  <2>3. Gaps(n) = GapsOf(first[n], high[n], Heard(n))
    BY <2>2 DEF Gaps, GapsOf, Heard
  <2>4. CASE high[n] = Never
    <3>1. Gaps(n) \in SUBSET Index
      BY DEF Gaps
    <3>2. Cardinality(Gaps(n)) \in Nat
      BY <3>1, GapsFinite
    <3> QED
      BY <2>1, <2>4, <3>2 DEF Known
  <2>5. CASE high[n] # Never
    BY <2>1, <2>3, <2>5 DEF Known
  <2> QED
    BY <2>4, <2>5
<1> QED
  BY <1>1, Inductive, PTL

-----------------------------------------------------------------------------
(* _track: what the packet counters and the window of numbers become. *)

\* A window that is not full grows by the number remembered.
LEMMA RememberGrows ==
    ASSUME NEW q \in Seq(Seqs), NEW s \in Seqs, Len(q) < SeenWindow
    PROVE  /\ Len(Remember(q, s)) = Len(q) + 1
           /\ Elements(q) \union {s} \subseteq Elements(Remember(q, s))
<1>1. Len(q) \in Nat /\ ~(Len(q) >= SeenWindow)
  BY LenProperties, SeenWindowAssumption
<1>2. Remember(q, s) = Append(q, s)
  BY <1>1 DEF Remember
<1>3. /\ Len(Append(q, s)) = Len(q) + 1
      /\ \A i \in 1 .. Len(q) : Append(q, s)[i] = q[i]
      /\ Append(q, s)[Len(q) + 1] = s
  BY AppendProperties
<1>4. \A i \in 1 .. Len(q) : q[i] \in Elements(Append(q, s))
  <2> SUFFICES ASSUME NEW i \in 1 .. Len(q) PROVE q[i] \in Elements(Append(q, s))
    OBVIOUS
  <2>1. i \in 1 .. Len(Append(q, s))
    BY <1>1, <1>3
  <2> QED
    BY <1>3, <2>1 DEF Elements
<1>5. s \in Elements(Append(q, s))
  <2>1. Len(q) + 1 \in 1 .. Len(Append(q, s))
    BY <1>1, <1>3
  <2> QED
    BY <1>3, <2>1 DEF Elements
<1>6. Elements(q) \subseteq Elements(Append(q, s))
  BY <1>4 DEF Elements
<1>7. Len(Append(q, s)) = Len(q) + 1
  BY <1>3
<1> QED
  BY <1>2, <1>5, <1>6, <1>7

Repeats(ns, p) == ~IsFirst(ns) /\ IsDuplicate(ns, p)

\* The paths of _track agree on these fields: only a repetition counts as a duplicate, and
\* everything else is remembered.
LEMMA TrackCounts ==
    ASSUME NEW ns \in NodeStats, NEW p \in Packet, NEW t \in Nat
    PROVE  LET r == Track(ns, p, t)
           IN  /\ r.packets = ns.packets + 1 /\ r.last_seen = t
               /\ r.duplicated = IF Repeats(ns, p) THEN ns.duplicated + 1 ELSE ns.duplicated
               /\ r.seen_q = IF Repeats(ns, p) THEN ns.seen_q ELSE Remember(ns.seen_q, p.seq)
<1> DEFINE h == Hear(ns, p, t)
           w == Remember(ns.seen_q, p.seq)
           r == Track(ns, p, t)
<1>1. h \in NodeStats
  BY HearEffect
<1>2. /\ h.packets = ns.packets + 1 /\ h.last_seen = t
      /\ h.duplicated = ns.duplicated /\ h.seen_q = ns.seen_q
  BY DEF Hear, NodeStats
<1>3. r = IF IsFirst(ns) THEN TrackFirst(h, p)
          ELSE IF IsDuplicate(ns, p) THEN TrackDuplicate(h)
          ELSE IF IsForward(ns, p) THEN TrackForward(h, p)
          ELSE TrackLate(h, p)
  BY DEF Track
<1> HIDE DEF h, r
<1>4. TrackDuplicate(h).packets = h.packets /\ TrackDuplicate(h).last_seen = h.last_seen
      /\ TrackDuplicate(h).duplicated = h.duplicated + 1 /\ TrackDuplicate(h).seen_q = h.seen_q
  BY <1>1 DEF TrackDuplicate, NodeStats
<1>5. TrackFirst(h, p).packets = h.packets /\ TrackFirst(h, p).last_seen = h.last_seen
      /\ TrackFirst(h, p).duplicated = h.duplicated /\ TrackFirst(h, p).seen_q = w
  BY <1>1, <1>2 DEF TrackFirst, NodeStats
<1>6. TrackForward(h, p).packets = h.packets /\ TrackForward(h, p).last_seen = h.last_seen
      /\ TrackForward(h, p).duplicated = h.duplicated /\ TrackForward(h, p).seen_q = w
  BY <1>1, <1>2 DEF TrackForward, NodeStats
<1>7. TrackLate(h, p).packets = h.packets /\ TrackLate(h, p).last_seen = h.last_seen
      /\ TrackLate(h, p).duplicated = h.duplicated /\ TrackLate(h, p).seen_q = w
  BY <1>1, <1>2 DEF TrackLate, NodeStats
<1> HIDE DEF w
<1>8. CASE Repeats(ns, p)
  BY <1>2, <1>3, <1>4, <1>8 DEF Repeats, r
<1>9. CASE ~Repeats(ns, p)
  <2>1. r = TrackFirst(h, p) \/ r = TrackForward(h, p) \/ r = TrackLate(h, p)
    BY <1>3, <1>9 DEF Repeats
  <2>2. r.packets = h.packets /\ r.last_seen = h.last_seen
        /\ r.duplicated = h.duplicated /\ r.seen_q = w
    BY <1>5, <1>6, <1>7, <2>1
  <2> QED
    BY <1>2, <1>9, <2>2 DEF r, w
<1> QED
  BY <1>8, <1>9

\* Only what is neither the first frame, a repetition nor a step forward counts as reordered.
LEMMA TrackReordered ==
    ASSUME NEW ns \in NodeStats, NEW p \in Packet, NEW t \in Nat
    PROVE  Track(ns, p, t).reordered =
              IF IsFirst(ns) \/ IsDuplicate(ns, p) \/ IsForward(ns, p) THEN ns.reordered
              ELSE ns.reordered + 1
<1> DEFINE h == Hear(ns, p, t)
           r == Track(ns, p, t)
<1>1. h \in NodeStats /\ h.reordered = ns.reordered
  BY HearEffect
<1>2. r = IF IsFirst(ns) THEN TrackFirst(h, p)
          ELSE IF IsDuplicate(ns, p) THEN TrackDuplicate(h)
          ELSE IF IsForward(ns, p) THEN TrackForward(h, p)
          ELSE TrackLate(h, p)
  BY DEF Track
<1> HIDE DEF h, r
<1>3. /\ TrackFirst(h, p).reordered = h.reordered
      /\ TrackDuplicate(h).reordered = h.reordered
      /\ TrackForward(h, p).reordered = h.reordered
      /\ TrackLate(h, p).reordered = h.reordered + 1
  BY <1>1 DEF TrackFirst, TrackDuplicate, TrackForward, TrackLate, NodeStats
<1>4. r.reordered = IF IsFirst(ns) \/ IsDuplicate(ns, p) \/ IsForward(ns, p) THEN ns.reordered
                    ELSE ns.reordered + 1
  BY <1>1, <1>2, <1>3
<1> QED
  BY <1>4 DEF r

-----------------------------------------------------------------------------
(* The sets the estimates are measured against. *)

EarlyOf(a, T) == {k \in T : k < a}
Excess(ns, T) == ns.packets - ns.duplicated - Cardinality(T)

\* One frame more, if it is new.
LEMMA OneMore ==
    ASSUME NEW T \in SUBSET Index, NEW i \in Index
    PROVE  /\ Cardinality(T \union {i}) = IF i \in T THEN Cardinality(T) ELSE Cardinality(T) + 1
           /\ Cardinality(T) \in Nat
<1>1. IsFiniteSet(T) /\ Cardinality(T) \in Nat
  BY GapsFinite
<1>2. Cardinality(T \union {i}) = IF i \in T THEN Cardinality(T) ELSE Cardinality(T) + 1
  BY <1>1, FS_AddElement
<1> QED
  BY <1>1, <1>2

\* A frame newer than every other opens no more gaps than it skips frames.
LEMMA GapsGrowAtMost ==
    ASSUME NEW T \in SUBSET Index, NEW a \in Index, NEW h \in Index, NEW i \in Index, h < i
    PROVE  Cardinality(GapsOf(a, i, T \union {i})) <= Cardinality(GapsOf(a, h, T)) + (i - h - 1)
<1> DEFINE old == GapsOf(a, h, T)
           new == GapsOf(a, i, T \union {i})
           skipped == h + 1 .. i - 1
<1>1. h \in Nat /\ i \in Nat
  BY DEF Index
<1>2. old \in SUBSET Index /\ new \in SUBSET Index
  BY DEF GapsOf
<1>3. IsFiniteSet(old) /\ IsFiniteSet(new) /\ Cardinality(old) \in Nat /\ Cardinality(new) \in Nat
  BY <1>2, GapsFinite
<1>4. IsFiniteSet(skipped) /\ Cardinality(skipped) = i - h - 1
  <2>1. h + 1 \in Int /\ i - 1 \in Int
    BY <1>1
  <2>2. /\ IsFiniteSet(skipped)
        /\ Cardinality(skipped) = IF h + 1 > i - 1 THEN 0 ELSE (i - 1) - (h + 1) + 1
    BY <2>1, FS_Interval
  <2> QED
    BY <1>1, <2>2
<1>5. new \subseteq old \union skipped
  <2> SUFFICES ASSUME NEW k \in new, k \notin old PROVE k \in skipped
    OBVIOUS
  <2>1. k \in Nat /\ a <= k /\ k <= i /\ k # i /\ k \notin T
    BY DEF GapsOf, Index
  <2>2. ~(k <= h)
    BY <2>1 DEF GapsOf
  <2> QED
    BY <1>1, <2>1, <2>2
<1> HIDE DEF old, new, skipped
<1>6. /\ IsFiniteSet(old \union skipped)
      /\ Cardinality(old \union skipped)
            = Cardinality(old) + Cardinality(skipped) - Cardinality(old \intersect skipped)
  BY <1>3, <1>4, FS_Union
<1>7. Cardinality(old \intersect skipped) \in Nat
  BY <1>3, FS_Intersection, FS_CardinalityType
<1>8. Cardinality(new) <= Cardinality(old \union skipped)
  BY <1>5, <1>6, FS_Subset
<1>9. Cardinality(old \union skipped) <= Cardinality(old) + (i - h - 1)
  BY <1>1, <1>3, <1>4, <1>6, <1>7
<1>10. Cardinality(new) <= Cardinality(old) + (i - h - 1)
  <2>1. Cardinality(old \union skipped) \in Nat
    BY <1>6, FS_CardinalityType
  <2> QED
    BY <1>1, <1>3, <1>8, <1>9, <2>1
<1> QED
  BY <1>10 DEF old, new

\* A new frame between the marks fills a gap; one before the first is one more early frame.
LEMMA GapFilled ==
    ASSUME NEW T \in SUBSET Index, NEW a \in Index, NEW h \in Index, NEW i \in Index,
           i \notin T, i <= h
    PROVE  Cardinality(GapsOf(a, h, T \union {i})) - Cardinality(EarlyOf(a, T \union {i}))
              = Cardinality(GapsOf(a, h, T)) - Cardinality(EarlyOf(a, T)) - 1
<1> DEFINE old == GapsOf(a, h, T)
           new == GapsOf(a, h, T \union {i})
           before == EarlyOf(a, T)
           after == EarlyOf(a, T \union {i})
<1>1. old \in SUBSET Index /\ before \in SUBSET Index
  BY DEF GapsOf, EarlyOf
<1>2. /\ IsFiniteSet(old) /\ IsFiniteSet(before)
      /\ Cardinality(old) \in Nat /\ Cardinality(before) \in Nat
  BY <1>1, GapsFinite
<1>3. a \in Nat /\ i \in Nat
  BY DEF Index
<1>4. CASE i < a
  <2>1. new = old
    BY <1>3, <1>4 DEF GapsOf
  <2>2. after = before \union {i} /\ i \notin before
    BY <1>4 DEF EarlyOf
  <2> HIDE DEF old, new, before, after
  <2>3. Cardinality(after) = Cardinality(before) + 1
    BY <1>2, <2>2, FS_AddElement
  <2> QED
    BY <1>2, <2>1, <2>3 DEF old, new, before, after
<1>5. CASE ~(i < a)
  <2>1. new = old \ {i} /\ i \in old
    BY <1>3, <1>5 DEF GapsOf
  <2>2. after = before
    BY <1>5 DEF EarlyOf
  <2> HIDE DEF old, new, before, after
  <2>3. Cardinality(new) = Cardinality(old) - 1
    BY <1>2, <2>1, FS_RemoveElement
  <2> QED
    BY <1>2, <2>2, <2>3 DEF old, new, before, after
<1> QED
  BY <1>4, <1>5

\* One frame more is at most one early frame more, and none unless it is older than the first.
LEMMA EarlyGrow ==
    ASSUME NEW T \in SUBSET Index, NEW a \in Index, NEW i \in Index
    PROVE  /\ Cardinality(EarlyOf(a, T)) \in Nat /\ Cardinality(EarlyOf(a, T \union {i})) \in Nat
           /\ Cardinality(EarlyOf(a, T \union {i})) <= Cardinality(EarlyOf(a, T)) + 1
           /\ a <= i => EarlyOf(a, T \union {i}) = EarlyOf(a, T)
<1>1. EarlyOf(a, T) \in SUBSET Index /\ EarlyOf(a, T \union {i}) \in SUBSET Index
  BY DEF EarlyOf
<1>2. a \in Nat /\ i \in Nat
  BY DEF Index
<1>3. EarlyOf(a, T \union {i}) = IF a <= i THEN EarlyOf(a, T) ELSE EarlyOf(a, T) \union {i}
  BY <1>2 DEF EarlyOf
<1>4. /\ Cardinality(EarlyOf(a, T)) \in Nat
      /\ Cardinality(EarlyOf(a, T) \union {i}) \in Nat
      /\ Cardinality(EarlyOf(a, T) \union {i}) <= Cardinality(EarlyOf(a, T)) + 1
  BY <1>1, OneMore, FS_CardinalityType
<1> QED
  BY <1>3, <1>4

-----------------------------------------------------------------------------
(***************************************************************************)
(* The inductive invariant of the estimates.  Copies that are neither new  *)
(* nor counted as duplicates are the excess; while the frames heard fit in *)
(* the window there is none, since the window holds exactly their numbers. *)
(* Each excess copy, and each frame older than the first, counts as        *)
(* reordered.                                                              *)
(***************************************************************************)
Estimated(ns, n, a, h, T) ==
    /\ Excess(ns, T) >= 0
    /\ Cardinality(EarlyOf(a, T)) + Excess(ns, T) <= ns.reordered
    /\ h # Never =>
          Cardinality(GapsOf(a, h, T)) <= ns.lost + Cardinality(EarlyOf(a, T)) + Excess(ns, T)
    /\ Cardinality(T) <= SeenWindow =>
          /\ Excess(ns, T) = 0
          /\ Len(ns.seen_q) = Cardinality(T)
          /\ {SeqOf(n, k) : k \in T} \subseteq Elements(ns.seen_q)

\* Whatever frame comes next, tracking it keeps the estimates that good.
LEMMA TrackEstimated ==
    ASSUME NEW n \in Nodes, NEW ns \in NodeStats, NEW p \in Packet, NEW t \in Nat,
           NEW T \in SUBSET Index, NEW a \in Index \union {Never},
           NEW h \in Index \union {Never}, NEW i \in Index,
           p.seq = SeqOf(n, i), Known(ns, n, a, h, T), Estimated(ns, n, a, h, T)
    PROVE  Estimated(Track(ns, p, t), n, IF a = Never THEN i ELSE a,
                     IF i > h THEN i ELSE h, T \union {i})
<1> DEFINE r == Track(ns, p, t)
           U == T \union {i}
           a2 == IF a = Never THEN i ELSE a
           h2 == IF i > h THEN i ELSE h
<1>1. Index \subseteq Nat /\ Never \notin Nat /\ Never < 0
  BY DEF Index, Never
<1>2. /\ ns.lost \in Nat /\ ns.packets \in Nat /\ ns.duplicated \in Nat
      /\ ns.seen_q \in Seq(Seqs) /\ p.seq \in Seqs
  BY DEF NodeStats, Packet
<1>3. SeqOf(n, i) \in Seqs /\ Seqs \subseteq Nat
  BY SeqOfDelta, HalfOfMod DEF Seqs
<1>4. h # Never => /\ SeqDelta(p.seq, ns.last_seq) = i - h
                   /\ SeqDelta(p.seq, ns.last_seq) \in Int
                   /\ ns.last_seq \in Nat
  <2> SUFFICES ASSUME h # Never
               PROVE  /\ SeqDelta(p.seq, ns.last_seq) = i - h
                      /\ SeqDelta(p.seq, ns.last_seq) \in Int
                      /\ ns.last_seq \in Nat
    OBVIOUS
  <2>1. h \in Index /\ ns.last_seq = SeqOf(n, h)
    BY DEF Known
  <2>2. SeqDelta(p.seq, ns.last_seq) = i - h
    BY <2>1, SeqOfDelta
  <2>3. i - h \in Int
    BY <1>1, <2>1
  <2> QED
    BY <1>3, <2>1, <2>2, <2>3, SeqOfDelta
<1>5. IsFirst(ns) <=> h = Never
  BY <1>1, <1>4 DEF IsFirst, Known
<1>6. /\ IsFirst(ns) => r.lost = ns.lost
      /\ ~IsFirst(ns) /\ IsDuplicate(ns, p) => r.lost = ns.lost
      /\ ~IsFirst(ns) /\ ~IsDuplicate(ns, p) /\ IsForward(ns, p) =>
            r.lost = ns.lost + SeqDelta(p.seq, ns.last_seq) - 1
      /\ ~IsFirst(ns) /\ ~IsDuplicate(ns, p) /\ ~IsForward(ns, p) =>
            r.lost = IF ns.lost > 0 THEN ns.lost - 1 ELSE ns.lost
  BY <1>4, <1>5, TrackEffect
<1>7. /\ r.packets = ns.packets + 1
      /\ r.duplicated = IF Repeats(ns, p) THEN ns.duplicated + 1 ELSE ns.duplicated
      /\ r.seen_q = IF Repeats(ns, p) THEN ns.seen_q ELSE Remember(ns.seen_q, p.seq)
  BY TrackCounts
<1> HIDE DEF r
<1>8. /\ Cardinality(U) = IF i \in T THEN Cardinality(T) ELSE Cardinality(T) + 1
      /\ Cardinality(T) \in Nat
  BY OneMore
<1>9. Repeats(ns, p) => i \in T
  <2> SUFFICES ASSUME Repeats(ns, p) PROVE i \in T
    OBVIOUS
  <2>1. PICK k \in T : SeqOf(n, i) = SeqOf(n, k)
    BY DEF Repeats, IsDuplicate, Known, Seen, Elements
  <2>2. k = i
    BY <2>1, SeqOfDelta
  <2> QED
    BY <2>2
<1>10. Excess(ns, T) >= 0 /\ Excess(ns, T) \in Int
  BY <1>2, <1>8 DEF Estimated, Excess
<1>11. Excess(r, U) = Excess(ns, T)
                      + (IF i \in T /\ ~Repeats(ns, p) THEN 1 ELSE 0)
  <2>1. Excess(r, U) = r.packets - r.duplicated - Cardinality(U)
    BY DEF Excess
  <2>2. Excess(ns, T) = ns.packets - ns.duplicated - Cardinality(T)
    BY DEF Excess
  <2>3. ns.packets \in Nat /\ ns.duplicated \in Nat /\ Cardinality(T) \in Nat
    BY <1>2, <1>8
  <2>4. r.packets = ns.packets + 1
    BY <1>7
  <2> HIDE DEF U
  <2>5. CASE Repeats(ns, p)
    <3>1. i \in T /\ r.duplicated = ns.duplicated + 1 /\ Cardinality(U) = Cardinality(T)
      BY <1>7, <1>8, <1>9, <2>5
    <3>2. Excess(r, U) = Excess(ns, T)
      BY <2>1, <2>2, <2>3, <2>4, <3>1
    <3>3. Excess(ns, T) = Excess(ns, T) + 0
      BY <1>10
    <3> QED
      BY <2>5, <3>2, <3>3
  <2>6. CASE ~Repeats(ns, p)
    <3>1. r.duplicated = ns.duplicated
      BY <1>7, <2>6
    <3>2. CASE i \in T
      <4>1. Cardinality(U) = Cardinality(T)
        BY <1>8, <3>2
      <4>2. Excess(r, U) = Excess(ns, T) + 1
        BY <2>1, <2>2, <2>3, <2>4, <3>1, <4>1
      <4> QED
        BY <2>6, <3>2, <4>2
    <3>3. CASE i \notin T
      <4>1. Cardinality(U) = Cardinality(T) + 1
        BY <1>8, <3>3
      <4>2. Excess(r, U) = Excess(ns, T)
        BY <2>1, <2>2, <2>3, <2>4, <3>1, <4>1
      <4>3. Excess(ns, T) = Excess(ns, T) + 0
        BY <1>10
      <4> QED
        BY <3>3, <4>2, <4>3
    <3> QED
      BY <3>2, <3>3
  <2> QED
    BY <2>5, <2>6
<1>12. Cardinality(U) <= SeenWindow =>
         /\ Excess(r, U) = 0 /\ Len(r.seen_q) = Cardinality(U)
         /\ {SeqOf(n, k) : k \in U} \subseteq Elements(r.seen_q)
  <2> SUFFICES ASSUME Cardinality(U) <= SeenWindow
               PROVE  /\ Excess(r, U) = 0 /\ Len(r.seen_q) = Cardinality(U)
                      /\ {SeqOf(n, k) : k \in U} \subseteq Elements(r.seen_q)
    OBVIOUS
  <2>1. Cardinality(T) <= SeenWindow
    BY <1>8, SeenWindowAssumption
  <2>2. /\ Excess(ns, T) = 0 /\ Len(ns.seen_q) = Cardinality(T)
        /\ {SeqOf(n, k) : k \in T} \subseteq Elements(ns.seen_q)
    BY <2>1 DEF Estimated
  <2>3. CASE i \in T
    <3>1. ~IsFirst(ns)
      BY <1>5, <2>3 DEF Known
    <3>2. IsDuplicate(ns, p)
      BY <2>2, <2>3 DEF IsDuplicate, Seen, Elements
    <3>3. Repeats(ns, p) /\ U = T
      BY <2>3, <3>1, <3>2 DEF Repeats
    <3>4. r.seen_q = ns.seen_q
      BY <1>7, <3>3
    <3>5. Excess(r, U) = 0
      BY <1>10, <1>11, <2>2, <3>3
    <3> HIDE DEF U
    <3> QED
      BY <2>2, <3>3, <3>4, <3>5
  <2>4. CASE i \notin T
    <3>1. ~Repeats(ns, p)
      BY <1>9, <2>4
    <3>2. Len(ns.seen_q) < SeenWindow
      BY <1>8, <2>2, <2>4, SeenWindowAssumption
    <3>3. /\ Len(r.seen_q) = Len(ns.seen_q) + 1
          /\ Elements(ns.seen_q) \union {p.seq} \subseteq Elements(r.seen_q)
      BY <1>2, <1>7, <3>1, <3>2, RememberGrows
    <3>4. {SeqOf(n, k) : k \in U} \subseteq Elements(r.seen_q)
      BY <2>2, <3>3
    <3>5. Excess(r, U) = 0
      BY <1>11, <2>2, <2>4
    <3> QED
      BY <1>8, <2>2, <2>4, <3>3, <3>4, <3>5
  <2> QED
    BY <2>3, <2>4
<1>13. Cardinality(GapsOf(a2, h2, U)) <= r.lost + Cardinality(EarlyOf(a2, U)) + Excess(r, U)
  <2>1. CASE h = Never
    <3>1. a = Never /\ T = {} /\ ns.lost = 0
      BY <2>1 DEF Known
    <3>2. a2 = i /\ h2 = i /\ U = {i}
      BY <1>1, <2>1, <3>1
    <3>3. GapsOf(a2, h2, U) = {}
      <4>1. \A k \in Index : i <= k /\ k <= i => k = i
        BY <1>1
      <4>2. GapsOf(i, i, {i}) = {}
        BY <4>1 DEF GapsOf
      <4> HIDE DEF U, a2, h2
      <4> QED
        BY <3>2, <4>2
    <3>4. EarlyOf(a2, U) \in SUBSET Index
      BY DEF EarlyOf
    <3>5. Cardinality(GapsOf(a2, h2, U)) = 0 /\ Cardinality(EarlyOf(a2, U)) \in Nat
      BY <3>3, <3>4, FS_EmptySet, GapsFinite
    <3>6. r.lost = 0
      BY <1>5, <1>6, <2>1, <3>1
    <3> QED
      BY <1>10, <1>11, <3>5, <3>6
  <2>2. CASE h # Never
    <3>1. a \in Index /\ h \in Index /\ a2 = a /\ \A k \in T : k <= h
      BY <1>1, <2>2 DEF Known
    <3>2. ~IsFirst(ns) /\ SeqDelta(p.seq, ns.last_seq) = i - h
      BY <1>4, <1>5, <2>2
    <3>3. Cardinality(GapsOf(a, h, T))
             <= ns.lost + Cardinality(EarlyOf(a, T)) + Excess(ns, T)
      BY <2>2 DEF Estimated
    <3>4. /\ GapsOf(a, h, T) \in SUBSET Index /\ EarlyOf(a, T) \in SUBSET Index
          /\ GapsOf(a2, h2, U) \in SUBSET Index /\ EarlyOf(a, U) \in SUBSET Index
      BY DEF GapsOf, EarlyOf
    <3>5. /\ Cardinality(GapsOf(a, h, T)) \in Nat /\ Cardinality(EarlyOf(a, T)) \in Nat
          /\ Cardinality(GapsOf(a2, h2, U)) \in Nat /\ Cardinality(EarlyOf(a, U)) \in Nat
      BY <3>4, GapsFinite
    <3>6. a \in Nat /\ h \in Nat /\ i \in Nat
      BY <1>1, <3>1
    <3>7. CASE i \in T
      <4>1. U = T /\ h2 = h
        BY <3>1, <3>6, <3>7
      <4>2. ~(i > h)
        BY <3>1, <3>6, <3>7
      <4>3. ~IsForward(ns, p)
        BY <3>2, <3>6, <4>2 DEF IsForward
      <4>4. CASE Repeats(ns, p)
        <5>1. r.lost = ns.lost /\ Excess(r, U) = Excess(ns, T)
          BY <1>6, <1>10, <1>11, <4>4 DEF Repeats
        <5> QED
          BY <3>1, <3>3, <4>1, <5>1
      <4>5. CASE ~Repeats(ns, p)
        <5>1. r.lost \in Nat /\ ns.lost <= r.lost + 1
          <6>1. r.lost = IF ns.lost > 0 THEN ns.lost - 1 ELSE ns.lost
            BY <1>6, <3>2, <4>3, <4>5 DEF Repeats
          <6> QED
            BY <1>2, <6>1
        <5>2. Excess(r, U) = Excess(ns, T) + 1
          BY <1>11, <3>7, <4>5
        <5>3. /\ GapsOf(a2, h2, U) = GapsOf(a, h, T) /\ EarlyOf(a2, U) = EarlyOf(a, T)
          BY <3>1, <4>1
        <5> HIDE DEF U, a2, h2
        <5> QED
          BY <1>2, <1>10, <3>3, <3>5, <5>1, <5>2, <5>3
      <4> QED
        BY <4>4, <4>5
    <3>8. CASE i \notin T
      <4>1. ~IsDuplicate(ns, p) /\ Excess(r, U) = Excess(ns, T)
        BY <1>9, <1>10, <1>11, <3>2, <3>8 DEF Repeats
      <4>2. CASE i > h
        <5>1. h2 = i /\ IsForward(ns, p)
          BY <3>2, <3>6, <4>2 DEF IsForward
        <5>2. r.lost = ns.lost + (i - h) - 1
          BY <1>6, <3>2, <4>1, <5>1
        <5>3. Cardinality(GapsOf(a, i, U)) <= Cardinality(GapsOf(a, h, T)) + (i - h - 1)
          <6>1. h < i
            BY <3>6, <4>2
          <6> QED
            BY <3>1, <6>1, GapsGrowAtMost
        <5>4. Cardinality(EarlyOf(a, T)) <= Cardinality(EarlyOf(a, U))
          <6>1. EarlyOf(a, T) \subseteq EarlyOf(a, U) /\ IsFiniteSet(EarlyOf(a, U))
            BY <3>4, GapsFinite DEF EarlyOf
          <6> QED
            BY <6>1, FS_Subset
        <5>5. GapsOf(a2, h2, U) = GapsOf(a, i, U) /\ EarlyOf(a2, U) = EarlyOf(a, U)
          BY <3>1, <5>1
        <5> HIDE DEF U, a2, h2
        <5> QED
          BY SMTT(30), <1>2, <1>10, <3>3, <3>5, <3>6, <4>1, <5>2, <5>3, <5>4, <5>5
      <4>3. CASE ~(i > h)
        <5>1. h2 = h /\ ~IsForward(ns, p) /\ i <= h
          BY <3>2, <3>6, <4>3 DEF IsForward
        <5>2. r.lost \in Nat /\ ns.lost <= r.lost + 1
          <6>1. r.lost = IF ns.lost > 0 THEN ns.lost - 1 ELSE ns.lost
            BY <1>6, <3>2, <4>1, <5>1
          <6> QED
            BY <1>2, <6>1
        <5>3. Cardinality(GapsOf(a, h, U)) - Cardinality(EarlyOf(a, U))
                = Cardinality(GapsOf(a, h, T)) - Cardinality(EarlyOf(a, T)) - 1
          BY <3>1, <3>8, <5>1, GapFilled
        <5>4. GapsOf(a2, h2, U) = GapsOf(a, h, U) /\ EarlyOf(a2, U) = EarlyOf(a, U)
          BY <3>1, <5>1
        <5> HIDE DEF U, a2, h2
        <5> QED
          BY SMTT(30), <1>2, <1>10, <3>3, <3>5, <4>1, <5>2, <5>3, <5>4
      <4> QED
        BY <4>2, <4>3
    <3> QED
      BY <3>7, <3>8
  <2> QED
    BY <2>1, <2>2
<1>14. Cardinality(EarlyOf(a2, U)) + Excess(r, U) <= r.reordered
  <2>1. /\ Cardinality(EarlyOf(a, T)) + Excess(ns, T) <= ns.reordered
        /\ r.reordered = IF IsFirst(ns) \/ IsDuplicate(ns, p) \/ IsForward(ns, p)
                         THEN ns.reordered ELSE ns.reordered + 1
        /\ ns.reordered \in Nat
    BY TrackReordered DEF Estimated, NodeStats, r
  <2>2. CASE h = Never
    <3>1. a = Never /\ T = {} /\ a2 = i /\ U = {i}
      BY <2>2 DEF Known
    <3>2. EarlyOf(i, {i}) = {} /\ EarlyOf(Never, {}) = {}
      <4>1. i \in Nat
        BY <1>1
      <4> QED
        BY <4>1 DEF EarlyOf
    <3>3. Excess(r, U) = Excess(ns, T)
      BY <1>10, <1>11, <3>1
    <3>4. r.reordered = ns.reordered
      BY <1>5, <2>1, <2>2
    <3>5. EarlyOf(a2, U) = EarlyOf(a, T)
      BY <3>1, <3>2
    <3> HIDE DEF U, a2
    <3> QED
      BY <2>1, <3>3, <3>4, <3>5
  <2>3. CASE h # Never
    <3>1. a \in Index /\ h \in Index /\ a <= h /\ a2 = a /\ \A k \in T : k <= h
      BY <1>1, <2>3 DEF Known
    <3>2. ~IsFirst(ns) /\ SeqDelta(p.seq, ns.last_seq) = i - h
      BY <1>4, <1>5, <2>3
    <3>3. a \in Nat /\ h \in Nat /\ i \in Nat
      BY <1>1, <3>1
    <3>4. IsForward(ns, p) <=> i > h
      BY <3>2, <3>3 DEF IsForward
    <3>5. /\ Cardinality(EarlyOf(a, T)) \in Nat /\ Cardinality(EarlyOf(a, U)) \in Nat
          /\ Cardinality(EarlyOf(a, U)) <= Cardinality(EarlyOf(a, T)) + 1
          /\ a <= i => EarlyOf(a, U) = EarlyOf(a, T)
      BY <3>1, EarlyGrow
    <3>6. EarlyOf(a2, U) = EarlyOf(a, U)
      BY <3>1
    <3>7. i \in T => EarlyOf(a, U) = EarlyOf(a, T)
      <4>1. i \in T => U = T
        OBVIOUS
      <4> QED
        BY <4>1
    <3> HIDE DEF U, a2
    <3>8. CASE Repeats(ns, p)
      <4>1. r.reordered = ns.reordered /\ Excess(r, U) = Excess(ns, T)
        BY <1>10, <1>11, <2>1, <3>8 DEF Repeats
      <4> QED
        BY <1>9, <2>1, <3>6, <3>7, <3>8, <4>1
    <3>9. CASE ~Repeats(ns, p) /\ i \in T
      <4>1. Excess(r, U) = Excess(ns, T) + 1
        BY <1>11, <3>9
      <4>2. r.reordered = ns.reordered + 1
        BY <2>1, <3>1, <3>2, <3>3, <3>4, <3>9 DEF Repeats
      <4>3. EarlyOf(a2, U) = EarlyOf(a, T)
        BY <3>6, <3>7, <3>9
      <4> QED
        BY <1>10, <2>1, <3>5, <4>1, <4>2, <4>3
    <3>10. CASE ~Repeats(ns, p) /\ i \notin T
      <4>1. Excess(r, U) = Excess(ns, T)
        BY <1>10, <1>11, <3>10
      <4>2. CASE i > h
        <5>1. a <= i
          BY <3>1, <3>3, <4>2
        <5>2. r.reordered = ns.reordered
          BY <2>1, <3>4, <4>2
        <5>3. EarlyOf(a2, U) = EarlyOf(a, T)
          BY <3>5, <3>6, <5>1
        <5> QED
          BY <2>1, <4>1, <5>2, <5>3
      <4>3. CASE ~(i > h)
        <5>1. r.reordered = ns.reordered + 1
          BY <2>1, <3>2, <3>4, <3>10, <4>3 DEF Repeats
        <5> QED
          BY <1>10, <2>1, <3>5, <3>6, <4>1, <5>1
      <4> QED
        BY <4>2, <4>3
    <3> QED
      BY <3>8, <3>9, <3>10
  <2> QED
    BY <2>2, <2>3
<1> QED
  BY <1>10, <1>11, <1>12, <1>13, <1>14 DEF Estimated, r

-----------------------------------------------------------------------------
(***************************************************************************)
(* The inductive invariant of the alarm: a frame is in the link only after *)
(* its node has emitted it, and of a node once heard the record was last   *)
(* refreshed no earlier than any frame heard of it was sent, and no later  *)
(* than the link's latency after some frame of it was sent.                *)
(***************************************************************************)
SentFirst ==
    /\ \A f \in Frame : sentAt[f] <= now
    /\ \A n \in Nodes, k \in Index : <<n, k>> \in offered => k < emitted[n]

Timely(n) ==
    /\ \A k \in Heard(n) : sentAt[<<n, k>>] <= nodes[n].last_seen
    /\ Heard(n) # {} =>
          \E k \in 0 .. emitted[n] - 1 : nodes[n].last_seen <= sentAt[<<n, k>>] + MaxLatency
    /\ Heard(n) = {} => nodes[n].last_seen = Never

EstInv ==
    /\ \A n \in Nodes : Estimated(nodes[n], n, first[n], high[n], Heard(n))
    /\ SentFirst
    /\ \A n \in Nodes : Timely(n)

\* A new station has heard nothing.
LEMMA InitEstInv == Init => EstInv
<1> SUFFICES ASSUME Init PROVE EstInv
  OBVIOUS
<1>1. \A n \in Nodes : Heard(n) = {}
  BY DEF Init, Link!Init, Heard, Frame
<1>2. \A n \in Nodes : Estimated(nodes[n], n, first[n], high[n], Heard(n))
  <2> SUFFICES ASSUME NEW n \in Nodes
               PROVE  Estimated(nodes[n], n, first[n], high[n], {})
    BY <1>1
  <2>1. high[n] = Never /\ nodes[n] = Unheard
    BY DEF Init, CollectorInit
  <2>2. /\ Unheard.packets = 0 /\ Unheard.duplicated = 0 /\ Unheard.seen_q = <<>>
        /\ Unheard.reordered = 0
    BY DEF Unheard
  <2>3. Cardinality({}) = 0 /\ EarlyOf(first[n], {}) = {}
    BY FS_EmptySet DEF EarlyOf
  <2>4. Excess(Unheard, {}) = 0
    BY <2>2, <2>3 DEF Excess
  <2>5. Len(<<>>) = 0
    OBVIOUS
  <2>6. Cardinality(EarlyOf(first[n], {})) + Excess(Unheard, {}) <= Unheard.reordered
    <3>1. Cardinality(EarlyOf(first[n], {})) = 0
      BY <2>3
    <3>2. \A x, y, z : x = 0 /\ y = 0 /\ z = 0 => x + y <= z
      OBVIOUS
    <3> QED
      BY <2>2, <2>4, <3>1, <3>2
  <2>7. Cardinality({}) <= SeenWindow =>
           /\ Excess(Unheard, {}) = 0 /\ Len(Unheard.seen_q) = Cardinality({})
           /\ {SeqOf(n, k) : k \in {}} \subseteq Elements(Unheard.seen_q)
    BY <2>2, <2>3, <2>4, <2>5
  <2> QED
    BY <2>1, <2>4, <2>6, <2>7 DEF Estimated
<1>3. SentFirst
  BY DEF Init, Link!Init, SentFirst
<1>4. \A n \in Nodes : nodes[n].last_seen = Never
  BY DEF Init, CollectorInit, Unheard
<1> QED
  BY <1>1, <1>2, <1>3, <1>4 DEF EstInv, Timely

\* The types of what the alarm's invariant compares.
LEMMA TimeTypes ==
    ASSUME IInv
    PROVE  /\ now \in Nat /\ \A f \in Frame : sentAt[f] \in Nat
           /\ \A n \in Nodes : /\ emitted[n] \in 0 .. MaxEmit /\ nodes[n] \in NodeStats
                               /\ nodes[n].last_seen \in Nat \union {Never}
           /\ \A n \in Nodes, k \in Index : <<n, k>> \in Frame
           /\ \A n \in Nodes : Heard(n) \in SUBSET Index
           /\ \A n \in Nodes : \A k \in Heard(n) : <<n, k>> \in offered
<1>1. nodes \in [Nodes -> NodeStats]
  BY DEF IInv, TypeOK, CollectorTypeOK
<1>2. \A n \in Nodes : \A k \in Heard(n) : <<n, k>> \in offered
  <2>1. \A f \in Frame : f \notin offered => taken[f] = 0
    BY DEF IInv, CopiesBounded
  <2> QED
    BY <2>1 DEF Heard, Frame
<1>3. \A n \in Nodes : nodes[n] \in NodeStats /\ nodes[n].last_seen \in Nat \union {Never}
  BY <1>1 DEF NodeStats
<1> QED
  BY <1>2, <1>3, StationBounds DEF IInv, TypeOK, Frame, Heard

\* While the collector hears nothing, its estimates stay as good as they are.
LEMMA UnheardEstimates ==
    ASSUME EstInv, UNCHANGED <<nodes, taken, first, high>>
    PROVE  /\ \A n \in Nodes : Heard(n)' = Heard(n)
           /\ \A n \in Nodes : Estimated(nodes'[n], n, first'[n], high'[n], Heard(n)')
<1>1. \A n \in Nodes : Heard(n)' = Heard(n)
  BY DEF Heard
<1> QED
  BY <1>1 DEF EstInv

\* A node emits a frame: it was sent now, and no frame heard is sent again.
LEMMA EmitEstInv == ASSUME IInv, EstInv, NEW n \in Nodes, Emit(n) PROVE EstInv'
<1> DEFINE f == <<n, emitted[n]>>
<1>1. /\ emitted[n] < MaxEmit /\ emitted' = [emitted EXCEPT ![n] = emitted[n] + 1]
      /\ sentAt' = [sentAt EXCEPT ![f] = now]
      /\ UNCHANGED <<nodes, first, high, now, taken>>
      /\ offered' = offered \union {f} /\ f \notin offered
  BY DEF Emit, collectorVars, history, Link!Lose, Link!Accept
<1>2. /\ now \in Nat /\ \A g \in Frame : sentAt[g] \in Nat
      /\ \A m \in Nodes : emitted[m] \in 0 .. MaxEmit
      /\ \A m \in Nodes, k \in Index : <<m, k>> \in Frame
      /\ \A m \in Nodes : Heard(m) \in SUBSET Index
      /\ \A m \in Nodes : \A k \in Heard(m) : <<m, k>> \in offered
  BY TimeTypes
<1>3. emitted[n] \in Index /\ f \in Frame /\ MaxEmit \in Nat
  BY <1>1, <1>2, StationBounds DEF Index, Frame
<1>4. /\ emitted \in [Nodes -> 0 .. MaxEmit] /\ sentAt \in [Frame -> 0 .. MaxTime]
  BY DEF IInv, TypeOK
<1>5. \A g \in Frame : sentAt'[g] = IF g = f THEN now ELSE sentAt[g]
  BY <1>1, <1>4
<1>6. \A m \in Nodes : emitted'[m] = IF m = n THEN emitted[n] + 1 ELSE emitted[m]
  BY <1>1, <1>4
<1>7. /\ \A m \in Nodes : Heard(m)' = Heard(m)
      /\ \A m \in Nodes : Estimated(nodes'[m], m, first'[m], high'[m], Heard(m)')
  BY <1>1, UnheardEstimates
<1>8. SentFirst'
  <2>1. \A g \in Frame : sentAt'[g] <= now'
    BY <1>1, <1>2, <1>5 DEF EstInv, SentFirst
  <2>2. ASSUME NEW m \in Nodes, NEW k \in Index, <<m, k>> \in offered' PROVE k < emitted'[m]
    <3>1. CASE <<m, k>> = f
      BY <1>2, <1>3, <1>6, <3>1
    <3>2. CASE <<m, k>> # f
      <4>1. k < emitted[m]
        BY <1>1, <2>2, <3>2 DEF EstInv, SentFirst
      <4>2. k \in Nat /\ emitted[m] \in Nat
        BY <1>2 DEF Index
      <4> QED
        BY <1>6, <4>1, <4>2
    <3> QED
      BY <3>1, <3>2
  <2> QED
    BY <2>1, <2>2 DEF SentFirst
<1>9. ASSUME NEW m \in Nodes PROVE Timely(m)'
  <2>1. Timely(m)
    BY DEF EstInv
  <2>2. \A k \in Heard(m) : sentAt'[<<m, k>>] = sentAt[<<m, k>>]
    <3>1. \A k \in Heard(m) : <<m, k>> \in Frame /\ <<m, k>> # f
      BY <1>1, <1>2
    <3> QED
      BY <1>5, <3>1
  <2>3. \A k \in 0 .. emitted[m] - 1 : /\ k \in 0 .. emitted'[m] - 1
                                       /\ sentAt'[<<m, k>>] = sentAt[<<m, k>>]
    <3> SUFFICES ASSUME NEW k \in 0 .. emitted[m] - 1
                 PROVE  /\ k \in 0 .. emitted'[m] - 1
                        /\ sentAt'[<<m, k>>] = sentAt[<<m, k>>]
      OBVIOUS
    <3>1. emitted[m] \in Nat /\ emitted[m] <= MaxEmit /\ k \in Nat /\ k < emitted[m]
      BY <1>2
    <3>2. k \in Index /\ k \in 0 .. emitted'[m] - 1
      BY <1>3, <1>6, <3>1 DEF Index
    <3>3. <<m, k>> \in Frame /\ <<m, k>> # f
      BY <1>2, <3>1, <3>2
    <3> QED
      BY <1>5, <3>2, <3>3
  <2>4. nodes'[m] = nodes[m] /\ Heard(m)' = Heard(m)
    BY <1>1, <1>7
  <2> QED
    BY <2>1, <2>2, <2>3, <2>4 DEF Timely
<1> QED
  BY <1>7, <1>8, <1>9 DEF EstInv

\* Doubling frames in the link, and the clock, change nothing the invariant compares but
\* the time, which only grows.
LEMMA QuietEstInv ==
    ASSUME IInv, EstInv, UNCHANGED <<nodes, taken, first, high, emitted, sentAt, offered>>,
           now' \in Nat, now <= now'
    PROVE  EstInv'
<1>1. /\ \A n \in Nodes : Heard(n)' = Heard(n)
      /\ \A n \in Nodes : Estimated(nodes'[n], n, first'[n], high'[n], Heard(n)')
  BY UnheardEstimates
<1>2. now \in Nat /\ \A f \in Frame : sentAt[f] \in Nat
  BY TimeTypes
<1>3. SentFirst'
  BY <1>2 DEF EstInv, SentFirst
<1>4. \A n \in Nodes : Timely(n)'
  BY <1>1 DEF EstInv, Timely
<1> QED
  BY <1>1, <1>3, <1>4 DEF EstInv

\* A frame arrives within the link's latency and refreshes its node's record.
LEMMA ArriveEstInv ==
    ASSUME IInv, EstInv, NEW f \in Frame, NEW reached \in 0 .. SinkCount, Arrive(f, reached)
    PROVE  EstInv'
<1> DEFINE n == f[1]
           i == f[2]
           p == PacketOf(f)
<1>1. f = <<n, i>>
  BY DEF Frame
<1>2. now <= sentAt[f] + MaxLatency /\ inflight[f] > 0
  BY DEF Arrive, Link!Take
<1> HIDE DEF n, i
<1>3. /\ n \in Nodes /\ i \in Index /\ p \in Packet /\ p.seq = SeqOf(n, i)
      /\ nodes' = [nodes EXCEPT ![n] = Track(nodes[n], p, now)]
      /\ first' = [first EXCEPT ![n] = IF first[n] = Never THEN i ELSE first[n]]
      /\ high' = [high EXCEPT ![n] = IF i > high[n] THEN i ELSE high[n]]
      /\ UNCHANGED <<emitted, sentAt, now, offered>>
      /\ Heard(n)' = Heard(n) \union {i}
      /\ \A m \in Nodes \ {n} : Heard(m)' = Heard(m)
  BY <1>1, ArriveEffect
<1> HIDE DEF p
<1>4. /\ nodes \in [Nodes -> NodeStats]
      /\ first \in [Nodes -> Index \union {Never}] /\ high \in [Nodes -> Index \union {Never}]
  BY DEF IInv, TypeOK, CollectorTypeOK
<1>5. /\ now \in Nat /\ \A g \in Frame : sentAt[g] \in Nat
      /\ \A m \in Nodes, k \in Index : <<m, k>> \in Frame
      /\ \A m \in Nodes : Heard(m) \in SUBSET Index /\ emitted[m] \in 0 .. MaxEmit
  BY TimeTypes
<1> DEFINE r == Track(nodes[n], p, now)
           a2 == IF first[n] = Never THEN i ELSE first[n]
           h2 == IF i > high[n] THEN i ELSE high[n]
<1>6. nodes'[n] = r /\ first'[n] = a2 /\ high'[n] = h2
  BY <1>3, <1>4
<1>7. Estimated(r, n, a2, h2, Heard(n) \union {i})
  <2>1. Known(nodes[n], n, first[n], high[n], Heard(n))
    BY <1>3 DEF IInv, RecordsKnow
  <2>2. Estimated(nodes[n], n, first[n], high[n], Heard(n))
    BY <1>3 DEF EstInv
  <2> QED
    BY <1>3, <1>4, <1>5, <2>1, <2>2, TrackEstimated
<1>8. r.last_seen = now
  BY <1>3, <1>4, <1>5, TrackCounts
<1> HIDE DEF r, a2, h2
<1>9. \A m \in Nodes \ {n} : /\ nodes'[m] = nodes[m] /\ first'[m] = first[m]
                             /\ high'[m] = high[m] /\ Heard(m)' = Heard(m)
  BY <1>3, <1>4
<1>10. ASSUME NEW m \in Nodes
       PROVE  Estimated(nodes'[m], m, first'[m], high'[m], Heard(m)')
  <2>1. CASE m = n
    BY <1>3, <1>6, <1>7, <2>1
  <2>2. CASE m # n
    BY <1>9, <2>2 DEF EstInv
  <2> QED
    BY <2>1, <2>2
<1>11. SentFirst'
  BY <1>3 DEF EstInv, SentFirst
<1>12. ASSUME NEW m \in Nodes PROVE Timely(m)'
  <2>1. CASE m = n
    <3>1. \A k \in Heard(n) \union {i} : <<n, k>> \in Frame /\ sentAt[<<n, k>>] <= now
      BY <1>3, <1>5 DEF EstInv, SentFirst
    <3>2. i \in 0 .. emitted[n] - 1
      <4>1. f \in offered
        BY <1>2 DEF IInv, CopiesBounded
      <4>2. i < emitted[n]
        BY <1>1, <1>3, <4>1 DEF EstInv, SentFirst
      <4>3. i \in Nat /\ emitted[n] \in Nat
        BY <1>3, <1>5 DEF Index
      <4> QED
        BY <4>2, <4>3
    <3>3. now <= sentAt[<<n, i>>] + MaxLatency
      BY <1>1, <1>2
    <3>4. /\ nodes'[n].last_seen = now /\ sentAt' = sentAt /\ emitted' = emitted
          /\ Heard(n)' = Heard(n) \union {i}
      BY <1>3, <1>6, <1>8
    <3> QED
      BY <2>1, <3>1, <3>2, <3>3, <3>4 DEF Timely
  <2>2. CASE m # n
    <3>1. /\ nodes'[m] = nodes[m] /\ Heard(m)' = Heard(m)
          /\ sentAt' = sentAt /\ emitted' = emitted
      BY <1>3, <1>9, <2>2
    <3>2. Timely(m)
      BY DEF EstInv
    <3> QED
      BY <3>1, <3>2 DEF Timely
  <2> QED
    BY <2>1, <2>2
<1> QED
  BY <1>10, <1>11, <1>12 DEF EstInv

\* The invariant of the estimates holds throughout.
THEOREM EstimatesInductive == Spec => []EstInv
<1>1. IInv /\ EstInv /\ [Next]_vars => EstInv'
  <2> SUFFICES ASSUME IInv, EstInv, [Next]_vars PROVE EstInv'
    OBVIOUS
  <2>1. now \in Nat
    BY TimeTypes
  <2>2. ASSUME NEW n \in Nodes, Emit(n) PROVE EstInv'
    BY <2>2, EmitEstInv
  <2>3. CASE Duplicate
    <3>1. UNCHANGED <<nodes, taken, first, high, emitted, sentAt, offered, now>>
      BY <2>3 DEF Duplicate, Link!Double, collectorVars, nodeVars, history
    <3> QED
      BY <2>1, <3>1, QuietEstInv
  <2>4. ASSUME NEW f \in Frame, NEW reached \in 0 .. SinkCount, Arrive(f, reached)
        PROVE  EstInv'
    BY <2>4, ArriveEstInv
  <2>5. CASE Tick
    <3>1. /\ UNCHANGED <<nodes, taken, first, high, emitted, sentAt, offered>>
          /\ now' = now + 1
      BY <2>5 DEF Tick, collectorVars, nodeVars, linkVars, history
    <3>2. now' \in Nat /\ now <= now'
      BY <2>1, <3>1
    <3> QED
      BY <3>1, <3>2, QuietEstInv
  <2>6. CASE UNCHANGED vars
    <3>1. UNCHANGED <<nodes, taken, first, high, emitted, sentAt, offered, now>>
      BY <2>6 DEF vars, collectorVars, nodeVars, linkVars, history
    <3> QED
      BY <2>1, <3>1, QuietEstInv
  <2> QED
    BY <2>2, <2>3, <2>4, <2>5, <2>6 DEF Next
<1> QED
  BY InitEstInv, <1>1, Inductive, PTL DEF Spec

\* Up to SeenWindow frames heard of a node, every repeated frame counts as a duplicate and
\* nothing else does (collector.py:127), for every window and however old the repetition.
THEOREM DuplicatesCountedRight == Spec => []DuplicatesExact
<1>1. EstInv => DuplicatesExact
  BY DEF EstInv, Estimated, DuplicatesExact, Misread, Excess
<1> QED
  BY <1>1, EstimatesInductive, PTL

\* In any session below half the ring, `lost` understates the frames really missing by at
\* most one for each frame older than the first heard and each stale duplicate beyond the
\* window (collector.py:132-140): with NoPhantomLoss, it is exact without these.
THEOREM LossNearlyExact == Spec => []LossUnderstatedAtMost
<1>1. IInv /\ EstInv => LossUnderstatedAtMost
  <2> SUFFICES ASSUME IInv, EstInv, NEW n \in Nodes
               PROVE  Cardinality(Gaps(n))
                         <= nodes[n].lost + Cardinality(Early(n)) + Misread(n)
    BY DEF LossUnderstatedAtMost
  <2>1. /\ Known(nodes[n], n, first[n], high[n], Heard(n))
        /\ Estimated(nodes[n], n, first[n], high[n], Heard(n))
        /\ nodes[n] \in NodeStats
    BY TimeTypes DEF IInv, RecordsKnow, EstInv
  <2>2. \A k \in Index : taken[<<n, k>>] = 0 <=> ~(taken[<<n, k>>] > 0)
    <3>1. \A k \in Index : taken[<<n, k>>] \in 0 .. 2
      BY DEF IInv, TypeOK, Link!TypeOK, Link!CopyCount, Frame
    <3> QED
      BY <3>1
  <2>3. /\ Gaps(n) = GapsOf(first[n], high[n], Heard(n))
        /\ Early(n) = EarlyOf(first[n], Heard(n))
        /\ Misread(n) = Excess(nodes[n], Heard(n))
    BY <2>2 DEF Gaps, GapsOf, Heard, Early, EarlyOf, Misread, Excess
  <2>4. CASE high[n] = Never
    <3>1. Gaps(n) = {}
      <4>1. first[n] = Never /\ \A k \in Index : ~(k <= Never)
        BY <2>1, <2>4 DEF Known, Index, Never
      <4> QED
        BY <2>4, <4>1 DEF Gaps
    <3>2. Early(n) \in SUBSET Index
      BY DEF Early, Heard
    <3>3. Cardinality(Gaps(n)) = 0 /\ Cardinality(Early(n)) \in Nat
      BY <3>1, <3>2, FS_EmptySet, GapsFinite
    <3>4. nodes[n].lost \in Nat /\ nodes[n].packets \in Nat /\ nodes[n].duplicated \in Nat
      BY <2>1 DEF NodeStats
    <3>5. Misread(n) >= 0 /\ Misread(n) \in Int
      <4>1. Heard(n) \in SUBSET Index
        BY DEF Heard
      <4>2. Cardinality(Heard(n)) \in Nat
        BY <4>1, GapsFinite
      <4> QED
        BY <2>1, <2>3, <3>4, <4>2 DEF Estimated, Excess
    <3> QED
      BY <3>3, <3>4, <3>5
  <2>5. CASE high[n] # Never
    BY <2>1, <2>3, <2>5 DEF Estimated
  <2> QED
    BY <2>4, <2>5
<1> QED
  BY <1>1, Inductive, EstimatesInductive, PTL

\* What the record alone tells of the loss: the frames really missing between the first and
\* the newest one heard are at least its `lost` and at most its `lost` and `reordered` together.
LossBracketed ==
    \A n \in Nodes : /\ nodes[n].lost <= Cardinality(Gaps(n))
                     /\ Cardinality(Gaps(n)) <= nodes[n].lost + nodes[n].reordered

\* Each frame older than the first heard and each stale duplicate beyond the window counts as
\* reordered (collector.py:137), so the record bounds its own error: a reader of the two
\* counters brackets the frames missing, and of a link that never reorders or repeats beyond
\* the window knows their number exactly.
THEOREM RecordBracketsLoss == Spec => []LossBracketed
<1>1. IInv /\ EstInv /\ LossNeverOverstated /\ LossUnderstatedAtMost => LossBracketed
  <2> SUFFICES ASSUME IInv, EstInv, LossNeverOverstated, LossUnderstatedAtMost, NEW n \in Nodes
               PROVE  /\ nodes[n].lost <= Cardinality(Gaps(n))
                      /\ Cardinality(Gaps(n)) <= nodes[n].lost + nodes[n].reordered
    BY DEF LossBracketed
  <2>1. /\ Cardinality(EarlyOf(first[n], Heard(n))) + Excess(nodes[n], Heard(n))
              <= nodes[n].reordered
        /\ nodes[n] \in NodeStats
    BY TimeTypes DEF EstInv, Estimated
  <2>2. Early(n) = EarlyOf(first[n], Heard(n)) /\ Misread(n) = Excess(nodes[n], Heard(n))
    BY DEF Early, EarlyOf, Misread, Excess
  <2>3. /\ nodes[n].lost \in Nat /\ nodes[n].reordered \in Nat
        /\ nodes[n].packets \in Nat /\ nodes[n].duplicated \in Nat
    BY <2>1 DEF NodeStats
  <2>4. Gaps(n) \in SUBSET Index /\ Early(n) \in SUBSET Index /\ Heard(n) \in SUBSET Index
    BY DEF Gaps, Early, Heard
  <2>5. /\ Cardinality(Gaps(n)) \in Nat /\ Cardinality(Early(n)) \in Nat
        /\ Cardinality(Heard(n)) \in Nat
    BY <2>4, GapsFinite
  <2>6. Misread(n) \in Int
    BY <2>3, <2>5 DEF Misread
  <2>7. Cardinality(Gaps(n)) <= nodes[n].lost + Cardinality(Early(n)) + Misread(n)
    BY DEF LossUnderstatedAtMost
  <2>8. Cardinality(Early(n)) + Misread(n) <= nodes[n].reordered
    BY <2>1, <2>2
  <2>9. nodes[n].lost <= Cardinality(Gaps(n))
    BY DEF LossNeverOverstated
  <2>10. Cardinality(Gaps(n)) <= nodes[n].lost + nodes[n].reordered
    BY <2>3, <2>5, <2>6, <2>7, <2>8
  <2> QED
    BY <2>9, <2>10
<1> QED
  BY <1>1, Inductive, EstimatesInductive, NoPhantomLoss, LossNearlyExact, PTL

\* For every threshold and every bound on the link's latency: of a node reported stale
\* nothing sent within the threshold has arrived, and a node once heard is reported when
\* all it ever sent is older than threshold and latency together (collector.py:169-182),
\* whatever late and doubled copies refreshed it.
THEOREM AlarmTruthful == Spec => []StaleContract
<1>1. IInv /\ EstInv => StaleContract
  <2> SUFFICES ASSUME IInv, EstInv, NEW n \in Nodes
               PROVE  /\ n \in StaleNodes(now) =>
                            \A k \in Heard(n) : now - sentAt[<<n, k>>] > StaleAfter
                      /\ /\ Heard(n) # {}
                         /\ \A k \in 0 .. emitted[n] - 1 :
                               now - sentAt[<<n, k>>] > StaleAfter + MaxLatency
                         => n \in StaleNodes(now)
    BY DEF StaleContract
  <2>1. /\ now \in Nat /\ \A f \in Frame : sentAt[f] \in Nat
        /\ nodes[n].last_seen \in Nat \union {Never} /\ emitted[n] \in 0 .. MaxEmit
        /\ \A k \in Index : <<n, k>> \in Frame
        /\ Heard(n) \in SUBSET Index
    BY TimeTypes
  <2>2. Timely(n) /\ StaleAfter \in Nat /\ MaxLatency \in Nat /\ MaxEmit \in Nat
    BY StaleAfterAssumption, StationBounds DEF EstInv
  <2>3. \A k \in Heard(n) : sentAt[<<n, k>>] \in Nat
    BY <2>1
  <2>4. ASSUME n \in StaleNodes(now), NEW k \in Heard(n)
        PROVE  now - sentAt[<<n, k>>] > StaleAfter
    <3>1. nodes[n].last_seen >= 0 /\ now - nodes[n].last_seen > StaleAfter
      BY <2>4 DEF StaleNodes
    <3>2. sentAt[<<n, k>>] <= nodes[n].last_seen
      BY <2>2 DEF Timely
    <3>3. nodes[n].last_seen \in Int /\ sentAt[<<n, k>>] \in Int
      BY <2>1, <2>3 DEF Never
    <3> QED
      BY <2>1, <2>2, <3>1, <3>2, <3>3
  <2>5. ASSUME Heard(n) # {},
               \A k \in 0 .. emitted[n] - 1 : now - sentAt[<<n, k>>] > StaleAfter + MaxLatency
        PROVE  n \in StaleNodes(now)
    <3>1. PICK k \in 0 .. emitted[n] - 1 : nodes[n].last_seen <= sentAt[<<n, k>>] + MaxLatency
      BY <2>2, <2>5 DEF Timely
    <3>2. k \in Index
      BY <2>1, <2>2 DEF Index
    <3>3. sentAt[<<n, k>>] \in Nat /\ nodes[n].last_seen \in Int
      BY <2>1, <3>2 DEF Never
    <3>4. now - sentAt[<<n, k>>] > StaleAfter + MaxLatency
      BY <2>5
    <3>5. now - nodes[n].last_seen > StaleAfter
      BY <2>1, <2>2, <3>1, <3>3, <3>4
    <3>6. nodes[n].last_seen >= 0
      <4>1. PICK j \in Heard(n) : TRUE
        BY <2>5
      <4>2. sentAt[<<n, j>>] \in Nat /\ sentAt[<<n, j>>] <= nodes[n].last_seen
        BY <2>2, <2>3 DEF Timely
      <4> QED
        BY <3>3, <4>2
    <3> QED
      BY <3>5, <3>6 DEF StaleNodes
  <2> QED
    BY <2>4, <2>5
<1> QED
  BY <1>1, Inductive, EstimatesInductive, PTL

-----------------------------------------------------------------------------
(***************************************************************************)
(* The totals: a packet is counted in them once and in one record once.    *)
(***************************************************************************)
\* What an arrival adds to a record's samples is what the packet carries, on every path.
LEMMA TrackSamples ==
    ASSUME NEW ns \in NodeStats, NEW p \in Packet, NEW t \in Nat
    PROVE  Track(ns, p, t).samples = ns.samples + p.samples
<1> DEFINE h == Hear(ns, p, t)
<1>1. h \in NodeStats
  BY HearEffect
<1>2. h.samples = ns.samples + p.samples
  BY DEF Hear, NodeStats
<1>3. Track(ns, p, t) = IF IsFirst(ns) THEN TrackFirst(h, p)
                        ELSE IF IsDuplicate(ns, p) THEN TrackDuplicate(h)
                        ELSE IF IsForward(ns, p) THEN TrackForward(h, p)
                        ELSE TrackLate(h, p)
  BY DEF Track
<1> HIDE DEF h
<1>4. /\ TrackFirst(h, p).samples = h.samples /\ TrackDuplicate(h).samples = h.samples
      /\ TrackForward(h, p).samples = h.samples /\ TrackLate(h, p).samples = h.samples
  BY <1>1 DEF TrackFirst, TrackDuplicate, TrackForward, TrackLate, NodeStats
<1> QED
  BY <1>2, <1>3, <1>4

\* An arrival adds one packet and its samples to the record, to the totals and to the
\* sinks it reaches.
LEMMA ArriveTotals ==
    ASSUME IInv, TotalsAgree, NEW f \in Frame, NEW reached \in 0 .. SinkCount, Arrive(f, reached)
    PROVE  TotalsAgree'
<1> DEFINE n == f[1]
           i == f[2]
           p == PacketOf(f)
           r == Track(nodes[n], p, now)
<1>1. f = <<n, i>>
  BY DEF Frame
<1> HIDE DEF n, i
<1>2. /\ n \in Nodes /\ p \in Packet
      /\ nodes' = [nodes EXCEPT ![n] = Track(nodes[n], p, now)]
      /\ totals' = [packets |-> totals.packets + 1, samples |-> totals.samples + p.samples]
      /\ consumed' = [s \in 1 .. SinkCount |->
                         IF s <= reached THEN consumed[s] + 1 ELSE consumed[s]]
      /\ raised' = [s \in 1 .. SinkCount |->
                       IF s = reached + 1 THEN raised[s] + 1 ELSE raised[s]]
  BY <1>1, ArriveEffect
<1> HIDE DEF p
<1>3. /\ nodes \in [Nodes -> NodeStats] /\ now \in Nat
      /\ totals \in [packets : Nat, samples : Nat] /\ consumed \in [1 .. SinkCount -> Nat]
      /\ raised \in [1 .. SinkCount -> Nat]
  BY DEF IInv, TypeOK, CollectorTypeOK
<1>4. r.packets = nodes[n].packets + 1 /\ r.samples = nodes[n].samples + p.samples
  BY <1>2, <1>3, TrackCounts, TrackSamples
<1>5. nodes[n].packets \in Nat /\ nodes[n].samples \in Nat /\ p.samples \in Nat
  BY <1>2, <1>3 DEF NodeStats, Packet
<1> HIDE DEF r
<1>6. /\ nodes'[n] = r
      /\ \A m \in Nodes \ {n} : nodes'[m] = nodes[m]
  BY <1>2, <1>3 DEF r
<1>7. totals'.packets = SumFunction([m \in Nodes |-> nodes'[m].packets])
  <2> DEFINE F == [m \in Nodes |-> nodes[m].packets]
             G == [m \in Nodes |-> nodes'[m].packets]
  <2>1. F[n] = nodes[n].packets /\ G[n] = nodes[n].packets + 1
    BY <1>2, <1>4, <1>6
  <2>2. F \in [Nodes -> Nat]
    BY <1>3 DEF NodeStats
  <2>3. \A m \in Nodes \ {n} : G[m] = F[m]
    BY <1>6
  <2>4. G \in [Nodes -> Nat]
    <3>1. \A m \in Nodes : G[m] \in Nat
      BY <1>5, <2>1, <2>2, <2>3
    <3> QED
      BY <3>1
  <2>5. SumFunction(F) = totals.packets
    BY DEF TotalsAgree
  <2> HIDE DEF F, G
  <2>6. SumFunction(G) + F[n] = SumFunction(F) + G[n]
    BY ZenonT(60), <1>2, <2>2, <2>3, <2>4, NodesAssumption, SumChange
  <2>7. SumFunction(G) \in Nat
    BY <2>4, NodesAssumption, SumType
  <2>8. totals.packets \in Nat /\ totals'.packets = totals.packets + 1
    BY <1>2, <1>3
  <2>9. totals'.packets = SumFunction(G)
    BY <1>5, <2>1, <2>5, <2>6, <2>7, <2>8
  <2> QED
    BY <2>9 DEF G
<1>8. totals'.samples = SumFunction([m \in Nodes |-> nodes'[m].samples])
  <2> DEFINE F == [m \in Nodes |-> nodes[m].samples]
             G == [m \in Nodes |-> nodes'[m].samples]
  <2>1. F[n] = nodes[n].samples /\ G[n] = nodes[n].samples + p.samples
    BY <1>2, <1>4, <1>6
  <2>2. F \in [Nodes -> Nat]
    BY <1>3 DEF NodeStats
  <2>3. \A m \in Nodes \ {n} : G[m] = F[m]
    BY <1>6
  <2>4. G \in [Nodes -> Nat]
    <3>1. \A m \in Nodes : G[m] \in Nat
      BY <1>5, <2>1, <2>2, <2>3
    <3> QED
      BY <3>1
  <2>5. SumFunction(F) = totals.samples
    BY DEF TotalsAgree
  <2> HIDE DEF F, G
  <2>6. SumFunction(G) + F[n] = SumFunction(F) + G[n]
    BY ZenonT(60), <1>2, <2>2, <2>3, <2>4, NodesAssumption, SumChange
  <2>7. SumFunction(G) \in Nat
    BY <2>4, NodesAssumption, SumType
  <2>8. totals.samples \in Nat /\ totals'.samples = totals.samples + p.samples
    BY <1>2, <1>3
  <2>9. totals'.samples = SumFunction(G)
    BY <1>5, <2>1, <2>5, <2>6, <2>7, <2>8
  <2> QED
    BY <2>9 DEF G
<1>9. ASSUME NEW s \in 1 .. SinkCount
      PROVE  consumed'[s] + raised'[s] = IF s = 1 THEN totals'.packets ELSE consumed'[s - 1]
  <2>1. s \in Nat /\ reached \in Nat /\ SinkCount \in Nat /\ 1 <= s
    BY SinkAssumption
  <2>2. /\ consumed'[s] = IF s <= reached THEN consumed[s] + 1 ELSE consumed[s]
        /\ raised'[s] = IF s = reached + 1 THEN raised[s] + 1 ELSE raised[s]
    BY <1>2
  <2>3. /\ consumed[s] \in Nat /\ raised[s] \in Nat
        /\ consumed[s] + raised[s] = IF s = 1 THEN totals.packets ELSE consumed[s - 1]
    BY <1>3 DEF TotalsAgree
  <2>4. CASE s = 1
    <3>1. totals'.packets = totals.packets + 1 /\ totals.packets \in Nat
      BY <1>2, <1>3
    <3> QED
      BY <2>1, <2>2, <2>3, <2>4, <3>1
  <2>5. CASE s # 1
    <3>1. s - 1 \in 1 .. SinkCount
      BY <2>1, <2>5
    <3>2. consumed'[s - 1] = IF s - 1 <= reached THEN consumed[s - 1] + 1 ELSE consumed[s - 1]
      BY <1>2, <3>1
    <3>3. consumed[s - 1] \in Nat
      BY <1>3, <3>1
    <3> QED
      BY <2>1, <2>2, <2>3, <2>5, <3>2, <3>3
  <2> QED
    BY <2>4, <2>5
<1> QED
  BY <1>7, <1>8, <1>9 DEF TotalsAgree

\* The totals are the sums over the nodes' records, whether or not a sink raises, and the
\* fan-out hands each sink exactly what the sink before it consumed, of which it consumes all
\* but the packets it raises on (collector.py:149-155), for any nodes, any number of sinks and
\* whatever arrives.
THEOREM TotalsTheSums == Spec => []TotalsAgree
<1>1. Init => TotalsAgree
  <2> SUFFICES ASSUME Init PROVE TotalsAgree
    OBVIOUS
  <2>1. /\ \A n \in Nodes : nodes[n].packets = 0 /\ nodes[n].samples = 0
        /\ totals.packets = 0 /\ totals.samples = 0
        /\ \A s \in 1 .. SinkCount : consumed[s] = 0 /\ raised[s] = 0
    BY DEF Init, CollectorInit, Unheard
  <2>2. SumFunction([n \in Nodes |-> nodes[n].packets]) = 0
    <3> DEFINE F == [n \in Nodes |-> nodes[n].packets]
    <3>1. F \in [Nodes -> Nat] /\ \A n \in Nodes : F[n] = 0
      BY <2>1
    <3> HIDE DEF F
    <3>2. SumFunction(F) = 0
      BY <3>1, NodesAssumption, SumType
    <3> QED
      BY <3>2 DEF F
  <2>3. SumFunction([n \in Nodes |-> nodes[n].samples]) = 0
    <3> DEFINE F == [n \in Nodes |-> nodes[n].samples]
    <3>1. F \in [Nodes -> Nat] /\ \A n \in Nodes : F[n] = 0
      BY <2>1
    <3> HIDE DEF F
    <3>2. SumFunction(F) = 0
      BY <3>1, NodesAssumption, SumType
    <3> QED
      BY <3>2 DEF F
  <2>4. \A s \in 1 .. SinkCount : s # 1 => s - 1 \in 1 .. SinkCount
    BY SinkAssumption
  <2> QED
    BY <2>1, <2>2, <2>3, <2>4 DEF TotalsAgree
<1>2. IInv /\ TotalsAgree /\ [Next]_vars => TotalsAgree'
  <2> SUFFICES ASSUME IInv, TotalsAgree, [Next]_vars PROVE TotalsAgree'
    OBVIOUS
  <2>1. ASSUME NEW f \in Frame, NEW reached \in 0 .. SinkCount, Arrive(f, reached)
        PROVE  TotalsAgree'
    BY <2>1, ArriveTotals
  <2>2. ASSUME UNCHANGED <<collectorVars, raised>> PROVE TotalsAgree'
    BY <2>2 DEF collectorVars, TotalsAgree
  <2> QED
    BY <2>1, <2>2 DEF Next, Emit, Duplicate, Tick, vars, history
<1> QED
  BY <1>1, <1>2, Inductive, PTL DEF Spec
=============================================================================
