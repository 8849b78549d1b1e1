----------------------------- MODULE LinkProofs -----------------------------
(***************************************************************************)
(* Proofs about Impairment, for every set of configurations and all        *)
(* bounds: type correctness and the conservation of frames; that the       *)
(* transport is a lossy link, and that its counters tell what became of    *)
(* the frames.                                                             *)
(***************************************************************************)
EXTENDS Impairment, FiniteSetTheorems, SequenceTheorems, TLAPS

Entry == [at : Nat, copy : Copy]

(***************************************************************************)
(* The books of a transport: the copies it has emitted less the extra ones *)
(* of duplicated frames, and what the inner queue holds of `delivered`.    *)
(* KeepsBooks(l, p, n): going from transport l to transport p emits n      *)
(* frames and disturbs neither the hold-back slot nor the counts of frames *)
(* offered and dropped.                                                    *)
(***************************************************************************)
Ledger(l) == l.delivered + Len(l.scheduled) - l.duplicated
Slack(l) == Len(l.inner) - l.delivered

KeepsBooks(l, p, n) ==
    /\ p \in LinkType
    /\ p.held = l.held /\ p.offered = l.offered /\ p.dropped = l.dropped
    /\ Ledger(p) = Ledger(l) + n
    /\ Slack(p) = Slack(l)

\* How many entries of a sequence satisfy a condition lies between 0 and its length.
LEMMA CountWithinLength ==
    ASSUME NEW n \in Nat, NEW S \in SUBSET (1 .. n)
    PROVE  Cardinality(S) \in 0 .. n
<1>1. IsFiniteSet(1 .. n) /\ Cardinality(1 .. n) = n
  BY FS_Interval
<1>2. IsFiniteSet(S) /\ Cardinality(S) <= n
  BY <1>1, FS_Subset
<1>3. Cardinality(S) \in Nat
  BY <1>2, FS_CardinalityType
<1> QED
  BY <1>2, <1>3

\* Pushing an entry into the latency buffer makes it one longer.
LEMMA InsertLength ==
    ASSUME NEW q \in Seq(Entry), NEW e \in Entry
    PROVE  /\ InsertByRelease(q, e) \in Seq(Entry)
           /\ Len(InsertByRelease(q, e)) = Len(q) + 1
<1> DEFINE k == Cardinality({i \in 1 .. Len(q) : q[i].at <= e.at})
           front == SubSeq(q, 1, k)
           back == SubSeq(q, k + 1, Len(q))
<1>1. Len(q) \in Nat
  BY LenProperties
<1>2. k \in 0 .. Len(q)
  <2>1. {i \in 1 .. Len(q) : q[i].at <= e.at} \in SUBSET (1 .. Len(q))
    OBVIOUS
  <2> QED
    BY <1>1, <2>1, CountWithinLength
<1> HIDE DEF k
<1>3. front \in Seq(Entry) /\ Len(front) = k
  <2>1. \A i \in 1 .. k : q[i] \in Entry
    BY <1>1, <1>2, ElementOfSeq
  <2> QED
    BY <1>1, <1>2, <2>1, SubSeqProperties
<1>4. back \in Seq(Entry) /\ Len(back) = Len(q) - k
  <2>1. \A i \in k + 1 .. Len(q) : q[i] \in Entry
    BY <1>1, <1>2, ElementOfSeq
  <2> QED
    BY <1>1, <1>2, <2>1, SubSeqProperties
<1>5. <<e>> \in Seq(Entry) /\ Len(<<e>>) = 1
  OBVIOUS
<1> HIDE DEF front, back
<1> DEFINE upTo == front \o <<e>>
<1>6. upTo \in Seq(Entry) /\ Len(upTo) = k + 1
  BY <1>2, <1>3, <1>5, ConcatProperties
<1>7. InsertByRelease(q, e) = upTo \o back
  BY DEF InsertByRelease, k, front, back
<1> HIDE DEF upTo
<1>8. upTo \o back \in Seq(Entry) /\ Len(upTo \o back) = Len(upTo) + Len(back)
  BY <1>4, <1>6, ConcatProperties
<1> QED
  BY <1>1, <1>2, <1>4, <1>6, <1>7, <1>8

\* The books of a transport are integers, since its fields have their types.
LEMMA FieldTypes ==
    ASSUME NEW l \in LinkType
    PROVE  /\ l.scheduled \in Seq(Entry) /\ Len(l.scheduled) \in Nat
           /\ l.inner \in Seq(Copy) /\ Len(l.inner) \in Nat
           /\ l.offered \in Nat /\ l.delivered \in Nat /\ l.dropped \in Nat
           /\ l.duplicated \in Nat /\ l.reordered \in Nat /\ l.corrupted \in Nat
           /\ l.delayed \in Nat /\ l.max_delay \in Nat
           /\ l.held \in Frame \union {None}
           /\ Ledger(l) \in Int /\ Slack(l) \in Int
<1>1. /\ l.scheduled \in Seq(Entry) /\ l.inner \in Seq(Copy)
      /\ l.offered \in Nat /\ l.delivered \in Nat /\ l.dropped \in Nat
      /\ l.duplicated \in Nat /\ l.reordered \in Nat /\ l.corrupted \in Nat
      /\ l.delayed \in Nat /\ l.max_delay \in Nat
      /\ l.held \in Frame \union {None}
  BY DEF LinkType, Entry
<1>2. Len(l.scheduled) \in Nat /\ Len(l.inner) \in Nat
  BY <1>1, LenProperties
<1> QED
  BY SMTT(30), <1>1, <1>2 DEF Ledger, Slack

\* Emitting m frames and then n frames emits m + n frames.
LEMMA BooksAdd ==
    ASSUME NEW l \in LinkType, NEW p, NEW q, NEW m \in Int, NEW n \in Int,
           KeepsBooks(l, p, m), KeepsBooks(p, q, n)
    PROVE  KeepsBooks(l, q, m + n)
<1>1. Ledger(l) \in Int
  BY FieldTypes
<1> QED
  BY <1>1 DEF KeepsBooks

\* Placing copies on the inner link counts each as delivered and changes nothing else.
LEMMA PushEffect ==
    ASSUME NEW l \in LinkType, NEW copies \in Seq(Copy)
    PROVE  /\ PushInner(l, copies) \in LinkType
           /\ PushInner(l, copies).held = l.held
           /\ PushInner(l, copies).offered = l.offered
           /\ PushInner(l, copies).dropped = l.dropped
           /\ PushInner(l, copies).duplicated = l.duplicated
           /\ PushInner(l, copies).scheduled = l.scheduled
           /\ PushInner(l, copies).delivered = l.delivered + Len(copies)
           /\ Len(PushInner(l, copies).inner) = Len(l.inner) + Len(copies)
<1>1. Len(copies) \in Nat
  BY LenProperties
<1>2. l.inner \in Seq(Copy)
  BY FieldTypes
<1>3. l.inner \o copies \in Seq(Copy) /\ Len(l.inner \o copies) = Len(l.inner) + Len(copies)
  BY <1>2, ConcatProperties
<1>4. l.delivered + Len(copies) \in Nat
  BY <1>1, FieldTypes
<1>5. PushInner(l, copies) =
        [l EXCEPT !.inner = l.inner \o copies, !.delivered = l.delivered + Len(copies)]
  BY DEF PushInner
<1>6. PushInner(l, copies) \in LinkType
  <2>1. \A q \in Seq(Copy), a \in Nat : [l EXCEPT !.inner = q, !.delivered = a] \in LinkType
    BY DEF LinkType
  <2> QED
    BY <1>3, <1>4, <1>5, <2>1
<1>7. /\ PushInner(l, copies).held = l.held
      /\ PushInner(l, copies).offered = l.offered
      /\ PushInner(l, copies).dropped = l.dropped
      /\ PushInner(l, copies).duplicated = l.duplicated
      /\ PushInner(l, copies).scheduled = l.scheduled
      /\ PushInner(l, copies).delivered = l.delivered + Len(copies)
      /\ PushInner(l, copies).inner = l.inner \o copies
  BY <1>5 DEF LinkType
<1> QED
  BY <1>3, <1>6, <1>7

\* One copy scheduled is one copy emitted, whether there is latency or not.
LEMMA ScheduleBooks ==
    ASSUME NEW l \in LinkType, NEW copy \in Copy, NEW delay \in Nat, now \in Nat
    PROVE  KeepsBooks(l, Schedule(l, copy, delay), 1)
<1> DEFINE s == Schedule(l, copy, delay)
<1>1. CASE Timed
  <2> DEFINE e == [at |-> now + delay, copy |-> copy]
             q == InsertByRelease(l.scheduled, e)
             longest == IF delay > l.max_delay THEN delay ELSE l.max_delay
  <2>1. e \in Entry
    BY DEF Entry
  <2>2. q \in Seq(Entry) /\ Len(q) = Len(l.scheduled) + 1
    BY <2>1, FieldTypes, InsertLength
  <2>3. s = [l EXCEPT !.scheduled = q, !.delayed = l.delayed + 1, !.max_delay = longest]
    BY <1>1 DEF Schedule
  <2>4. l.delayed + 1 \in Nat /\ longest \in Nat
    BY FieldTypes
  <2> HIDE DEF e, q, longest, s
  <2>5. s \in LinkType
    <3>1. \A x \in Seq(Entry), a \in Nat, b \in Nat :
            [l EXCEPT !.scheduled = x, !.delayed = a, !.max_delay = b] \in LinkType
      BY DEF LinkType, Entry
    <3> QED
      BY <2>2, <2>3, <2>4, <3>1
  <2>6. /\ s.held = l.held /\ s.offered = l.offered /\ s.dropped = l.dropped
        /\ s.duplicated = l.duplicated /\ s.delivered = l.delivered
        /\ s.inner = l.inner /\ s.scheduled = q
    BY <2>3 DEF LinkType
  <2>7. Ledger(s) = Ledger(l) + 1 /\ Slack(s) = Slack(l)
    <3>1. l.delivered \in Nat /\ l.duplicated \in Nat /\ Len(l.scheduled) \in Nat
      BY FieldTypes
    <3>2. Len(s.scheduled) = Len(l.scheduled) + 1
      BY <2>2, <2>6
    <3> QED
      BY <2>6, <3>1, <3>2 DEF Ledger, Slack
  <2> QED
    BY <2>5, <2>6, <2>7 DEF KeepsBooks, s
<1>2. CASE ~Timed
  <2>1. s = PushInner(l, <<copy>>)
    BY <1>2 DEF Schedule
  <2>2. <<copy>> \in Seq(Copy) /\ Len(<<copy>>) = 1
    OBVIOUS
  <2> HIDE DEF s
  <2>3. /\ s \in LinkType
        /\ s.held = l.held /\ s.offered = l.offered /\ s.dropped = l.dropped
        /\ s.duplicated = l.duplicated /\ s.scheduled = l.scheduled
        /\ s.delivered = l.delivered + 1
        /\ Len(s.inner) = Len(l.inner) + 1
    BY <2>1, <2>2, PushEffect
  <2>4. Ledger(s) = Ledger(l) + 1 /\ Slack(s) = Slack(l)
    <3>1. /\ l.delivered \in Nat /\ l.duplicated \in Nat
          /\ Len(l.scheduled) \in Nat /\ Len(l.inner) \in Nat
      BY FieldTypes
    <3>2. Ledger(s) = Ledger(l) + 1
      BY <2>3, <3>1 DEF Ledger
    <3>3. Slack(s) = Slack(l)
      BY <2>3, <3>1 DEF Slack
    <3> QED
      BY <3>2, <3>3
  <2> QED
    BY <2>3, <2>4 DEF KeepsBooks, s
<1> QED
  BY <1>1, <1>2

\* A configuration's draws are Booleans, and the latencies it can draw are naturals.
LEMMA DrawTypes ==
    ASSUME config \in Configs, NEW d \in Draw
    PROVE  d.delay \in Nat /\ d.delay2 \in Nat
<1>1. config.delay \in Nat /\ config.jitter \in Nat
  BY ConfigAssumption
<1>2. Delays \subseteq Nat
  BY <1>1 DEF Delays
<1> QED
  BY <1>2 DEF Draw

\* Emitting a frame, damaged or not, once or twice, is one frame emitted.
LEMMA EmitBooks ==
    ASSUME NEW l \in LinkType, NEW f \in Frame, NEW d \in Draw,
           config \in Configs, now \in Nat
    PROVE  KeepsBooks(l, Emit(l, f, d), 1)
<1> DEFINE out == [frame |-> f, intact |-> ~d.corrupt]
           marked == [l EXCEPT !.corrupted = IF d.corrupt THEN @ + 1 ELSE @]
           once == Schedule(marked, out, d.delay)
           doubled == [once EXCEPT !.duplicated = @ + 1]
           twice == Schedule(doubled, out, d.delay2)
<1>1. d.delay \in Nat /\ d.delay2 \in Nat
  BY DrawTypes
<1>2. out \in Copy
  BY DEF Copy
<1>3. KeepsBooks(l, marked, 0)
  <2>1. \A a \in Nat : [l EXCEPT !.corrupted = a] \in LinkType
    BY DEF LinkType
  <2>2. (IF d.corrupt THEN l.corrupted + 1 ELSE l.corrupted) \in Nat
    BY FieldTypes
  <2>3. marked \in LinkType
    BY <2>1, <2>2
  <2>4. /\ marked.held = l.held /\ marked.offered = l.offered /\ marked.dropped = l.dropped
        /\ marked.duplicated = l.duplicated /\ marked.delivered = l.delivered
        /\ marked.scheduled = l.scheduled /\ marked.inner = l.inner
    BY DEF LinkType
  <2> HIDE DEF marked
  <2>5. Ledger(marked) = Ledger(l) /\ Slack(marked) = Slack(l)
    BY <2>4 DEF Ledger, Slack
  <2>6. Ledger(l) \in Int
    BY FieldTypes
  <2> QED
    BY <2>3, <2>4, <2>5, <2>6 DEF KeepsBooks
<1> HIDE DEF out, marked
<1>4. KeepsBooks(marked, once, 1)
  BY <1>1, <1>2, <1>3, ScheduleBooks DEF KeepsBooks
<1>5. KeepsBooks(l, once, 1)
  BY <1>3, <1>4, BooksAdd
<1>6. Emit(l, f, d) = IF d.twice THEN twice ELSE once
  BY DEF Emit, out, marked
<1> HIDE DEF once
<1>7. KeepsBooks(once, doubled, -1)
  <2>1. once \in LinkType
    BY <1>4 DEF KeepsBooks
  <2>2. \A a \in Nat : [once EXCEPT !.duplicated = a] \in LinkType
    BY <2>1 DEF LinkType
  <2>3. once.duplicated + 1 \in Nat
    BY <2>1, FieldTypes
  <2>4. doubled \in LinkType
    BY <2>2, <2>3
  <2>5. /\ doubled.held = once.held /\ doubled.offered = once.offered
        /\ doubled.dropped = once.dropped /\ doubled.duplicated = once.duplicated + 1
        /\ doubled.delivered = once.delivered /\ doubled.scheduled = once.scheduled
        /\ doubled.inner = once.inner
    BY <2>1 DEF LinkType
  <2>6. once.delivered \in Nat /\ Len(once.scheduled) \in Nat /\ once.duplicated \in Nat
    BY <2>1, FieldTypes
  <2> HIDE DEF doubled
  <2>7. Ledger(doubled) = Ledger(once) + (-1)
    BY SMTT(30), <2>5, <2>6 DEF Ledger
  <2> QED
    BY <2>4, <2>5, <2>7 DEF KeepsBooks, Slack
<1> HIDE DEF doubled
<1>8. KeepsBooks(doubled, twice, 1)
  BY <1>1, <1>2, <1>7, ScheduleBooks DEF KeepsBooks
<1> HIDE DEF twice
<1>9. KeepsBooks(l, twice, 1)
  <2>1. KeepsBooks(l, doubled, 0)
    BY <1>5, <1>7, BooksAdd
  <2> QED
    BY <1>8, <2>1, BooksAdd
<1> QED
  BY <1>5, <1>6, <1>9

\* Moving entries from the latency buffer to the inner link emits nothing.
LEMMA ReleaseBooks ==
    ASSUME NEW l \in LinkType, NEW k \in 0 .. Len(l.scheduled)
    PROVE  KeepsBooks(l, Release(l, k), 0)
<1> DEFINE rest == SubSeq(l.scheduled, k + 1, Len(l.scheduled))
           copies == [i \in 1 .. k |-> l.scheduled[i].copy]
           cut == [l EXCEPT !.scheduled = rest]
<1>1. l.scheduled \in Seq(Entry) /\ Len(l.scheduled) \in Nat
  BY FieldTypes
<1>2. \A i \in 1 .. Len(l.scheduled) : l.scheduled[i] \in Entry
  BY <1>1, ElementOfSeq
<1>3. rest \in Seq(Entry) /\ Len(rest) = Len(l.scheduled) - k
  BY <1>1, <1>2, SubSeqProperties
<1>4. copies \in Seq(Copy) /\ Len(copies) = k
  <2>1. \A i \in 1 .. k : l.scheduled[i].copy \in Copy
    BY <1>1, <1>2 DEF Entry
  <2>2. k \in Nat
    BY <1>1
  <2> QED
    BY <2>1, <2>2
<1>5. Release(l, k) = PushInner(cut, copies)
  BY DEF Release
<1> HIDE DEF rest, copies
<1>6. /\ cut \in LinkType
      /\ cut.held = l.held /\ cut.offered = l.offered /\ cut.dropped = l.dropped
      /\ cut.duplicated = l.duplicated /\ cut.delivered = l.delivered
      /\ cut.inner = l.inner /\ cut.scheduled = rest
  BY <1>3 DEF LinkType, Entry
<1> HIDE DEF cut
<1> DEFINE p == PushInner(cut, copies)
<1>7. /\ p \in LinkType
      /\ p.held = cut.held /\ p.offered = cut.offered /\ p.dropped = cut.dropped
      /\ p.duplicated = cut.duplicated /\ p.scheduled = cut.scheduled
      /\ p.delivered = cut.delivered + Len(copies)
      /\ Len(p.inner) = Len(cut.inner) + Len(copies)
  BY <1>4, <1>6, PushEffect
<1> HIDE DEF p
<1>8. /\ l.delivered \in Nat /\ l.duplicated \in Nat /\ Len(l.inner) \in Nat
      /\ k \in Nat
  BY <1>1, FieldTypes
<1>9. Ledger(p) = Ledger(l) + 0
  <2>1. Len(p.scheduled) = Len(l.scheduled) - k
    BY <1>3, <1>6, <1>7
  <2>2. p.delivered = l.delivered + k
    BY <1>4, <1>6, <1>7
  <2>3. p.duplicated = l.duplicated
    BY <1>6, <1>7
  <2> QED
    BY <1>1, <1>8, <2>1, <2>2, <2>3 DEF Ledger
<1>10. Slack(p) = Slack(l)
  BY <1>4, <1>6, <1>7, <1>8 DEF Slack
<1> QED
  BY <1>5, <1>6, <1>7, <1>9, <1>10 DEF KeepsBooks, p

\* What recv() moves to the inner link is due, and no more than is buffered.
LEMMA ReleaseDueBooks ==
    ASSUME NEW l \in LinkType
    PROVE  KeepsBooks(l, ReleaseDue(l), 0)
<1> DEFINE due == {i \in 1 .. Len(l.scheduled) : l.scheduled[i].at <= now}
<1>1. Len(l.scheduled) \in Nat /\ Ledger(l) \in Int
  BY FieldTypes
<1>2. CASE Timed
  <2>1. due \in SUBSET (1 .. Len(l.scheduled))
    OBVIOUS
  <2>2. Cardinality(due) \in 0 .. Len(l.scheduled)
    BY <1>1, <2>1, CountWithinLength
  <2>3. ReleaseDue(l) = Release(l, Cardinality(due))
    BY <1>2 DEF ReleaseDue
  <2> QED
    BY <2>2, <2>3, ReleaseBooks
<1>3. CASE ~Timed
  BY <1>1, <1>3 DEF ReleaseDue, KeepsBooks
<1> QED
  BY <1>2, <1>3

\* Handing a frame to send() counts it and touches nothing else.
LEMMA OfferedEffect ==
    ASSUME NEW l \in LinkType
    PROVE  /\ Offered(l) \in LinkType
           /\ Offered(l).offered = l.offered + 1
           /\ Offered(l).held = l.held /\ Offered(l).dropped = l.dropped
           /\ Ledger(Offered(l)) = Ledger(l) /\ Slack(Offered(l)) = Slack(l)
<1>1. l.offered + 1 \in Nat
  BY FieldTypes
<1>2. \A a \in Nat : [l EXCEPT !.offered = a] \in LinkType
  BY DEF LinkType
<1>3. Offered(l) = [l EXCEPT !.offered = l.offered + 1]
  BY DEF Offered
<1>4. Offered(l) \in LinkType
  BY <1>1, <1>2, <1>3
<1>5. /\ Offered(l).offered = l.offered + 1
      /\ Offered(l).held = l.held /\ Offered(l).dropped = l.dropped
      /\ Offered(l).duplicated = l.duplicated /\ Offered(l).delivered = l.delivered
      /\ Offered(l).scheduled = l.scheduled /\ Offered(l).inner = l.inner
  BY <1>3 DEF LinkType
<1> QED
  BY <1>4, <1>5 DEF Ledger, Slack

\* Clearing or filling the hold-back slot, and counting a reorder, leave the books alone.
LEMMA SlotEffect ==
    ASSUME NEW l \in LinkType, NEW f \in Frame \union {None}
    PROVE  /\ LET s == [l EXCEPT !.held = f]
              IN  /\ s \in LinkType /\ s.held = f
                  /\ s.offered = l.offered /\ s.dropped = l.dropped
                  /\ Ledger(s) = Ledger(l) /\ Slack(s) = Slack(l)
           /\ LET o == Overtaken(l)
              IN  /\ o \in LinkType /\ o.held = None
                  /\ o.offered = l.offered /\ o.dropped = l.dropped
                  /\ Ledger(o) = Ledger(l) /\ Slack(o) = Slack(l)
<1> DEFINE s == [l EXCEPT !.held = f]
           o == Overtaken(l)
<1>1. /\ s \in LinkType /\ s.held = f
      /\ s.offered = l.offered /\ s.dropped = l.dropped
      /\ s.duplicated = l.duplicated /\ s.delivered = l.delivered
      /\ s.scheduled = l.scheduled /\ s.inner = l.inner
  BY DEF LinkType
<1>2. o = [l EXCEPT !.held = None, !.reordered = l.reordered + 1]
  BY DEF Overtaken
<1>3. o \in LinkType
  <2>1. l.reordered + 1 \in Nat
    BY FieldTypes
  <2>2. \A a \in Nat : [l EXCEPT !.held = None, !.reordered = a] \in LinkType
    BY DEF LinkType
  <2> QED
    BY <1>2, <2>1, <2>2
<1>4. /\ o.held = None /\ o.offered = l.offered /\ o.dropped = l.dropped
      /\ o.duplicated = l.duplicated /\ o.delivered = l.delivered
      /\ o.scheduled = l.scheduled /\ o.inner = l.inner
  BY <1>2 DEF LinkType
<1> HIDE DEF s, o
<1>5. Ledger(s) = Ledger(l) /\ Slack(s) = Slack(l)
  BY <1>1 DEF Ledger, Slack
<1>6. Ledger(o) = Ledger(l) /\ Slack(o) = Slack(l)
  BY <1>4 DEF Ledger, Slack
<1> QED
  BY <1>1, <1>3, <1>4, <1>5, <1>6 DEF s, o

(***************************************************************************)
(* The inductive invariant: types, and the two balances of Conservation in *)
(* terms of the books.                                                     *)
(***************************************************************************)
HeldCount(l) == IF l.held = None THEN 0 ELSE 1

Balanced(l, taken) ==
    /\ Ledger(l) + HeldCount(l) = l.offered - l.dropped
    /\ Len(taken) + Slack(l) = 0

IInv == TypeOK /\ Balanced(link, arrived)

\* A transport that keeps its books with the slot and the counts of offered and dropped
\* frames unchanged, and emits nothing, stays balanced.
LEMMA BooksBalance ==
    ASSUME NEW l \in LinkType, NEW p, NEW taken, KeepsBooks(l, p, 0), Balanced(l, taken)
    PROVE  Balanced(p, taken)
<1>1. Ledger(l) \in Int
  BY FieldTypes
<1> QED
  BY <1>1 DEF KeepsBooks, Balanced, HeldCount

\* A new transport is balanced.
LEMMA InitIInv == Init => IInv
<1> SUFFICES ASSUME Init PROVE IInv
  OBVIOUS
<1>1. link \in LinkType
  BY DEF Init, LinkType
<1>2. TypeOK
  BY <1>1, BoundAssumption DEF Init, TypeOK
<1>3. Balanced(link, arrived)
  BY DEF Init, Balanced, Ledger, Slack, HeldCount
<1> QED
  BY <1>2, <1>3 DEF IInv

\* A frame offered has a number the model's bound allows, and its number is that of no
\* empty slot.
LEMMA NextFrame ==
    ASSUME TypeOK, link.offered < MaxFrames
    PROVE  /\ link.offered + 1 \in Frame
           /\ link.offered + 1 # None
           /\ link.offered + 1 <= MaxFrames
<1>1. link.offered \in Nat
  BY FieldTypes DEF TypeOK
<1> QED
  BY <1>1, BoundAssumption DEF Frame, None

\* A step that leaves everything but the transport alone keeps the types, if the transport
\* keeps its own.
LEMMA SendTypeOK ==
    ASSUME TypeOK, link' \in LinkType, link'.offered <= MaxFrames,
           UNCHANGED <<config, now, arrived>>
    PROVE  TypeOK'
BY DEF TypeOK, LinkType, Copy, Frame

\* A lost frame is offered and dropped.
LEMMA SendLostIInv == IInv /\ SendLost => IInv'
<1> SUFFICES ASSUME IInv, SendLost PROVE IInv'
  OBVIOUS
<1> USE DEF IInv
<1> DEFINE l == Offered(link)
<1>1. link \in LinkType
  BY DEF TypeOK
<1>2. /\ l \in LinkType /\ l.offered = link.offered + 1
      /\ l.held = link.held /\ l.dropped = link.dropped
      /\ Ledger(l) = Ledger(link) /\ Slack(l) = Slack(link)
  BY <1>1, OfferedEffect
<1>3. link' = [l EXCEPT !.dropped = l.dropped + 1]
  BY DEF SendLost
<1> HIDE DEF l
<1>4. link' \in LinkType
  <2>1. l.dropped + 1 \in Nat
    BY <1>2, FieldTypes
  <2>2. \A a \in Nat : [l EXCEPT !.dropped = a] \in LinkType
    BY <1>2 DEF LinkType
  <2> QED
    BY <1>3, <2>1, <2>2
<1>5. /\ link'.offered = l.offered /\ link'.held = l.held
      /\ link'.dropped = l.dropped + 1 /\ link'.duplicated = l.duplicated
      /\ link'.delivered = l.delivered /\ link'.scheduled = l.scheduled
      /\ link'.inner = l.inner
  BY <1>2, <1>3 DEF LinkType
<1>6. TypeOK'
  BY <1>2, <1>4, <1>5, NextFrame, SendTypeOK DEF SendLost
<1>7. Ledger(link') = Ledger(link) /\ Slack(link') = Slack(link)
  BY <1>2, <1>5 DEF Ledger, Slack
<1>8. Balanced(link, arrived)'
  <2>1. link.offered \in Nat /\ link.dropped \in Nat
    BY <1>1, FieldTypes
  <2> QED
    BY SMTT(30), <1>2, <1>5, <1>7, <2>1 DEF Balanced, HeldCount, SendLost
<1> QED
  BY <1>6, <1>8

\* A frame held is offered and sits in the slot.
LEMMA SendHeldIInv == IInv /\ SendHeld => IInv'
<1> SUFFICES ASSUME IInv, SendHeld PROVE IInv'
  OBVIOUS
<1> USE DEF IInv
<1> DEFINE l == Offered(link)
           f == link.offered + 1
<1>1. link \in LinkType
  BY DEF TypeOK
<1>2. /\ l \in LinkType /\ l.offered = link.offered + 1
      /\ l.held = link.held /\ l.dropped = link.dropped
      /\ Ledger(l) = Ledger(link) /\ Slack(l) = Slack(link)
  BY <1>1, OfferedEffect
<1>3. link' = [l EXCEPT !.held = f]
  BY DEF SendHeld
<1>4. f \in Frame /\ f # None /\ f <= MaxFrames
  BY NextFrame DEF SendHeld
<1> HIDE DEF l, f
<1>5. /\ link' \in LinkType /\ link'.held = f
      /\ link'.offered = l.offered /\ link'.dropped = l.dropped
      /\ Ledger(link') = Ledger(l) /\ Slack(link') = Slack(l)
  BY <1>2, <1>3, <1>4, SlotEffect
<1>6. TypeOK'
  BY <1>2, <1>4, <1>5, SendTypeOK DEF SendHeld, f
<1>7. Balanced(link, arrived)'
  <2>1. link.offered \in Nat /\ link.dropped \in Nat /\ Ledger(link) \in Int
    BY <1>1, FieldTypes
  <2> QED
    BY <1>2, <1>4, <1>5, <2>1 DEF Balanced, HeldCount, SendHeld
<1> QED
  BY <1>6, <1>7

\* A frame passed on is offered and emitted.
LEMMA SendPassedIInv == IInv /\ SendPassed => IInv'
<1> SUFFICES ASSUME IInv, SendPassed PROVE IInv'
  OBVIOUS
<1> USE DEF IInv
<1> DEFINE l == Offered(link)
           f == link.offered + 1
<1>1. link \in LinkType /\ config \in Configs /\ now \in Nat
  BY DEF TypeOK
<1>2. /\ l \in LinkType /\ l.offered = link.offered + 1
      /\ l.held = link.held /\ l.dropped = link.dropped
      /\ Ledger(l) = Ledger(link) /\ Slack(l) = Slack(link)
  BY <1>1, OfferedEffect
<1>3. f \in Frame /\ f <= MaxFrames
  BY NextFrame DEF SendPassed
<1>4. PICK d \in Draw : link' = Emit(l, f, d)
  BY DEF SendPassed
<1> HIDE DEF l, f
<1>5. KeepsBooks(l, link', 1)
  BY <1>1, <1>2, <1>3, <1>4, EmitBooks
<1>6. TypeOK'
  BY <1>2, <1>3, <1>5, SendTypeOK DEF SendPassed, KeepsBooks, f
<1>7. Balanced(link, arrived)'
  <2>1. link.offered \in Nat /\ link.dropped \in Nat /\ Ledger(link) \in Int
    BY <1>1, FieldTypes
  <2> QED
    BY <1>2, <1>5, <2>1 DEF Balanced, HeldCount, KeepsBooks, SendPassed
<1> QED
  BY <1>6, <1>7

\* A frame that overtakes the held one is emitted, and the held one behind it.
LEMMA SendOvertakingIInv == IInv /\ SendOvertaking => IInv'
<1> SUFFICES ASSUME IInv, SendOvertaking PROVE IInv'
  OBVIOUS
<1> USE DEF IInv
<1> DEFINE l == Offered(link)
           f == link.offered + 1
<1>1. link \in LinkType /\ config \in Configs /\ now \in Nat
  BY DEF TypeOK
<1>2. /\ l \in LinkType /\ l.offered = link.offered + 1
      /\ l.held = link.held /\ l.dropped = link.dropped
      /\ Ledger(l) = Ledger(link) /\ Slack(l) = Slack(link)
  BY <1>1, OfferedEffect
<1>3. f \in Frame /\ f <= MaxFrames
  BY NextFrame DEF SendOvertaking
<1>4. link.held \in Frame /\ link.held # None
  BY <1>1, FieldTypes DEF SendOvertaking
<1>5. PICK d, h \in Draw : link' = Emit(Overtaken(Emit(l, f, d)), link.held, h)
  BY DEF SendOvertaking
<1> HIDE DEF l, f
<1> DEFINE first == Emit(l, f, d)
           over == Overtaken(first)
<1>6. KeepsBooks(l, first, 1)
  BY <1>1, <1>2, <1>3, EmitBooks
<1> HIDE DEF first
<1>7. /\ over \in LinkType /\ over.held = None
      /\ over.offered = first.offered /\ over.dropped = first.dropped
      /\ Ledger(over) = Ledger(first) /\ Slack(over) = Slack(first)
  BY <1>6, SlotEffect DEF KeepsBooks
<1> HIDE DEF over
<1>8. KeepsBooks(over, link', 1)
  <2>1. link' = Emit(over, link.held, h)
    BY <1>5 DEF first, over
  <2> QED
    BY <1>1, <1>4, <1>7, <2>1, EmitBooks
<1>9. TypeOK'
  BY <1>2, <1>3, <1>6, <1>7, <1>8, SendTypeOK DEF SendOvertaking, KeepsBooks, f
<1>10. Balanced(link, arrived)'
  <2>1. link.offered \in Nat /\ link.dropped \in Nat /\ Ledger(link) \in Int
    BY <1>1, FieldTypes
  <2>2. Ledger(link') = Ledger(link) + 2 /\ Slack(link') = Slack(link)
    BY <1>2, <1>6, <1>7, <1>8, <2>1 DEF KeepsBooks
  <2>3. link'.held = None /\ link'.offered = link.offered + 1 /\ link'.dropped = link.dropped
    BY <1>2, <1>6, <1>7, <1>8 DEF KeepsBooks
  <2> QED
    BY <1>4, <2>1, <2>2, <2>3 DEF Balanced, HeldCount, SendOvertaking
<1> QED
  BY <1>9, <1>10

\* A frame received leaves the inner link.
LEMMA RecvIInv == IInv /\ Recv => IInv'
<1> SUFFICES ASSUME IInv, Recv PROVE IInv'
  OBVIOUS
<1> USE DEF IInv
<1> DEFINE ready == ReleaseDue(link)
<1>1. link \in LinkType /\ arrived \in Seq(Copy)
  BY DEF TypeOK
<1>2. KeepsBooks(link, ready, 0)
  BY <1>1, ReleaseDueBooks
<1>3. /\ ready.inner # <<>>
      /\ link' = [ready EXCEPT !.inner = Tail(ready.inner)]
      /\ arrived' = Append(arrived, Head(ready.inner))
      /\ UNCHANGED <<config, now>>
  BY DEF Recv
<1>4. Balanced(ready, arrived)
  BY <1>1, <1>2, BooksBalance
<1> HIDE DEF ready
<1>5. ready \in LinkType /\ ready.offered = link.offered
  BY <1>2 DEF KeepsBooks
<1>6. /\ ready.inner \in Seq(Copy) /\ Len(ready.inner) \in Nat /\ ready.delivered \in Nat
  BY <1>5, FieldTypes
<1>7. /\ Head(ready.inner) \in Copy /\ Tail(ready.inner) \in Seq(Copy)
      /\ Len(Tail(ready.inner)) = Len(ready.inner) - 1
  BY <1>3, <1>6, HeadTailProperties
<1>8. /\ link' \in LinkType
      /\ link'.offered = ready.offered /\ link'.held = ready.held
      /\ link'.dropped = ready.dropped /\ link'.duplicated = ready.duplicated
      /\ link'.delivered = ready.delivered /\ link'.scheduled = ready.scheduled
      /\ link'.inner = Tail(ready.inner)
  BY <1>3, <1>5, <1>7 DEF LinkType
<1>9. arrived' \in Seq(Copy) /\ Len(arrived') = Len(arrived) + 1
  BY <1>1, <1>3, <1>7, AppendProperties
<1>10. TypeOK'
  BY <1>3, <1>5, <1>8, <1>9 DEF TypeOK, LinkType, Copy, Frame
<1>11. Balanced(link, arrived)'
  <2>1. Len(arrived) \in Nat
    BY <1>1, LenProperties
  <2>2. Ledger(link') = Ledger(ready)
    BY <1>8 DEF Ledger
  <2>3. Slack(link') = Slack(ready) - 1
    BY <1>6, <1>7, <1>8 DEF Slack
  <2>4. Slack(ready) \in Int
    BY <1>5, FieldTypes
  <2> QED
    BY <1>4, <1>8, <1>9, <2>1, <2>2, <2>3, <2>4 DEF Balanced, HeldCount
<1> QED
  BY <1>10, <1>11

\* flush() emits the held frame and moves the latency buffer to the inner link.
LEMMA FlushIInv == IInv /\ Flush => IInv'
<1> SUFFICES ASSUME IInv, Flush PROVE IInv'
  OBVIOUS
<1> USE DEF IInv
<1>1. link \in LinkType /\ config \in Configs /\ now \in Nat
  BY DEF TypeOK
<1>2. PICK d \in Draw :
        link' = ReleaseAll(IF link.held = None THEN link
                           ELSE Emit([link EXCEPT !.held = None], link.held, d))
  BY DEF Flush
<1> DEFINE cleared == [link EXCEPT !.held = None]
           m == IF link.held = None THEN link ELSE Emit(cleared, link.held, d)
<1>3. /\ m \in LinkType /\ m.offered = link.offered
      /\ Balanced(m, arrived)
  <2>1. CASE link.held = None
    BY <1>1, <2>1
  <2>2. CASE link.held # None
    <3>1. link.held \in Frame
      BY <1>1, <2>2, FieldTypes
    <3>2. /\ cleared \in LinkType /\ cleared.held = None
          /\ cleared.offered = link.offered /\ cleared.dropped = link.dropped
          /\ Ledger(cleared) = Ledger(link) /\ Slack(cleared) = Slack(link)
      BY <1>1, SlotEffect
    <3> HIDE DEF cleared
    <3>3. KeepsBooks(cleared, m, 1)
      BY <1>1, <2>2, <3>1, <3>2, EmitBooks
    <3>4. Ledger(link) \in Int /\ link.offered \in Nat /\ link.dropped \in Nat
      BY <1>1, FieldTypes
    <3> HIDE DEF m
    <3> QED
      BY <2>2, <3>2, <3>3, <3>4 DEF KeepsBooks, Balanced, HeldCount
  <2> QED
    BY <2>1, <2>2
<1>4. link' = Release(m, Len(m.scheduled))
  BY <1>2 DEF ReleaseAll
<1> HIDE DEF m
<1>5. KeepsBooks(m, link', 0)
  <2>1. Len(m.scheduled) \in 0 .. Len(m.scheduled)
    BY <1>3, FieldTypes
  <2> QED
    BY <1>3, <1>4, <2>1, ReleaseBooks
<1>6. TypeOK'
  <2>1. link'.offered <= MaxFrames
    BY <1>3, <1>5 DEF KeepsBooks, TypeOK
  <2> QED
    BY <1>5, <2>1, SendTypeOK DEF KeepsBooks, Flush
<1>7. Balanced(link', arrived)
  BY <1>3, <1>5, BooksBalance
<1> QED
  BY <1>6, <1>7 DEF Flush

\* The clock touches no frame.
LEMMA TickIInv == IInv /\ Tick => IInv'
<1> SUFFICES ASSUME IInv, Tick PROVE IInv'
  OBVIOUS
<1>1. now' \in 0 .. MaxTime
  BY BoundAssumption DEF IInv, TypeOK, Tick
<1>2. TypeOK'
  BY <1>1 DEF IInv, TypeOK, Tick, LinkType, Copy, Frame
<1> QED
  BY <1>2 DEF IInv, Balanced, Tick

\* The inductive invariant holds throughout.
THEOREM Inductive == Spec => []IInv
<1>1. IInv /\ [Next]_vars => IInv'
  <2> SUFFICES ASSUME IInv, [Next]_vars PROVE IInv'
    OBVIOUS
  <2>1. CASE Send
    BY <2>1, SendLostIInv, SendHeldIInv, SendPassedIInv, SendOvertakingIInv DEF Send
  <2>2. CASE Recv
    BY <2>2, RecvIInv
  <2>3. CASE Flush
    BY <2>3, FlushIInv
  <2>4. CASE Tick
    BY <2>4, TickIInv
  <2>5. CASE UNCHANGED vars
    BY <2>5 DEF IInv, TypeOK, Balanced, vars, LinkType, Copy, Frame
  <2> QED
    BY <2>1, <2>2, <2>3, <2>4, <2>5 DEF Next
<1> QED
  BY InitIInv, <1>1, PTL DEF Spec

\* Type correctness of the transport, for every set of configurations and all bounds: the
\* hold-back slot, the latency buffer, the inner queue and every counter keep their types
\* through every send(), recv() and flush().
THEOREM TypeCorrect == Spec => []TypeOK
<1>1. IInv => TypeOK
  BY DEF IInv
<1> QED
  BY <1>1, Inductive, PTL

\* The counters of the transport balance at every moment, for every set of configurations
\* and all bounds: each frame offered and not dropped, and each extra copy, has been handed
\* to the inner link or waits in the latency buffer or the hold-back slot, and everything
\* handed to the inner link waits there or was received.
THEOREM FramesConserved == Spec => []Conservation
<1>1. IInv => Conservation
  <2> SUFFICES ASSUME IInv PROVE Conservation
    OBVIOUS
  <2>1. link \in LinkType /\ arrived \in Seq(Copy)
    BY DEF IInv, TypeOK
  <2>2. /\ link.delivered \in Nat /\ link.duplicated \in Nat
        /\ link.offered \in Nat /\ link.dropped \in Nat
        /\ Len(link.scheduled) \in Nat /\ Len(link.inner) \in Nat
    BY <2>1, FieldTypes
  <2>3. Len(arrived) \in Nat
    BY <2>1, LenProperties
  <2>4. link.delivered + Len(link.scheduled) - link.duplicated + HeldCount(link)
          = link.offered - link.dropped
    BY DEF IInv, Balanced, Ledger
  <2>5. Len(arrived) + (Len(link.inner) - link.delivered) = 0
    BY DEF IInv, Balanced, Slack
  <2>6. HeldCount(link) \in Nat
    BY DEF HeldCount
  <2>7. link.delivered + Len(link.scheduled) + HeldCount(link)
          = link.offered - link.dropped + link.duplicated
    BY <2>2, <2>4, <2>6
  <2>8. Len(arrived) + Len(link.inner) = link.delivered
    BY <2>2, <2>3, <2>5
  <2> QED
    BY <2>7, <2>8 DEF HeldCount, Conservation
<1> QED
  BY <1>1, Inductive, PTL

-----------------------------------------------------------------------------
(***************************************************************************)
(* How many elements of a sequence are in a set.                           *)
(***************************************************************************)
Hits(q, M) == {i \in 1 .. Len(q) : q[i] \in M}
Count(q, M) == Cardinality(Hits(q, M))
One(condition) == IF condition THEN 1 ELSE 0

\* A sequence has finitely many elements in a set.
LEMMA CountType ==
    ASSUME NEW S, NEW q \in Seq(S), NEW M
    PROVE  IsFiniteSet(Hits(q, M)) /\ Count(q, M) \in Nat
<1>1. IsFiniteSet(1 .. Len(q))
  BY LenProperties, FS_Interval
<1>2. Hits(q, M) \in SUBSET (1 .. Len(q))
  BY DEF Hits
<1>3. IsFiniteSet(Hits(q, M))
  BY <1>1, <1>2, FS_Subset
<1> QED  BY <1>3, FS_CardinalityType DEF Count

\* Moving a set of numbers up does not change its size.
LEMMA ShiftedSize ==
    ASSUME NEW H \in SUBSET Int, IsFiniteSet(H), NEW n \in Int
    PROVE  IsFiniteSet({n + i : i \in H}) /\ Cardinality({n + i : i \in H}) = Cardinality(H)
<1> DEFINE up == {n + i : i \in H}
           f == [i \in H |-> n + i]
<1>1. f \in Bijection(H, up)
  <2>1. f \in [H -> up]
    OBVIOUS
  <2>2. \A i, j \in H : f[i] = f[j] => i = j
    OBVIOUS
  <2>3. \A u \in up : \E i \in H : f[i] = u
    OBVIOUS
  <2> HIDE DEF f, up
  <2> QED  BY <2>1, <2>2, <2>3 DEF Bijection, Injection, IsInjective, Surjection
<1>2. ExistsBijection(H, up)
  BY <1>1 DEF ExistsBijection
<1> HIDE DEF up
<1>3. IsFiniteSet(up) /\ Cardinality(up) = Cardinality(H)
  BY <1>2, FS_Bijection
<1> QED  BY <1>3 DEF up

\* The elements of a concatenation are those of its parts.
LEMMA CountConcat ==
    ASSUME NEW S, NEW s \in Seq(S), NEW t \in Seq(S), NEW M
    PROVE  Count(s \o t, M) = Count(s, M) + Count(t, M)
<1> DEFINE up == {Len(s) + i : i \in Hits(t, M)}
<1>1. /\ Len(s \o t) = Len(s) + Len(t)
      /\ \A i \in 1 .. Len(s) : (s \o t)[i] = s[i]
      /\ \A i \in Len(s) + 1 .. Len(s) + Len(t) : (s \o t)[i] = t[i - Len(s)]
  BY ConcatProperties
<1>2. Len(s) \in Nat /\ Len(t) \in Nat
  BY LenProperties
<1>3. Hits(s \o t, M) = Hits(s, M) \union up
  <2>1. ASSUME NEW i \in Hits(s \o t, M) PROVE i \in Hits(s, M) \union up
    <3>1. i \in 1 .. Len(s) + Len(t) /\ (s \o t)[i] \in M
      BY <1>1 DEF Hits
    <3>2. CASE i <= Len(s)
      BY <1>1, <1>2, <3>1, <3>2 DEF Hits
    <3>3. CASE i > Len(s)
      <4>1. i - Len(s) \in 1 .. Len(t) /\ i \in Len(s) + 1 .. Len(s) + Len(t)
        BY <1>2, <3>1, <3>3
      <4>2. t[i - Len(s)] \in M
        BY <1>1, <3>1, <4>1
      <4>3. i - Len(s) \in Hits(t, M) /\ i = Len(s) + (i - Len(s))
        BY <1>2, <3>1, <4>1, <4>2 DEF Hits
      <4> QED  BY <4>3
    <3> QED  BY <1>2, <3>1, <3>2, <3>3
  <2>2. ASSUME NEW i \in Hits(s, M) PROVE i \in Hits(s \o t, M)
    BY <1>1, <1>2 DEF Hits
  <2>3. ASSUME NEW j \in Hits(t, M) PROVE Len(s) + j \in Hits(s \o t, M)
    <3>1. j \in 1 .. Len(t) /\ t[j] \in M
      BY DEF Hits
    <3>2. /\ Len(s) + j \in Len(s) + 1 .. Len(s) + Len(t)
          /\ Len(s) + j \in 1 .. Len(s) + Len(t) /\ (Len(s) + j) - Len(s) = j
      BY <1>2, <3>1
    <3>3. (s \o t)[Len(s) + j] = t[j]
      BY <1>1, <3>2
    <3> QED  BY <1>1, <3>1, <3>2, <3>3 DEF Hits
  <2> QED  BY <2>1, <2>2, <2>3
<1>4. Hits(s, M) \intersect up = {}
  BY <1>2 DEF Hits
<1>5. IsFiniteSet(Hits(s, M)) /\ IsFiniteSet(Hits(t, M))
  BY CountType
<1>6. IsFiniteSet(up) /\ Cardinality(up) = Cardinality(Hits(t, M))
  <2>1. Hits(t, M) \in SUBSET Int
    BY DEF Hits
  <2>2. Len(s) \in Int
    BY <1>2
  <2> QED  BY <1>5, <2>1, <2>2, ShiftedSize
<1> HIDE DEF up
<1>7. Cardinality(Hits(s, M) \union up)
        = Cardinality(Hits(s, M)) + Cardinality(up) - Cardinality(Hits(s, M) \intersect up)
  BY <1>5, <1>6, FS_Union
<1>8. /\ Cardinality(Hits(s, M) \intersect up) = 0
      /\ Cardinality(Hits(s, M)) \in Nat /\ Cardinality(Hits(t, M)) \in Nat
  BY <1>4, <1>5, FS_EmptySet, FS_CardinalityType
<1> QED  BY <1>3, <1>6, <1>7, <1>8 DEF Count

\* A sequence of one element has it, or none.
LEMMA CountOne ==
    ASSUME NEW e, NEW M
    PROVE  Count(<<e>>, M) = One(e \in M)
<1>1. Hits(<<e>>, M) = IF e \in M THEN {1} ELSE {}
  BY DEF Hits
<1> QED  BY <1>1, FS_Singleton, FS_EmptySet DEF Count, One

\* A sequence is its first k elements and the others.
LEMMA Halves ==
    ASSUME NEW S, NEW q \in Seq(S), NEW k \in 0 .. Len(q)
    PROVE  /\ SubSeq(q, 1, k) \in Seq(S) /\ SubSeq(q, k + 1, Len(q)) \in Seq(S)
           /\ Len(SubSeq(q, 1, k)) = k /\ \A i \in 1 .. k : SubSeq(q, 1, k)[i] = q[i]
           /\ q = SubSeq(q, 1, k) \o SubSeq(q, k + 1, Len(q))
<1>1. Len(q) \in Nat /\ k \in Nat /\ k <= Len(q) /\ \A i \in 1 .. Len(q) : q[i] \in S
  BY LenProperties, ElementOfSeq
<1>2. /\ SubSeq(q, 1, k) \in Seq(S) /\ Len(SubSeq(q, 1, k)) = k
      /\ \A i \in 1 .. k : SubSeq(q, 1, k)[i] = q[i]
  BY <1>1, SubSeqProperties
<1>3. SubSeq(q, k + 1, Len(q)) \in Seq(S)
  <2>1. \A i \in k + 1 .. Len(q) : q[i] \in S
    BY <1>1
  <2> QED  BY <1>1, <2>1, SubSeqProperties
<1>4. SubSeq(q, 1, k) \o SubSeq(q, k + 1, Len(q)) = SubSeq(q, 1, Len(q))
  <2>1. 1 \in 1 .. Len(q) + 1 /\ k \in 1 - 1 .. Len(q) /\ Len(q) \in k .. Len(q)
    BY <1>1
  <2> QED  BY <2>1, ConcatAdjacentSubSeq
<1>5. SubSeq(q, 1, Len(q)) = q
  BY SubSeqFull
<1> QED  BY <1>2, <1>3, <1>4, <1>5

\* A sequence is its head and its tail.
LEMMA HeadAndTail ==
    ASSUME NEW S, NEW q \in Seq(S), q # <<>>
    PROVE  /\ Head(q) \in S /\ Tail(q) \in Seq(S)
           /\ q = <<Head(q)>> \o Tail(q)
<1>1. Head(q) \in S /\ Tail(q) \in Seq(S) /\ Tail(q) = SubSeq(q, 2, Len(q))
  BY HeadTailProperties, TailIsSubSeq
<1>2. Len(q) \in Nat /\ Len(q) >= 1 /\ Head(q) = q[1]
  BY LenProperties, EmptySeq
<1>3. SubSeq(q, 1, Len(q)) = <<q[1]>> \o SubSeq(q, 2, Len(q))
  <2>1. 1 \in 1 .. Len(q) /\ Len(q) \in 1 .. Len(q)
    BY <1>2
  <2>2. SubSeq(q, 1, Len(q)) = <<q[1]>> \o SubSeq(q, 1 + 1, Len(q))
    BY <2>1, SubSeqRecursiveFirst
  <2> QED  BY <2>2
<1> QED  BY <1>1, <1>2, <1>3, SubSeqFull

\* The elements of a sequence are its head and those of its tail.
LEMMA HeadCounts ==
    ASSUME NEW S, NEW q \in Seq(S), q # <<>>, NEW M
    PROVE  /\ Head(q) \in S /\ Tail(q) \in Seq(S)
           /\ Count(q, M) = Count(Tail(q), M) + One(Head(q) \in M)
<1>1. Head(q) \in S /\ Tail(q) \in Seq(S)
  BY HeadAndTail
<1>4. q = <<Head(q)>> \o Tail(q)
  BY HeadAndTail
<1>5. Count(<<Head(q)>> \o Tail(q), M) = Count(<<Head(q)>>, M) + Count(Tail(q), M)
  <2>1. <<Head(q)>> \in Seq(S)
    BY <1>1
  <2> QED  BY <1>1, <2>1, CountConcat
<1>6. Count(<<Head(q)>>, M) = One(Head(q) \in M) /\ One(Head(q) \in M) \in Nat
  BY CountOne DEF One
<1>7. Count(Tail(q), M) \in Nat
  BY <1>1, CountType
<1>8. Count(q, M) = Count(<<Head(q)>>, M) + Count(Tail(q), M)
  BY <1>4, <1>5
<1> QED  BY <1>1, <1>6, <1>7, <1>8

\* Appending an element adds it.
LEMMA AppendCounts ==
    ASSUME NEW S, NEW q \in Seq(S), NEW e \in S, NEW M
    PROVE  Count(Append(q, e), M) = Count(q, M) + One(e \in M)
<1>1. Append(q, e) = q \o <<e>>
  BY AppendIsConcat
<1>2. <<e>> \in Seq(S)
  OBVIOUS
<1>3. Count(q \o <<e>>, M) = Count(q, M) + Count(<<e>>, M)
  BY <1>2, CountConcat
<1>4. Count(<<e>>, M) = One(e \in M)
  BY CountOne
<1> QED  BY <1>1, <1>3, <1>4

-----------------------------------------------------------------------------
(* Where the copies of a frame are, as counts. *)
CopiesOf(f) == {c \in Copy : c.frame = f}
EntriesOf(f) == {e \in Entry : e.copy.frame = f}

\* In the inner queue and in the latency buffer; also in the slot; with the reader.
Queued(l, f) == Count(l.inner, CopiesOf(f)) + Count(l.scheduled, EntriesOf(f))
Inside(l, f) == Queued(l, f) + One(l.held = f)
With(got, f) == Count(got, CopiesOf(f))

\* Counting a frame among copies is counting its copies.
LEMMA CopyCounts ==
    ASSUME NEW q \in Seq(Copy), NEW f
    PROVE  CountOf(f, [i \in 1 .. Len(q) |-> q[i].frame]) = Count(q, CopiesOf(f))
<1> DEFINE frames == [i \in 1 .. Len(q) |-> q[i].frame]
<1>1. Len(q) \in Nat /\ \A i \in 1 .. Len(q) : q[i] \in Copy
  BY LenProperties, ElementOfSeq
<1>2. Len(frames) = Len(q)
  BY <1>1
<1>3. {i \in 1 .. Len(frames) : frames[i] = f} = {i \in 1 .. Len(q) : q[i].frame = f}
  BY <1>2
<1>4. Hits(q, CopiesOf(f)) = {i \in 1 .. Len(q) : q[i].frame = f}
  BY <1>1 DEF Hits, CopiesOf
<1> QED  BY <1>3, <1>4 DEF CountOf, Count

\* Counting a frame among entries of the latency buffer is counting its entries.
LEMMA EntryCounts ==
    ASSUME NEW q \in Seq(Entry), NEW f
    PROVE  CountOf(f, [i \in 1 .. Len(q) |-> q[i].copy.frame]) = Count(q, EntriesOf(f))
<1> DEFINE frames == [i \in 1 .. Len(q) |-> q[i].copy.frame]
<1>1. Len(q) \in Nat /\ \A i \in 1 .. Len(q) : q[i] \in Entry
  BY LenProperties, ElementOfSeq
<1>2. Len(frames) = Len(q)
  BY <1>1
<1>3. {i \in 1 .. Len(frames) : frames[i] = f} = {i \in 1 .. Len(q) : q[i].copy.frame = f}
  BY <1>2
<1>4. Hits(q, EntriesOf(f)) = {i \in 1 .. Len(q) : q[i].copy.frame = f}
  BY <1>1 DEF Hits, EntriesOf
<1> QED  BY <1>3, <1>4 DEF CountOf, Count

\* The model's Waiting and Received are these counts.
LEMMA Places ==
    ASSUME TypeOK, NEW f \in Frame
    PROVE  Waiting(f) = Inside(link, f) /\ Received(f) = With(arrived, f)
<1>1. link.inner \in Seq(Copy) /\ link.scheduled \in Seq(Entry) /\ arrived \in Seq(Copy)
  BY FieldTypes DEF TypeOK
<1>2. CountOf(f, InnerFrames) = Count(link.inner, CopiesOf(f))
  BY <1>1, CopyCounts DEF InnerFrames
<1>3. CountOf(f, ScheduledFrames) = Count(link.scheduled, EntriesOf(f))
  BY <1>1, EntryCounts DEF ScheduledFrames
<1>4. CountOf(f, ArrivedFrames) = Count(arrived, CopiesOf(f))
  BY <1>1, CopyCounts DEF ArrivedFrames
<1> QED  BY <1>2, <1>3, <1>4 DEF Waiting, Received, Inside, Queued, With, One

\* Counts are numbers.
LEMMA InsideType ==
    ASSUME NEW l \in LinkType, NEW f
    PROVE  Queued(l, f) \in Nat /\ Inside(l, f) \in Nat
<1>1. l.inner \in Seq(Copy) /\ l.scheduled \in Seq(Entry)
  BY FieldTypes
<1>2. Count(l.inner, CopiesOf(f)) \in Nat /\ Count(l.scheduled, EntriesOf(f)) \in Nat
  BY <1>1, CountType
<1> QED  BY <1>2 DEF Queued, Inside, One

\* heappush adds the entry and loses none, wherever it puts it.
LEMMA InsertCounts ==
    ASSUME NEW q \in Seq(Entry), NEW e \in Entry, NEW M
    PROVE  Count(InsertByRelease(q, e), M) = Count(q, M) + One(e \in M)
<1> DEFINE k == Cardinality({i \in 1 .. Len(q) : q[i].at <= e.at})
           s == SubSeq(q, 1, k)
           t == SubSeq(q, k + 1, Len(q))
<1>1. k \in 0 .. Len(q)
  <2>1. Len(q) \in Nat
    BY LenProperties
  <2>2. {i \in 1 .. Len(q) : q[i].at <= e.at} \in SUBSET (1 .. Len(q))
    OBVIOUS
  <2> QED  BY <2>1, <2>2, CountWithinLength
<1>2. InsertByRelease(q, e) = (s \o <<e>>) \o t
  BY DEF InsertByRelease
<1> HIDE DEF k
<1>3. s \in Seq(Entry) /\ t \in Seq(Entry) /\ q = s \o t
  BY <1>1, Halves
<1>4. <<e>> \in Seq(Entry)
  OBVIOUS
<1> HIDE DEF s, t
<1>5. s \o <<e>> \in Seq(Entry)
  BY <1>3, <1>4, ConcatProperties
<1>6. Count((s \o <<e>>) \o t, M) = Count(s \o <<e>>, M) + Count(t, M)
  BY <1>3, <1>5, CountConcat
<1>7. Count(s \o <<e>>, M) = Count(s, M) + One(e \in M)
  <2>1. Count(s \o <<e>>, M) = Count(s, M) + Count(<<e>>, M)
    BY <1>3, <1>4, CountConcat
  <2>2. Count(<<e>>, M) = One(e \in M)
    BY CountOne
  <2> QED  BY <2>1, <2>2
<1>8. Count(q, M) = Count(s, M) + Count(t, M)
  BY <1>3, CountConcat
<1>9. Count(s, M) \in Nat /\ Count(t, M) \in Nat
  BY <1>3, CountType
<1> QED  BY <1>2, <1>6, <1>7, <1>8, <1>9 DEF One

\* The copies of the first k entries are of the frames of those entries.
LEMMA ReleasedCounts ==
    ASSUME NEW q \in Seq(Entry), NEW k \in 0 .. Len(q), NEW f
    PROVE  /\ [i \in 1 .. k |-> q[i].copy] \in Seq(Copy)
           /\ Count([i \in 1 .. k |-> q[i].copy], CopiesOf(f))
                 = Count(SubSeq(q, 1, k), EntriesOf(f))
<1> DEFINE copies == [i \in 1 .. k |-> q[i].copy]
<1>1. Len(q) \in Nat /\ k \in Nat /\ \A i \in 1 .. Len(q) : q[i] \in Entry
  BY LenProperties, ElementOfSeq
<1>2. copies \in Seq(Copy) /\ Len(copies) = k
  <2>1. \A i \in 1 .. k : q[i].copy \in Copy
    BY <1>1 DEF Entry
  <2> QED  BY <1>1, <2>1
<1>3. /\ Len(SubSeq(q, 1, k)) = k
      /\ \A i \in 1 .. k : SubSeq(q, 1, k)[i] = q[i]
  BY Halves
<1>4. Hits(copies, CopiesOf(f)) = {i \in 1 .. k : q[i].copy.frame = f}
  <2>1. \A i \in 1 .. k : copies[i] = q[i].copy /\ q[i].copy \in Copy
    BY <1>1 DEF Entry
  <2> HIDE DEF copies
  <2> QED  BY <1>2, <2>1 DEF Hits, CopiesOf
<1>5. Hits(SubSeq(q, 1, k), EntriesOf(f)) = {i \in 1 .. k : q[i].copy.frame = f}
  BY <1>1, <1>3 DEF Hits, EntriesOf
<1> QED  BY <1>2, <1>4, <1>5 DEF Count

-----------------------------------------------------------------------------
(* What the helpers of send() and recv() do to the counts. *)

\* Scheduling a copy adds one of its frame.
LEMMA ScheduleMoves ==
    ASSUME NEW l \in LinkType, NEW copy \in Copy, NEW delay \in Nat, now \in Nat, NEW f
    PROVE  /\ Queued(Schedule(l, copy, delay), f) = Queued(l, f) + One(copy.frame = f)
           /\ Schedule(l, copy, delay).duplicated = l.duplicated
<1> DEFINE s == Schedule(l, copy, delay)
<1>1. l.scheduled \in Seq(Entry) /\ l.inner \in Seq(Copy)
  BY FieldTypes
<1>2. Count(l.inner, CopiesOf(f)) \in Nat /\ Count(l.scheduled, EntriesOf(f)) \in Nat
  BY <1>1, CountType
<1>3. CASE Timed
  <2> DEFINE e == [at |-> now + delay, copy |-> copy]
             q == InsertByRelease(l.scheduled, e)
             longest == IF delay > l.max_delay THEN delay ELSE l.max_delay
  <2>1. e \in Entry /\ (e \in EntriesOf(f) <=> copy.frame = f)
    BY DEF Entry, EntriesOf
  <2>2. s = [l EXCEPT !.scheduled = q, !.delayed = l.delayed + 1, !.max_delay = longest]
    BY <1>3 DEF Schedule
  <2> HIDE DEF e, s
  <2>3. Count(q, EntriesOf(f)) = Count(l.scheduled, EntriesOf(f)) + One(e \in EntriesOf(f))
    BY <1>1, <2>1, InsertCounts
  <2> HIDE DEF q, longest
  <2>4. s.scheduled = q /\ s.inner = l.inner /\ s.duplicated = l.duplicated
    BY <2>2 DEF LinkType
  <2>5. One(e \in EntriesOf(f)) = One(copy.frame = f) /\ One(copy.frame = f) \in Nat
    BY <2>1 DEF One
  <2>6. Queued(s, f) = Count(l.inner, CopiesOf(f))
                       + (Count(l.scheduled, EntriesOf(f)) + One(copy.frame = f))
    BY <2>3, <2>4, <2>5 DEF Queued
  <2> QED  BY <1>2, <2>4, <2>5, <2>6 DEF Queued, s
<1>4. CASE ~Timed
  <2>1. s = [l EXCEPT !.inner = l.inner \o <<copy>>, !.delivered = l.delivered + Len(<<copy>>)]
    BY <1>4 DEF Schedule, PushInner
  <2> HIDE DEF s
  <2>2. s.scheduled = l.scheduled /\ s.inner = l.inner \o <<copy>> /\ s.duplicated = l.duplicated
    BY <2>1 DEF LinkType
  <2>3. <<copy>> \in Seq(Copy)
    OBVIOUS
  <2>4. Count(l.inner \o <<copy>>, CopiesOf(f))
          = Count(l.inner, CopiesOf(f)) + Count(<<copy>>, CopiesOf(f))
    BY <1>1, <2>3, CountConcat
  <2>5. Count(<<copy>>, CopiesOf(f)) = One(copy.frame = f) /\ One(copy.frame = f) \in Nat
    BY CountOne DEF CopiesOf, One
  <2>6. Queued(s, f) = (Count(l.inner, CopiesOf(f)) + One(copy.frame = f))
                       + Count(l.scheduled, EntriesOf(f))
    BY <2>2, <2>4, <2>5 DEF Queued
  <2> QED  BY <1>2, <2>2, <2>5, <2>6 DEF Queued, s
<1> QED  BY <1>3, <1>4

\* Emitting a frame adds one copy of it, or two, and counts the second.
LEMMA EmitMoves ==
    ASSUME NEW l \in LinkType, NEW g \in Frame, NEW d \in Draw,
           config \in Configs, now \in Nat, NEW f
    PROVE  /\ Queued(Emit(l, g, d), f)
                 = Queued(l, f) + (IF f = g THEN 1 + One(d.twice) ELSE 0)
           /\ Emit(l, g, d).duplicated = l.duplicated + One(d.twice)
<1> DEFINE out == [frame |-> g, intact |-> ~d.corrupt]
           marked == [l EXCEPT !.corrupted = IF d.corrupt THEN @ + 1 ELSE @]
           once == Schedule(marked, out, d.delay)
           doubled == [once EXCEPT !.duplicated = @ + 1]
           twice == Schedule(doubled, out, d.delay2)
<1>1. d.delay \in Nat /\ d.delay2 \in Nat
  BY DrawTypes
<1>2. out \in Copy /\ out.frame = g
  BY DEF Copy
<1>3. /\ marked \in LinkType /\ marked.inner = l.inner
      /\ marked.scheduled = l.scheduled /\ marked.duplicated = l.duplicated
  <2>1. \A a \in Nat : [l EXCEPT !.corrupted = a] \in LinkType
    BY DEF LinkType
  <2>2. (IF d.corrupt THEN l.corrupted + 1 ELSE l.corrupted) \in Nat
    BY FieldTypes
  <2>3. marked \in LinkType
    BY <2>1, <2>2
  <2> QED  BY <2>3 DEF LinkType
<1> HIDE DEF out, marked
<1>4. once \in LinkType
  BY <1>1, <1>2, <1>3, ScheduleBooks DEF KeepsBooks
<1>5. Queued(once, f) = Queued(l, f) + One(g = f) /\ once.duplicated = l.duplicated
  <2>1. /\ Queued(once, f) = Queued(marked, f) + One(out.frame = f)
        /\ once.duplicated = marked.duplicated
    BY <1>1, <1>2, <1>3, ScheduleMoves
  <2> QED  BY <1>2, <1>3, <2>1 DEF Queued
<1> HIDE DEF once
<1>6. /\ doubled \in LinkType /\ doubled.inner = once.inner
      /\ doubled.scheduled = once.scheduled /\ doubled.duplicated = once.duplicated + 1
  <2>1. \A a \in Nat : [once EXCEPT !.duplicated = a] \in LinkType
    BY <1>4 DEF LinkType
  <2>2. once.duplicated + 1 \in Nat
    BY <1>4, FieldTypes
  <2> QED  BY <1>4, <2>1, <2>2 DEF LinkType
<1> HIDE DEF doubled
<1>7. Queued(twice, f) = Queued(once, f) + One(g = f) /\ twice.duplicated = once.duplicated + 1
  <2>1. /\ Queued(twice, f) = Queued(doubled, f) + One(out.frame = f)
        /\ twice.duplicated = doubled.duplicated
    BY <1>1, <1>2, <1>6, ScheduleMoves
  <2> QED  BY <1>2, <1>6, <2>1 DEF Queued
<1>8. Emit(l, g, d) = IF d.twice THEN twice ELSE once
  BY DEF Emit, twice, doubled, once, marked, out
<1> HIDE DEF twice
<1>9. Queued(l, f) \in Nat /\ l.duplicated \in Nat
  BY InsideType, FieldTypes
<1> QED  BY <1>5, <1>7, <1>8, <1>9 DEF One

\* Moving entries from the latency buffer to the inner queue keeps every count.
LEMMA ReleaseMoves ==
    ASSUME NEW l \in LinkType, NEW k \in 0 .. Len(l.scheduled), NEW f
    PROVE  /\ Queued(Release(l, k), f) = Queued(l, f)
           /\ Release(l, k).duplicated = l.duplicated
<1> DEFINE q == l.scheduled
           rest == SubSeq(q, k + 1, Len(q))
           copies == [i \in 1 .. k |-> q[i].copy]
           p == Release(l, k)
<1>1. q \in Seq(Entry) /\ l.inner \in Seq(Copy) /\ k \in 0 .. Len(q)
  BY FieldTypes
<1>2. p = [l EXCEPT !.scheduled = rest, !.inner = l.inner \o copies,
                    !.delivered = l.delivered + Len(copies)]
  BY DEF Release, PushInner, LinkType
<1> HIDE DEF q, rest, copies, p
<1>3. p.scheduled = rest /\ p.inner = l.inner \o copies /\ p.duplicated = l.duplicated
  BY <1>2 DEF LinkType
<1>4. copies \in Seq(Copy) /\ Count(copies, CopiesOf(f)) = Count(SubSeq(q, 1, k), EntriesOf(f))
  BY <1>1, ReleasedCounts DEF copies
<1>5. Count(l.inner \o copies, CopiesOf(f))
        = Count(l.inner, CopiesOf(f)) + Count(copies, CopiesOf(f))
  BY <1>1, <1>4, CountConcat
<1>6. SubSeq(q, 1, k) \in Seq(Entry) /\ rest \in Seq(Entry) /\ q = SubSeq(q, 1, k) \o rest
  BY <1>1, Halves DEF rest
<1>7. Count(q, EntriesOf(f)) = Count(SubSeq(q, 1, k), EntriesOf(f)) + Count(rest, EntriesOf(f))
  <2>1. Count(SubSeq(q, 1, k) \o rest, EntriesOf(f))
          = Count(SubSeq(q, 1, k), EntriesOf(f)) + Count(rest, EntriesOf(f))
    BY <1>6, CountConcat
  <2> QED  BY <1>6, <2>1
<1>8. /\ Count(l.inner, CopiesOf(f)) \in Nat /\ Count(rest, EntriesOf(f)) \in Nat
      /\ Count(SubSeq(q, 1, k), EntriesOf(f)) \in Nat
  BY <1>1, <1>6, CountType
<1>9. Queued(p, f) = (Count(l.inner, CopiesOf(f)) + Count(SubSeq(q, 1, k), EntriesOf(f)))
                     + Count(rest, EntriesOf(f))
  BY <1>3, <1>4, <1>5 DEF Queued
<1>10. Queued(l, f) = Count(l.inner, CopiesOf(f))
                      + (Count(SubSeq(q, 1, k), EntriesOf(f)) + Count(rest, EntriesOf(f)))
  BY <1>7 DEF Queued, q
<1> QED  BY <1>3, <1>8, <1>9, <1>10 DEF p

\* So does what recv() moves before it reads.
LEMMA ReleaseDueMoves ==
    ASSUME NEW l \in LinkType, NEW f
    PROVE  /\ Queued(ReleaseDue(l), f) = Queued(l, f)
           /\ ReleaseDue(l).duplicated = l.duplicated
<1> DEFINE due == {i \in 1 .. Len(l.scheduled) : l.scheduled[i].at <= now}
<1>1. CASE Timed
  <2>1. Len(l.scheduled) \in Nat /\ due \in SUBSET (1 .. Len(l.scheduled))
    BY FieldTypes
  <2>2. Cardinality(due) \in 0 .. Len(l.scheduled)
    BY <2>1, CountWithinLength
  <2>3. ReleaseDue(l) = Release(l, Cardinality(due))
    BY <1>1 DEF ReleaseDue
  <2> QED  BY <2>2, <2>3, ReleaseMoves
<1>2. CASE ~Timed
  BY <1>2 DEF ReleaseDue
<1> QED  BY <1>1, <1>2

-----------------------------------------------------------------------------
(***************************************************************************)
(* The inductive invariant: a frame offered is nowhere, if it was dropped, *)
(* or in one place, or in two, if it was doubled; the one in the slot has  *)
(* no other copy.                                                          *)
(***************************************************************************)
Total(l, got, f) == Inside(l, f) + With(got, f)
Absent(l, got) == {f \in 1 .. l.offered : Total(l, got, f) = 0}
Doubles(l, got) == {f \in Frame : Total(l, got, f) = 2}

Census(l, got) ==
    /\ \A f \in Frame : Total(l, got, f) \in 0 .. 2
    /\ \A f \in Frame : f > l.offered => Total(l, got, f) = 0
    /\ l.held # None => Total(l, got, l.held) = 1
    /\ l.dropped = Cardinality(Absent(l, got))
    /\ l.duplicated = Cardinality(Doubles(l, got))

\* The sets that the counters count are finite.
LEMMA FiniteFrames ==
    ASSUME NEW l \in LinkType, NEW got
    PROVE  IsFiniteSet(Absent(l, got)) /\ IsFiniteSet(Doubles(l, got))
<1>1. IsFiniteSet(1 .. l.offered) /\ IsFiniteSet(Frame)
  BY FieldTypes, BoundAssumption, FS_Interval DEF Frame
<1>2. Absent(l, got) \in SUBSET (1 .. l.offered) /\ Doubles(l, got) \in SUBSET Frame
  BY DEF Absent, Doubles
<1> QED  BY <1>1, <1>2, FS_Subset

\* A frame that had no second copy gets one, or not.
LEMMA DoublesGrow ==
    ASSUME NEW l \in LinkType, NEW m \in LinkType, NEW got, NEW f \in Frame,
           Total(l, got, f) < 2, Total(l, got, f) \in Nat, Total(m, got, f) \in 1 .. 2,
           \A g \in Frame \ {f} : Total(m, got, g) = Total(l, got, g)
    PROVE  Cardinality(Doubles(m, got))
             = Cardinality(Doubles(l, got)) + One(Total(m, got, f) = 2)
<1>1. IsFiniteSet(Doubles(l, got)) /\ Cardinality(Doubles(l, got)) \in Nat
  BY FiniteFrames, FS_CardinalityType
<1>2. f \notin Doubles(l, got)
  BY DEF Doubles
<1>3. CASE Total(m, got, f) = 2
  <2>1. Doubles(m, got) = Doubles(l, got) \union {f}
    BY <1>3 DEF Doubles
  <2> QED  BY <1>1, <1>2, <1>3, <2>1, FS_AddElement DEF One
<1>4. CASE Total(m, got, f) # 2
  <2>1. Doubles(m, got) = Doubles(l, got)
    BY <1>2, <1>4 DEF Doubles
  <2> QED  BY <1>1, <1>4, <2>1 DEF One
<1> QED  BY <1>3, <1>4

\* Copies move about.
LEMMA CensusMoves ==
    ASSUME NEW l \in LinkType, NEW m \in LinkType, NEW got, NEW got2, Census(l, got),
           m.offered = l.offered, m.held = l.held, m.held \in Frame \union {None},
           m.dropped = l.dropped, m.duplicated = l.duplicated, l.offered <= MaxFrames,
           \A f \in Frame : Total(m, got2, f) = Total(l, got, f)
    PROVE  Census(m, got2) /\ Absent(m, got2) = Absent(l, got)
<1>1. l.offered \in Nat /\ 1 .. l.offered \subseteq Frame
  BY FieldTypes, BoundAssumption DEF Frame
<1>2. Absent(m, got2) = Absent(l, got) /\ Doubles(m, got2) = Doubles(l, got)
  BY <1>1 DEF Absent, Doubles
<1> QED  BY <1>2 DEF Census

\* The next frame is dropped.
LEMMA CensusLoses ==
    ASSUME NEW l \in LinkType, NEW m \in LinkType, NEW got, Census(l, got),
           m.offered = l.offered + 1, m.offered \in Frame, m.held = l.held,
           m.held \in Frame \union {None},
           m.dropped = l.dropped + 1, m.duplicated = l.duplicated,
           \A f \in Frame : Total(m, got, f) = Total(l, got, f)
    PROVE  Census(m, got) /\ Absent(m, got) = Absent(l, got) \union {m.offered}
<1> DEFINE new == m.offered
<1>1. l.offered \in Nat /\ 1 .. new = (1 .. l.offered) \union {new} /\ 1 .. new \subseteq Frame
  BY FieldTypes, BoundAssumption DEF Frame
<1>2. new > l.offered /\ Total(l, got, new) = 0
  BY <1>1 DEF Census
<1>3. Absent(m, got) = Absent(l, got) \union {new} /\ new \notin Absent(l, got)
  BY <1>1, <1>2 DEF Absent
<1>4. Cardinality(Absent(m, got)) = Cardinality(Absent(l, got)) + 1
  BY <1>3, FiniteFrames, FS_AddElement
<1>5. Doubles(m, got) = Doubles(l, got)
  BY DEF Doubles
<1>6. \A f \in Frame : f > m.offered => f > l.offered
  BY <1>1 DEF Frame
<1> QED  BY <1>3, <1>4, <1>5, <1>6 DEF Census

\* The next frame comes in, once or twice; it may be held if once.
LEMMA CensusEnters ==
    ASSUME NEW l \in LinkType, NEW m \in LinkType, NEW got, Census(l, got),
           m.offered = l.offered + 1, m.offered \in Frame,
           m.held = l.held \/ (m.held = m.offered /\ Total(m, got, m.offered) = 1),
           l.held \in Frame \union {None},
           m.dropped = l.dropped, Total(m, got, m.offered) \in 1 .. 2,
           m.duplicated = l.duplicated + One(Total(m, got, m.offered) = 2),
           \A f \in Frame \ {m.offered} : Total(m, got, f) = Total(l, got, f)
    PROVE  Census(m, got) /\ Absent(m, got) = Absent(l, got)
<1> DEFINE new == m.offered
<1>1. l.offered \in Nat /\ 1 .. new = (1 .. l.offered) \union {new} /\ 1 .. new \subseteq Frame
  BY SMTT(30), FieldTypes, BoundAssumption DEF Frame
<1>2. new > l.offered /\ Total(l, got, new) = 0 /\ new \notin 1 .. l.offered
  BY <1>1 DEF Census
<1>3. Absent(m, got) = Absent(l, got)
  BY <1>1, <1>2 DEF Absent
<1>4. Cardinality(Doubles(m, got)) = Cardinality(Doubles(l, got)) + One(Total(m, got, new) = 2)
  BY <1>2, DoublesGrow
<1>5. \A f \in Frame : f > new => f > l.offered /\ f # new
  BY <1>1 DEF Frame
<1>6. \A f \in Frame : Total(m, got, f) \in 0 .. 2
  BY DEF Census
<1>7. m.held # None => Total(m, got, m.held) = 1
  <2>1. CASE m.held = l.held /\ m.held # None
    <3>1. m.held # new
      BY <1>2, <2>1 DEF Census
    <3> QED  BY <2>1, <3>1 DEF Census
  <2> QED  BY <2>1
<1> QED  BY <1>3, <1>4, <1>5, <1>6, <1>7 DEF Census

\* The held frame comes out of the slot, once or twice.
LEMMA CensusReleases ==
    ASSUME NEW l \in LinkType, NEW m \in LinkType, NEW got, Census(l, got),
           l.offered <= MaxFrames, m.offered = l.offered, l.held \in Frame, m.held = None,
           m.dropped = l.dropped, Total(m, got, l.held) \in 1 .. 2,
           m.duplicated = l.duplicated + One(Total(m, got, l.held) = 2),
           \A f \in Frame \ {l.held} : Total(m, got, f) = Total(l, got, f)
    PROVE  Census(m, got) /\ Absent(m, got) = Absent(l, got)
<1>1. l.offered \in Nat /\ 1 .. l.offered \subseteq Frame
  BY FieldTypes, BoundAssumption DEF Frame
<1>2. l.held # None /\ Total(l, got, l.held) = 1 /\ ~(l.held > l.offered)
  BY BoundAssumption DEF Census, Frame, None
<1>3. Absent(m, got) = Absent(l, got)
  BY <1>1, <1>2 DEF Absent
<1>4. Cardinality(Doubles(m, got)) = Cardinality(Doubles(l, got)) + One(Total(m, got, l.held) = 2)
  BY <1>2, DoublesGrow
<1>5. \A f \in Frame : Total(m, got, f) \in 0 .. 2
  BY DEF Census
<1>6. \A f \in Frame : f > m.offered => Total(m, got, f) = 0
  BY <1>2 DEF Census
<1> QED  BY <1>3, <1>4, <1>5, <1>6 DEF Census

-----------------------------------------------------------------------------
(* The steps of the abstract link. *)

Viewed ==
    /\ Vanished = Absent(link, arrived)
    /\ \A f \in Frame : Waiting(f) = Inside(link, f) /\ Received(f) = With(arrived, f)

\* What the abstract link sees of a state.
LEMMA View == TypeOK => Viewed
<1> SUFFICES ASSUME TypeOK PROVE Viewed
  OBVIOUS
<1>1. link \in LinkType /\ link.offered \in Nat /\ link.offered <= MaxFrames
  BY FieldTypes DEF TypeOK
<1>2. \A f \in Frame : Waiting(f) = Inside(link, f) /\ Received(f) = With(arrived, f)
  BY Places
<1>3. 1 .. link.offered \subseteq Frame
  BY <1>1, BoundAssumption DEF Frame
<1>4. \A f \in 1 .. link.offered : Waiting(f) + Received(f) = Total(link, arrived, f)
  BY <1>2, <1>3 DEF Total
<1> QED  BY <1>2, <1>4 DEF Vanished, Absent, Viewed

\* A send() offers a new frame.
LEMMA Offers ==
    ASSUME TypeOK, TypeOK', link'.offered = link.offered + 1
    PROVE  /\ link.offered + 1 \in Frame /\ link.offered + 1 \notin 1 .. link.offered
           /\ 1 .. link'.offered = (1 .. link.offered) \union {link.offered + 1}
<1>1. link.offered \in Nat
  BY FieldTypes DEF TypeOK
<1>2. link'.offered <= MaxFrames
  BY DEF TypeOK
<1> QED  BY <1>1, <1>2, BoundAssumption DEF Frame

\* A send() after which the new frame is nowhere is a loss of the abstract link.
LEMMA Loses ==
    ASSUME TypeOK, TypeOK', link'.offered = link.offered + 1, arrived' = arrived,
           Absent(link', arrived') = Absent(link, arrived) \union {link.offered + 1},
           \A g \in Frame : Inside(link', g) = Inside(link, g)
    PROVE  Abstract!Next
<1> DEFINE f == link.offered + 1
<1>1. f \in Frame /\ f \notin 1 .. link.offered
      /\ 1 .. link'.offered = (1 .. link.offered) \union {f}
  BY Offers
<1>2. /\ Vanished = Absent(link, arrived)
      /\ \A g \in Frame : Waiting(g) = Inside(link, g) /\ Received(g) = With(arrived, g)
  BY View DEF Viewed
<1>3. /\ Vanished' = Absent(link', arrived')
      /\ \A g \in Frame : Waiting(g)' = Inside(link', g) /\ Received(g)' = With(arrived', g)
  <2>1. Viewed'
    BY View, PTL
  <2> QED  BY <2>1 DEF Viewed
<1>4. Abstract!Lose(f)
  BY <1>1, <1>2, <1>3 DEF Abstract!Lose
<1> QED  BY <1>1, <1>4 DEF Abstract!Next

\* A send() that puts the new frame in, and doubles those of D, is an acceptance.
LEMMA Accepts ==
    ASSUME TypeOK, TypeOK', link'.offered = link.offered + 1, arrived' = arrived,
           Absent(link', arrived') = Absent(link, arrived), NEW c \in 1 .. 2,
           NEW D \in SUBSET Frame,
           \A g \in D : Inside(link, g) = 1 /\ With(arrived, g) = 0,
           \A g \in Frame : Inside(link', g) = IF g = link.offered + 1 THEN c
                                             ELSE IF g \in D THEN 2 ELSE Inside(link, g)
    PROVE  Abstract!Next
<1> DEFINE f == link.offered + 1
<1>1. f \in Frame /\ f \notin 1 .. link.offered
      /\ 1 .. link'.offered = (1 .. link.offered) \union {f}
  BY Offers
<1>2. /\ Vanished = Absent(link, arrived)
      /\ \A g \in Frame : Waiting(g) = Inside(link, g) /\ Received(g) = With(arrived, g)
  BY View DEF Viewed
<1>3. /\ Vanished' = Absent(link', arrived')
      /\ \A g \in Frame : Waiting(g)' = Inside(link', g) /\ Received(g)' = With(arrived', g)
  <2>1. Viewed'
    BY View, PTL
  <2> QED  BY <2>1 DEF Viewed
<1>4. Abstract!Accept(f, c, D)
  BY <1>1, <1>2, <1>3 DEF Abstract!Accept
<1>5. D \in SUBSET Abstract!Single
  BY <1>2 DEF Abstract!Single
<1> QED  BY <1>1, <1>4, <1>5 DEF Abstract!Next

\* A flush() that doubles the frames of D is a doubling.
LEMMA DoublesThem ==
    ASSUME TypeOK, TypeOK', link'.offered = link.offered, arrived' = arrived,
           Absent(link', arrived') = Absent(link, arrived), NEW D \in SUBSET Frame,
           \A g \in D : Inside(link, g) = 1 /\ With(arrived, g) = 0,
           \A g \in Frame : Inside(link', g) = IF g \in D THEN 2 ELSE Inside(link, g)
    PROVE  Abstract!Next
<1>2. /\ Vanished = Absent(link, arrived)
      /\ \A g \in Frame : Waiting(g) = Inside(link, g) /\ Received(g) = With(arrived, g)
  BY View DEF Viewed
<1>3. /\ Vanished' = Absent(link', arrived')
      /\ \A g \in Frame : Waiting(g)' = Inside(link', g) /\ Received(g)' = With(arrived', g)
  <2>1. Viewed'
    BY View, PTL
  <2> QED  BY <2>1 DEF Viewed
<1>4. Abstract!Double(D)
  BY <1>2, <1>3 DEF Abstract!Double
<1>5. D \in SUBSET Abstract!Single
  BY <1>2 DEF Abstract!Single
<1> QED  BY <1>4, <1>5 DEF Abstract!Next

\* A recv() that moves one copy from inside to the reader is a taking.
LEMMA Takes ==
    ASSUME TypeOK, TypeOK', link'.offered = link.offered,
           Absent(link', arrived') = Absent(link, arrived), NEW f \in Frame,
           Inside(link, f) > 0,
           \A g \in Frame : /\ Inside(link', g) = Inside(link, g) - One(g = f)
                            /\ With(arrived', g) = With(arrived, g) + One(g = f)
    PROVE  Abstract!Next
<1>2. /\ Vanished = Absent(link, arrived)
      /\ \A g \in Frame : Waiting(g) = Inside(link, g) /\ Received(g) = With(arrived, g)
  BY View DEF Viewed
<1>3. /\ Vanished' = Absent(link', arrived')
      /\ \A g \in Frame : Waiting(g)' = Inside(link', g) /\ Received(g)' = With(arrived', g)
  <2>1. Viewed'
    BY View, PTL
  <2> QED  BY <2>1 DEF Viewed
<1>4. \A g \in Frame : Inside(link, g) \in Nat /\ With(arrived, g) \in Nat
  <2>1. link \in LinkType /\ arrived \in Seq(Copy)
    BY DEF TypeOK
  <2> QED  BY <2>1, InsideType, CountType DEF With
<1>5. [g \in Frame |-> Waiting(g)]' = [[g \in Frame |-> Waiting(g)] EXCEPT ![f] = @ - 1]
  <2>1. [g \in Frame |-> Waiting(g)]' = [g \in Frame |-> Inside(link, g) - One(g = f)]
    BY <1>3
  <2>2. [[g \in Frame |-> Waiting(g)] EXCEPT ![f] = @ - 1]
          = [g \in Frame |-> IF g = f THEN Inside(link, g) - 1 ELSE Inside(link, g)]
    BY <1>2
  <2>3. \A g \in Frame : Inside(link, g) - One(g = f)
                           = IF g = f THEN Inside(link, g) - 1 ELSE Inside(link, g)
    BY <1>4 DEF One
  <2> QED  BY <2>1, <2>2, <2>3
<1>6. [g \in Frame |-> Received(g)]' = [[g \in Frame |-> Received(g)] EXCEPT ![f] = @ + 1]
  <2>1. [g \in Frame |-> Received(g)]' = [g \in Frame |-> With(arrived, g) + One(g = f)]
    BY <1>3
  <2>2. [[g \in Frame |-> Received(g)] EXCEPT ![f] = @ + 1]
          = [g \in Frame |-> IF g = f THEN With(arrived, g) + 1 ELSE With(arrived, g)]
    BY <1>2
  <2>3. \A g \in Frame : With(arrived, g) + One(g = f)
                           = IF g = f THEN With(arrived, g) + 1 ELSE With(arrived, g)
    BY <1>4 DEF One
  <2> QED  BY <2>1, <2>2, <2>3
<1>7. Abstract!Take(f)
  BY <1>2, <1>3, <1>5, <1>6 DEF Abstract!Take
<1> QED  BY <1>7 DEF Abstract!Next

-----------------------------------------------------------------------------
(* Every action keeps the census and is a step of the abstract link. *)

\* A frame with no copy is nowhere, and one whose only copy is in the slot is nowhere else.
LEMMA Vacant ==
    ASSUME NEW l \in LinkType, NEW got \in Seq(Copy), NEW f
    PROVE  /\ Queued(l, f) \in Nat /\ Inside(l, f) \in Nat /\ With(got, f) \in Nat
           /\ Total(l, got, f) = 0 => Queued(l, f) = 0 /\ With(got, f) = 0 /\ l.held # f
           /\ Total(l, got, f) = 1 /\ l.held = f => Queued(l, f) = 0 /\ With(got, f) = 0
<1>1. Queued(l, f) \in Nat /\ Inside(l, f) \in Nat
  BY InsideType
<1>2. With(got, f) \in Nat
  <2>1. Count(got, CopiesOf(f)) \in Nat
    BY CountType
  <2> QED  BY <2>1 DEF With
<1>3. Total(l, got, f) = Queued(l, f) + One(l.held = f) + With(got, f)
  BY DEF Total, Inside
<1>4. /\ One(l.held = f) \in Nat
      /\ One(l.held = f) = 0 => l.held # f
      /\ l.held = f => One(l.held = f) = 1
  BY DEF One
<1> QED  BY <1>1, <1>2, <1>3, <1>4

\* What is known of a link that send() finds with room for one more frame.
LEMMA NextVacant ==
    ASSUME TypeOK, Census(link, arrived), link.offered < MaxFrames
    PROVE  /\ Offered(link) \in LinkType
           /\ Offered(link).offered = link.offered + 1
           /\ Offered(link).held = link.held /\ Offered(link).dropped = link.dropped
           /\ Offered(link).duplicated = link.duplicated
           /\ \A g : Queued(Offered(link), g) = Queued(link, g)
           /\ link.offered + 1 \in Frame
           /\ Queued(link, link.offered + 1) = 0 /\ With(arrived, link.offered + 1) = 0
           /\ link.held # link.offered + 1 /\ link.offered + 1 # None
<1> DEFINE new == link.offered + 1
<1>1. link \in LinkType /\ arrived \in Seq(Copy) /\ link.offered \in Nat
  BY FieldTypes DEF TypeOK
<1>2. /\ Offered(link) \in LinkType /\ Offered(link).offered = link.offered + 1
      /\ Offered(link).held = link.held /\ Offered(link).dropped = link.dropped
  BY <1>1, OfferedEffect
<1>3. /\ Offered(link).duplicated = link.duplicated
      /\ Offered(link).inner = link.inner /\ Offered(link).scheduled = link.scheduled
  BY <1>1 DEF Offered, LinkType
<1>4. \A g : Queued(Offered(link), g) = Queued(link, g)
  BY <1>3 DEF Queued
<1>5. new \in Frame /\ new # None
  BY NextFrame
<1>6. Total(link, arrived, new) = 0
  BY <1>1, <1>5 DEF Census
<1> HIDE DEF new
<1>7. Queued(link, new) = 0 /\ With(arrived, new) = 0 /\ link.held # new
  BY <1>1, <1>6, Vacant
<1> QED  BY <1>2, <1>3, <1>4, <1>5, <1>7 DEF new

\* The next frame comes in and nothing else moves.
LEMMA EnterCensus ==
    ASSUME NEW m \in LinkType, link \in LinkType, arrived \in Seq(Copy),
           Census(link, arrived), NEW c \in 1 .. 2,
           link.offered + 1 \in Frame, With(arrived, link.offered + 1) = 0,
           m.offered = link.offered + 1, m.dropped = link.dropped,
           m.held = link.held \/ (m.held = link.offered + 1 /\ c = 1),
           m.duplicated = link.duplicated + One(c = 2),
           \A g \in Frame : Inside(m, g) = IF g = link.offered + 1 THEN c ELSE Inside(link, g)
    PROVE  Census(m, arrived) /\ Absent(m, arrived) = Absent(link, arrived)
<1>1. Total(m, arrived, m.offered) = c
  BY DEF Total
<1>2. \A g \in Frame \ {m.offered} : Total(m, arrived, g) = Total(link, arrived, g)
  BY DEF Total
<1>3. link.held \in Frame \union {None}
  BY FieldTypes
<1>4. m.held = link.held \/ (m.held = m.offered /\ Total(m, arrived, m.offered) = 1)
  BY <1>1
<1>5. /\ m.offered = link.offered + 1 /\ m.offered \in Frame
      /\ Total(m, arrived, m.offered) \in 1 .. 2 /\ m.dropped = link.dropped
      /\ m.duplicated = link.duplicated + One(Total(m, arrived, m.offered) = 2)
  BY <1>1
<1> QED  BY <1>2, <1>3, <1>4, <1>5, CensusEnters

\* An acceptance that doubles no other frame.
LEMMA AcceptAlone ==
    ASSUME TypeOK, TypeOK', link'.offered = link.offered + 1, arrived' = arrived,
           Absent(link', arrived') = Absent(link, arrived), NEW c \in 1 .. 2,
           \A g \in Frame : Inside(link', g) = IF g = link.offered + 1 THEN c
                                              ELSE Inside(link, g)
    PROVE  Abstract!Next
<1>1. \A g \in {} : Inside(link, g) = 1 /\ With(arrived, g) = 0
  OBVIOUS
<1>2. \A g \in Frame : Inside(link', g) = IF g = link.offered + 1 THEN c
                                         ELSE IF g \in {} THEN 2 ELSE Inside(link, g)
  OBVIOUS
<1>3. {} \in SUBSET Frame
  OBVIOUS
<1> QED  BY <1>1, <1>2, <1>3, Accepts

\* Emitting a frame adds its copies and changes neither the slot nor what was offered.
LEMMA EmitEffect ==
    ASSUME NEW l \in LinkType, NEW g \in Frame, NEW d \in Draw,
           config \in Configs, now \in Nat
    PROVE  /\ Emit(l, g, d) \in LinkType
           /\ Emit(l, g, d).held = l.held /\ Emit(l, g, d).offered = l.offered
           /\ Emit(l, g, d).dropped = l.dropped
           /\ Emit(l, g, d).duplicated = l.duplicated + One(1 + One(d.twice) = 2)
           /\ \A f : Queued(Emit(l, g, d), f)
                       = Queued(l, f) + (IF f = g THEN 1 + One(d.twice) ELSE 0)
           /\ 1 + One(d.twice) \in 1 .. 2
<1>1. KeepsBooks(l, Emit(l, g, d), 1)
  BY EmitBooks
<1>2. \A f : Queued(Emit(l, g, d), f) = Queued(l, f) + (IF f = g THEN 1 + One(d.twice) ELSE 0)
  BY EmitMoves
<1>3. Emit(l, g, d).duplicated = l.duplicated + One(d.twice)
  BY EmitMoves
<1>4. One(1 + One(d.twice) = 2) = One(d.twice) /\ 1 + One(d.twice) \in 1 .. 2
  BY DEF One
<1> QED  BY <1>1, <1>2, <1>3, <1>4 DEF KeepsBooks

\* The held frame leaves the slot in one or two copies.
LEMMA ReleaseHeld ==
    ASSUME NEW l \in LinkType, NEW m \in LinkType, NEW got \in Seq(Copy), NEW c \in 1 .. 2,
           Census(l, got), l.held \in Frame, l.offered <= MaxFrames,
           m.held = None, m.offered = l.offered, m.dropped = l.dropped,
           m.duplicated = l.duplicated + One(c = 2),
           \A g : Queued(m, g) = Queued(l, g) + (IF g = l.held THEN c ELSE 0)
    PROVE  /\ Census(m, got) /\ Absent(m, got) = Absent(l, got)
           /\ \A g \in Frame : Inside(m, g) = IF g = l.held THEN c ELSE Inside(l, g)
           /\ Inside(l, l.held) = 1 /\ With(got, l.held) = 0
<1>1. \A g \in Frame : g # None
  BY BoundAssumption DEF Frame, None
<1>2. Total(l, got, l.held) = 1
  BY <1>1 DEF Census
<1>3. Queued(l, l.held) = 0 /\ With(got, l.held) = 0
  BY <1>2, Vacant
<1>4. \A g : Queued(l, g) \in Nat
  BY InsideType
<1>5. Inside(l, l.held) = 1
  BY <1>3 DEF Inside, One
<1>6. \A g \in Frame : Inside(m, g) = IF g = l.held THEN c ELSE Inside(l, g)
  BY <1>1, <1>3, <1>4 DEF Inside, One
<1>7. Total(m, got, l.held) = c
  BY <1>3, <1>6 DEF Total
<1>8. \A g \in Frame \ {l.held} : Total(m, got, g) = Total(l, got, g)
  BY <1>6 DEF Total
<1>9. Census(m, got) /\ Absent(m, got) = Absent(l, got)
  BY <1>7, <1>8, CensusReleases
<1> QED  BY <1>3, <1>5, <1>6, <1>9

\* send() draws a loss.
LEMMA LostStep ==
    ASSUME TypeOK, TypeOK', Census(link, arrived), SendLost
    PROVE  Census(link', arrived') /\ Abstract!Next
<1> DEFINE l == Offered(link)
           new == link.offered + 1
<1>1. /\ link \in LinkType /\ link' \in LinkType /\ link.held \in Frame \union {None}
      /\ link.offered < MaxFrames /\ arrived' = arrived
      /\ link' = [l EXCEPT !.dropped = l.dropped + 1]
  BY FieldTypes DEF TypeOK, SendLost
<1>2. /\ l \in LinkType /\ l.offered = new /\ l.held = link.held /\ l.dropped = link.dropped
      /\ l.duplicated = link.duplicated /\ \A g : Queued(l, g) = Queued(link, g)
      /\ new \in Frame
  BY <1>1, NextVacant
<1> HIDE DEF l
<1>3. /\ link'.offered = l.offered /\ link'.held = l.held /\ link'.duplicated = l.duplicated
      /\ link'.dropped = l.dropped + 1
      /\ link'.inner = l.inner /\ link'.scheduled = l.scheduled
  BY <1>1, <1>2 DEF LinkType
<1>4. \A g : Inside(link', g) = Inside(link, g)
  BY <1>2, <1>3 DEF Inside, Queued
<1>5. \A g : Total(link', arrived, g) = Total(link, arrived, g)
  BY <1>4 DEF Total
<1> HIDE DEF new
<1>6. /\ link'.offered = new /\ link'.held = link.held /\ link'.dropped = link.dropped + 1
      /\ link'.duplicated = link.duplicated
  BY <1>2, <1>3
<1>7. /\ Census(link', arrived)
      /\ Absent(link', arrived) = Absent(link, arrived) \union {link'.offered}
  <2>1. link \in LinkType /\ link' \in LinkType
    BY <1>1
  <2>2. link'.offered = link.offered + 1 /\ link'.offered \in Frame
    BY <1>2, <1>6 DEF new
  <2>3. /\ link'.held = link.held /\ link'.held \in Frame \union {None}
        /\ link'.dropped = link.dropped + 1 /\ link'.duplicated = link.duplicated
    BY <1>1, <1>6
  <2>4. \A f \in Frame : Total(link', arrived, f) = Total(link, arrived, f)
    BY <1>5
  <2> QED  BY <2>1, <2>2, <2>3, <2>4, CensusLoses
<1>8. Abstract!Next
  BY <1>1, <1>4, <1>6, <1>7, Loses DEF new
<1> QED  BY <1>1, <1>7, <1>8

\* send() puts the frame in the slot.
LEMMA HeldStep ==
    ASSUME TypeOK, TypeOK', Census(link, arrived), SendHeld
    PROVE  Census(link', arrived') /\ Abstract!Next
<1> DEFINE l == Offered(link)
           new == link.offered + 1
<1>1. /\ link \in LinkType /\ link' \in LinkType /\ arrived \in Seq(Copy)
      /\ link.offered < MaxFrames /\ arrived' = arrived /\ link.held = None
      /\ link' = [l EXCEPT !.held = new]
  BY DEF TypeOK, SendHeld
<1>2. /\ l \in LinkType /\ l.offered = new /\ l.held = link.held /\ l.dropped = link.dropped
      /\ l.duplicated = link.duplicated /\ \A g : Queued(l, g) = Queued(link, g)
      /\ new \in Frame /\ Queued(link, new) = 0 /\ With(arrived, new) = 0
  BY <1>1, NextVacant
<1> HIDE DEF l
<1>3. /\ link'.offered = new /\ link'.held = new /\ link'.duplicated = link.duplicated
      /\ link'.dropped = link.dropped
      /\ link'.inner = l.inner /\ link'.scheduled = l.scheduled
  BY <1>1, <1>2 DEF LinkType
<1>4. \A g \in Frame : g # None
  BY BoundAssumption DEF Frame, None
<1> HIDE DEF new
<1>5. \A g : Queued(link', g) = Queued(link, g) /\ Queued(link, g) \in Nat
  BY <1>1, <1>2, <1>3, InsideType DEF Queued
<1>6. \A g \in Frame : Inside(link', g) = IF g = new THEN 1 ELSE Inside(link, g)
  BY <1>1, <1>2, <1>3, <1>4, <1>5 DEF Inside, One
<1>7. Census(link', arrived) /\ Absent(link', arrived) = Absent(link, arrived)
  <2>1. One(1 = 2) = 0 /\ link.duplicated \in Nat /\ 1 \in 1 .. 2
    BY <1>1, FieldTypes DEF One
  <2>2. link'.duplicated = link.duplicated + One(1 = 2)
    BY <1>3, <2>1
  <2>3. /\ link.offered + 1 \in Frame /\ With(arrived, link.offered + 1) = 0
        /\ link'.offered = link.offered + 1 /\ link'.dropped = link.dropped
        /\ link'.held = link.offered + 1
    BY <1>2, <1>3 DEF new
  <2>4. \A g \in Frame : Inside(link', g) = IF g = link.offered + 1 THEN 1 ELSE Inside(link, g)
    BY <1>6 DEF new
  <2>5. link \in LinkType /\ link' \in LinkType /\ arrived \in Seq(Copy)
    BY <1>1
  <2> QED  BY <2>1, <2>2, <2>3, <2>4, <2>5, EnterCensus
<1>8. Abstract!Next
  <2>1. /\ link'.offered = link.offered + 1 /\ arrived' = arrived
        /\ Absent(link', arrived') = Absent(link, arrived)
    BY <1>1, <1>3, <1>7 DEF new
  <2>2. \A g \in Frame : Inside(link', g) = IF g = link.offered + 1 THEN 1 ELSE Inside(link, g)
    BY <1>6 DEF new
  <2>3. 1 \in 1 .. 2
    OBVIOUS
  <2> QED  BY <2>1, <2>2, <2>3, AcceptAlone
<1> QED  BY <1>1, <1>7, <1>8

\* send() emits the frame.
LEMMA PassedStep ==
    ASSUME TypeOK, TypeOK', Census(link, arrived), SendPassed
    PROVE  Census(link', arrived') /\ Abstract!Next
<1> DEFINE l == Offered(link)
           new == link.offered + 1
<1>1. /\ link \in LinkType /\ link' \in LinkType /\ arrived \in Seq(Copy)
      /\ config \in Configs /\ now \in Nat
      /\ link.offered < MaxFrames /\ arrived' = arrived /\ link.held = None
  BY DEF TypeOK, SendPassed
<1>2. PICK d \in Draw : link' = Emit(l, new, d)
  BY DEF SendPassed
<1>3. /\ l \in LinkType /\ l.offered = new /\ l.held = link.held /\ l.dropped = link.dropped
      /\ l.duplicated = link.duplicated /\ \A g : Queued(l, g) = Queued(link, g)
      /\ new \in Frame /\ Queued(link, new) = 0 /\ With(arrived, new) = 0
      /\ link.held # new
  BY <1>1, NextVacant
<1> HIDE DEF l, new
<1> DEFINE c == 1 + One(d.twice)
<1>4. /\ link'.held = l.held /\ link'.offered = l.offered /\ link'.dropped = l.dropped
      /\ link'.duplicated = l.duplicated + One(c = 2)
      /\ \A g : Queued(link', g) = Queued(l, g) + (IF g = new THEN c ELSE 0)
      /\ c \in 1 .. 2
  <2>1. l \in LinkType /\ new \in Frame /\ config \in Configs /\ now \in Nat
    BY <1>1, <1>3
  <2> QED  BY <1>2, <2>1, EmitEffect
<1> HIDE DEF c
<1>5. \A g : Queued(link, g) \in Nat
  BY <1>1, InsideType
<1>6. \A g \in Frame : Inside(link', g) = IF g = new THEN c ELSE Inside(link, g)
  BY <1>3, <1>4, <1>5 DEF Inside, One
<1>7. Census(link', arrived) /\ Absent(link', arrived) = Absent(link, arrived)
  <2>1. /\ link.offered + 1 \in Frame /\ With(arrived, link.offered + 1) = 0
        /\ link'.offered = link.offered + 1 /\ link'.dropped = link.dropped
        /\ link'.held = link.held /\ link'.duplicated = link.duplicated + One(c = 2)
    BY <1>3, <1>4 DEF new
  <2>2. \A g \in Frame : Inside(link', g) = IF g = link.offered + 1 THEN c ELSE Inside(link, g)
    BY <1>6 DEF new
  <2>3. link \in LinkType /\ link' \in LinkType /\ arrived \in Seq(Copy) /\ c \in 1 .. 2
    BY <1>1, <1>4
  <2> QED  BY <2>1, <2>2, <2>3, EnterCensus
<1>8. Abstract!Next
  <2>1. /\ link'.offered = link.offered + 1 /\ arrived' = arrived
        /\ Absent(link', arrived') = Absent(link, arrived) /\ c \in 1 .. 2
    BY <1>1, <1>3, <1>4, <1>7 DEF new
  <2>2. \A g \in Frame : Inside(link', g) = IF g = link.offered + 1 THEN c ELSE Inside(link, g)
    BY <1>6 DEF new
  <2> QED  BY <2>1, <2>2, AcceptAlone
<1> QED  BY <1>1, <1>7, <1>8

\* Clearing the slot touches no queue.
LEMMA OvertakenMoves ==
    ASSUME NEW l \in LinkType
    PROVE  /\ Overtaken(l) \in LinkType /\ Overtaken(l).held = None
           /\ Overtaken(l).offered = l.offered /\ Overtaken(l).dropped = l.dropped
           /\ Overtaken(l).duplicated = l.duplicated
           /\ \A g : Queued(Overtaken(l), g) = Queued(l, g)
<1> DEFINE o == Overtaken(l)
<1>1. o = [l EXCEPT !.held = None, !.reordered = l.reordered + 1]
  BY DEF Overtaken
<1>2. l.reordered + 1 \in Nat
  BY FieldTypes
<1> HIDE DEF o
<1>3. o \in LinkType
  <2>1. \A a \in Nat : [l EXCEPT !.held = None, !.reordered = a] \in LinkType
    BY DEF LinkType
  <2> QED  BY <1>1, <1>2, <2>1
<1>4. /\ o.held = None /\ o.offered = l.offered /\ o.dropped = l.dropped
      /\ o.duplicated = l.duplicated /\ o.inner = l.inner /\ o.scheduled = l.scheduled
  BY <1>1 DEF LinkType
<1>5. \A g : Queued(o, g) = Queued(l, g)
  BY <1>4 DEF Queued
<1> QED  BY <1>3, <1>4, <1>5 DEF o

\* send() emits the frame and then the held one.
LEMMA OvertakingStep ==
    ASSUME TypeOK, TypeOK', Census(link, arrived), SendOvertaking
    PROVE  Census(link', arrived') /\ Abstract!Next
<1> DEFINE l == Offered(link)
           new == link.offered + 1
<1>1. /\ link \in LinkType /\ link' \in LinkType /\ arrived \in Seq(Copy)
      /\ config \in Configs /\ now \in Nat /\ link.held \in Frame
      /\ link.offered < MaxFrames /\ arrived' = arrived
  BY FieldTypes DEF TypeOK, SendOvertaking
<1>2. PICK d, h \in Draw : link' = Emit(Overtaken(Emit(l, new, d)), link.held, h)
  BY DEF SendOvertaking
<1>3. /\ l \in LinkType /\ l.offered = new /\ l.held = link.held /\ l.dropped = link.dropped
      /\ l.duplicated = link.duplicated /\ \A g : Queued(l, g) = Queued(link, g)
      /\ new \in Frame /\ Queued(link, new) = 0 /\ With(arrived, new) = 0
      /\ link.held # new
  BY <1>1, NextVacant
<1>4. new <= MaxFrames
  BY <1>1, NextFrame
<1> HIDE DEF l, new
<1> DEFINE first == Emit(l, new, d)
           over == Overtaken(first)
           c == 1 + One(d.twice)
           k == 1 + One(h.twice)
<1>5. /\ first \in LinkType /\ first.held = l.held /\ first.offered = l.offered
      /\ first.dropped = l.dropped /\ first.duplicated = l.duplicated + One(c = 2)
      /\ \A g : Queued(first, g) = Queued(l, g) + (IF g = new THEN c ELSE 0)
      /\ c \in 1 .. 2
  <2>1. l \in LinkType /\ new \in Frame /\ config \in Configs /\ now \in Nat
    BY <1>1, <1>3
  <2> QED  BY <2>1, EmitEffect
<1> HIDE DEF first, c
<1>6. /\ over \in LinkType /\ over.held = None /\ over.offered = first.offered
      /\ over.dropped = first.dropped /\ over.duplicated = first.duplicated
      /\ \A g : Queued(over, g) = Queued(first, g)
  BY <1>5, OvertakenMoves
<1>7. link' = Emit(over, link.held, h)
  BY <1>2 DEF first, over
<1> HIDE DEF over
<1>8. /\ link'.held = over.held /\ link'.offered = over.offered /\ link'.dropped = over.dropped
      /\ link'.duplicated = over.duplicated + One(k = 2)
      /\ \A g : Queued(link', g) = Queued(over, g) + (IF g = link.held THEN k ELSE 0)
      /\ k \in 1 .. 2
  <2>1. over \in LinkType /\ link.held \in Frame /\ config \in Configs /\ now \in Nat
    BY <1>1, <1>6
  <2> QED  BY <1>7, <2>1, EmitEffect
<1> HIDE DEF k
<1>9. \A g \in Frame : Inside(first, g) = IF g = new THEN c ELSE Inside(link, g)
  <2>1. \A g : Queued(link, g) \in Nat
    BY <1>1, InsideType
  <2> QED  BY <1>3, <1>5, <2>1 DEF Inside, One
<1>10. Census(first, arrived) /\ Absent(first, arrived) = Absent(link, arrived)
  <2>1. /\ link.offered + 1 \in Frame /\ With(arrived, link.offered + 1) = 0
        /\ first.offered = link.offered + 1 /\ first.dropped = link.dropped
        /\ first.held = link.held /\ first.duplicated = link.duplicated + One(c = 2)
    BY <1>3, <1>5 DEF new
  <2>2. \A g \in Frame : Inside(first, g) = IF g = link.offered + 1 THEN c ELSE Inside(link, g)
    BY <1>9 DEF new
  <2>3. link \in LinkType /\ first \in LinkType /\ arrived \in Seq(Copy) /\ c \in 1 .. 2
    BY <1>1, <1>5
  <2> QED  BY <2>1, <2>2, <2>3, EnterCensus
<1>11. /\ Census(link', arrived) /\ Absent(link', arrived) = Absent(first, arrived)
       /\ \A g \in Frame : Inside(link', g) = IF g = link.held THEN k ELSE Inside(first, g)
       /\ With(arrived, link.held) = 0
  <2>1. /\ first.held = link.held /\ first.offered <= MaxFrames
        /\ link'.held = None /\ link'.offered = first.offered /\ link'.dropped = first.dropped
        /\ link'.duplicated = first.duplicated + One(k = 2)
    BY <1>3, <1>4, <1>5, <1>6, <1>8
  <2>2. \A g : Queued(link', g) = Queued(first, g) + (IF g = first.held THEN k ELSE 0)
    BY <1>6, <1>8, <2>1
  <2>3. /\ first \in LinkType /\ link' \in LinkType /\ arrived \in Seq(Copy)
        /\ k \in 1 .. 2 /\ first.held \in Frame /\ Census(first, arrived)
    BY <1>1, <1>5, <1>8, <1>10, <2>1
  <2>4. /\ Census(link', arrived) /\ Absent(link', arrived) = Absent(first, arrived)
        /\ \A g \in Frame : Inside(link', g) = IF g = first.held THEN k ELSE Inside(first, g)
        /\ With(arrived, first.held) = 0
    BY <2>1, <2>2, <2>3, ReleaseHeld
  <2> QED  BY <2>1, <2>4
<1>12. Abstract!Next
  <2> DEFINE D == {g \in Frame : g = link.held /\ k = 2}
  <2>1. Inside(link, link.held) = 1
    <3>1. Inside(first, link.held) = Inside(link, link.held)
      BY <1>1, <1>3, <1>9
    <3>2. Total(first, arrived, link.held) = 1
      BY <1>1, <1>3, <1>5, <1>10, BoundAssumption DEF Census, Frame, None
    <3>3. Inside(first, link.held) \in Nat
      BY <1>5, InsideType
    <3> QED  BY <1>11, <3>1, <3>2, <3>3 DEF Total
  <2>2. \A g \in D : Inside(link, g) = 1 /\ With(arrived, g) = 0
    BY <1>11, <2>1
  <2>3. \A g \in Frame : Inside(link', g) = IF g = new THEN c
                                           ELSE IF g \in D THEN 2 ELSE Inside(link, g)
    BY <1>3, <1>8, <1>9, <1>11, <2>1
  <2>4. D \in SUBSET Frame
    OBVIOUS
  <2> HIDE DEF D
  <2>5. /\ link'.offered = link.offered + 1 /\ arrived' = arrived
        /\ Absent(link', arrived') = Absent(link, arrived) /\ c \in 1 .. 2
    <3>1. link'.offered = link.offered + 1
      BY <1>3, <1>5, <1>6, <1>8 DEF new
    <3>2. Absent(link', arrived') = Absent(link, arrived)
      BY <1>1, <1>10, <1>11
    <3> QED  BY <1>1, <1>5, <3>1, <3>2
  <2>6. \A g \in Frame : Inside(link', g) = IF g = link.offered + 1 THEN c
                                           ELSE IF g \in D THEN 2 ELSE Inside(link, g)
    BY <2>3 DEF new
  <2> QED  BY <2>2, <2>4, <2>5, <2>6, Accepts
<1> QED  BY <1>1, <1>11, <1>12

\* recv() returns a frame.
LEMMA RecvStep ==
    ASSUME TypeOK, TypeOK', Census(link, arrived), Recv
    PROVE  Census(link', arrived') /\ Abstract!Next
<1> DEFINE ready == ReleaseDue(link)
           head == Head(ready.inner)
<1>1. /\ link \in LinkType /\ link' \in LinkType /\ arrived \in Seq(Copy)
      /\ link.offered <= MaxFrames
  BY DEF TypeOK
<1>2. /\ ready.inner # <<>> /\ link' = [ready EXCEPT !.inner = Tail(ready.inner)]
      /\ arrived' = Append(arrived, head)
  BY DEF Recv
<1>3. /\ ready \in LinkType /\ ready.held = link.held /\ ready.offered = link.offered
      /\ ready.dropped = link.dropped
  <2>1. KeepsBooks(link, ready, 0)
    BY <1>1, ReleaseDueBooks
  <2> QED  BY <2>1 DEF KeepsBooks
<1>4. ready.duplicated = link.duplicated /\ \A g : Queued(ready, g) = Queued(link, g)
  BY <1>1, ReleaseDueMoves
<1> HIDE DEF ready
<1>5. ready.inner \in Seq(Copy) /\ ready.scheduled \in Seq(Entry)
  BY <1>3, FieldTypes
<1>6. head \in Copy /\ Tail(ready.inner) \in Seq(Copy)
  BY <1>2, <1>5, HeadTailProperties
<1>7. /\ link'.inner = Tail(ready.inner) /\ link'.scheduled = ready.scheduled
      /\ link'.held = ready.held /\ link'.offered = ready.offered
      /\ link'.dropped = ready.dropped /\ link'.duplicated = ready.duplicated
  BY <1>2, <1>3 DEF LinkType
<1>8. head.frame \in Frame
  BY <1>6 DEF Copy
<1>9. \A g : head \in CopiesOf(g) <=> g = head.frame
  BY <1>6 DEF CopiesOf
<1>10. \A g : Count(ready.inner, CopiesOf(g))
                 = Count(Tail(ready.inner), CopiesOf(g)) + One(g = head.frame)
  <2>1. \A M : Count(ready.inner, M) = Count(Tail(ready.inner), M) + One(head \in M)
    BY <1>2, <1>5, HeadCounts
  <2>2. \A g : One(head \in CopiesOf(g)) = One(g = head.frame)
    BY <1>9 DEF One
  <2> QED  BY <2>1, <2>2
<1> HIDE DEF head
<1>11. \A g : With(arrived', g) = With(arrived, g) + One(g = head.frame)
  <2>1. \A M : Count(Append(arrived, head), M) = Count(arrived, M) + One(head \in M)
    BY <1>1, <1>6, AppendCounts
  <2>2. \A g : One(head \in CopiesOf(g)) = One(g = head.frame)
    BY <1>9 DEF One
  <2> QED  BY <1>2, <2>1, <2>2 DEF With
<1>12. \A g : /\ Count(Tail(ready.inner), CopiesOf(g)) \in Nat
               /\ Count(ready.scheduled, EntriesOf(g)) \in Nat
               /\ With(arrived, g) \in Nat
  <2>1. \A g : Count(Tail(ready.inner), CopiesOf(g)) \in Nat
    BY <1>6, CountType
  <2>2. \A g : Count(ready.scheduled, EntriesOf(g)) \in Nat
    BY <1>5, CountType
  <2>3. \A g : With(arrived, g) \in Nat
    BY <1>1, CountType DEF With
  <2> QED  BY <2>1, <2>2, <2>3
<1>13. \A g : Inside(link', g) \in Nat /\ Inside(link, g) = Inside(link', g) + One(g = head.frame)
  <2>1. \A g : Queued(link', g)
                 = Count(Tail(ready.inner), CopiesOf(g)) + Count(ready.scheduled, EntriesOf(g))
    BY <1>7 DEF Queued
  <2>2. \A g : Queued(link, g) = (Count(Tail(ready.inner), CopiesOf(g)) + One(g = head.frame))
                                 + Count(ready.scheduled, EntriesOf(g))
    BY <1>4, <1>10 DEF Queued
  <2>3. link'.held = link.held
    BY <1>3, <1>7
  <2> QED  BY <1>12, <2>1, <2>2, <2>3 DEF Inside, One
<1>14. /\ link'.offered = link.offered /\ link'.held = link.held
       /\ link'.dropped = link.dropped /\ link'.duplicated = link.duplicated
  BY <1>3, <1>4, <1>7
<1>15. Census(link', arrived') /\ Absent(link', arrived') = Absent(link, arrived)
  <2>1. \A f \in Frame : Total(link', arrived', f) = Total(link, arrived, f)
    BY <1>11, <1>12, <1>13 DEF Total, One
  <2>2. link'.held \in Frame \union {None}
    BY <1>1, FieldTypes
  <2> QED  BY <1>1, <1>14, <2>1, <2>2, CensusMoves
<1>16. Abstract!Next
  <2>1. \A g \in Frame : /\ Inside(link', g) = Inside(link, g) - One(g = head.frame)
                         /\ With(arrived', g) = With(arrived, g) + One(g = head.frame)
    BY <1>11, <1>13 DEF One
  <2>2. Inside(link, head.frame) > 0
    BY <1>13 DEF One
  <2> QED  BY <1>8, <1>14, <1>15, <2>1, <2>2, Takes
<1> QED  BY <1>15, <1>16

\* flush() emits the held frame and empties the latency buffer.
LEMMA FlushStep ==
    ASSUME TypeOK, TypeOK', Census(link, arrived), Flush
    PROVE  Census(link', arrived') /\ Abstract!Next
<1>1. /\ link \in LinkType /\ link' \in LinkType /\ arrived \in Seq(Copy)
      /\ config \in Configs /\ now \in Nat /\ link.offered <= MaxFrames
      /\ arrived' = arrived
  BY DEF TypeOK, Flush
<1>2. PICK d \in Draw :
        link' = ReleaseAll(IF link.held = None THEN link
                           ELSE Emit([link EXCEPT !.held = None], link.held, d))
  BY DEF Flush
<1> DEFINE cleared == [link EXCEPT !.held = None]
           m == IF link.held = None THEN link ELSE Emit(cleared, link.held, d)
           k == 1 + One(d.twice)
           D == {g \in Frame : g = link.held /\ k = 2}
<1>3. \A g \in Frame : g # None
  BY BoundAssumption DEF Frame, None
<1>4. /\ m \in LinkType /\ m.offered = link.offered /\ m.held = None
      /\ Census(m, arrived) /\ Absent(m, arrived) = Absent(link, arrived)
      /\ \A g \in Frame : Inside(m, g) = IF g \in D THEN 2 ELSE Inside(link, g)
      /\ \A g \in D : Inside(link, g) = 1 /\ With(arrived, g) = 0
  <2>1. CASE link.held = None
    <3>1. m = link
      BY <2>1
    <3>2. D = {}
      BY <1>3, <2>1
    <3> QED  BY <1>1, <2>1, <3>1, <3>2
  <2>2. CASE link.held # None
    <3>1. link.held \in Frame
      BY <1>1, <2>2, FieldTypes
    <3>2. /\ cleared \in LinkType /\ cleared.held = None /\ cleared.offered = link.offered
          /\ cleared.dropped = link.dropped /\ cleared.duplicated = link.duplicated
          /\ cleared.inner = link.inner /\ cleared.scheduled = link.scheduled
      BY <1>1 DEF LinkType
    <3>3. \A g : Queued(cleared, g) = Queued(link, g)
      BY <3>2 DEF Queued
    <3>4. m = Emit(cleared, link.held, d)
      BY <2>2
    <3> HIDE DEF cleared, m
    <3>5. /\ m \in LinkType /\ m.held = cleared.held /\ m.offered = cleared.offered
          /\ m.dropped = cleared.dropped /\ m.duplicated = cleared.duplicated + One(k = 2)
          /\ \A g : Queued(m, g) = Queued(cleared, g) + (IF g = link.held THEN k ELSE 0)
          /\ k \in 1 .. 2
      <4>1. config \in Configs /\ now \in Nat /\ cleared \in LinkType
        BY <1>1, <3>2
      <4> QED  BY <3>1, <3>4, <4>1, EmitEffect
    <3> HIDE DEF k, D
    <3>6. /\ m.held = None /\ m.offered = link.offered /\ m.dropped = link.dropped
          /\ m.duplicated = link.duplicated + One(k = 2)
      BY <3>2, <3>5
    <3>7. \A g : Queued(m, g) = Queued(link, g) + (IF g = link.held THEN k ELSE 0)
      BY <3>3, <3>5
    <3>8. /\ Census(m, arrived) /\ Absent(m, arrived) = Absent(link, arrived)
          /\ \A g \in Frame : Inside(m, g) = IF g = link.held THEN k ELSE Inside(link, g)
          /\ Inside(link, link.held) = 1 /\ With(arrived, link.held) = 0
      <4>1. /\ link \in LinkType /\ m \in LinkType /\ arrived \in Seq(Copy)
            /\ k \in 1 .. 2 /\ link.offered <= MaxFrames
        BY <1>1, <3>5
      <4> QED  BY <3>1, <3>6, <3>7, <4>1, ReleaseHeld
    <3>9. \A g \in Frame : Inside(m, g) = IF g \in D THEN 2 ELSE Inside(link, g)
      BY <3>5, <3>8 DEF D
    <3>10. \A g \in D : Inside(link, g) = 1 /\ With(arrived, g) = 0
      BY <3>8 DEF D
    <3> QED  BY <3>5, <3>6, <3>8, <3>9, <3>10
  <2> QED  BY <2>1, <2>2
<1>5. link' = Release(m, Len(m.scheduled))
  BY <1>2 DEF ReleaseAll
<1>6. D \in SUBSET Frame
  OBVIOUS
<1> HIDE DEF m, k, D
<1>7. Len(m.scheduled) \in 0 .. Len(m.scheduled)
  BY <1>4, FieldTypes
<1>8. /\ link'.held = m.held /\ link'.offered = m.offered /\ link'.dropped = m.dropped
  <2>1. KeepsBooks(m, link', 0)
    BY <1>4, <1>5, <1>7, ReleaseBooks
  <2> QED  BY <2>1 DEF KeepsBooks
<1>9. link'.duplicated = m.duplicated /\ \A g : Queued(link', g) = Queued(m, g)
  <2>1. m \in LinkType
    BY <1>4
  <2> QED  BY <1>5, <1>7, <2>1, ReleaseMoves
<1>10. \A g : Inside(link', g) = Inside(m, g)
  BY <1>8, <1>9 DEF Inside
<1>11. Census(link', arrived) /\ Absent(link', arrived) = Absent(m, arrived)
  <2>1. \A f \in Frame : Total(link', arrived, f) = Total(m, arrived, f)
    BY <1>10 DEF Total
  <2>2. /\ m \in LinkType /\ link' \in LinkType /\ Census(m, arrived)
        /\ link'.held \in Frame \union {None} /\ m.offered <= MaxFrames
    BY <1>1, <1>4, FieldTypes
  <2> QED  BY <1>8, <1>9, <2>1, <2>2, CensusMoves
<1>12. Abstract!Next
  <2>1. /\ link'.offered = link.offered /\ arrived' = arrived
        /\ Absent(link', arrived') = Absent(link, arrived)
    BY <1>1, <1>4, <1>8, <1>11
  <2>2. \A g \in Frame : Inside(link', g) = IF g \in D THEN 2 ELSE Inside(link, g)
    BY <1>4, <1>10
  <2>3. \A g \in D : Inside(link, g) = 1 /\ With(arrived, g) = 0
    BY <1>4
  <2> QED  BY <1>6, <2>1, <2>2, <2>3, DoublesThem
<1> QED  BY <1>1, <1>11, <1>12

\* The clock, and a step of no action, move no frame.
LEMMA StillStep ==
    ASSUME TypeOK, TypeOK', Census(link, arrived), link' = link, arrived' = arrived
    PROVE  Census(link', arrived') /\ UNCHANGED Abstract!vars
<1>1. /\ Vanished = Absent(link, arrived)
      /\ \A g \in Frame : Waiting(g) = Inside(link, g) /\ Received(g) = With(arrived, g)
  BY View DEF Viewed
<1>2. /\ Vanished' = Absent(link', arrived')
      /\ \A g \in Frame : Waiting(g)' = Inside(link', g) /\ Received(g)' = With(arrived', g)
  <2>1. Viewed'
    BY View, PTL
  <2> QED  BY <2>1 DEF Viewed
<1>3. [g \in Frame |-> Waiting(g)]' = [g \in Frame |-> Waiting(g)]
  BY <1>1, <1>2
<1>4. [g \in Frame |-> Received(g)]' = [g \in Frame |-> Received(g)]
  BY <1>1, <1>2
<1> QED  BY <1>1, <1>2, <1>3, <1>4 DEF Abstract!vars

\* A new transport has no frame.
LEMMA InitStep ==
    ASSUME Init
    PROVE  Census(link, arrived) /\ Abstract!Init
<1>1. TypeOK /\ link \in LinkType
  BY InitIInv DEF IInv, TypeOK
<1>2. /\ link.inner = <<>> /\ link.scheduled = <<>> /\ arrived = <<>> /\ link.held = None
      /\ link.offered = 0 /\ link.dropped = 0 /\ link.duplicated = 0
  BY DEF Init
<1>3. \A M : Count(<<>>, M) = 0
  <2>1. \A M : Hits(<<>>, M) = {}
    BY DEF Hits
  <2> QED  BY <2>1, FS_EmptySet DEF Count
<1>4. \A g \in Frame : g # None
  BY BoundAssumption DEF Frame, None
<1>5. \A g \in Frame : Inside(link, g) = 0 /\ With(arrived, g) = 0
  BY <1>2, <1>3, <1>4 DEF Inside, Queued, With, One
<1>6. \A g \in Frame : Total(link, arrived, g) = 0
  BY <1>5 DEF Total
<1>7. 1 .. link.offered = {}
  BY <1>2
<1>8. Absent(link, arrived) = {} /\ Doubles(link, arrived) = {}
  BY <1>6, <1>7 DEF Absent, Doubles
<1>9. Census(link, arrived)
  <2>1. Cardinality(Absent(link, arrived)) = 0 /\ Cardinality(Doubles(link, arrived)) = 0
    BY <1>8, FS_EmptySet
  <2>2. \A g \in Frame : Total(link, arrived, g) \in 0 .. 2
    BY <1>6
  <2> QED  BY <1>2, <1>6, <2>1, <2>2 DEF Census
<1>10. /\ Vanished = {}
       /\ \A g \in Frame : Waiting(g) = 0 /\ Received(g) = 0
  BY <1>1, <1>5, <1>8, View DEF Viewed
<1> QED  BY <1>7, <1>9, <1>10 DEF Abstract!Init

-----------------------------------------------------------------------------
\* Every step keeps the census and is a step of the abstract link, or none.
LEMMA Step ==
    ASSUME TypeOK, TypeOK', Census(link, arrived), [Next]_vars
    PROVE  Census(link', arrived') /\ [Abstract!Next]_(Abstract!vars)
<1>1. CASE Send
  BY <1>1, LostStep, HeldStep, PassedStep, OvertakingStep DEF Send
<1>2. CASE Recv
  BY <1>2, RecvStep
<1>3. CASE Flush
  BY <1>3, FlushStep
<1>4. CASE Tick
  BY <1>4, StillStep DEF Tick
<1>5. CASE UNCHANGED vars
  BY <1>5, StillStep DEF vars
<1> QED  BY <1>1, <1>2, <1>3, <1>4, <1>5 DEF Next

Counted == Census(link, arrived)

\* The census holds throughout.
LEMMA CensusHolds == Spec => []Counted
<1>1. Init => Counted
  BY InitStep DEF Counted
<1>2. Counted /\ TypeOK /\ TypeOK' /\ [Next]_vars => Counted'
  BY Step DEF Counted
<1> QED  BY <1>1, <1>2, TypeCorrect, PTL DEF Spec

\* For every set of configurations and all bounds, `dropped` is the number of frames of
\* which no copy is left anywhere, and `duplicated` the number of those that have two.
THEOREM CountersTellAll == Spec => []CountersTell
<1>1. Counted /\ TypeOK => CountersTell
  <2> SUFFICES ASSUME Census(link, arrived), TypeOK PROVE CountersTell
    BY DEF Counted
  <2>1. /\ Vanished = Absent(link, arrived)
        /\ \A g \in Frame : Waiting(g) = Inside(link, g) /\ Received(g) = With(arrived, g)
    BY View DEF Viewed
  <2>2. {f \in Frame : Waiting(f) + Received(f) = 2} = Doubles(link, arrived)
    BY <2>1 DEF Doubles, Total
  <2> QED  BY <2>1, <2>2 DEF CountersTell, Census
<1> QED  BY <1>1, CensusHolds, TypeCorrect, PTL

\* For every set of configurations and all bounds, the transport is a lossy link: send()
\* loses a frame at once or keeps it, no frame has more than two copies, and a frame kept
\* is neither lost nor invented by the hold-back slot, the latency buffer or flush().
THEOREM ImplementsLossyLink == Spec => IsLossyLink
<1>1. Init => Abstract!Init
  BY InitStep
<1>2. Counted /\ TypeOK /\ TypeOK' /\ [Next]_vars => [Abstract!Next]_(Abstract!vars)
  BY Step DEF Counted
<1> QED  BY <1>1, <1>2, CensusHolds, TypeCorrect, PTL DEF Spec, IsLossyLink, Abstract!Spec

-----------------------------------------------------------------------------
(* What a program that owns the transport can count on at each call. *)

\* send() counts the frame as offered.
LEMMA SendOffers ==
    ASSUME TypeOK, Send
    PROVE  link'.offered = link.offered + 1 /\ arrived' = arrived
<1>1. /\ link \in LinkType /\ config \in Configs /\ now \in Nat
      /\ link.held \in Frame \union {None}
  BY FieldTypes DEF TypeOK
<1>2. Offered(link) \in LinkType /\ Offered(link).offered = link.offered + 1
  BY <1>1, OfferedEffect
<1>3. CASE SendLost
  <2>1. link' = [Offered(link) EXCEPT !.dropped = @ + 1] /\ arrived' = arrived
    BY <1>3 DEF SendLost
  <2> QED  BY <1>2, <2>1 DEF LinkType
<1>4. CASE SendHeld
  <2>1. link' = [Offered(link) EXCEPT !.held = link.offered + 1] /\ arrived' = arrived
    BY <1>4 DEF SendHeld
  <2> QED  BY <1>2, <2>1 DEF LinkType
<1>5. CASE SendPassed
  <2>1. /\ link.offered < MaxFrames /\ arrived' = arrived
        /\ \E d \in Draw : link' = Emit(Offered(link), link.offered + 1, d)
    BY <1>5 DEF SendPassed
  <2>2. link.offered + 1 \in Frame
    BY <2>1, NextFrame
  <2>3. PICK d \in Draw : link' = Emit(Offered(link), link.offered + 1, d)
    BY <2>1
  <2>4. Emit(Offered(link), link.offered + 1, d).offered = Offered(link).offered
    BY <1>1, <1>2, <2>2, EmitEffect
  <2> QED  BY <1>2, <2>1, <2>3, <2>4
<1>6. CASE SendOvertaking
  <2>1. /\ link.offered < MaxFrames /\ arrived' = arrived /\ link.held # None
        /\ \E d, h \in Draw :
              link' = Emit(Overtaken(Emit(Offered(link), link.offered + 1, d)), link.held, h)
    BY <1>6 DEF SendOvertaking
  <2>2. link.offered + 1 \in Frame /\ link.held \in Frame
    BY <1>1, <2>1, NextFrame
  <2>3. PICK d, h \in Draw :
          link' = Emit(Overtaken(Emit(Offered(link), link.offered + 1, d)), link.held, h)
    BY <2>1
  <2> DEFINE e == Emit(Offered(link), link.offered + 1, d)
  <2>4. e \in LinkType /\ e.offered = Offered(link).offered
    BY <1>1, <1>2, <2>2, EmitEffect
  <2> HIDE DEF e
  <2>5. Overtaken(e) \in LinkType /\ Overtaken(e).offered = e.offered
    BY <2>4, OvertakenMoves
  <2>6. Emit(Overtaken(e), link.held, h).offered = Overtaken(e).offered
    BY <1>1, <2>2, <2>5, EmitEffect
  <2> QED  BY <1>2, <2>1, <2>3, <2>4, <2>5, <2>6 DEF e
<1> QED  BY <1>3, <1>4, <1>5, <1>6 DEF Send

\* recv() returns one copy of a frame and offers nothing; it fills neither the slot nor the
\* latency buffer.
LEMMA RecvTakes ==
    ASSUME TypeOK, Recv
    PROVE  /\ link'.offered = link.offered /\ now' = now /\ config' = config
           /\ \E copy \in Copy : arrived' = Append(arrived, copy)
           /\ ~Backlog => ~Backlog'
<1> DEFINE ready == ReleaseDue(link)
<1>1. link \in LinkType
  BY DEF TypeOK
<1>2. /\ ready.inner # <<>> /\ link' = [ready EXCEPT !.inner = Tail(ready.inner)]
      /\ arrived' = Append(arrived, Head(ready.inner)) /\ now' = now /\ config' = config
  BY DEF Recv
<1>3. ready \in LinkType /\ ready.held = link.held /\ ready.offered = link.offered
  <2>1. KeepsBooks(link, ready, 0)
    BY <1>1, ReleaseDueBooks
  <2> QED  BY <2>1 DEF KeepsBooks
<1>4. link.scheduled = <<>> => ready.scheduled = <<>>
  <2> SUFFICES ASSUME link.scheduled = <<>> PROVE ready.scheduled = <<>>
    OBVIOUS
  <2>1. CASE ~Timed
    BY <2>1 DEF ReleaseDue
  <2>2. CASE Timed
    <3>1. {i \in 1 .. Len(link.scheduled) : link.scheduled[i].at <= now} = {}
      OBVIOUS
    <3>2. ready = Release(link, 0)
      BY <2>2, <3>1, FS_EmptySet DEF ReleaseDue
    <3>3. ready.scheduled = SubSeq(link.scheduled, 1, Len(link.scheduled))
      BY <1>1, <3>2 DEF Release, PushInner, LinkType
    <3> QED  BY <3>3, SubSeqFull, FieldTypes, <1>1
  <2> QED  BY <2>1, <2>2
<1> HIDE DEF ready
<1>5. Head(ready.inner) \in Copy
  BY <1>2, <1>3, FieldTypes, HeadTailProperties
<1>6. link'.offered = ready.offered /\ link'.held = ready.held /\ link'.scheduled = ready.scheduled
  BY <1>2, <1>3 DEF LinkType
<1> QED  BY <1>2, <1>3, <1>4, <1>5, <1>6 DEF Backlog

\* When nothing is in the latency buffer, recv() sees the inner queue as it is.
LEMMA NothingDue ==
    ASSUME TypeOK, link.scheduled = <<>>
    PROVE  ReleaseDue(link).inner = link.inner
<1>1. link \in LinkType
  BY DEF TypeOK
<1>2. CASE ~Timed
  BY <1>2 DEF ReleaseDue
<1>3. CASE Timed
  <2>1. {i \in 1 .. Len(link.scheduled) : link.scheduled[i].at <= now} = {}
    OBVIOUS
  <2>2. ReleaseDue(link) = Release(link, 0)
    BY <1>3, <2>1, FS_EmptySet DEF ReleaseDue
  <2>3. ReleaseDue(link).inner = link.inner \o [i \in 1 .. 0 |-> link.scheduled[i].copy]
    BY <1>1, <2>2 DEF Release, PushInner, LinkType
  <2>4. [i \in 1 .. 0 |-> link.scheduled[i].copy] = <<>>
    OBVIOUS
  <2>5. link.inner \o <<>> = link.inner
    BY <1>1, FieldTypes, ConcatEmptySeq
  <2> QED  BY <2>3, <2>4, <2>5
<1> QED  BY <1>2, <1>3

\* flush() leaves the slot and the latency buffer empty, and offers and delivers nothing.
LEMMA FlushEmpties ==
    ASSUME TypeOK, Flush
    PROVE  /\ link'.offered = link.offered /\ arrived' = arrived
           /\ now' = now /\ config' = config /\ ~Backlog'
<1>1. /\ link \in LinkType /\ config \in Configs /\ now \in Nat
      /\ link.held \in Frame \union {None}
  BY FieldTypes DEF TypeOK
<1>2. PICK d \in Draw :
        link' = ReleaseAll(IF link.held = None THEN link
                           ELSE Emit([link EXCEPT !.held = None], link.held, d))
  BY DEF Flush
<1> DEFINE m == IF link.held = None THEN link ELSE Emit([link EXCEPT !.held = None], link.held, d)
<1>3. m \in LinkType /\ m.held = None /\ m.offered = link.offered
  <2>1. CASE link.held = None
    BY <1>1, <2>1
  <2>2. CASE link.held # None
    <3> DEFINE l == [link EXCEPT !.held = None]
    <3>1. l \in LinkType /\ l.held = None /\ l.offered = link.offered
      BY <1>1 DEF LinkType
    <3>2. link.held \in Frame /\ m = Emit(l, link.held, d)
      BY <1>1, <2>2
    <3> HIDE DEF l
    <3>3. /\ Emit(l, link.held, d) \in LinkType /\ Emit(l, link.held, d).held = l.held
          /\ Emit(l, link.held, d).offered = l.offered
      BY <1>1, <3>1, <3>2, EmitEffect
    <3> QED  BY <3>1, <3>2, <3>3
  <2> QED  BY <2>1, <2>2
<1> HIDE DEF m
<1>4. link' = Release(m, Len(m.scheduled))
  BY <1>2 DEF ReleaseAll, m
<1>5. /\ link'.held = m.held /\ link'.offered = m.offered
      /\ link'.scheduled = SubSeq(m.scheduled, Len(m.scheduled) + 1, Len(m.scheduled))
  BY <1>3, <1>4 DEF Release, PushInner, LinkType
<1>6. m.scheduled \in Seq(Entry) /\ Len(m.scheduled) \in Nat
  BY <1>3, FieldTypes
<1>7. SubSeq(m.scheduled, Len(m.scheduled) + 1, Len(m.scheduled)) = <<>>
  BY <1>6, SubSeqEmpty
<1>8. ~Backlog'
  BY <1>3, <1>5, <1>7 DEF Backlog
<1> QED  BY <1>3, <1>5, <1>8 DEF Flush

\* Where the copies of a frame are is a number, and a frame not yet offered has none.
LEMMA PlaceTypes ==
    ASSUME TypeOK, Counted
    PROVE  /\ \A g \in Frame : Waiting(g) \in Nat /\ Received(g) \in Nat
           /\ \A g \in Frame : g > link.offered => Waiting(g) = 0 /\ Received(g) = 0
           /\ \A g \in Frame : Waiting(g) + Received(g) <= 2
<1>1. \A g \in Frame : Waiting(g) = Inside(link, g) /\ Received(g) = With(arrived, g)
  BY View DEF Viewed
<1>2. \A g : Inside(link, g) \in Nat /\ With(arrived, g) \in Nat
  <2>1. link \in LinkType /\ arrived \in Seq(Copy)
    BY DEF TypeOK
  <2> QED  BY <2>1, InsideType, CountType DEF With
<1>3. \A g \in Frame : /\ Inside(link, g) + With(arrived, g) \in 0 .. 2
                       /\ g > link.offered => Inside(link, g) + With(arrived, g) = 0
  BY DEF Counted, Census, Total
<1> QED  BY <1>1, <1>2, <1>3

\* send() loses the new frame or puts it in, once or twice, and may double others.
LEMMA SendView ==
    ASSUME TypeOK, TypeOK', Counted, Send, NEW new, new = link.offered + 1
    PROVE  /\ new \in Frame /\ link'.offered = new /\ arrived' = arrived
           /\ \/ /\ Vanished' = Vanished \union {new}
                 /\ \A g \in Frame : Waiting(g)' = Waiting(g)
              \/ /\ Vanished' = Vanished
                 /\ \E c \in 1 .. 2, D \in SUBSET Frame :
                       /\ \A g \in D : Waiting(g) = 1 /\ Received(g) = 0
                       /\ \A g \in Frame : Waiting(g)' = IF g = new THEN c
                                                         ELSE IF g \in D THEN 2 ELSE Waiting(g)
<1>1. link'.offered = new /\ arrived' = arrived
  BY SendOffers
<1>2. link.offered \in Nat /\ link'.offered <= MaxFrames
  BY FieldTypes DEF TypeOK
<1>3. new \in Frame /\ new \notin 1 .. link.offered /\ 1 .. new = (1 .. link.offered) \union {new}
  BY <1>1, <1>2, BoundAssumption DEF Frame
<1>4. [Abstract!Next]_(Abstract!vars)
  BY Step DEF Counted, Next
<1>5. 1 .. link'.offered # 1 .. link.offered
  BY <1>1, <1>3
<1>6. \A f : (1 .. link'.offered = (1 .. link.offered) \union {f}) => f = new
  BY <1>1, <1>3
<1>7. CASE \E f \in Frame : Abstract!Lose(f)
  <2>1. PICK f \in Frame : Abstract!Lose(f)
    BY <1>7
  <2>2. /\ 1 .. link'.offered = (1 .. link.offered) \union {f}
        /\ Vanished' = Vanished \union {f}
        /\ [g \in Frame |-> Waiting(g)]' = [g \in Frame |-> Waiting(g)]
    BY <2>1 DEF Abstract!Lose
  <2>3. f = new
    BY <1>6, <2>2
  <2>4. \A g \in Frame : Waiting(g)' = Waiting(g)
    <3>1. \A g \in Frame : [h \in Frame |-> Waiting(h)]'[g] = [h \in Frame |-> Waiting(h)][g]
      BY <2>2
    <3> QED  BY <3>1
  <2> QED  BY <1>1, <1>3, <2>2, <2>3, <2>4
<1>8. CASE \E f \in Frame, c \in 1 .. 2, D \in SUBSET Abstract!Single : Abstract!Accept(f, c, D)
  <2>1. PICK f \in Frame, c \in 1 .. 2, D \in SUBSET Abstract!Single : Abstract!Accept(f, c, D)
    BY <1>8
  <2>2. /\ 1 .. link'.offered = (1 .. link.offered) \union {f}
        /\ Vanished' = Vanished
        /\ [g \in Frame |-> Waiting(g)]'
              = [g \in Frame |-> IF g = f THEN c ELSE IF g \in D THEN 2
                                ELSE [h \in Frame |-> Waiting(h)][g]]
    BY <2>1 DEF Abstract!Accept
  <2>3. f = new
    BY <1>6, <2>2
  <2>4. \A g \in Frame : Waiting(g)' = IF g = new THEN c ELSE IF g \in D THEN 2 ELSE Waiting(g)
    <3>1. \A g \in Frame : [h \in Frame |-> Waiting(h)]'[g]
                            = IF g = f THEN c ELSE IF g \in D THEN 2 ELSE Waiting(g)
      BY <2>2
    <3> QED  BY <2>3, <3>1
  <2>5. D \in SUBSET Frame /\ \A g \in D : Waiting(g) = 1 /\ Received(g) = 0
    BY <2>1 DEF Abstract!Single
  <2> QED  BY <1>1, <1>3, <2>2, <2>4, <2>5
<1>9. CASE \E f \in Frame : Abstract!Take(f)
  BY <1>5, <1>9 DEF Abstract!Take
<1>10. CASE \E D \in SUBSET Abstract!Single : Abstract!Double(D)
  BY <1>5, <1>10 DEF Abstract!Double
<1>11. CASE UNCHANGED Abstract!vars
  BY <1>5, <1>11 DEF Abstract!vars
<1> QED  BY <1>4, <1>7, <1>8, <1>9, <1>10, <1>11 DEF Abstract!Next

\* recv() takes one copy of a frame that was offered out of the transport.
LEMMA RecvView ==
    ASSUME TypeOK, TypeOK', Counted, Recv
    PROVE  /\ link'.offered = link.offered /\ Vanished' = Vanished
           /\ \E copy \in Copy :
                 /\ arrived' = Append(arrived, copy)
                 /\ copy.frame \in 1 .. link.offered /\ Waiting(copy.frame) > 0
                 /\ \A g \in Frame :
                       /\ Waiting(g)' = IF g = copy.frame THEN Waiting(g) - 1 ELSE Waiting(g)
                       /\ Received(g)' = IF g = copy.frame THEN Received(g) + 1 ELSE Received(g)
<1>1. link'.offered = link.offered /\ \E copy \in Copy : arrived' = Append(arrived, copy)
  BY RecvTakes
<1>2. PICK copy \in Copy : arrived' = Append(arrived, copy)
  BY <1>1
<1>3. link.offered \in Nat /\ arrived \in Seq(Copy) /\ link.offered <= MaxFrames
  BY FieldTypes DEF TypeOK
<1>4. /\ \A g \in Frame : Waiting(g) \in Nat /\ Received(g) \in Nat
      /\ \A g \in Frame : g > link.offered => Waiting(g) = 0
  BY PlaceTypes
<1>5. copy.frame \in Frame
  BY DEF Copy
<1>6. Received(copy.frame)' = Received(copy.frame) + 1
  <2>1. Received(copy.frame) = With(arrived, copy.frame)
    BY <1>5, View DEF Viewed
  <2>2. Received(copy.frame)' = With(arrived', copy.frame)
    <3>1. Viewed'
      BY View, PTL
    <3> QED  BY <1>5, <3>1 DEF Viewed
  <2>3. With(arrived', copy.frame) = With(arrived, copy.frame) + One(copy \in CopiesOf(copy.frame))
    BY <1>2, <1>3, AppendCounts DEF With
  <2>4. One(copy \in CopiesOf(copy.frame)) = 1
    BY DEF CopiesOf, One
  <2> QED  BY <2>1, <2>2, <2>3, <2>4
<1>7. [Abstract!Next]_(Abstract!vars)
  BY Step DEF Counted, Next
<1> DEFINE taken == [g \in Frame |-> Received(g)]
           inside == [g \in Frame |-> Waiting(g)]
<1>8. taken' # taken
  <2>1. taken'[copy.frame] = taken[copy.frame] + 1 /\ taken[copy.frame] \in Nat
    BY <1>4, <1>5, <1>6
  <2> QED  BY <2>1
<1>9. CASE \E f \in Frame : Abstract!Take(f)
  <2>1. PICK f \in Frame : Abstract!Take(f)
    BY <1>9
  <2>2. /\ inside[f] > 0 /\ Vanished' = Vanished
        /\ inside' = [inside EXCEPT ![f] = inside[f] - 1]
        /\ taken' = [taken EXCEPT ![f] = taken[f] + 1]
    BY <2>1 DEF Abstract!Take
  <2>3. \A g \in Frame : /\ inside'[g] = IF g = f THEN inside[g] - 1 ELSE inside[g]
                         /\ taken'[g] = IF g = f THEN taken[g] + 1 ELSE taken[g]
    BY <2>2
  <2>4. \A g \in Frame : /\ Waiting(g)' = IF g = f THEN Waiting(g) - 1 ELSE Waiting(g)
                         /\ Received(g)' = IF g = f THEN Received(g) + 1 ELSE Received(g)
    BY <2>3
  <2>5. f = copy.frame
    BY <1>4, <1>5, <1>6, <2>4
  <2>6. Waiting(f) > 0
    BY <2>2
  <2>7. f \in 1 .. link.offered
    BY <1>3, <1>4, <2>6, BoundAssumption DEF Frame
  <2> QED  BY <1>1, <1>2, <2>2, <2>4, <2>5, <2>6, <2>7
<1>10. CASE \E f \in Frame : Abstract!Lose(f)
  BY <1>8, <1>10 DEF Abstract!Lose
<1>11. CASE \E f \in Frame, c \in 1 .. 2, D \in SUBSET Abstract!Single : Abstract!Accept(f, c, D)
  BY <1>8, <1>11 DEF Abstract!Accept
<1>12. CASE \E D \in SUBSET Abstract!Single : Abstract!Double(D)
  BY <1>8, <1>12 DEF Abstract!Double
<1>13. CASE UNCHANGED Abstract!vars
  BY <1>8, <1>13 DEF Abstract!vars
<1> QED  BY <1>7, <1>9, <1>10, <1>11, <1>12, <1>13 DEF Abstract!Next

\* flush() may double frames that wait in the transport, and moves none out of it.
LEMMA FlushView ==
    ASSUME TypeOK, TypeOK', Counted, Flush
    PROVE  /\ link'.offered = link.offered /\ Vanished' = Vanished /\ arrived' = arrived
           /\ \E D \in SUBSET Frame :
                 /\ \A g \in D : Waiting(g) = 1 /\ Received(g) = 0
                 /\ \A g \in Frame : Waiting(g)' = IF g \in D THEN 2 ELSE Waiting(g)
<1>1. link'.offered = link.offered /\ arrived' = arrived
  BY FlushEmpties
<1>2. [Abstract!Next]_(Abstract!vars)
  BY Step DEF Counted, Next
<1> DEFINE taken == [g \in Frame |-> Received(g)]
           inside == [g \in Frame |-> Waiting(g)]
<1>3. taken' = taken
  BY <1>1 DEF Received, ArrivedFrames
<1>4. CASE \E f \in Frame : Abstract!Take(f)
  <2>1. PICK f \in Frame : Abstract!Take(f)
    BY <1>4
  <2>2. taken' = [taken EXCEPT ![f] = taken[f] + 1]
    BY <2>1 DEF Abstract!Take
  <2>3. taken[f] \in Nat /\ taken'[f] = taken[f] + 1
    BY <2>2, PlaceTypes
  <2> QED  BY <1>3, <2>3
<1>5. CASE \E f \in Frame : Abstract!Lose(f)
  BY <1>1, <1>5 DEF Abstract!Lose
<1>6. CASE \E f \in Frame, c \in 1 .. 2, D \in SUBSET Abstract!Single : Abstract!Accept(f, c, D)
  BY <1>1, <1>6 DEF Abstract!Accept
<1>7. CASE \E D \in SUBSET Abstract!Single : Abstract!Double(D)
  <2>1. PICK D \in SUBSET Abstract!Single : Abstract!Double(D)
    BY <1>7
  <2>2. /\ Vanished' = Vanished
        /\ inside' = [g \in Frame |-> IF g \in D THEN 2 ELSE inside[g]]
    BY <2>1 DEF Abstract!Double
  <2>3. \A g \in Frame : inside'[g] = IF g \in D THEN 2 ELSE inside[g]
    BY <2>2
  <2>4. \A g \in Frame : Waiting(g)' = IF g \in D THEN 2 ELSE Waiting(g)
    BY <2>3
  <2>5. D \in SUBSET Frame /\ \A g \in D : Waiting(g) = 1 /\ Received(g) = 0
    BY <2>1 DEF Abstract!Single
  <2> QED  BY <1>1, <2>2, <2>4, <2>5
<1>8. CASE UNCHANGED Abstract!vars
  <2>1. Vanished' = Vanished /\ inside' = inside
    BY <1>8 DEF Abstract!vars
  <2>2. \A g \in Frame : inside'[g] = inside[g]
    BY <2>1
  <2>3. \A g \in Frame : Waiting(g)' = IF g \in {} THEN 2 ELSE Waiting(g)
    BY <2>2
  <2>4. {} \in SUBSET Frame
    OBVIOUS
  <2> QED  BY <1>1, <2>1, <2>3, <2>4
<1> QED  BY <1>2, <1>4, <1>5, <1>6, <1>7, <1>8 DEF Abstract!Next

-----------------------------------------------------------------------------
(* What the link does to the frames it carries: which copies are damaged.  *)

\* The copies in the inner queue and in the latency buffer.
Carried(l) == Range(l.inner) \union {e.copy : e \in Range(l.scheduled)}

Bad(f) == [frame |-> f, intact |-> FALSE]
BadIn(O) == {f \in Frame : Bad(f) \in O}

(***************************************************************************)
(* Both copies of a frame are damaged or neither is, `corrupted` counts    *)
(* the damaged frames, a frame still in the slot is not out yet, and each  *)
(* impairment happens only if its knob is on.                              *)
(***************************************************************************)
Knobs(l, O) ==
    /\ \A c \in O : ~c.intact => TRUE \in config.corrupt
    /\ l.duplicated > 0 => TRUE \in config.duplicate
    /\ l.dropped > 0 => TRUE \in config.loss
    /\ l.held # None => TRUE \in config.reorder

Told(l, O) ==
    /\ O \subseteq Copy
    /\ \A c \in O : c.frame <= l.offered /\ c.frame # l.held
    /\ l.held <= l.offered
    /\ \A b, c \in O : b.frame = c.frame => b = c
    /\ l.corrupted = Cardinality(BadIn(O))
    /\ Knobs(l, O)

\* The elements of a sequence with one more behind it, or in front.
LEMMA OneMoreRange ==
    ASSUME NEW S, NEW s \in Seq(S), NEW e \in S
    PROVE  /\ <<e>> \in Seq(S) /\ Range(<<e>>) = {e}
           /\ Range(s \o <<e>>) = Range(s) \union {e}
           /\ Range(<<e>> \o s) = {e} \union Range(s)
<1>1. <<e>> \in Seq(S) /\ Len(<<e>>) = 1 /\ <<e>>[1] = e
  OBVIOUS
<1>2. Range(<<e>>) = {e}
  BY <1>1 DEF Range
<1> DEFINE one == <<e>>
<1>4. one \in Seq(S)
  BY <1>1
<1> HIDE DEF one
<1>5. Range(s \o one) = Range(s) \union Range(one)
  BY <1>4, RangeConcatenation
<1>6. Range(one \o s) = Range(one) \union Range(s)
  BY <1>4, RangeConcatenation
<1> QED  BY <1>1, <1>2, <1>5, <1>6 DEF one

\* Appending an element adds it.
LEMMA AppendRange ==
    ASSUME NEW S, NEW s \in Seq(S), NEW e \in S
    PROVE  Range(Append(s, e)) = Range(s) \union {e}
<1>1. Append(s, e) = s \o <<e>>
  BY AppendIsConcat
<1>2. Range(s \o <<e>>) = Range(s) \union {e}
  BY OneMoreRange
<1> QED  BY <1>1, <1>2

\* The elements of a sequence are its head and those of its tail.
LEMMA HeadRange ==
    ASSUME NEW S, NEW q \in Seq(S), q # <<>>
    PROVE  Range(q) = {Head(q)} \union Range(Tail(q))
<1> DEFINE e == Head(q)
           t == Tail(q)
<1>1. e \in S /\ t \in Seq(S) /\ q = <<e>> \o t
  BY HeadAndTail
<1> HIDE DEF e, t
<1>2. Range(<<e>> \o t) = {e} \union Range(t)
  BY <1>1, OneMoreRange
<1>3. Range(q) = {e} \union Range(t)
  BY <1>1, <1>2
<1> QED  BY <1>3 DEF e, t

\* heappush adds the entry and loses none.
LEMMA InsertRange ==
    ASSUME NEW q \in Seq(Entry), NEW e \in Entry
    PROVE  Range(InsertByRelease(q, e)) = Range(q) \union {e}
<1> DEFINE k == Cardinality({i \in 1 .. Len(q) : q[i].at <= e.at})
           s == SubSeq(q, 1, k)
           t == SubSeq(q, k + 1, Len(q))
<1>1. k \in 0 .. Len(q)
  <2>1. Len(q) \in Nat
    BY LenProperties
  <2>2. {i \in 1 .. Len(q) : q[i].at <= e.at} \in SUBSET (1 .. Len(q))
    OBVIOUS
  <2> QED  BY <2>1, <2>2, CountWithinLength
<1>2. InsertByRelease(q, e) = (s \o <<e>>) \o t
  BY DEF InsertByRelease
<1> HIDE DEF k
<1>3. s \in Seq(Entry) /\ t \in Seq(Entry) /\ q = s \o t
  BY <1>1, Halves
<1> HIDE DEF s, t
<1>4. <<e>> \in Seq(Entry) /\ Range(<<e>>) = {e}
  BY <1>3, OneMoreRange
<1> DEFINE upTo == s \o <<e>>
<1>5. upTo \in Seq(Entry) /\ Range(upTo) = Range(s) \union {e}
  <2>1. upTo \in Seq(Entry)
    BY <1>3, <1>4, ConcatProperties
  <2>2. Range(upTo) = Range(s) \union {e}
    BY <1>3, OneMoreRange
  <2> QED  BY <2>1, <2>2
<1>6. InsertByRelease(q, e) = upTo \o t
  BY <1>2
<1> HIDE DEF upTo
<1>8. Range(upTo \o t) = Range(upTo) \union Range(t)
  BY <1>3, <1>5, RangeConcatenation
<1>7. Range(s \o t) = Range(s) \union Range(t)
  BY <1>3, RangeConcatenation
<1> QED  BY <1>3, <1>5, <1>6, <1>7, <1>8

\* Scheduling a copy puts it on its way, and nothing else.
LEMMA ScheduleCarries ==
    ASSUME NEW l \in LinkType, NEW copy \in Copy, NEW delay \in Nat, now \in Nat
    PROVE  /\ Carried(Schedule(l, copy, delay)) = Carried(l) \union {copy}
           /\ Schedule(l, copy, delay).corrupted = l.corrupted
<1>1. l.scheduled \in Seq(Entry) /\ l.inner \in Seq(Copy)
  BY FieldTypes
<1>2. CASE Timed
  <2> DEFINE e == [at |-> now + delay, copy |-> copy]
             q == InsertByRelease(l.scheduled, e)
             longest == IF delay > l.max_delay THEN delay ELSE l.max_delay
             s == Schedule(l, copy, delay)
  <2>1. e \in Entry /\ e.copy = copy
    BY DEF Entry
  <2>2. s = [l EXCEPT !.scheduled = q, !.delayed = l.delayed + 1, !.max_delay = longest]
    BY <1>2 DEF Schedule
  <2> HIDE DEF e, s
  <2>3. Range(q) = Range(l.scheduled) \union {e}
    BY <1>1, <2>1, InsertRange
  <2> HIDE DEF q, longest
  <2>4. s.scheduled = q /\ s.inner = l.inner /\ s.corrupted = l.corrupted
    BY <2>2 DEF LinkType
  <2>5. {x.copy : x \in Range(q)} = {x.copy : x \in Range(l.scheduled)} \union {copy}
    BY <2>1, <2>3
  <2> QED  BY <2>4, <2>5 DEF Carried, s
<1>3. CASE ~Timed
  <2> DEFINE s == Schedule(l, copy, delay)
  <2>1. s = [l EXCEPT !.inner = l.inner \o <<copy>>, !.delivered = l.delivered + Len(<<copy>>)]
    BY <1>3 DEF Schedule, PushInner
  <2> HIDE DEF s
  <2>2. /\ s.scheduled = l.scheduled /\ s.inner = l.inner \o <<copy>>
        /\ s.corrupted = l.corrupted
    BY <2>1 DEF LinkType
  <2>3. <<copy>> \in Seq(Copy) /\ Range(<<copy>>) = {copy}
    BY <1>1, OneMoreRange
  <2>4. Range(l.inner \o <<copy>>) = Range(l.inner) \union {copy}
    BY <1>1, OneMoreRange
  <2> QED  BY <2>2, <2>4 DEF Carried, s
<1> QED  BY <1>2, <1>3

\* Emitting a frame puts copies of one kind on their way, once or twice the same, and counts
\* the frame if they are damaged.
LEMMA EmitCarries ==
    ASSUME NEW l \in LinkType, NEW g \in Frame, NEW d \in Draw,
           config \in Configs, now \in Nat
    PROVE  /\ [frame |-> g, intact |-> ~d.corrupt] \in Copy
           /\ Carried(Emit(l, g, d)) = Carried(l) \union {[frame |-> g, intact |-> ~d.corrupt]}
           /\ Emit(l, g, d).corrupted = l.corrupted + One(d.corrupt)
<1> DEFINE out == [frame |-> g, intact |-> ~d.corrupt]
           marked == [l EXCEPT !.corrupted = IF d.corrupt THEN @ + 1 ELSE @]
           once == Schedule(marked, out, d.delay)
           doubled == [once EXCEPT !.duplicated = @ + 1]
           twice == Schedule(doubled, out, d.delay2)
<1>1. d.delay \in Nat /\ d.delay2 \in Nat
  BY DrawTypes
<1>2. out \in Copy
  BY DEF Copy
<1>3. /\ marked \in LinkType /\ marked.inner = l.inner
      /\ marked.scheduled = l.scheduled
      /\ marked.corrupted = l.corrupted + One(d.corrupt)
  <2>1. \A a \in Nat : [l EXCEPT !.corrupted = a] \in LinkType
    BY DEF LinkType
  <2>2. (IF d.corrupt THEN l.corrupted + 1 ELSE l.corrupted) \in Nat
    BY FieldTypes
  <2>3. marked \in LinkType
    BY <2>1, <2>2
  <2>4. marked.corrupted = IF d.corrupt THEN l.corrupted + 1 ELSE l.corrupted
    BY <2>3 DEF LinkType
  <2>5. l.corrupted \in Nat
    BY FieldTypes
  <2>6. marked.corrupted = l.corrupted + One(d.corrupt)
    BY <2>4, <2>5 DEF One
  <2> QED  BY <2>3, <2>6 DEF LinkType
<1> HIDE DEF out, marked
<1>4. once \in LinkType
  BY <1>1, <1>2, <1>3, ScheduleBooks DEF KeepsBooks
<1>5. Carried(once) = Carried(l) \union {out} /\ once.corrupted = l.corrupted + One(d.corrupt)
  <2>1. Carried(once) = Carried(marked) \union {out} /\ once.corrupted = marked.corrupted
    BY <1>1, <1>2, <1>3, ScheduleCarries
  <2> QED  BY <1>3, <2>1 DEF Carried
<1> HIDE DEF once
<1>6. /\ doubled \in LinkType /\ doubled.inner = once.inner
      /\ doubled.scheduled = once.scheduled /\ doubled.corrupted = once.corrupted
  <2>1. \A a \in Nat : [once EXCEPT !.duplicated = a] \in LinkType
    BY <1>4 DEF LinkType
  <2>2. once.duplicated + 1 \in Nat
    BY <1>4, FieldTypes
  <2> QED  BY <1>4, <2>1, <2>2 DEF LinkType
<1> HIDE DEF doubled
<1>7. Carried(twice) = Carried(once) \union {out} /\ twice.corrupted = once.corrupted
  <2>1. Carried(twice) = Carried(doubled) \union {out} /\ twice.corrupted = doubled.corrupted
    BY <1>1, <1>2, <1>6, ScheduleCarries
  <2> QED  BY <1>6, <2>1 DEF Carried
<1>8. Emit(l, g, d) = IF d.twice THEN twice ELSE once
  BY DEF Emit, twice, doubled, once, marked, out
<1> HIDE DEF twice
<1>9. /\ out \in Copy /\ Carried(Emit(l, g, d)) = Carried(l) \union {out}
      /\ Emit(l, g, d).corrupted = l.corrupted + One(d.corrupt)
  BY <1>2, <1>5, <1>7, <1>8
<1> QED  BY <1>9 DEF out

\* Moving entries from the latency buffer to the inner queue carries the same copies.
LEMMA ReleaseCarries ==
    ASSUME NEW l \in LinkType, NEW k \in 0 .. Len(l.scheduled)
    PROVE  /\ Carried(Release(l, k)) = Carried(l)
           /\ Release(l, k).corrupted = l.corrupted
<1> DEFINE q == l.scheduled
           front == SubSeq(q, 1, k)
           rest == SubSeq(q, k + 1, Len(q))
           copies == [i \in 1 .. k |-> q[i].copy]
           p == Release(l, k)
<1>1. q \in Seq(Entry) /\ l.inner \in Seq(Copy) /\ Len(q) \in Nat /\ k \in Nat
  BY FieldTypes
<1>0. k \in 0 .. Len(q)
  OBVIOUS
<1>4. p.scheduled = rest /\ p.inner = l.inner \o copies /\ p.corrupted = l.corrupted
  BY DEF Release, PushInner, LinkType
<1>2. /\ front \in Seq(Entry) /\ rest \in Seq(Entry) /\ q = front \o rest
      /\ Len(front) = k /\ \A i \in 1 .. k : front[i] = q[i]
  <2> HIDE DEF q
  <2> QED  BY <1>0, <1>1, Halves
<1>3. copies \in Seq(Copy)
  BY <1>1, ReleasedCounts
<1> HIDE DEF p, rest
<1>5. Len(copies) = k
  BY <1>1
<1>6. Range(copies) = {e.copy : e \in Range(front)}
  <2>1. Range(copies) = {copies[i] : i \in 1 .. k}
    BY <1>3, <1>5, RangeEquality
  <2>2. Range(front) = {front[i] : i \in 1 .. k}
    BY <1>2, RangeEquality
  <2>3. \A i \in 1 .. k : copies[i] = front[i].copy
    BY <1>2
  <2> HIDE DEF copies, front
  <2> QED  BY <2>1, <2>2, <2>3
<1> HIDE DEF copies, front
<1>7. Range(q) = Range(front) \union Range(rest)
  <2>1. Range(front \o rest) = Range(front) \union Range(rest)
    BY <1>2, RangeConcatenation
  <2> QED  BY <1>2, <2>1
<1>8. Range(l.inner \o copies) = Range(l.inner) \union Range(copies)
  BY <1>1, <1>3, RangeConcatenation
<1> QED  BY <1>4, <1>6, <1>7, <1>8 DEF Carried, p

\* So does recv() before it looks.
LEMMA ReleaseDueCarries ==
    ASSUME NEW l \in LinkType
    PROVE  Carried(ReleaseDue(l)) = Carried(l) /\ ReleaseDue(l).corrupted = l.corrupted
<1> DEFINE k == Cardinality({i \in 1 .. Len(l.scheduled) : l.scheduled[i].at <= now})
<1>1. k \in 0 .. Len(l.scheduled)
  <2>1. {i \in 1 .. Len(l.scheduled) : l.scheduled[i].at <= now} \in SUBSET (1 .. Len(l.scheduled))
    OBVIOUS
  <2> QED  BY <2>1, FieldTypes, CountWithinLength
<1>2. ReleaseDue(l) = IF Timed THEN Release(l, k) ELSE l
  BY DEF ReleaseDue
<1> HIDE DEF k
<1> QED  BY <1>1, <1>2, ReleaseCarries

\* What the knobs allow is in a draw.
LEMMA DrawnKnobs ==
    ASSUME config \in Configs, NEW d \in Draw
    PROVE  /\ d.corrupt \in BOOLEAN /\ d.twice \in BOOLEAN
           /\ d.corrupt => TRUE \in config.corrupt
           /\ d.twice => TRUE \in config.duplicate
<1>1. config.corrupt \in Outcomes /\ config.duplicate \in Outcomes
  BY ConfigAssumption
<1>2. d.corrupt \in config.corrupt /\ d.twice \in config.duplicate
  BY DEF Draw
<1>3. d.corrupt \in BOOLEAN /\ d.twice \in BOOLEAN
  BY <1>1, <1>2 DEF Outcomes
<1>4. d.corrupt => d.corrupt = TRUE
  BY <1>3
<1>5. d.twice => d.twice = TRUE
  BY <1>3
<1> QED  BY <1>2, <1>3, <1>4, <1>5

\* A change that emits nothing.
LEMMA ToldStill ==
    ASSUME NEW l \in LinkType, NEW p \in LinkType, NEW O, Told(l, O),
           p.offered >= l.offered, p.held \in {None, l.held},
           p.corrupted = l.corrupted, Knobs(p, O)
    PROVE  Told(p, O)
<1>1. \A c \in O : c \in Copy /\ c.frame <= l.offered /\ c.frame # l.held
  BY DEF Told
<1>2. l.offered \in Nat /\ p.offered \in Nat /\ l.held <= l.offered /\ l.held \in Nat
  BY FieldTypes DEF Told, None, Frame
<1>3. \A c \in O : c.frame \in Nat /\ c.frame > 0
  BY <1>1, BoundAssumption DEF Copy, Frame
<1>4. \A c \in O : c.frame <= p.offered /\ c.frame # p.held
  BY <1>1, <1>2, <1>3 DEF None
<1>5. p.held <= p.offered
  BY <1>2 DEF None
<1> QED  BY <1>4, <1>5 DEF Told

\* A frame of which no copy is out yet is emitted.
LEMMA ToldEmits ==
    ASSUME NEW l \in LinkType, NEW p \in LinkType, NEW O, Told(l, O),
           config \in Configs, NEW g \in Frame, NEW d \in Draw,
           p.offered = l.offered, p.held = l.held, p.dropped = l.dropped,
           p.corrupted = l.corrupted + One(d.corrupt),
           p.duplicated = l.duplicated + One(d.twice),
           g <= l.offered, g # l.held, \A c \in O : c.frame # g
    PROVE  Told(p, O \union {[frame |-> g, intact |-> ~d.corrupt]})
<1> DEFINE c == [frame |-> g, intact |-> ~d.corrupt]
           U == O \union {c}
<1>1. d.corrupt \in BOOLEAN /\ d.twice \in BOOLEAN
  BY DrawnKnobs
<1>2. c \in Copy /\ c.frame = g /\ (c.intact <=> ~d.corrupt)
  BY <1>1 DEF Copy
<1>3. c = Bad(g) <=> d.corrupt
  BY <1>1 DEF Bad
<1>4. \A f \in Frame : f # g => Bad(f) # c
  BY <1>2 DEF Bad
<1>5. Bad(g) \notin O
  BY DEF Bad
<1>6. BadIn(U) = IF d.corrupt THEN BadIn(O) \union {g} ELSE BadIn(O)
  <2> HIDE DEF c
  <2>1. CASE d.corrupt
    BY <1>3, <1>4, <2>1 DEF BadIn
  <2>2. CASE ~d.corrupt
    BY <1>3, <1>4, <2>2 DEF BadIn
  <2> QED  BY <2>1, <2>2
<1>7. p.corrupted = Cardinality(BadIn(U))
  <2>1. IsFiniteSet(BadIn(O))
    <3>1. IsFiniteSet(Frame)
      BY BoundAssumption, FS_Interval DEF Frame
    <3>2. BadIn(O) \subseteq Frame
      BY DEF BadIn
    <3> QED  BY <3>1, <3>2, FS_Subset
  <2>2. g \notin BadIn(O)
    BY <1>5 DEF BadIn
  <2>3. Cardinality(BadIn(O) \union {g}) = Cardinality(BadIn(O)) + 1
    BY <2>1, <2>2, FS_AddElement
  <2>4. l.corrupted = Cardinality(BadIn(O)) /\ l.corrupted \in Nat
    BY FieldTypes DEF Told
  <2>5. CASE d.corrupt
    <3>1. One(d.corrupt) = 1
      BY <2>5 DEF One
    <3> QED  BY <1>6, <2>3, <2>4, <2>5, <3>1
  <2>6. CASE ~d.corrupt
    <3>1. One(d.corrupt) = 0
      BY <2>6 DEF One
    <3> QED  BY <1>6, <2>4, <2>6, <3>1
  <2> QED  BY <2>5, <2>6
<1>8. Knobs(p, U)
  <2>1. /\ \A b \in O : ~b.intact => TRUE \in config.corrupt
        /\ l.duplicated > 0 => TRUE \in config.duplicate
        /\ l.dropped > 0 => TRUE \in config.loss
        /\ l.held # None => TRUE \in config.reorder
    BY DEF Told, Knobs
  <2>2. p.duplicated > 0 => TRUE \in config.duplicate
    <3>1. CASE d.twice
      BY <3>1, DrawnKnobs
    <3>2. CASE ~d.twice
      <4>1. One(d.twice) = 0
        BY <3>2 DEF One
      <4>2. l.duplicated \in Nat
        BY FieldTypes
      <4>3. p.duplicated = l.duplicated
        BY <4>1, <4>2
      <4>4. l.duplicated > 0 => TRUE \in config.duplicate
        BY <2>1
      <4> QED  BY <4>3, <4>4
    <3> QED  BY <3>1, <3>2
  <2>3. ~c.intact => TRUE \in config.corrupt
    BY <1>2, DrawnKnobs
  <2> HIDE DEF c
  <2> QED  BY <2>1, <2>2, <2>3 DEF Knobs
<1>9. /\ O \subseteq Copy /\ l.held <= l.offered
      /\ \A b \in O : b.frame <= l.offered /\ b.frame # l.held
      /\ \A a, b \in O : a.frame = b.frame => a = b
  BY DEF Told
<1> HIDE DEF c
<1>10. /\ U \subseteq Copy
       /\ \A b \in U : b.frame <= p.offered /\ b.frame # p.held
       /\ \A a, b \in U : a.frame = b.frame => a = b
  BY <1>2, <1>9
<1> HIDE DEF U
<1>11. Told(p, U)
  BY <1>7, <1>8, <1>9, <1>10 DEF Told
<1> QED  BY <1>11 DEF U, c

\* Emitting a frame that is not out yet.
LEMMA EmitTold ==
    ASSUME NEW l \in LinkType, NEW Q, Told(l, Carried(l) \union Q),
           config \in Configs, now \in Nat, NEW g \in Frame, NEW d \in Draw,
           g <= l.offered, g # l.held, \A c \in Carried(l) \union Q : c.frame # g
    PROVE  Told(Emit(l, g, d), Carried(Emit(l, g, d)) \union Q)
<1> DEFINE c == [frame |-> g, intact |-> ~d.corrupt]
           p == Emit(l, g, d)
           O == Carried(l) \union Q
<1>1. /\ p \in LinkType /\ p.held = l.held /\ p.offered = l.offered /\ p.dropped = l.dropped
  BY EmitEffect
<1>2. p.duplicated = l.duplicated + One(d.twice)
  BY EmitMoves
<1>3. Carried(p) = Carried(l) \union {c} /\ p.corrupted = l.corrupted + One(d.corrupt)
  BY EmitCarries
<1> HIDE DEF p
<1>4. Told(p, O \union {c})
  BY <1>1, <1>2, <1>3, ToldEmits
<1>5. Carried(p) \union Q = O \union {c}
  BY <1>3
<1> QED  BY <1>4, <1>5 DEF p

Out == Carried(link) \union Range(arrived)
Truth == Told(link, Out)

\* A new link carries nothing.
LEMMA InitTruth == Init => Truth
<1> SUFFICES ASSUME Init PROVE Truth
  OBVIOUS
<1>1. /\ link.inner = <<>> /\ link.scheduled = <<>> /\ arrived = <<>> /\ link.offered = 0
      /\ link.held = 0 /\ link.corrupted = 0 /\ link.duplicated = 0 /\ link.dropped = 0
  BY DEF Init, None
<1>2. Range(<<>>) = {}
  BY DEF Range
<1>3. Out = {}
  BY <1>1, <1>2 DEF Out, Carried
<1>4. BadIn({}) = {}
  BY DEF BadIn
<1>5. Cardinality(BadIn({})) = 0
  BY <1>4, FS_EmptySet
<1>6. Knobs(link, {})
  BY <1>1 DEF Knobs, None
<1>7. Told(link, {})
  BY <1>1, <1>5, <1>6 DEF Told
<1> QED  BY <1>3, <1>7 DEF Truth

\* send() keeps the truth told.
LEMMA SendTruth ==
    ASSUME TypeOK, TypeOK', Truth, Send
    PROVE  Truth'
<1> DEFINE o == Offered(link)
           new == link.offered + 1
           Q == Range(arrived)
<1>1. /\ link \in LinkType /\ link' \in LinkType /\ config \in Configs /\ now \in Nat
      /\ link.held \in Frame \union {None} /\ link.offered \in Nat
      /\ link.duplicated \in Nat /\ link.dropped \in Nat
  BY FieldTypes DEF TypeOK
<1>2. link.offered < MaxFrames /\ config' = config /\ arrived' = arrived
  BY DEF Send, SendLost, SendHeld, SendPassed, SendOvertaking
<1>3. new \in Frame /\ new # None /\ new = link.offered + 1
  BY <1>2, NextFrame
<1>4. /\ \A c \in Out : c \in Copy /\ c.frame <= link.offered /\ c.frame # link.held
      /\ link.held <= link.offered
  BY DEF Truth, Told
<1>5. /\ o \in LinkType /\ o.offered = new /\ o.held = link.held /\ o.dropped = link.dropped
      /\ o.inner = link.inner /\ o.scheduled = link.scheduled
      /\ o.corrupted = link.corrupted /\ o.duplicated = link.duplicated
  <2>1. o \in LinkType
    BY <1>1, OfferedEffect
  <2> QED  BY <1>1, <2>1 DEF Offered, LinkType
<1> HIDE DEF o, new
<1>6. Carried(o) = Carried(link) /\ Out = Carried(o) \union Q
  BY <1>5 DEF Carried, Out
<1>7. Told(o, Out)
  <2>1. Knobs(o, Out)
    BY <1>5 DEF Truth, Told, Knobs
  <2> QED  BY <1>1, <1>3, <1>5, <2>1, ToldStill DEF Truth
<1>8. \A c \in Out : c.frame # new
  <2>1. \A c \in Out : c.frame \in Nat
    BY <1>4, BoundAssumption DEF Copy, Frame
  <2> QED  BY <1>1, <1>3, <1>4, <2>1
<1>9. new # link.held /\ link.held \in Nat
  BY <1>1, <1>3, <1>4, BoundAssumption DEF Frame, None
<1>10. SUFFICES ASSUME TRUE PROVE Told(link', Carried(link') \union Q)
  BY <1>2 DEF Truth, Told, Knobs, Out, Bad, BadIn
<1>11. CASE SendLost
  <2>1. link' = [o EXCEPT !.dropped = o.dropped + 1] /\ TRUE \in config.loss
    BY <1>11 DEF SendLost, o
  <2>2. /\ link'.offered = o.offered /\ link'.held = o.held /\ link'.corrupted = o.corrupted
        /\ link'.inner = o.inner /\ link'.scheduled = o.scheduled
        /\ link'.duplicated = o.duplicated
    BY <1>5, <2>1 DEF LinkType
  <2>3. Carried(link') \union Q = Out
    BY <1>6, <2>2 DEF Carried
  <2>4. Knobs(link', Out)
    BY <1>7, <2>1, <2>2 DEF Told, Knobs
  <2>5. Told(link', Out)
    BY <1>1, <1>3, <1>5, <1>7, <2>2, <2>4, ToldStill
  <2> QED  BY <2>3, <2>5
<1>12. CASE SendHeld
  <2>1. /\ link' = [o EXCEPT !.held = new] /\ TRUE \in config.reorder
    BY <1>12 DEF SendHeld, o, new
  <2>2. /\ link'.offered = o.offered /\ link'.held = new /\ link'.corrupted = o.corrupted
        /\ link'.inner = o.inner /\ link'.scheduled = o.scheduled
        /\ link'.duplicated = o.duplicated /\ link'.dropped = o.dropped
    BY <1>5, <2>1 DEF LinkType
  <2>3. Carried(link') \union Q = Out
    BY <1>6, <2>2 DEF Carried
  <2>4. Knobs(link', Out)
    BY <1>7, <2>1, <2>2 DEF Told, Knobs
  <2>5. \A c \in Out : c.frame <= link'.offered /\ c.frame # link'.held
    BY <1>7, <1>8, <2>2 DEF Told
  <2>6. link'.held <= link'.offered
    BY <1>1, <1>3, <1>5, <2>2
  <2>7. Told(link', Out)
    BY <1>7, <2>2, <2>4, <2>5, <2>6 DEF Told
  <2> QED  BY <2>3, <2>7
<1>13. CASE SendPassed
  <2>1. PICK d \in Draw : link' = Emit(o, new, d)
    BY <1>13 DEF SendPassed, o, new
  <2>2. new <= o.offered /\ new # o.held
    BY <1>1, <1>3, <1>5, <1>9
  <2>3. Told(o, Carried(o) \union Q) /\ \A c \in Carried(o) \union Q : c.frame # new
    BY <1>6, <1>7, <1>8
  <2> QED  BY <1>1, <1>3, <1>5, <2>1, <2>2, <2>3, EmitTold
<1>14. CASE SendOvertaking
  <2>1. /\ link.held # None
        /\ \E d, h \in Draw : link' = Emit(Overtaken(Emit(o, new, d)), link.held, h)
    BY <1>14 DEF SendOvertaking, o, new
  <2>2. link.held \in Frame
    BY <1>1, <2>1
  <2>3. PICK d, h \in Draw : link' = Emit(Overtaken(Emit(o, new, d)), link.held, h)
    BY <2>1
  <2>4. new <= o.offered /\ new # o.held
    BY <1>1, <1>3, <1>5, <1>9
  <2>5. Told(o, Carried(o) \union Q) /\ \A c \in Carried(o) \union Q : c.frame # new
    BY <1>6, <1>7, <1>8
  <2> DEFINE e == Emit(o, new, d)
  <2>6. Told(e, Carried(e) \union Q)
    BY <1>1, <1>3, <1>5, <2>4, <2>5, EmitTold
  <2>7. e \in LinkType /\ e.held = link.held /\ e.offered = new
    BY <1>1, <1>3, <1>5, EmitEffect
  <2> HIDE DEF e
  <2> DEFINE r == Overtaken(e)
  <2>8. /\ r \in LinkType /\ r.held = None /\ r.offered = e.offered /\ r.dropped = e.dropped
        /\ r.duplicated = e.duplicated
    BY <2>7, OvertakenMoves
  <2>9. /\ r.inner = e.inner /\ r.scheduled = e.scheduled /\ r.corrupted = e.corrupted
    BY <2>7 DEF Overtaken, LinkType
  <2>10. link' = Emit(r, link.held, h)
    BY <2>3 DEF e
  <2> HIDE DEF r
  <2>11. Carried(r) = Carried(e)
    BY <2>9 DEF Carried
  <2>12. Knobs(r, Carried(e) \union Q)
    BY <2>6, <2>8 DEF Told, Knobs
  <2>13. Told(r, Carried(e) \union Q)
    <3>1. r.offered >= e.offered /\ r.held \in {None, e.held}
      BY <1>1, <1>3, <2>7, <2>8
    <3> QED  BY <2>6, <2>7, <2>8, <2>9, <2>12, <3>1, ToldStill
  <2>14. /\ link.held <= r.offered /\ link.held # r.held
         /\ \A c \in Carried(r) \union Q : c.frame # link.held
    <3>1. link.held <= r.offered
      BY <1>1, <1>3, <1>4, <1>9, <2>7, <2>8
    <3>2. \A c \in Carried(e) \union Q : c.frame # e.held
      BY <2>6 DEF Told
    <3> QED  BY <2>1, <2>7, <2>8, <2>11, <3>1, <3>2
  <2>15. Told(r, Carried(r) \union Q)
    BY <2>11, <2>13
  <2>16. Told(Emit(r, link.held, h), Carried(Emit(r, link.held, h)) \union Q)
    BY <1>1, <2>2, <2>8, <2>14, <2>15, EmitTold
  <2> QED  BY <2>10, <2>16
<1> QED  BY <1>11, <1>12, <1>13, <1>14 DEF Send

\* recv() hands a copy over.
LEMMA RecvTruth ==
    ASSUME TypeOK, TypeOK', Truth, Recv
    PROVE  Truth'
<1> DEFINE ready == ReleaseDue(link)
<1>1. link \in LinkType /\ link' \in LinkType /\ arrived \in Seq(Copy)
  BY DEF TypeOK
<1>2. /\ ready.inner # <<>> /\ link' = [ready EXCEPT !.inner = Tail(ready.inner)]
      /\ arrived' = Append(arrived, Head(ready.inner)) /\ config' = config
  BY DEF Recv
<1>3. /\ ready \in LinkType /\ ready.held = link.held /\ ready.offered = link.offered
      /\ ready.dropped = link.dropped
  <2>1. KeepsBooks(link, ready, 0)
    BY <1>1, ReleaseDueBooks
  <2> QED  BY <2>1 DEF KeepsBooks
<1>4. ready.duplicated = link.duplicated
  BY <1>1, ReleaseDueMoves
<1>5. Carried(ready) = Carried(link) /\ ready.corrupted = link.corrupted
  BY <1>1, ReleaseDueCarries
<1> HIDE DEF ready
<1>6. /\ ready.inner \in Seq(Copy) /\ Head(ready.inner) \in Copy
      /\ Tail(ready.inner) \in Seq(Copy)
  <2>1. ready.inner \in Seq(Copy)
    BY <1>3, FieldTypes
  <2>2. Head(ready.inner) \in Copy /\ Tail(ready.inner) \in Seq(Copy)
    BY <1>2, <2>1, HeadTailProperties
  <2> QED  BY <2>1, <2>2
<1>7. Range(ready.inner) = {Head(ready.inner)} \union Range(Tail(ready.inner))
  BY <1>2, <1>6, HeadRange
<1>8. Range(arrived') = Range(arrived) \union {Head(ready.inner)}
  <2>1. ASSUME NEW c \in Copy
        PROVE  Range(Append(arrived, c)) = Range(arrived) \union {c}
    <3>1. arrived \in Seq(Copy)
      BY <1>1
    <3> QED  BY <3>1, AppendRange
  <2>2. arrived' = Append(arrived, Head(ready.inner)) /\ Head(ready.inner) \in Copy
    BY <1>2, <1>6
  <2> QED  BY <2>1, <2>2
<1>9. /\ link'.inner = Tail(ready.inner) /\ link'.scheduled = ready.scheduled
      /\ link'.held = link.held /\ link'.offered = link.offered
      /\ link'.corrupted = link.corrupted /\ link'.duplicated = link.duplicated
      /\ link'.dropped = link.dropped
  BY <1>2, <1>3, <1>4, <1>5 DEF LinkType
<1>10. Out' = Out
  BY <1>5, <1>7, <1>8, <1>9 DEF Out, Carried
<1> QED  BY <1>2, <1>9, <1>10 DEF Truth, Told, Knobs, BadIn, Bad

\* flush() emits what was held and releases the rest.
LEMMA FlushTruth ==
    ASSUME TypeOK, TypeOK', Truth, Flush
    PROVE  Truth'
<1> DEFINE Q == Range(arrived)
<1>1. /\ link \in LinkType /\ link' \in LinkType /\ config \in Configs /\ now \in Nat
      /\ link.held \in Frame \union {None} /\ link.offered \in Nat
  BY FieldTypes DEF TypeOK
<1>2. config' = config /\ arrived' = arrived
  BY DEF Flush
<1>3. PICK d \in Draw :
        link' = ReleaseAll(IF link.held = None THEN link
                           ELSE Emit([link EXCEPT !.held = None], link.held, d))
  BY DEF Flush
<1> DEFINE m == IF link.held = None THEN link ELSE Emit([link EXCEPT !.held = None], link.held, d)
<1>4. Told(link, Carried(link) \union Q)
  BY DEF Truth, Out
<1>5. m \in LinkType /\ Told(m, Carried(m) \union Q)
  <2>1. CASE link.held = None
    BY <1>1, <1>4, <2>1
  <2>2. CASE link.held # None
    <3> DEFINE l == [link EXCEPT !.held = None]
    <3>1. /\ l \in LinkType /\ l.held = None /\ l.offered = link.offered
          /\ l.dropped = link.dropped /\ l.duplicated = link.duplicated
          /\ l.corrupted = link.corrupted
          /\ l.inner = link.inner /\ l.scheduled = link.scheduled
      BY <1>1 DEF LinkType
    <3>2. link.held \in Frame /\ m = Emit(l, link.held, d)
      BY <1>1, <2>2
    <3> HIDE DEF l, m
    <3>3. Carried(l) = Carried(link)
      BY <3>1 DEF Carried
    <3>4. Knobs(l, Carried(link) \union Q)
      BY <1>4, <3>1 DEF Told, Knobs
    <3>5. l.offered >= link.offered
      BY <1>1, <3>1
    <3>6. Told(l, Carried(link) \union Q)
      BY <1>1, <1>4, <3>1, <3>4, <3>5, ToldStill
    <3>7. /\ link.held <= l.offered
          /\ \A c \in Carried(link) \union Q : c.frame # link.held
      BY <1>4, <3>1 DEF Told
    <3>8. link.held # l.held
      BY <2>2, <3>1
    <3>9. Told(Emit(l, link.held, d), Carried(Emit(l, link.held, d)) \union Q)
      BY <1>1, <3>1, <3>2, <3>3, <3>6, <3>7, <3>8, EmitTold
    <3>10. Emit(l, link.held, d) \in LinkType
      BY <1>1, <3>1, <3>2, EmitEffect
    <3> QED  BY <3>2, <3>9, <3>10
  <2> QED  BY <2>1, <2>2
<1> HIDE DEF m
<1>6. link' = Release(m, Len(m.scheduled))
  BY <1>3 DEF ReleaseAll, m
<1>7. Len(m.scheduled) \in 0 .. Len(m.scheduled)
  BY <1>5, FieldTypes
<1>8. /\ link'.held = m.held /\ link'.offered = m.offered /\ link'.dropped = m.dropped
  BY <1>5, <1>6, <1>7, ReleaseBooks DEF KeepsBooks
<1>9. link'.duplicated = m.duplicated
  BY <1>5, <1>6, <1>7, ReleaseMoves
<1>10. Carried(link') = Carried(m) /\ link'.corrupted = m.corrupted
  BY <1>5, <1>6, <1>7, ReleaseCarries
<1>11. Out' = Carried(m) \union Q
  BY <1>2, <1>10 DEF Out, Carried
<1> QED  BY <1>2, <1>5, <1>8, <1>9, <1>10, <1>11 DEF Truth, Told, Knobs, BadIn, Bad

\* The link always tells the truth about what it does to the copies it carries.
LEMMA TruthHolds == Spec => []Truth
<1>1. TypeOK /\ TypeOK' /\ Truth /\ [Next]_vars => Truth'
  <2> SUFFICES ASSUME TypeOK, TypeOK', Truth, [Next]_vars PROVE Truth'
    OBVIOUS
  <2>1. CASE Send
    BY <2>1, SendTruth
  <2>2. CASE Recv
    BY <2>2, RecvTruth
  <2>3. CASE Flush
    BY <2>3, FlushTruth
  <2>4. CASE Tick
    BY <2>4 DEF Tick, Truth, Told, Knobs, BadIn, Bad, Out, Carried
  <2>5. CASE UNCHANGED vars
    BY <2>5 DEF vars, Truth, Told, Knobs, BadIn, Bad, Out, Carried
  <2> QED  BY <2>1, <2>2, <2>3, <2>4, <2>5 DEF Next
<1> QED  BY <1>1, InitTruth, TypeCorrect, PTL DEF Spec
-----------------------------------------------------------------------------
(* The order of what the link carries, where no jitter mixes it up. *)

CopiesIn(q) == [i \in 1 .. Len(q) |-> q[i].copy]

\* The copies under way in the order in which they will come out, and behind those received.
Queue(l) == l.inner \o CopiesIn(l.scheduled)
InOrder(l, got) == got \o Queue(l)

\* The frames whose first copy comes behind a frame sent later.
Late(s) == {f \in Frame : \E j \in 1 .. Len(s) :
                /\ s[j].frame = f
                /\ \A i \in 1 .. j - 1 : s[i].frame # f
                /\ \E i \in 1 .. j - 1 : s[i].frame > f}

Ascending(s) == \A i, j \in 1 .. Len(s) : i < j => s[i].frame <= s[j].frame

\* Between two copies of a frame there is no other.
Together(s) ==
    \A i, j \in 1 .. Len(s) : i < j /\ s[i].frame = s[j].frame => s[j - 1].frame = s[j].frame

\* A sequence with one more element.
LEMMA OneMore ==
    ASSUME NEW S, NEW s \in Seq(S), NEW e \in S
    PROVE  /\ Append(s, e) \in Seq(S) /\ Append(s, e) = s \o <<e>>
           /\ Len(s) \in Nat /\ Len(Append(s, e)) = Len(s) + 1
           /\ \A i \in 1 .. Len(s) : Append(s, e)[i] = s[i]
           /\ Append(s, e)[Len(s) + 1] = e
<1>1. Append(s, e) \in Seq(S) /\ Len(s) \in Nat /\ Len(Append(s, e)) = Len(s) + 1
  BY AppendProperties, LenProperties
<1>2. \A i \in 1 .. Len(s) + 1 : Append(s, e)[i] = IF i <= Len(s) THEN s[i] ELSE e
  BY AppendProperties
<1>3. \A i \in 1 .. Len(s) : Append(s, e)[i] = s[i]
  BY <1>1, <1>2
<1>4. Append(s, e)[Len(s) + 1] = e
  BY <1>1, <1>2
<1>5. Append(s, e) = s \o <<e>>
  BY AppendIsConcat
<1> QED  BY <1>1, <1>3, <1>4, <1>5

\* A frame already there, or behind no later one, is not late.
LEMMA LateStays ==
    ASSUME NEW s \in Seq(Copy), NEW c \in Copy,
           \/ \E i \in 1 .. Len(s) : s[i].frame = c.frame
           \/ \A i \in 1 .. Len(s) : s[i].frame <= c.frame
    PROVE  Late(Append(s, c)) = Late(s)
<1> DEFINE t == Append(s, c)
           n == Len(s)
<1>1. /\ n \in Nat /\ Len(t) = n + 1 /\ t[n + 1] = c
      /\ \A i \in 1 .. n : t[i] = s[i]
  BY OneMore
<1>2. \A i \in 1 .. n : s[i].frame \in Nat
  <2>1. \A i \in 1 .. n : s[i] \in Copy
    BY ElementOfSeq
  <2> QED  BY <2>1 DEF Copy, Frame
<1>3. c.frame \in Nat
  BY DEF Copy, Frame
<1>4. \/ \E i \in 1 .. n : s[i].frame = c.frame
      \/ \A i \in 1 .. n : s[i].frame <= c.frame
  OBVIOUS
<1> HIDE DEF t, n
<1>5. ASSUME NEW f \in Frame, f \in Late(t) PROVE f \in Late(s)
  <2>1. PICK j \in 1 .. n + 1 : /\ t[j].frame = f /\ \A i \in 1 .. j - 1 : t[i].frame # f
                                /\ \E i \in 1 .. j - 1 : t[i].frame > f
    BY <1>1, <1>5 DEF Late
  <2>2. j # n + 1
    <3> SUFFICES ASSUME j = n + 1 PROVE FALSE
      OBVIOUS
    <3>1. /\ f = c.frame /\ \A i \in 1 .. n : s[i].frame # f
          /\ \E i \in 1 .. n : s[i].frame > f
      BY <1>1, <2>1
    <3> QED  BY <1>2, <1>3, <1>4, <3>1
  <2>3. j \in 1 .. n /\ \A i \in 1 .. j - 1 : i \in 1 .. n
    BY <1>1, <2>2
  <2>4. /\ s[j].frame = f /\ \A i \in 1 .. j - 1 : s[i].frame # f
        /\ \E i \in 1 .. j - 1 : s[i].frame > f
    BY <1>1, <2>1, <2>3
  <2> QED  BY <2>3, <2>4 DEF Late, n
<1>6. ASSUME NEW f \in Frame, f \in Late(s) PROVE f \in Late(t)
  <2>1. PICK j \in 1 .. n : /\ s[j].frame = f /\ \A i \in 1 .. j - 1 : s[i].frame # f
                            /\ \E i \in 1 .. j - 1 : s[i].frame > f
    BY <1>6 DEF Late, n
  <2>2. j \in 1 .. n + 1 /\ \A i \in 1 .. j - 1 : i \in 1 .. n
    BY <1>1
  <2>3. /\ t[j].frame = f /\ \A i \in 1 .. j - 1 : t[i].frame # f
        /\ \E i \in 1 .. j - 1 : t[i].frame > f
    BY <1>1, <2>1, <2>2
  <2> QED  BY <1>1, <2>2, <2>3 DEF Late
<1>7. Late(t) \subseteq Frame /\ Late(s) \subseteq Frame
  BY DEF Late
<1>8. Late(t) = Late(s)
  BY <1>5, <1>6, <1>7
<1> QED  BY <1>8 DEF t

\* A new frame behind a later one is.
LEMMA LateAdds ==
    ASSUME NEW s \in Seq(Copy), NEW c \in Copy,
           \A i \in 1 .. Len(s) : s[i].frame # c.frame,
           \E i \in 1 .. Len(s) : s[i].frame > c.frame
    PROVE  Late(Append(s, c)) = Late(s) \union {c.frame} /\ c.frame \notin Late(s)
<1> DEFINE t == Append(s, c)
           n == Len(s)
<1>1. /\ n \in Nat /\ Len(t) = n + 1 /\ t[n + 1] = c
      /\ \A i \in 1 .. n : t[i] = s[i]
  BY OneMore
<1>2. /\ \A i \in 1 .. n : s[i].frame # c.frame
      /\ \E i \in 1 .. n : s[i].frame > c.frame
  OBVIOUS
<1>3. c.frame \in Frame
  BY DEF Copy
<1>4. c.frame \notin Late(s)
  BY <1>2 DEF Late
<1> HIDE DEF t, n
<1>5. c.frame \in Late(t)
  <2>1. n + 1 \in 1 .. n + 1 /\ \A i \in 1 .. (n + 1) - 1 : i \in 1 .. n
    BY <1>1
  <2>2. /\ t[n + 1].frame = c.frame /\ \A i \in 1 .. (n + 1) - 1 : t[i].frame # c.frame
        /\ \E i \in 1 .. (n + 1) - 1 : t[i].frame > c.frame
    BY <1>1, <1>2, <2>1
  <2> QED  BY <1>1, <1>3, <2>1, <2>2 DEF Late
<1>6. ASSUME NEW f \in Frame, f \in Late(t), f # c.frame PROVE f \in Late(s)
  <2>1. PICK j \in 1 .. n + 1 : /\ t[j].frame = f /\ \A i \in 1 .. j - 1 : t[i].frame # f
                                /\ \E i \in 1 .. j - 1 : t[i].frame > f
    BY <1>1, <1>6 DEF Late
  <2>2. j \in 1 .. n /\ \A i \in 1 .. j - 1 : i \in 1 .. n
    BY <1>1, <1>6, <2>1
  <2>3. /\ s[j].frame = f /\ \A i \in 1 .. j - 1 : s[i].frame # f
        /\ \E i \in 1 .. j - 1 : s[i].frame > f
    BY <1>1, <2>1, <2>2
  <2> QED  BY <2>2, <2>3 DEF Late, n
<1>7. ASSUME NEW f \in Frame, f \in Late(s) PROVE f \in Late(t)
  <2>1. PICK j \in 1 .. n : /\ s[j].frame = f /\ \A i \in 1 .. j - 1 : s[i].frame # f
                            /\ \E i \in 1 .. j - 1 : s[i].frame > f
    BY <1>7 DEF Late, n
  <2>2. j \in 1 .. n + 1 /\ \A i \in 1 .. j - 1 : i \in 1 .. n
    BY <1>1
  <2>3. /\ t[j].frame = f /\ \A i \in 1 .. j - 1 : t[i].frame # f
        /\ \E i \in 1 .. j - 1 : t[i].frame > f
    BY <1>1, <2>1, <2>2
  <2> QED  BY <1>1, <2>2, <2>3 DEF Late
<1>8. Late(t) \subseteq Frame /\ Late(s) \subseteq Frame
  BY DEF Late
<1>9. Late(t) = Late(s) \union {c.frame}
  BY <1>3, <1>5, <1>6, <1>7, <1>8
<1> QED  BY <1>4, <1>9 DEF t

\* An element no smaller than the others keeps a sequence ascending.
LEMMA AscendingGrows ==
    ASSUME NEW s \in Seq(Copy), NEW c \in Copy, Ascending(s),
           \A i \in 1 .. Len(s) : s[i].frame <= c.frame
    PROVE  Ascending(Append(s, c))
<1> DEFINE t == Append(s, c)
           n == Len(s)
<1>1. /\ n \in Nat /\ Len(t) = n + 1 /\ t[n + 1] = c
      /\ \A i \in 1 .. n : t[i] = s[i]
  BY OneMore
<1>2. /\ \A i \in 1 .. n : s[i].frame <= c.frame
      /\ \A i, j \in 1 .. n : i < j => s[i].frame <= s[j].frame
  BY DEF Ascending
<1> HIDE DEF t, n
<1>3. ASSUME NEW i \in 1 .. n + 1, NEW j \in 1 .. n + 1, i < j
      PROVE  t[i].frame <= t[j].frame
  <2>1. i \in 1 .. n
    BY <1>1, <1>3
  <2>2. CASE j = n + 1
    BY <1>1, <1>2, <2>1, <2>2
  <2>3. CASE j \in 1 .. n
    BY <1>1, <1>2, <1>3, <2>1, <2>3
  <2> QED  BY <1>1, <2>2, <2>3
<1>4. Ascending(t)
  BY <1>1, <1>3 DEF Ascending
<1> QED  BY <1>4 DEF t

\* The copies of a frame stay together if one more goes to the end only behind its first.
LEMMA TogetherGrows ==
    ASSUME NEW s \in Seq(Copy), NEW c \in Copy, Together(s),
           (\A i \in 1 .. Len(s) : s[i].frame # c.frame) \/ s[Len(s)].frame = c.frame
    PROVE  Together(Append(s, c))
<1> DEFINE t == Append(s, c)
           n == Len(s)
<1>1. /\ n \in Nat /\ Len(t) = n + 1 /\ t[n + 1] = c
      /\ \A i \in 1 .. n : t[i] = s[i]
  BY OneMore
<1>2. /\ \A i, j \in 1 .. n : i < j /\ s[i].frame = s[j].frame => s[j - 1].frame = s[j].frame
      /\ (\A i \in 1 .. n : s[i].frame # c.frame) \/ s[n].frame = c.frame
  BY DEF Together
<1> HIDE DEF t, n
<1>3. ASSUME NEW i \in 1 .. n + 1, NEW j \in 1 .. n + 1, i < j, t[i].frame = t[j].frame
      PROVE  t[j - 1].frame = t[j].frame
  <2>1. i \in 1 .. n /\ j - 1 \in 1 .. n
    BY <1>1, <1>3
  <2>2. t[i] = s[i] /\ t[j - 1] = s[j - 1]
    BY <1>1, <2>1
  <2>3. CASE j = n + 1
    <3>1. t[j] = c /\ j - 1 = n
      BY <1>1, <2>3
    <3>2. s[n].frame = c.frame
      BY <1>2, <1>3, <2>1, <2>2, <3>1
    <3> QED  BY <2>2, <3>1, <3>2
  <2>4. CASE j # n + 1
    <3>1. j \in 1 .. n
      BY <1>1, <2>4
    <3>2. t[j] = s[j]
      BY <1>1, <3>1
    <3> QED  BY <1>2, <1>3, <2>1, <2>2, <3>1, <3>2
  <2> QED  BY <2>3, <2>4
<1>4. Together(t)
  BY <1>1, <1>3 DEF Together
<1> QED  BY <1>4 DEF t

-----------------------------------------------------------------------------
(* What the order of a line s, with h in the slot, n frames offered and r counted reorders,  *)
(* must be: behind a held frame there is none yet that was sent later, copies of a frame     *)
(* follow one another, each late frame was counted, and none is late unless the knob is on.  *)
LineFacts(s, h, n, r) ==
    /\ s \in Seq(Copy) /\ Together(s)
    /\ \A i \in 1 .. Len(s) : s[i].frame <= n /\ (h # None => s[i].frame < h)
    /\ h <= n
    /\ h # None => TRUE \in config.reorder
    /\ r = Cardinality(Late(s))
    /\ TRUE \notin config.reorder => Ascending(s)

\* The latency buffer holds nothing that is due later than a frame sent now would be.
Punctual(l) ==
    /\ \A i \in 1 .. Len(l.scheduled) : l.scheduled[i].at <= now + config.delay
    /\ ~Timed => l.scheduled = <<>>

\* There are only so many late frames.
LEMMA LateFinite ==
    ASSUME NEW s
    PROVE  IsFiniteSet(Late(s)) /\ Cardinality(Late(s)) \in Nat
<1>1. IsFiniteSet(Frame)
  BY BoundAssumption, FS_Interval DEF Frame
<1>2. Late(s) \subseteq Frame
  BY DEF Late
<1>3. IsFiniteSet(Late(s))
  BY <1>1, <1>2, FS_Subset
<1> QED  BY <1>3, FS_CardinalityType

\* The newest frame, or its copy, joins the line.
LEMMA JoinsNewest ==
    ASSUME NEW s, NEW n \in Nat, NEW r, NEW c \in Copy, LineFacts(s, None, n, r),
           c.frame <= n, \A i \in 1 .. Len(s) : s[i].frame <= c.frame,
           (\A i \in 1 .. Len(s) : s[i].frame # c.frame) \/ s[Len(s)].frame = c.frame
    PROVE  LineFacts(Append(s, c), None, n, r)
<1>1. s \in Seq(Copy) /\ r = Cardinality(Late(s)) /\ None <= n
  BY DEF LineFacts
<1>2. Late(Append(s, c)) = Late(s)
  BY <1>1, LateStays
<1>3. TRUE \notin config.reorder => Ascending(Append(s, c))
  BY <1>1, AscendingGrows DEF LineFacts
<1>4. /\ Append(s, c) \in Seq(Copy) /\ Len(s) \in Nat /\ Len(Append(s, c)) = Len(s) + 1
      /\ \A i \in 1 .. Len(s) : Append(s, c)[i] = s[i]
      /\ Append(s, c)[Len(s) + 1] = c
  BY <1>1, OneMore
<1>5. \A i \in 1 .. Len(s) : s[i].frame <= n
  BY DEF LineFacts
<1>6. \A i \in 1 .. Len(s) + 1 : Append(s, c)[i].frame <= n
  BY <1>4, <1>5
<1>7. Together(Append(s, c))
  BY <1>1, TogetherGrows DEF LineFacts
<1> QED  BY <1>1, <1>2, <1>3, <1>4, <1>6, <1>7 DEF LineFacts

\* A frame joins the line behind one sent later, for the first time or again.
LEMMA JoinsLate ==
    ASSUME NEW s, NEW n \in Nat, NEW r, NEW c \in Copy, LineFacts(s, None, n, r),
           c.frame <= n, TRUE \in config.reorder
    PROVE  /\ /\ \A i \in 1 .. Len(s) : s[i].frame # c.frame
              /\ \E i \in 1 .. Len(s) : s[i].frame > c.frame
              => LineFacts(Append(s, c), None, n, r + 1)
           /\ Len(s) \in 1 .. Len(s) /\ s[Len(s)].frame = c.frame
              => LineFacts(Append(s, c), None, n, r)
<1>1. s \in Seq(Copy) /\ r = Cardinality(Late(s)) /\ None <= n
  BY DEF LineFacts
<1>2. /\ Append(s, c) \in Seq(Copy) /\ Len(s) \in Nat /\ Len(Append(s, c)) = Len(s) + 1
      /\ \A i \in 1 .. Len(s) : Append(s, c)[i] = s[i]
      /\ Append(s, c)[Len(s) + 1] = c
  BY <1>1, OneMore
<1>3. \A i \in 1 .. Len(s) : s[i].frame <= n
  BY DEF LineFacts
<1>4. \A i \in 1 .. Len(s) + 1 : Append(s, c)[i].frame <= n
  BY <1>2, <1>3
<1>5. ASSUME NEW q, q = Cardinality(Late(Append(s, c))),
             (\A i \in 1 .. Len(s) : s[i].frame # c.frame) \/ s[Len(s)].frame = c.frame
      PROVE  LineFacts(Append(s, c), None, n, q)
  <2>1. Together(Append(s, c))
    BY <1>1, <1>5, TogetherGrows DEF LineFacts
  <2> QED  BY <1>1, <1>2, <1>4, <1>5, <2>1 DEF LineFacts
<1>6. ASSUME \A i \in 1 .. Len(s) : s[i].frame # c.frame,
             \E i \in 1 .. Len(s) : s[i].frame > c.frame
      PROVE  LineFacts(Append(s, c), None, n, r + 1)
  <2>1. Late(Append(s, c)) = Late(s) \union {c.frame} /\ c.frame \notin Late(s)
    BY <1>1, <1>6, LateAdds
  <2>2. IsFiniteSet(Late(s))
    BY LateFinite
  <2>3. Cardinality(Late(s) \union {c.frame}) = Cardinality(Late(s)) + 1
    BY <2>1, <2>2, FS_AddElement
  <2> QED  BY <1>1, <1>5, <1>6, <2>1, <2>3
<1>7. ASSUME Len(s) \in 1 .. Len(s), s[Len(s)].frame = c.frame
      PROVE  LineFacts(Append(s, c), None, n, r)
  <2>1. Late(Append(s, c)) = Late(s)
    BY <1>1, <1>7, LateStays
  <2> QED  BY <1>1, <1>5, <1>7, <2>1
<1> QED  BY <1>6, <1>7

\* The copies in a sequence of entries.
LEMMA CopiesType ==
    ASSUME NEW q \in Seq(Entry)
    PROVE  /\ CopiesIn(q) \in Seq(Copy) /\ Len(CopiesIn(q)) = Len(q) /\ Len(q) \in Nat
           /\ \A i \in 1 .. Len(q) : CopiesIn(q)[i] = q[i].copy
<1>1. Len(q) \in Nat
  BY LenProperties
<1>2. \A i \in 1 .. Len(q) : q[i] \in Entry
  BY ElementOfSeq
<1>3. \A i \in 1 .. Len(q) : q[i].copy \in Copy
  BY <1>2 DEF Entry
<1> QED  BY <1>1, <1>3 DEF CopiesIn

\* They are those of its parts.
LEMMA CopiesConcat ==
    ASSUME NEW p \in Seq(Entry), NEW q \in Seq(Entry)
    PROVE  CopiesIn(p \o q) = CopiesIn(p) \o CopiesIn(q)
<1> DEFINE a == CopiesIn(p \o q)
           b == CopiesIn(p) \o CopiesIn(q)
<1>1. /\ p \o q \in Seq(Entry) /\ Len(p \o q) = Len(p) + Len(q)
      /\ \A i \in 1 .. Len(p) + Len(q) : (p \o q)[i] = IF i <= Len(p) THEN p[i] ELSE q[i - Len(p)]
  BY ConcatProperties
<1>2. /\ CopiesIn(p) \in Seq(Copy) /\ Len(CopiesIn(p)) = Len(p) /\ Len(p) \in Nat
      /\ \A i \in 1 .. Len(p) : CopiesIn(p)[i] = p[i].copy
  BY CopiesType
<1>3. /\ CopiesIn(q) \in Seq(Copy) /\ Len(CopiesIn(q)) = Len(q) /\ Len(q) \in Nat
      /\ \A i \in 1 .. Len(q) : CopiesIn(q)[i] = q[i].copy
  BY CopiesType
<1>4. /\ b \in Seq(Copy) /\ Len(b) = Len(p) + Len(q)
      /\ \A i \in 1 .. Len(p) + Len(q) :
            b[i] = IF i <= Len(p) THEN CopiesIn(p)[i] ELSE CopiesIn(q)[i - Len(p)]
  <2>1. /\ b \in Seq(Copy) /\ Len(b) = Len(CopiesIn(p)) + Len(CopiesIn(q))
        /\ \A i \in 1 .. Len(CopiesIn(p)) + Len(CopiesIn(q)) :
              b[i] = IF i <= Len(CopiesIn(p)) THEN CopiesIn(p)[i]
                     ELSE CopiesIn(q)[i - Len(CopiesIn(p))]
    <3>1. CopiesIn(p) \in Seq(Copy) /\ CopiesIn(q) \in Seq(Copy)
      BY <1>2, <1>3
    <3> QED  BY <3>1, ConcatProperties
  <2> QED  BY <1>2, <1>3, <2>1
<1>5. /\ a \in Seq(Copy) /\ Len(a) = Len(p) + Len(q)
      /\ \A i \in 1 .. Len(p) + Len(q) : a[i] = (p \o q)[i].copy
  BY <1>1, CopiesType
<1> HIDE DEF a, b
<1>6. ASSUME NEW i \in 1 .. Len(p) + Len(q) PROVE a[i] = b[i]
  <2>1. CASE i <= Len(p)
    <3>1. i \in 1 .. Len(p)
      BY <1>2, <2>1
    <3>2. (p \o q)[i] = p[i] /\ b[i] = CopiesIn(p)[i]
      BY <1>1, <1>4, <2>1
    <3>3. a[i] = (p \o q)[i].copy /\ CopiesIn(p)[i] = p[i].copy
      BY <1>2, <1>5, <3>1
    <3> QED  BY <3>2, <3>3
  <2>2. CASE ~(i <= Len(p))
    <3>1. i - Len(p) \in 1 .. Len(q)
      BY <1>2, <1>3, <2>2
    <3>2. (p \o q)[i] = q[i - Len(p)] /\ b[i] = CopiesIn(q)[i - Len(p)]
      BY <1>1, <1>4, <2>2
    <3>3. a[i] = (p \o q)[i].copy /\ CopiesIn(q)[i - Len(p)] = q[i - Len(p)].copy
      BY <1>3, <1>5, <3>1
    <3> QED  BY <3>2, <3>3
  <2> QED  BY <2>1, <2>2
<1>7. a = b
  BY <1>4, <1>5, <1>6, SeqEqual
<1> QED  BY <1>7 DEF a, b

\* An entry due no earlier than the others goes to the end.
LEMMA InsertLast ==
    ASSUME NEW q \in Seq(Entry), NEW e \in Entry, \A i \in 1 .. Len(q) : q[i].at <= e.at
    PROVE  InsertByRelease(q, e) = Append(q, e)
<1> DEFINE before == {i \in 1 .. Len(q) : q[i].at <= e.at}
<1>1. before = 1 .. Len(q) /\ Len(q) \in Nat
  BY LenProperties
<1>2. Cardinality(before) = Len(q)
  <2>1. \A n \in Nat : Cardinality(1 .. n) = n
    BY FS_Interval
  <2> QED  BY <1>1, <2>1
<1>3. SubSeq(q, 1, Len(q)) = q
  BY SubSeqFull
<1>4. SubSeq(q, Len(q) + 1, Len(q)) = <<>>
  BY <1>1, SubSeqEmpty
<1>5. InsertByRelease(q, e) = SubSeq(q, 1, Cardinality(before)) \o <<e>>
                              \o SubSeq(q, Cardinality(before) + 1, Len(q))
  BY DEF InsertByRelease
<1> HIDE DEF before
<1>6. InsertByRelease(q, e) = q \o <<e>> \o <<>>
  BY <1>2, <1>3, <1>4, <1>5
<1>7. Append(q, e) = q \o <<e>> /\ Append(q, e) \in Seq(Entry)
  BY OneMore
<1>8. Append(q, e) \o <<>> = Append(q, e)
  BY <1>7, ConcatEmptySeq
<1> QED  BY <1>6, <1>7, <1>8

\* The copies with one entry more.
LEMMA CopiesAppend ==
    ASSUME NEW q \in Seq(Entry), NEW e \in Entry
    PROVE  CopiesIn(Append(q, e)) = Append(CopiesIn(q), e.copy)
<1> DEFINE a == CopiesIn(Append(q, e))
           b == Append(CopiesIn(q), e.copy)
           n == Len(q)
<1>1. /\ Append(q, e) \in Seq(Entry) /\ Len(Append(q, e)) = n + 1 /\ n \in Nat
      /\ \A i \in 1 .. n : Append(q, e)[i] = q[i]
      /\ Append(q, e)[n + 1] = e
  BY OneMore
<1>2. e.copy \in Copy
  BY DEF Entry
<1>3. /\ CopiesIn(q) \in Seq(Copy) /\ Len(CopiesIn(q)) = n
      /\ \A i \in 1 .. n : CopiesIn(q)[i] = q[i].copy
  BY CopiesType
<1>4. /\ b \in Seq(Copy) /\ Len(b) = Len(CopiesIn(q)) + 1
      /\ \A i \in 1 .. Len(CopiesIn(q)) : b[i] = CopiesIn(q)[i]
      /\ b[Len(CopiesIn(q)) + 1] = e.copy
  <2>1. CopiesIn(q) \in Seq(Copy)
    BY <1>3
  <2> QED  BY <1>2, <2>1, OneMore
<1>5. /\ a \in Seq(Copy) /\ Len(a) = n + 1
      /\ \A i \in 1 .. n + 1 : a[i] = Append(q, e)[i].copy
  BY <1>1, CopiesType
<1> HIDE DEF a, b, n
<1>6. ASSUME NEW i \in 1 .. n + 1 PROVE a[i] = b[i]
  <2>1. CASE i = n + 1
    BY <1>1, <1>3, <1>4, <1>5, <2>1
  <2>2. CASE i # n + 1
    <3>1. i \in 1 .. n
      BY <1>1, <2>2
    <3>2. a[i] = q[i].copy
      BY <1>1, <1>5, <3>1
    <3>3. b[i] = q[i].copy
      BY <1>3, <1>4, <3>1
    <3> QED  BY <3>2, <3>3
  <2> QED  BY <2>1, <2>2
<1>7. Len(a) = n + 1 /\ Len(b) = n + 1 /\ a \in Seq(Copy) /\ b \in Seq(Copy)
  BY <1>3, <1>4, <1>5
<1>8. a = b
  BY <1>6, <1>7, SeqEqual
<1> QED  BY <1>8 DEF a, b

\* What is under way has its type.
LEMMA QueueType ==
    ASSUME NEW l \in LinkType
    PROVE  /\ Queue(l) \in Seq(Copy) /\ l.inner \in Seq(Copy)
           /\ l.scheduled \in Seq(Entry) /\ CopiesIn(l.scheduled) \in Seq(Copy)
<1>1. l.inner \in Seq(Copy) /\ l.scheduled \in Seq(Entry)
  BY FieldTypes
<1>2. CopiesIn(l.scheduled) \in Seq(Copy)
  BY <1>1, CopiesType
<1>3. l.inner \o CopiesIn(l.scheduled) \in Seq(Copy)
  BY <1>1, <1>2, ConcatProperties
<1> QED  BY <1>1, <1>2, <1>3 DEF Queue

\* Moving entries from the latency buffer to the inner queue keeps their order.
LEMMA ReleaseKeepsOrder ==
    ASSUME NEW l \in LinkType, NEW k \in 0 .. Len(l.scheduled), Punctual(l)
    PROVE  /\ Queue(Release(l, k)) = Queue(l) /\ Punctual(Release(l, k))
           /\ Release(l, k).reordered = l.reordered
<1> DEFINE q == l.scheduled
           front == SubSeq(q, 1, k)
           back == SubSeq(q, k + 1, Len(q))
           copies == [i \in 1 .. k |-> q[i].copy]
           r == Release(l, k)
<1>1. l.inner \in Seq(Copy) /\ q \in Seq(Entry)
  BY FieldTypes
<1>2. /\ front \in Seq(Entry) /\ back \in Seq(Entry) /\ Len(front) = k
      /\ \A i \in 1 .. k : front[i] = q[i]
      /\ q = front \o back
  BY <1>1, Halves
<1>3. r = [l EXCEPT !.scheduled = back, !.inner = l.inner \o copies,
                    !.delivered = l.delivered + Len(copies)]
  BY DEF Release, PushInner, LinkType
<1>4. copies = CopiesIn(front)
  BY <1>2 DEF CopiesIn
<1> HIDE DEF front, back, copies, r
<1>5. r.scheduled = back /\ r.inner = l.inner \o copies /\ r.reordered = l.reordered
  <2>1. ASSUME NEW a, NEW b, NEW c, r = [l EXCEPT !.scheduled = a, !.inner = b, !.delivered = c]
        PROVE  r.scheduled = a /\ r.inner = b /\ r.reordered = l.reordered
    BY <2>1 DEF LinkType
  <2>2. \E a, b, c : /\ a = back /\ b = l.inner \o copies
                    /\ r = [l EXCEPT !.scheduled = a, !.inner = b, !.delivered = c]
    BY <1>3
  <2> QED  BY <2>1, <2>2
<1>6. CopiesIn(front) \in Seq(Copy) /\ CopiesIn(back) \in Seq(Copy)
  BY <1>2, CopiesType
<1>7. CopiesIn(q) = CopiesIn(front) \o CopiesIn(back)
  BY <1>2, CopiesConcat
<1>8. (l.inner \o CopiesIn(front)) \o CopiesIn(back) = l.inner \o (CopiesIn(front) \o CopiesIn(back))
  <2>1. ASSUME NEW a \in Seq(Copy), NEW b \in Seq(Copy), NEW c \in Seq(Copy)
        PROVE  (a \o b) \o c = a \o (b \o c)
    BY ConcatAssociative
  <2>2. l.inner \in Seq(Copy)
    BY <1>1
  <2> QED  BY <1>6, <2>1, <2>2
<1>9. Queue(r) = Queue(l)
  BY <1>4, <1>5, <1>7, <1>8 DEF Queue
<1>10. Punctual(r)
  <2>1. Len(q) \in Nat /\ k \in Nat /\ k <= Len(q)
    BY <1>1, LenProperties
  <2>2. /\ Len(back) = Len(q) - k
        /\ \A i \in 1 .. Len(q) - k : back[i] = q[k + i]
    <3>1. Len(back) \in Nat
      BY <1>2, LenProperties
    <3>2. /\ Len(front \o back) = k + Len(back)
          /\ \A i \in 1 .. k + Len(back) :
                (front \o back)[i] = IF i <= k THEN front[i] ELSE back[i - k]
      BY <1>2, ConcatProperties
    <3>3. Len(q) = k + Len(back)
      BY <1>2, <3>2
    <3>4. ASSUME NEW i \in 1 .. Len(back) PROVE back[i] = q[k + i]
      <4>1. k + i \in 1 .. k + Len(back) /\ ~(k + i <= k) /\ (k + i) - k = i
        BY <2>1, <3>1
      <4>2. (front \o back)[k + i] = back[i]
        BY <3>2, <4>1
      <4> QED  BY <1>2, <4>2
    <3>5. Len(back) = Len(q) - k
      BY <2>1, <3>1, <3>3
    <3> QED  BY <3>4, <3>5
  <2>3. \A i \in 1 .. Len(q) : q[i].at <= now + config.delay
    BY DEF Punctual
  <2>4. \A i \in 1 .. Len(back) : back[i].at <= now + config.delay
    <3>1. \A i \in 1 .. Len(q) - k : k + i \in 1 .. Len(q)
      BY <2>1
    <3> QED  BY <2>2, <2>3, <3>1
  <2>5. ~Timed => back = <<>>
    <3> SUFFICES ASSUME ~Timed PROVE back = <<>>
      OBVIOUS
    <3>1. q = <<>>
      BY DEF Punctual
    <3>2. front \o back = <<>> /\ front \in Seq(Entry) /\ back \in Seq(Entry)
      BY <1>2, <3>1
    <3> HIDE DEF q
    <3> QED  BY <3>2, ConcatSimplifications
  <2> QED  BY <1>5, <2>4, <2>5 DEF Punctual
<1> QED  BY <1>5, <1>9, <1>10 DEF r

\* Without jitter all latencies are the same.
LEMMA OneDelay ==
    ASSUME config \in Configs, config.jitter = 0, NEW d \in Draw
    PROVE  d.delay = config.delay /\ d.delay2 = config.delay /\ config.delay \in Nat
<1>1. config.delay \in Nat
  BY ConfigAssumption
<1>2. \A j \in -config.jitter .. config.jitter : j = 0
  OBVIOUS
<1>3. \A x \in Delays : x = config.delay
  BY <1>1, <1>2 DEF Delays, Timed
<1>4. d.delay \in Delays /\ d.delay2 \in Delays
  BY DEF Draw
<1> QED  BY <1>1, <1>3, <1>4

\* So a copy put on its way goes behind everything under way.
LEMMA ScheduleAppends ==
    ASSUME NEW l \in LinkType, NEW copy \in Copy, now \in Nat, config \in Configs,
           config.delay \in Nat, Punctual(l)
    PROVE  LET s == Schedule(l, copy, config.delay)
           IN  /\ Queue(s) = Append(Queue(l), copy)
               /\ Punctual(s) /\ s.reordered = l.reordered
<1> DEFINE s == Schedule(l, copy, config.delay)
<1>1. /\ l.inner \in Seq(Copy) /\ l.scheduled \in Seq(Entry)
      /\ CopiesIn(l.scheduled) \in Seq(Copy) /\ Queue(l) \in Seq(Copy)
  BY QueueType
<1>2. CASE Timed
  <2> DEFINE e == [at |-> now + config.delay, copy |-> copy]
             q == InsertByRelease(l.scheduled, e)
             longest == IF config.delay > l.max_delay THEN config.delay ELSE l.max_delay
  <2>1. e \in Entry /\ e.copy = copy /\ e.at = now + config.delay
    BY DEF Entry
  <2>2. s = [l EXCEPT !.scheduled = q, !.delayed = l.delayed + 1, !.max_delay = longest]
    BY <1>2 DEF Schedule
  <2> HIDE DEF e, s
  <2>3. \A i \in 1 .. Len(l.scheduled) : l.scheduled[i].at <= e.at
    BY <2>1 DEF Punctual
  <2>4. q = Append(l.scheduled, e)
    BY <1>1, <2>1, <2>3, InsertLast
  <2> HIDE DEF q, longest
  <2>5. s.scheduled = q /\ s.inner = l.inner /\ s.reordered = l.reordered
    BY <2>2 DEF LinkType
  <2>6. CopiesIn(q) = Append(CopiesIn(l.scheduled), copy)
    BY <1>1, <2>1, <2>4, CopiesAppend
  <2>7. ASSUME NEW a \in Seq(Copy), NEW b \in Seq(Copy)
        PROVE  a \o Append(b, copy) = Append(a \o b, copy)
    <3>1. a \o b \in Seq(Copy)
      BY ConcatProperties
    <3>2. Append(b, copy) = b \o <<copy>> /\ Append(a \o b, copy) = (a \o b) \o <<copy>>
      BY <3>1, OneMore
    <3>3. <<copy>> \in Seq(Copy)
      OBVIOUS
    <3>4. (a \o b) \o <<copy>> = a \o (b \o <<copy>>)
      BY <3>3, ConcatAssociative
    <3> QED  BY <3>2, <3>4
  <2>8. Queue(s) = Append(Queue(l), copy)
    BY <1>1, <2>5, <2>6, <2>7 DEF Queue
  <2>9. Punctual(s)
    <3>1. /\ Len(q) = Len(l.scheduled) + 1 /\ Len(l.scheduled) \in Nat
          /\ \A i \in 1 .. Len(l.scheduled) : q[i] = l.scheduled[i]
          /\ q[Len(l.scheduled) + 1] = e
      BY <1>1, <2>1, <2>4, OneMore
    <3>2. \A i \in 1 .. Len(l.scheduled) : q[i].at <= e.at
      BY <2>3, <3>1
    <3>3. q[Len(l.scheduled) + 1].at <= e.at
      BY <2>1, <3>1
    <3>4. \A i \in 1 .. Len(l.scheduled) + 1 : q[i].at <= e.at
      BY <3>1, <3>2, <3>3
    <3> QED  BY <1>2, <2>1, <2>5, <3>1, <3>4 DEF Punctual
  <2> QED  BY <2>5, <2>8, <2>9 DEF s
<1>3. CASE ~Timed
  <2>1. s = [l EXCEPT !.inner = l.inner \o <<copy>>, !.delivered = l.delivered + Len(<<copy>>)]
    BY <1>3 DEF Schedule, PushInner
  <2> HIDE DEF s
  <2>2. s.scheduled = l.scheduled /\ s.inner = l.inner \o <<copy>> /\ s.reordered = l.reordered
    BY <2>1 DEF LinkType
  <2>3. l.scheduled = <<>>
    BY <1>3 DEF Punctual
  <2>4. CopiesIn(<<>>) = <<>>
    BY DEF CopiesIn
  <2>5. Append(l.inner, copy) = l.inner \o <<copy>> /\ Append(l.inner, copy) \in Seq(Copy)
    BY <1>1, OneMore
  <2>6. l.inner \o <<>> = l.inner /\ Append(l.inner, copy) \o <<>> = Append(l.inner, copy)
    BY <1>1, <2>5, ConcatEmptySeq
  <2>7. Queue(l) = l.inner /\ Queue(s) = Append(l.inner, copy)
    BY <2>2, <2>3, <2>4, <2>5, <2>6 DEF Queue
  <2>8. Punctual(s)
    BY <2>2 DEF Punctual
  <2> QED  BY <2>2, <2>7, <2>8 DEF s
<1> QED  BY <1>2, <1>3

\* Emitting a frame puts one copy of it or two behind everything under way.
LEMMA EmitAppends ==
    ASSUME NEW l \in LinkType, NEW g \in Frame, NEW d \in Draw, now \in Nat,
           config \in Configs, config.jitter = 0, Punctual(l)
    PROVE  /\ Punctual(Emit(l, g, d)) /\ Emit(l, g, d).reordered = l.reordered
           /\ \E c \in Copy :
                 /\ c.frame = g
                 /\ \/ Queue(Emit(l, g, d)) = Append(Queue(l), c)
                    \/ Queue(Emit(l, g, d)) = Append(Append(Queue(l), c), c)
<1> DEFINE out == [frame |-> g, intact |-> ~d.corrupt]
           marked == [l EXCEPT !.corrupted = IF d.corrupt THEN @ + 1 ELSE @]
           once == Schedule(marked, out, config.delay)
           doubled == [once EXCEPT !.duplicated = @ + 1]
           twice == Schedule(doubled, out, config.delay)
<1>1. d.delay = config.delay /\ d.delay2 = config.delay /\ config.delay \in Nat
  BY OneDelay
<1>2. out \in Copy /\ out.frame = g
  BY DEF Copy
<1>3. /\ marked \in LinkType /\ marked.inner = l.inner
      /\ marked.scheduled = l.scheduled /\ marked.reordered = l.reordered
  <2>1. \A a \in Nat : [l EXCEPT !.corrupted = a] \in LinkType
    BY DEF LinkType
  <2>2. (IF d.corrupt THEN l.corrupted + 1 ELSE l.corrupted) \in Nat
    BY FieldTypes
  <2>3. marked \in LinkType
    BY <2>1, <2>2
  <2> QED  BY <2>3 DEF LinkType
<1>4. Queue(marked) = Queue(l) /\ Punctual(marked)
  BY <1>3 DEF Queue, Punctual
<1> HIDE DEF out, marked
<1>5. once \in LinkType
  BY <1>1, <1>2, <1>3, ScheduleBooks DEF KeepsBooks
<1>6. Queue(once) = Append(Queue(l), out) /\ Punctual(once) /\ once.reordered = l.reordered
  BY <1>1, <1>2, <1>3, <1>4, ScheduleAppends
<1> HIDE DEF once
<1>7. /\ doubled \in LinkType /\ doubled.inner = once.inner
      /\ doubled.scheduled = once.scheduled /\ doubled.reordered = once.reordered
  <2>1. \A a \in Nat : [once EXCEPT !.duplicated = a] \in LinkType
    BY <1>5 DEF LinkType
  <2>2. once.duplicated + 1 \in Nat
    BY <1>5, FieldTypes
  <2> QED  BY <1>5, <2>1, <2>2 DEF LinkType
<1>8. Queue(doubled) = Queue(once) /\ Punctual(doubled)
  BY <1>6, <1>7 DEF Queue, Punctual
<1> HIDE DEF doubled
<1>9. Queue(twice) = Append(Queue(once), out) /\ Punctual(twice) /\ twice.reordered = l.reordered
  BY <1>1, <1>2, <1>6, <1>7, <1>8, ScheduleAppends
<1>10. Emit(l, g, d) = IF d.twice THEN twice ELSE once
  BY <1>1 DEF Emit, twice, doubled, once, marked, out
<1> HIDE DEF twice
<1> QED  BY <1>2, <1>6, <1>9, <1>10

-----------------------------------------------------------------------------
(* Every call keeps the line in order. *)

Ordered ==
    config.jitter = 0 =>
        /\ Punctual(link)
        /\ LineFacts(InOrder(link, arrived), link.held, link.offered, link.reordered)

\* What joins the queue joins the line.
LEMMA JoinsTheLine ==
    ASSUME NEW l \in LinkType, NEW got \in Seq(Copy), NEW c \in Copy
    PROVE  /\ InOrder(l, got) \in Seq(Copy)
           /\ got \o Append(Queue(l), c) = Append(InOrder(l, got), c)
           /\ got \o Append(Append(Queue(l), c), c) = Append(Append(InOrder(l, got), c), c)
<1>1. ASSUME NEW q \in Seq(Copy)
      PROVE  got \o q \in Seq(Copy) /\ got \o Append(q, c) = Append(got \o q, c)
  <2>1. got \o q \in Seq(Copy)
    BY ConcatProperties
  <2>2. Append(q, c) = q \o <<c>> /\ Append(got \o q, c) = (got \o q) \o <<c>>
    BY <2>1, OneMore
  <2>3. <<c>> \in Seq(Copy)
    OBVIOUS
  <2>4. (got \o q) \o <<c>> = got \o (q \o <<c>>)
    BY <2>3, ConcatAssociative
  <2> QED  BY <2>1, <2>2, <2>4
<1>2. Queue(l) \in Seq(Copy)
  BY QueueType
<1>3. Append(Queue(l), c) \in Seq(Copy)
  BY <1>2, OneMore
<1>4. got \o Queue(l) \in Seq(Copy) /\ got \o Append(Queue(l), c) = Append(got \o Queue(l), c)
  BY <1>1, <1>2
<1>5. got \o Append(Append(Queue(l), c), c) = Append(got \o Append(Queue(l), c), c)
  BY <1>1, <1>3
<1> QED  BY <1>4, <1>5 DEF InOrder

\* The line t is the line s with frame g on it.
Joined(t, s, g) ==
    /\ \A i \in 1 .. Len(t) : t[i].frame = g \/ \E j \in 1 .. Len(s) : t[i] = s[j]
    /\ \E i \in 1 .. Len(t) : t[i].frame = g

\* A frame emitted once or twice behind all others, with nothing held, keeps the line in order.
LEMMA EmitNewest ==
    ASSUME NEW l \in LinkType, NEW g \in Frame, NEW d \in Draw, NEW got \in Seq(Copy),
           now \in Nat, config \in Configs, config.jitter = 0, Punctual(l),
           NEW n \in Nat, NEW r, LineFacts(InOrder(l, got), None, n, r), g <= n,
           \A i \in 1 .. Len(InOrder(l, got)) : InOrder(l, got)[i].frame < g
    PROVE  LET s == InOrder(l, got)
               t == InOrder(Emit(l, g, d), got)
           IN  LineFacts(t, None, n, r) /\ Joined(t, s, g)
<1> DEFINE s == InOrder(l, got)
           t == InOrder(Emit(l, g, d), got)
<1>1. PICK c \in Copy :
        /\ c.frame = g
        /\ \/ Queue(Emit(l, g, d)) = Append(Queue(l), c)
           \/ Queue(Emit(l, g, d)) = Append(Append(Queue(l), c), c)
  BY EmitAppends
<1> DEFINE u == Append(s, c)
           v == Append(u, c)
<1>2. s \in Seq(Copy) /\ (t = u \/ t = v)
  BY <1>1, JoinsTheLine DEF InOrder
<1>3. LineFacts(s, None, n, r) /\ \A i \in 1 .. Len(s) : s[i].frame < g
  OBVIOUS
<1> HIDE DEF s, t, u, v
<1>4. /\ u \in Seq(Copy) /\ Len(s) \in Nat /\ Len(u) = Len(s) + 1
      /\ \A i \in 1 .. Len(s) : u[i] = s[i]
      /\ u[Len(s) + 1] = c
  BY <1>2, OneMore DEF u
<1>5. /\ v \in Seq(Copy) /\ Len(u) \in Nat /\ Len(v) = Len(u) + 1
      /\ \A i \in 1 .. Len(u) : v[i] = u[i]
      /\ v[Len(u) + 1] = c
  BY <1>4, OneMore DEF v
<1>6. g \in Nat /\ \A i \in 1 .. Len(s) : s[i] \in Copy /\ s[i].frame \in Nat
  <2>1. \A i \in 1 .. Len(s) : s[i] \in Copy
    BY <1>2, ElementOfSeq
  <2> QED  BY <2>1 DEF Copy, Frame
<1>7. LineFacts(u, None, n, r)
  <2>1. \A i \in 1 .. Len(s) : s[i].frame <= c.frame
    BY <1>1, <1>3, <1>6
  <2>2. \A i \in 1 .. Len(s) : s[i].frame # c.frame
    BY <1>1, <1>3, <1>6
  <2> QED  BY <1>1, <1>3, <2>1, <2>2, JoinsNewest DEF u
<1>8. \A i \in 1 .. Len(u) : u[i].frame <= g
  <2>1. \A i \in 1 .. Len(s) : u[i].frame <= g
    BY <1>3, <1>4, <1>6
  <2>2. u[Len(s) + 1].frame <= g
    BY <1>1, <1>4, <1>6
  <2> QED  BY <1>4, <2>1, <2>2
<1>9. LineFacts(v, None, n, r)
  <2>1. u[Len(u)].frame = c.frame
    BY <1>4
  <2> QED  BY <1>1, <1>7, <1>8, <2>1, JoinsNewest DEF v
<1>10. \A i \in 1 .. Len(u) : u[i].frame = g \/ \E j \in 1 .. Len(s) : u[i] = s[j]
  <2>1. \A i \in 1 .. Len(s) : \E j \in 1 .. Len(s) : u[i] = s[j]
    BY <1>4
  <2>2. u[Len(s) + 1].frame = g
    BY <1>1, <1>4
  <2>3. \A i \in 1 .. Len(u) : i \in 1 .. Len(s) \/ i = Len(s) + 1
    BY <1>4
  <2> QED  BY <2>1, <2>2, <2>3
<1>11. \A i \in 1 .. Len(v) : v[i].frame = g \/ \E j \in 1 .. Len(s) : v[i] = s[j]
  <2>1. \A i \in 1 .. Len(u) : v[i].frame = g \/ \E j \in 1 .. Len(s) : v[i] = s[j]
    BY <1>5, <1>10
  <2>2. v[Len(u) + 1].frame = g
    BY <1>1, <1>5
  <2>3. \A i \in 1 .. Len(v) : i \in 1 .. Len(u) \/ i = Len(u) + 1
    BY <1>4, <1>5
  <2> QED  BY <2>1, <2>2, <2>3
<1>12. /\ \E i \in 1 .. Len(u) : u[i].frame = g
       /\ \E i \in 1 .. Len(v) : v[i].frame = g
  <2>1. Len(s) + 1 \in 1 .. Len(u) /\ Len(u) + 1 \in 1 .. Len(v)
    BY <1>4, <1>5
  <2> QED  BY <1>1, <1>4, <1>5, <2>1
<1>13. CASE t = u
  BY <1>7, <1>10, <1>12, <1>13 DEF s, t, Joined
<1>14. CASE t = v
  BY <1>9, <1>11, <1>12, <1>14 DEF s, t, Joined
<1> QED  BY <1>2, <1>13, <1>14

\* A held frame emitted behind its overtaker is one late frame more.
LEMMA EmitHeld ==
    ASSUME NEW l \in LinkType, NEW g \in Frame, NEW d \in Draw, NEW got \in Seq(Copy),
           now \in Nat, config \in Configs, config.jitter = 0, Punctual(l),
           NEW n \in Nat, NEW r, LineFacts(InOrder(l, got), None, n, r), g <= n,
           TRUE \in config.reorder,
           \A i \in 1 .. Len(InOrder(l, got)) : InOrder(l, got)[i].frame # g,
           \E i \in 1 .. Len(InOrder(l, got)) : InOrder(l, got)[i].frame > g
    PROVE  LineFacts(InOrder(Emit(l, g, d), got), None, n, r + 1)
<1> DEFINE s == InOrder(l, got)
           t == InOrder(Emit(l, g, d), got)
<1>1. PICK c \in Copy :
        /\ c.frame = g
        /\ \/ Queue(Emit(l, g, d)) = Append(Queue(l), c)
           \/ Queue(Emit(l, g, d)) = Append(Append(Queue(l), c), c)
  BY EmitAppends
<1> DEFINE u == Append(s, c)
           v == Append(u, c)
<1>2. s \in Seq(Copy) /\ (t = u \/ t = v)
  BY <1>1, JoinsTheLine DEF InOrder
<1>3. /\ LineFacts(s, None, n, r)
      /\ \A i \in 1 .. Len(s) : s[i].frame # g
      /\ \E i \in 1 .. Len(s) : s[i].frame > g
  OBVIOUS
<1> HIDE DEF s, t, u, v
<1>4. /\ u \in Seq(Copy) /\ Len(s) \in Nat /\ Len(u) = Len(s) + 1
      /\ u[Len(s) + 1] = c
  BY <1>2, OneMore DEF u
<1>5. LineFacts(u, None, n, r + 1)
  <2>1. /\ \A i \in 1 .. Len(s) : s[i].frame # c.frame
        /\ \E i \in 1 .. Len(s) : s[i].frame > c.frame
    BY <1>1, <1>3
  <2> QED  BY <1>1, <1>3, <2>1, JoinsLate DEF u
<1>6. LineFacts(v, None, n, r + 1)
  <2>1. Len(u) \in 1 .. Len(u) /\ u[Len(u)].frame = c.frame
    BY <1>4
  <2>2. \A q : LineFacts(u, None, n, q) => LineFacts(Append(u, c), None, n, q)
    <3> SUFFICES ASSUME NEW q, LineFacts(u, None, n, q) PROVE LineFacts(Append(u, c), None, n, q)
      OBVIOUS
    <3> QED  BY <1>1, <2>1, JoinsLate
  <2> QED  BY <1>5, <2>2 DEF v
<1> QED  BY <1>2, <1>5, <1>6 DEF t

\* A new transport has nothing on its line.
LEMMA InitOrdered == Init => Ordered
<1> SUFFICES ASSUME Init PROVE Ordered
  OBVIOUS
<1>1. /\ link.inner = <<>> /\ link.scheduled = <<>> /\ arrived = <<>> /\ link.offered = 0
      /\ link.held = 0 /\ link.reordered = 0
  BY DEF Init, None
<1>2. CopiesIn(<<>>) = <<>> /\ <<>> \o <<>> = <<>> /\ <<>> \in Seq(Copy) /\ Len(<<>>) = 0
  <2>1. <<>> \in Seq(Copy) /\ Len(<<>>) = 0
    BY EmptySeq
  <2>2. <<>> \o <<>> = <<>>
    BY <2>1, ConcatEmptySeq
  <2>3. CopiesIn(<<>>) = <<>>
    BY DEF CopiesIn
  <2> QED  BY <2>1, <2>2, <2>3
<1>3. InOrder(link, arrived) = <<>>
  BY <1>1, <1>2 DEF InOrder, Queue
<1>4. Late(<<>>) = {} /\ Ascending(<<>>)
  BY <1>2 DEF Late, Ascending
<1>5. Cardinality({}) = 0
  BY FS_EmptySet
<1>6. LineFacts(<<>>, 0, 0, 0)
  <2>1. \A i \in 1 .. Len(<<>>) : FALSE
    BY <1>2
  <2>2. \A i \in 1 .. Len(<<>>) : <<>>[i].frame <= 0 /\ (0 # None => <<>>[i].frame < 0)
    BY <2>1
  <2>3. 0 <= 0 /\ 0 = None
    BY DEF None
  <2>4. Together(<<>>)
    BY <2>1 DEF Together
  <2> QED  BY <1>2, <1>4, <1>5, <2>2, <2>3, <2>4 DEF LineFacts
<1>7. Punctual(link)
  BY <1>1, <1>2 DEF Punctual
<1> QED  BY <1>1, <1>3, <1>6, <1>7 DEF Ordered

\* send() keeps the line in order: an overtaking is counted, and nothing else is late.
LEMMA SendOrdered ==
    ASSUME TypeOK, Ordered, Send
    PROVE  Ordered'
<1> SUFFICES ASSUME config.jitter = 0 PROVE Ordered'
  BY DEF Send, SendLost, SendHeld, SendPassed, SendOvertaking, Ordered
<1> DEFINE o == Offered(link)
           new == link.offered + 1
           s == InOrder(link, arrived)
           r == link.reordered
<1>1. /\ link \in LinkType /\ config \in Configs /\ now \in Nat /\ arrived \in Seq(Copy)
      /\ link.held \in Frame \union {None} /\ link.offered \in Nat /\ r \in Nat
  BY FieldTypes DEF TypeOK
<1>2. link.offered < MaxFrames /\ config' = config /\ arrived' = arrived /\ now' = now
  BY DEF Send, SendLost, SendHeld, SendPassed, SendOvertaking
<1>3. new \in Frame /\ new # None /\ new = link.offered + 1 /\ new \in Nat
  BY <1>1, <1>2, NextFrame
<1>4. /\ o \in LinkType /\ o.offered = new /\ o.held = link.held
      /\ o.inner = link.inner /\ o.scheduled = link.scheduled /\ o.reordered = r
  <2>1. o \in LinkType
    BY <1>1, OfferedEffect
  <2> QED  BY <1>1, <2>1 DEF Offered, LinkType
<1>5. Punctual(link) /\ LineFacts(s, link.held, link.offered, r)
  BY DEF Ordered
<1> HIDE DEF o, new, s, r
<1>6. Punctual(o) /\ InOrder(o, arrived) = s
  BY <1>4, <1>5 DEF Punctual, InOrder, Queue, s
<1>7. s \in Seq(Copy) /\ Len(s) \in Nat /\ \A i \in 1 .. Len(s) : s[i].frame \in Nat
  <2>1. s \in Seq(Copy)
    BY <1>5 DEF LineFacts
  <2>2. \A i \in 1 .. Len(s) : s[i] \in Copy
    BY <2>1, ElementOfSeq
  <2> QED  BY <2>1, <2>2, LenProperties DEF Copy, Frame
<1>8. \A i \in 1 .. Len(s) : s[i].frame < new
  <2>1. \A i \in 1 .. Len(s) : s[i].frame <= link.offered
    BY <1>5 DEF LineFacts
  <2> QED  BY <1>1, <1>3, <1>7, <2>1
<1>9. link.held \in Nat /\ link.held <= link.offered /\ link.held < new
  <2>1. link.held \in Nat
    BY <1>1 DEF Frame, None
  <2>2. link.held <= link.offered
    BY <1>5 DEF LineFacts
  <2> QED  BY <1>1, <1>3, <2>1, <2>2
<1>10. LineFacts(s, link.held, new, r) /\ LineFacts(s, None, new, r)
  <2>1. \A i \in 1 .. Len(s) : s[i].frame <= new
    BY <1>3, <1>7, <1>8
  <2>2. link.held <= new /\ None <= new
    BY <1>3, <1>9 DEF None
  <2> QED  BY <1>5, <2>1, <2>2 DEF LineFacts
<1>11. ASSUME NEW p, p = link', Punctual(p),
              LineFacts(InOrder(p, arrived), p.held, p.offered, p.reordered)
       PROVE  Ordered'
  <2>1. Punctual(link)'
    BY <1>2, <1>11 DEF Punctual, Timed
  <2>2. InOrder(link, arrived)' = InOrder(p, arrived)
    BY <1>2, <1>11 DEF InOrder, Queue, CopiesIn
  <2>3. LineFacts(InOrder(link, arrived), link.held, link.offered, link.reordered)'
    BY <1>2, <1>11, <2>2 DEF LineFacts
  <2> QED  BY <2>1, <2>3 DEF Ordered
<1>12. CASE SendLost
  <2> DEFINE p == [o EXCEPT !.dropped = o.dropped + 1]
  <2>1. link' = p
    BY <1>12 DEF SendLost, o
  <2>2. /\ p.inner = o.inner /\ p.scheduled = o.scheduled /\ p.held = o.held
        /\ p.offered = o.offered /\ p.reordered = o.reordered
    BY <1>4 DEF LinkType
  <2> HIDE DEF p
  <2>3. InOrder(p, arrived) = s /\ Punctual(p)
    BY <1>6, <2>2 DEF Punctual, InOrder, Queue
  <2> QED  BY <1>4, <1>10, <1>11, <2>1, <2>2, <2>3
<1>13. CASE SendHeld
  <2> DEFINE p == [o EXCEPT !.held = new]
  <2>1. link' = p /\ TRUE \in config.reorder
    BY <1>13 DEF SendHeld, o, new
  <2>2. /\ p.inner = o.inner /\ p.scheduled = o.scheduled /\ p.held = new
        /\ p.offered = o.offered /\ p.reordered = o.reordered
    BY <1>4 DEF LinkType
  <2> HIDE DEF p
  <2>3. InOrder(p, arrived) = s /\ Punctual(p)
    BY <1>6, <2>2 DEF Punctual, InOrder, Queue
  <2>4. LineFacts(s, new, new, r)
    <3>1. \A i \in 1 .. Len(s) : s[i].frame <= new /\ (new # None => s[i].frame < new)
      BY <1>3, <1>7, <1>8
    <3>2. new <= new
      BY <1>3
    <3>3. /\ s \in Seq(Copy) /\ Together(s) /\ r = Cardinality(Late(s))
          /\ TRUE \notin config.reorder => Ascending(s)
      BY <1>10 DEF LineFacts
    <3> QED  BY <2>1, <3>1, <3>2, <3>3 DEF LineFacts
  <2> QED  BY <1>4, <1>11, <2>1, <2>2, <2>3, <2>4
<1>14. CASE SendPassed
  <2>1. PICK d \in Draw : link' = Emit(o, new, d)
    BY <1>14 DEF SendPassed, o, new
  <2>2. link.held = None
    BY <1>14 DEF SendPassed
  <2> DEFINE p == Emit(o, new, d)
  <2>3. Punctual(p) /\ p.reordered = r
    BY <1>1, <1>3, <1>4, <1>6, EmitAppends
  <2>4. p.held = o.held /\ p.offered = o.offered
    BY <1>1, <1>3, <1>4, EmitBooks DEF KeepsBooks
  <2>5. LineFacts(InOrder(p, arrived), None, new, r)
    <3>1. LineFacts(InOrder(o, arrived), None, new, r)
      BY <1>6, <1>10
    <3>2. \A i \in 1 .. Len(InOrder(o, arrived)) : InOrder(o, arrived)[i].frame < new
      BY <1>6, <1>8
    <3>3. new <= new
      BY <1>3
    <3> QED  BY <1>1, <1>3, <1>4, <1>6, <3>1, <3>2, <3>3, EmitNewest
  <2> HIDE DEF p
  <2> QED  BY <1>4, <1>11, <2>1, <2>2, <2>3, <2>4, <2>5 DEF p
<1>15. CASE SendOvertaking
  <2>1. PICK d \in Draw, h \in Draw :
          link' = Emit(Overtaken(Emit(o, new, d)), link.held, h)
    BY <1>15 DEF SendOvertaking, o, new
  <2>2. link.held \in Frame /\ link.held # None /\ TRUE \in config.reorder
    <3>1. link.held # None
      BY <1>15 DEF SendOvertaking
    <3> QED  BY <1>1, <1>5, <3>1 DEF LineFacts
  <2> DEFINE m == Emit(o, new, d)
             q == Overtaken(m)
             p == Emit(q, link.held, h)
  <2>3. m \in LinkType /\ m.offered = new
    BY <1>1, <1>3, <1>4, EmitBooks DEF KeepsBooks
  <2>4. Punctual(m) /\ m.reordered = r
    BY <1>1, <1>3, <1>4, <1>6, EmitAppends
  <2>5. LineFacts(InOrder(m, arrived), None, new, r) /\ Joined(InOrder(m, arrived), s, new)
    <3>1. LineFacts(InOrder(o, arrived), None, new, r)
      BY <1>6, <1>10
    <3>2. \A i \in 1 .. Len(InOrder(o, arrived)) : InOrder(o, arrived)[i].frame < new
      BY <1>6, <1>8
    <3>3. new <= new
      BY <1>3
    <3>4. /\ LineFacts(InOrder(m, arrived), None, new, r)
          /\ Joined(InOrder(m, arrived), InOrder(o, arrived), new)
      BY <1>1, <1>3, <1>4, <1>6, <3>1, <3>2, <3>3, EmitNewest
    <3> QED  BY <1>6, <3>4
  <2> HIDE DEF m
  <2>6. /\ q \in LinkType /\ q.inner = m.inner /\ q.scheduled = m.scheduled
        /\ q.held = None /\ q.offered = new /\ q.reordered = r + 1
    <3>1. q \in LinkType
      BY <2>3, SlotEffect
    <3> QED  BY <2>3, <2>4, <3>1 DEF Overtaken, LinkType
  <2> HIDE DEF q
  <2>7. InOrder(q, arrived) = InOrder(m, arrived) /\ Punctual(q)
    BY <2>4, <2>6 DEF Punctual, InOrder, Queue
  <2>8. Punctual(p) /\ p.reordered = r + 1
    BY <1>1, <2>2, <2>6, <2>7, EmitAppends
  <2>9. p.held = None /\ p.offered = new
    BY <1>1, <2>2, <2>6, EmitBooks DEF KeepsBooks
  <2>10. LineFacts(InOrder(p, arrived), None, new, r + 1)
    <3> DEFINE t == InOrder(q, arrived)
    <3>1. LineFacts(t, None, new, r)
      BY <2>5, <2>7
    <3>2. \A i \in 1 .. Len(s) : s[i].frame < link.held
      BY <1>5, <2>2 DEF LineFacts
    <3>3. \A i \in 1 .. Len(t) : t[i].frame # link.held
      <4>1. \A j \in 1 .. Len(s) : s[j].frame # link.held
        BY <1>7, <1>9, <3>2
      <4>2. new # link.held
        BY <1>3, <1>9
      <4> QED  BY <2>5, <2>7, <4>1, <4>2 DEF Joined
    <3>4. \E i \in 1 .. Len(t) : t[i].frame > link.held
      <4>1. new > link.held
        BY <1>3, <1>9
      <4> QED  BY <2>5, <2>7, <4>1 DEF Joined
    <3>5. link.held <= new
      BY <1>3, <1>9
    <3> QED  BY <1>1, <1>3, <2>2, <2>6, <2>7, <3>1, <3>3, <3>4, <3>5, EmitHeld
  <2>11. link' = p
    BY <2>1 DEF m, q
  <2> HIDE DEF p
  <2> QED  BY <1>11, <2>8, <2>9, <2>10, <2>11
<1> QED  BY <1>12, <1>13, <1>14, <1>15 DEF Send

\* What is due leaves the latency buffer in order.
LEMMA DueKeepsOrder ==
    ASSUME NEW l \in LinkType, Punctual(l)
    PROVE  /\ Queue(ReleaseDue(l)) = Queue(l) /\ Punctual(ReleaseDue(l))
           /\ ReleaseDue(l).reordered = l.reordered
<1> DEFINE k == Cardinality({i \in 1 .. Len(l.scheduled) : l.scheduled[i].at <= now})
<1>1. CASE Timed
  <2>1. Len(l.scheduled) \in Nat
    BY FieldTypes
  <2>2. {i \in 1 .. Len(l.scheduled) : l.scheduled[i].at <= now} \in SUBSET (1 .. Len(l.scheduled))
    OBVIOUS
  <2>3. k \in 0 .. Len(l.scheduled)
    BY <2>1, <2>2, CountWithinLength
  <2>4. ReleaseDue(l) = Release(l, k)
    BY <1>1 DEF ReleaseDue
  <2> HIDE DEF k
  <2> QED  BY <2>3, <2>4, ReleaseKeepsOrder
<1>2. CASE ~Timed
  BY <1>2 DEF ReleaseDue
<1> QED  BY <1>1, <1>2

\* recv() moves a frame from the front of the queue behind those received.
LEMMA RecvOrdered ==
    ASSUME TypeOK, Ordered, Recv
    PROVE  Ordered'
<1> SUFFICES ASSUME config.jitter = 0 PROVE Ordered'
  BY DEF Recv, Ordered
<1> DEFINE ready == ReleaseDue(link)
           first == Head(ready.inner)
           rest == Tail(ready.inner)
           C == CopiesIn(ready.scheduled)
           p == [ready EXCEPT !.inner = rest]
<1>1. link \in LinkType /\ arrived \in Seq(Copy)
  BY DEF TypeOK
<1>2. /\ ready.inner # <<>> /\ link' = p
      /\ arrived' = Append(arrived, first) /\ config' = config /\ now' = now
  BY DEF Recv
<1>3. /\ ready \in LinkType /\ ready.held = link.held /\ ready.offered = link.offered
  <2>1. KeepsBooks(link, ready, 0)
    BY <1>1, ReleaseDueBooks
  <2> QED  BY <2>1 DEF KeepsBooks
<1>4. Punctual(link) /\ LineFacts(InOrder(link, arrived), link.held, link.offered, link.reordered)
  BY DEF Ordered
<1>5. Queue(ready) = Queue(link) /\ Punctual(ready) /\ ready.reordered = link.reordered
  BY <1>1, <1>4, DueKeepsOrder
<1> HIDE DEF ready
<1>6. /\ ready.inner \in Seq(Copy) /\ C \in Seq(Copy) /\ first \in Copy /\ rest \in Seq(Copy)
      /\ ready.inner = <<first>> \o rest
  <2>1. ready.inner \in Seq(Copy) /\ C \in Seq(Copy)
    BY <1>3, QueueType
  <2>2. first \in Copy /\ rest \in Seq(Copy) /\ ready.inner = <<first>> \o rest
    BY <1>2, <2>1, HeadAndTail
  <2> QED  BY <2>1, <2>2
<1> HIDE DEF first, rest
<1>7. /\ p.inner = rest /\ p.scheduled = ready.scheduled /\ p.held = ready.held
      /\ p.offered = ready.offered /\ p.reordered = ready.reordered
  BY <1>3 DEF LinkType
<1> HIDE DEF p
<1>8. Append(arrived, first) \o (rest \o C) = arrived \o ((<<first>> \o rest) \o C)
  <2>1. ASSUME NEW a \in Seq(Copy), NEW b \in Seq(Copy), NEW c \in Seq(Copy), NEW e \in Copy
        PROVE  Append(a, e) \o (b \o c) = a \o ((<<e>> \o b) \o c)
    <3>1. Append(a, e) = a \o <<e>>
      BY OneMore
    <3>2. <<e>> \in Seq(Copy)
      OBVIOUS
    <3>3. b \o c \in Seq(Copy)
      BY ConcatProperties
    <3>4. (a \o <<e>>) \o (b \o c) = a \o (<<e>> \o (b \o c))
      BY <3>2, <3>3, ConcatAssociative
    <3>5. <<e>> \o (b \o c) = (<<e>> \o b) \o c
      BY <3>2, ConcatAssociative
    <3> QED  BY <3>1, <3>4, <3>5
  <2> QED  BY SMTT(30), <1>1, <1>6, <2>1
<1>9. InOrder(p, Append(arrived, first)) = InOrder(link, arrived)
  <2>1. Queue(p) = rest \o C
    BY <1>7 DEF Queue
  <2>2. Queue(link) = (<<first>> \o rest) \o C
    BY <1>5, <1>6 DEF Queue
  <2> QED  BY <1>8, <2>1, <2>2 DEF InOrder
<1>10. Punctual(link)'
  <2>1. Punctual(p)
    BY <1>5, <1>7 DEF Punctual
  <2> QED  BY <1>2, <2>1 DEF Punctual, Timed
<1>11. InOrder(link, arrived)' = InOrder(link, arrived)
  <2>1. InOrder(link, arrived)' = InOrder(p, Append(arrived, first))
    BY <1>2 DEF InOrder, Queue, CopiesIn
  <2> QED  BY <1>9, <2>1
<1>12. LineFacts(InOrder(link, arrived), link.held, link.offered, link.reordered)'
  <2>1. /\ link'.held = link.held /\ link'.offered = link.offered
        /\ link'.reordered = link.reordered
    BY <1>2, <1>3, <1>5, <1>7
  <2> QED  BY <1>2, <1>4, <1>11, <2>1 DEF LineFacts
<1> QED  BY <1>10, <1>12 DEF Ordered

\* flush() puts a held frame behind those sent before it.
LEMMA FlushOrdered ==
    ASSUME TypeOK, Ordered, Flush
    PROVE  Ordered'
<1> SUFFICES ASSUME config.jitter = 0 PROVE Ordered'
  BY DEF Flush, Ordered
<1>1. /\ link \in LinkType /\ config \in Configs /\ now \in Nat /\ arrived \in Seq(Copy)
      /\ link.held \in Frame \union {None} /\ link.offered \in Nat
  BY FieldTypes DEF TypeOK
<1>2. config' = config /\ arrived' = arrived /\ now' = now
  BY DEF Flush
<1>3. PICK d \in Draw :
        link' = ReleaseAll(IF link.held = None THEN link
                           ELSE Emit([link EXCEPT !.held = None], link.held, d))
  BY DEF Flush
<1>4. Punctual(link) /\ LineFacts(InOrder(link, arrived), link.held, link.offered, link.reordered)
  BY DEF Ordered
<1> DEFINE m == IF link.held = None THEN link ELSE Emit([link EXCEPT !.held = None], link.held, d)
<1>5. /\ m \in LinkType /\ Punctual(m)
      /\ LineFacts(InOrder(m, arrived), m.held, m.offered, m.reordered)
  <2>1. CASE link.held = None
    BY <1>1, <1>4, <2>1
  <2>2. CASE link.held # None
    <3> DEFINE l == [link EXCEPT !.held = None]
    <3>1. /\ l \in LinkType /\ l.held = None /\ l.offered = link.offered
          /\ l.inner = link.inner /\ l.scheduled = link.scheduled /\ l.reordered = link.reordered
      BY <1>1 DEF LinkType
    <3>2. link.held \in Frame /\ m = Emit(l, link.held, d)
      BY <1>1, <2>2
    <3> HIDE DEF l, m
    <3>3. Punctual(l) /\ InOrder(l, arrived) = InOrder(link, arrived)
      BY <1>4, <3>1 DEF Punctual, InOrder, Queue
    <3>4. m \in LinkType /\ m.held = None /\ m.offered = link.offered
      BY <1>1, <3>1, <3>2, EmitBooks DEF KeepsBooks
    <3>5. Punctual(m) /\ m.reordered = link.reordered
      BY <1>1, <3>1, <3>2, <3>3, EmitAppends
    <3>6. LineFacts(InOrder(m, arrived), None, link.offered, link.reordered)
      <4>1. /\ link.held <= link.offered
            /\ \A i \in 1 .. Len(InOrder(l, arrived)) : InOrder(l, arrived)[i].frame < link.held
        BY <1>4, <2>2, <3>3 DEF LineFacts
      <4>2. None <= link.offered
        BY <1>1 DEF None
      <4>3. LineFacts(InOrder(l, arrived), None, link.offered, link.reordered)
        BY <1>4, <3>3, <4>2 DEF LineFacts
      <4> QED  BY <1>1, <3>1, <3>2, <3>3, <4>1, <4>3, EmitNewest
    <3> QED  BY <3>4, <3>5, <3>6
  <2> QED  BY <2>1, <2>2
<1> HIDE DEF m
<1> DEFINE p == Release(m, Len(m.scheduled))
<1>6. link' = p
  BY <1>3 DEF ReleaseAll, m
<1>7. Len(m.scheduled) \in 0 .. Len(m.scheduled)
  BY <1>5, FieldTypes
<1>8. p.held = m.held /\ p.offered = m.offered
  BY <1>5, <1>7, ReleaseBooks DEF KeepsBooks
<1>9. Queue(p) = Queue(m) /\ Punctual(p) /\ p.reordered = m.reordered
  BY <1>5, <1>7, ReleaseKeepsOrder
<1> HIDE DEF p
<1>10. Punctual(link)'
  BY <1>2, <1>6, <1>9 DEF Punctual, Timed
<1>11. InOrder(link, arrived)' = InOrder(m, arrived)
  <2>1. InOrder(link, arrived)' = InOrder(p, arrived)
    BY <1>2, <1>6 DEF InOrder, Queue, CopiesIn
  <2> QED  BY <1>9, <2>1 DEF InOrder
<1>12. LineFacts(InOrder(link, arrived), link.held, link.offered, link.reordered)'
  BY <1>2, <1>5, <1>6, <1>8, <1>9, <1>11 DEF LineFacts
<1> QED  BY <1>10, <1>12 DEF Ordered

\* Whatever the program does with the transport, its line stays in order.
LEMMA OrderHolds == Spec => []Ordered
<1>1. TypeOK /\ Ordered /\ [Next]_vars => Ordered'
  <2> SUFFICES ASSUME TypeOK, Ordered, [Next]_vars PROVE Ordered'
    OBVIOUS
  <2>1. CASE Send
    BY <2>1, SendOrdered
  <2>2. CASE Recv
    BY <2>2, RecvOrdered
  <2>3. CASE Flush
    BY <2>3, FlushOrdered
  <2>4. ASSUME UNCHANGED <<config, link, arrived>>, now' \in Nat, now <= now' PROVE Ordered'
    <3> SUFFICES ASSUME config.jitter = 0 PROVE Ordered'
      BY <2>4 DEF Ordered
    <3>1. Punctual(link) /\ LineFacts(InOrder(link, arrived), link.held, link.offered, link.reordered)
      BY DEF Ordered
    <3>2. InOrder(link, arrived)' = InOrder(link, arrived)
      BY <2>4 DEF InOrder, Queue, CopiesIn
    <3>3. LineFacts(InOrder(link, arrived), link.held, link.offered, link.reordered)'
      BY <2>4, <3>1, <3>2 DEF LineFacts
    <3>4. Punctual(link)'
      <4>1. \A i \in 1 .. Len(link.scheduled) : link.scheduled[i].at <= now' + config.delay
        <5>1. link.scheduled \in Seq(Entry) /\ now \in Nat /\ config.delay \in Nat
          BY ConfigAssumption, FieldTypes DEF TypeOK
        <5>2. \A i \in 1 .. Len(link.scheduled) : link.scheduled[i] \in Entry
          BY <5>1, ElementOfSeq
        <5>3. \A i \in 1 .. Len(link.scheduled) : link.scheduled[i].at \in Nat
          BY <5>2 DEF Entry
        <5>4. \A i \in 1 .. Len(link.scheduled) : link.scheduled[i].at <= now + config.delay
          BY <3>1 DEF Punctual
        <5> QED  BY <2>4, <5>1, <5>3, <5>4
      <4>2. ~Timed => link.scheduled = <<>>
        BY <3>1 DEF Punctual
      <4> QED  BY <2>4, <4>1, <4>2 DEF Punctual, Timed
    <3> QED  BY <3>3, <3>4 DEF Ordered
  <2>5. now \in Nat
    BY DEF TypeOK
  <2>6. CASE Tick
    BY <2>4, <2>5, <2>6 DEF Tick
  <2>7. CASE UNCHANGED vars
    BY <2>4, <2>5, <2>7 DEF vars
  <2> QED  BY <2>1, <2>2, <2>3, <2>6, <2>7 DEF Next
<1> QED  BY <1>1, InitOrdered, TypeCorrect, PTL DEF Spec

\* The frames of a sequence of copies.
FramesIn(s) == [i \in 1 .. Len(s) |-> s[i].frame]

\* They are those of its parts.
LEMMA FramesConcat ==
    ASSUME NEW p \in Seq(Copy), NEW q \in Seq(Copy)
    PROVE  /\ FramesIn(p \o q) = FramesIn(p) \o FramesIn(q)
           /\ FramesIn(p) \in Seq(Frame)
<1>1. ASSUME NEW s \in Seq(Copy)
      PROVE  /\ FramesIn(s) \in Seq(Frame) /\ Len(FramesIn(s)) = Len(s) /\ Len(s) \in Nat
             /\ \A i \in 1 .. Len(s) : FramesIn(s)[i] = s[i].frame
  <2>1. Len(s) \in Nat
    BY LenProperties
  <2>2. \A i \in 1 .. Len(s) : s[i] \in Copy
    BY ElementOfSeq
  <2>3. \A i \in 1 .. Len(s) : s[i].frame \in Frame
    BY <2>2 DEF Copy
  <2> QED  BY <2>1, <2>3 DEF FramesIn
<1> DEFINE a == FramesIn(p \o q)
           b == FramesIn(p) \o FramesIn(q)
<1>2. /\ p \o q \in Seq(Copy) /\ Len(p \o q) = Len(p) + Len(q)
      /\ \A i \in 1 .. Len(p) + Len(q) : (p \o q)[i] = IF i <= Len(p) THEN p[i] ELSE q[i - Len(p)]
  BY ConcatProperties
<1>3. /\ FramesIn(p) \in Seq(Frame) /\ Len(FramesIn(p)) = Len(p) /\ Len(p) \in Nat
      /\ \A i \in 1 .. Len(p) : FramesIn(p)[i] = p[i].frame
  BY <1>1
<1>4. /\ FramesIn(q) \in Seq(Frame) /\ Len(FramesIn(q)) = Len(q) /\ Len(q) \in Nat
      /\ \A i \in 1 .. Len(q) : FramesIn(q)[i] = q[i].frame
  BY <1>1
<1>5. /\ b \in Seq(Frame) /\ Len(b) = Len(p) + Len(q)
      /\ \A i \in 1 .. Len(p) + Len(q) :
            b[i] = IF i <= Len(p) THEN FramesIn(p)[i] ELSE FramesIn(q)[i - Len(p)]
  <2>1. /\ b \in Seq(Frame) /\ Len(b) = Len(FramesIn(p)) + Len(FramesIn(q))
        /\ \A i \in 1 .. Len(FramesIn(p)) + Len(FramesIn(q)) :
              b[i] = IF i <= Len(FramesIn(p)) THEN FramesIn(p)[i]
                     ELSE FramesIn(q)[i - Len(FramesIn(p))]
    <3>1. FramesIn(p) \in Seq(Frame) /\ FramesIn(q) \in Seq(Frame)
      BY <1>3, <1>4
    <3> QED  BY <3>1, ConcatProperties
  <2> QED  BY <1>3, <1>4, <2>1
<1>6. /\ a \in Seq(Frame) /\ Len(a) = Len(p) + Len(q)
      /\ \A i \in 1 .. Len(p) + Len(q) : a[i] = (p \o q)[i].frame
  BY <1>1, <1>2
<1> HIDE DEF a, b
<1>7. ASSUME NEW i \in 1 .. Len(p) + Len(q) PROVE a[i] = b[i]
  <2>1. CASE i <= Len(p)
    <3>1. i \in 1 .. Len(p)
      BY <1>3, <2>1
    <3>2. (p \o q)[i] = p[i] /\ b[i] = FramesIn(p)[i]
      BY <1>2, <1>5, <2>1
    <3>3. a[i] = (p \o q)[i].frame /\ FramesIn(p)[i] = p[i].frame
      BY <1>3, <1>6, <3>1
    <3> QED  BY <3>2, <3>3
  <2>2. CASE ~(i <= Len(p))
    <3>1. i - Len(p) \in 1 .. Len(q)
      BY <1>3, <1>4, <2>2
    <3>2. (p \o q)[i] = q[i - Len(p)] /\ b[i] = FramesIn(q)[i - Len(p)]
      BY <1>2, <1>5, <2>2
    <3>3. a[i] = (p \o q)[i].frame /\ FramesIn(q)[i - Len(p)] = q[i - Len(p)].frame
      BY <1>4, <1>6, <3>1
    <3> QED  BY <3>2, <3>3
  <2> QED  BY <2>1, <2>2
<1>8. a = b
  BY <1>5, <1>6, <1>7, SeqEqual
<1> QED  BY <1>3, <1>8 DEF a, b

\* The frames on the line, as the properties name them.
LEMMA LineIs ==
    ASSUME TypeOK
    PROVE  LET s == InOrder(link, arrived)
           IN  /\ s \in Seq(Copy) /\ Len(s) \in Nat /\ Len(Line) = Len(s)
               /\ \A i \in 1 .. Len(s) : Line[i] = s[i].frame
<1> DEFINE C == CopiesIn(link.scheduled)
           s == InOrder(link, arrived)
<1>1. /\ arrived \in Seq(Copy) /\ link.inner \in Seq(Copy) /\ C \in Seq(Copy)
      /\ Queue(link) \in Seq(Copy) /\ Queue(link) = link.inner \o C
      /\ link.scheduled \in Seq(Entry)
  <2>1. link \in LinkType /\ arrived \in Seq(Copy)
    BY DEF TypeOK
  <2> QED  BY <2>1, QueueType DEF Queue
<1>2. ArrivedFrames = FramesIn(arrived) /\ InnerFrames = FramesIn(link.inner)
  BY DEF ArrivedFrames, InnerFrames, FramesIn
<1>3. ScheduledFrames = FramesIn(C)
  <2>1. Len(C) = Len(link.scheduled) /\ \A i \in 1 .. Len(link.scheduled) : C[i] = link.scheduled[i].copy
    BY <1>1, CopiesType
  <2> HIDE DEF C
  <2> QED  BY <2>1 DEF ScheduledFrames, FramesIn
<1> HIDE DEF C
<1>4. s \in Seq(Copy)
  BY <1>1, ConcatProperties DEF InOrder
<1>5. FramesIn(s) = FramesIn(arrived) \o (FramesIn(link.inner) \o FramesIn(C))
  <2>1. FramesIn(Queue(link)) = FramesIn(link.inner) \o FramesIn(C)
    BY <1>1, FramesConcat
  <2>2. FramesIn(arrived \o Queue(link)) = FramesIn(arrived) \o FramesIn(Queue(link))
    BY <1>1, FramesConcat
  <2> QED  BY <2>1, <2>2 DEF InOrder
<1>6. /\ FramesIn(arrived) \in Seq(Frame) /\ FramesIn(link.inner) \in Seq(Frame)
      /\ FramesIn(C) \in Seq(Frame)
  BY <1>1, FramesConcat
<1>7. (FramesIn(arrived) \o FramesIn(link.inner)) \o FramesIn(C)
        = FramesIn(arrived) \o (FramesIn(link.inner) \o FramesIn(C))
  <2>1. ASSUME NEW a \in Seq(Frame), NEW b \in Seq(Frame), NEW c \in Seq(Frame)
        PROVE  (a \o b) \o c = a \o (b \o c)
    BY ConcatAssociative
  <2> QED  BY <1>6, <2>1
<1>8. Line = FramesIn(s)
  BY <1>2, <1>3, <1>5, <1>7 DEF Line
<1>9. Len(s) \in Nat
  BY <1>4, LenProperties
<1>10. Len(FramesIn(s)) = Len(s) /\ \A i \in 1 .. Len(s) : FramesIn(s)[i] = s[i].frame
  BY <1>9 DEF FramesIn
<1> QED  BY <1>4, <1>8, <1>9, <1>10

\* Without jitter the reorder counter is the number of frames that come out behind a frame sent
\* after them, at any latency and across flush(), and with the knob off the link is FIFO.
THEOREM ReordersCounted == Spec => []ReorderedExact
<1>1. TypeOK /\ Ordered => ReorderedExact
  <2> SUFFICES ASSUME TypeOK, Ordered, config.jitter = 0
               PROVE  /\ link.reordered = Cardinality(Displaced)
                      /\ config.reorder = {FALSE} =>
                            \A i, j \in 1 .. Len(Line) : i < j => Line[i] <= Line[j]
    BY DEF ReorderedExact
  <2> DEFINE s == InOrder(link, arrived)
  <2>1. /\ s \in Seq(Copy) /\ Len(s) \in Nat /\ Len(Line) = Len(s)
        /\ \A i \in 1 .. Len(s) : Line[i] = s[i].frame
    BY LineIs
  <2>2. LineFacts(s, link.held, link.offered, link.reordered)
    BY DEF Ordered
  <2> HIDE DEF s
  <2>3. Displaced = Late(s)
    <3>1. ASSUME NEW f \in Frame, NEW j \in 1 .. Len(s)
          PROVE  /\ Line[j] = s[j].frame
                 /\ \A i \in 1 .. j - 1 : Line[i] = s[i].frame
      <4>1. \A i \in 1 .. j - 1 : i \in 1 .. Len(s)
        BY <2>1
      <4> QED  BY <2>1, <4>1
    <3>2. ASSUME NEW f \in Frame
          PROVE  f \in Displaced <=> f \in Late(s)
      <4>1. ASSUME NEW j \in 1 .. Len(s)
            PROVE  (/\ Line[j] = f /\ \A i \in 1 .. j - 1 : Line[i] # f
                    /\ \E i \in 1 .. j - 1 : Line[i] > f)
                   <=> (/\ s[j].frame = f /\ \A i \in 1 .. j - 1 : s[i].frame # f
                        /\ \E i \in 1 .. j - 1 : s[i].frame > f)
        BY <3>1
      <4> QED  BY <2>1, <4>1 DEF Displaced, Late
    <3>3. Displaced \subseteq Frame /\ Late(s) \subseteq Frame
      BY DEF Displaced, Late
    <3> QED  BY <3>2, <3>3
  <2>4. link.reordered = Cardinality(Displaced)
    BY <2>2, <2>3 DEF LineFacts
  <2>5. ASSUME config.reorder = {FALSE}, NEW i \in 1 .. Len(Line), NEW j \in 1 .. Len(Line), i < j
        PROVE  Line[i] <= Line[j]
    <3>1. Ascending(s)
      BY <2>2, <2>5 DEF LineFacts
    <3> QED  BY <2>1, <2>5, <3>1 DEF Ascending
  <2> QED  BY <2>4, <2>5
<1> QED  BY <1>1, TypeCorrect, OrderHolds, PTL
=============================================================================
