--------------------------- MODULE PipelineProofs ---------------------------
(***************************************************************************)
(* What the vertical slice guarantees, for any number of nodes, packets    *)
(* and heartbeats and every configuration of the link: it is the Collector *)
(* behind a lossy link, so what is proved of Station holds of it, and what *)
(* is proved of the transport holds of its link.                           *)
(***************************************************************************)
EXTENDS Pipeline, NumberProofs

\* The transport, with what is proved of it.
W == INSTANCE LinkProofs

\* The collector behind a lossy link, with what is proved of it.
S == INSTANCE StationProofs WITH
    Start <- [n \in Nodes |-> 0],
    MaxLatency <- MaxTime, MaxEmit <- FramesPerNode,
    emitted <- SentCount, sentAt <- SentAt,
    offered <- OfferedNames, lost <- LostNames, inflight <- UnderWay, taken <- Processed,
    first <- FirstHeard, high <- NewestHeard, raised <- NoneRaised

-----------------------------------------------------------------------------
(* The frames a node makes. *)

\* What the constants are.
LEMMA Constants ==
    /\ NodeCount \in Nat /\ NodeCount > 0 /\ Nodes = 1 .. NodeCount
    /\ Packets \in Nat /\ HeartbeatEvery \in Nat /\ BlockSamples \in Nat
    /\ FramesPerNode \in Nat /\ MaxFrames \in Nat /\ MaxTime \in Nat
<1>1. /\ NodeCount \in Nat /\ NodeCount > 0 /\ Nodes = 1 .. NodeCount
      /\ Packets \in Nat /\ HeartbeatEvery \in Nat /\ BlockSamples \in Nat
  BY PipelineAssumption
<1>2. HeartbeatEvery > 0 /\ Packets > 0 => (Packets - 1) \div HeartbeatEvery \in Nat
  BY <1>1, SMT
<1>3. FramesPerNode \in Nat
  BY <1>1, <1>2 DEF FramesPerNode
<1>4. NodeCount * FramesPerNode \in Nat
  BY <1>1, <1>3, SMT
<1> QED  BY <1>1, <1>3, <1>4 DEF MaxFrames, MaxTime

\* s is a generator that has made k frames: after every HeartbeatEvery data frames, except the
\* last ones, came a heartbeat.
Made(s, k) ==
    /\ s \in [seq : Seqs, emitted : 0 .. Packets, since_hb : Nat]
    /\ s.seq = k % SeqMod
    /\ HeartbeatEvery = 0 => k = s.emitted
    /\ HeartbeatEvery > 0 =>
          /\ s.since_hb <= HeartbeatEvery
          /\ \E c \in Nat : /\ k = c * (HeartbeatEvery + 1) + s.since_hb
                            /\ s.emitted = c * HeartbeatEvery + s.since_hb
                            /\ c > 0 => c * HeartbeatEvery < Packets

\* The i-th frame of a node is a heartbeat.
HeartbeatAt(i) == HeartbeatEvery > 0 /\ i % (HeartbeatEvery + 1) = HeartbeatEvery

\* The remainder by any modulus.
LEMMA RemainderIs ==
    ASSUME NEW m \in Nat, NEW c \in Nat, NEW r \in Nat, r < m
    PROVE  (c * m + r) % m = r
  BY SMT

\* The next sequence number is that of the next count.
LEMMA NextSeqOf ==
    ASSUME NEW k \in Nat
    PROVE  k % SeqMod \in Seqs /\ NextSeq(k % SeqMod) = (k + 1) % SeqMod
<1> DEFINE q == k \div SeqMod
           r == k % SeqMod
<1>1. q \in Int /\ r \in Seqs /\ k = q * SeqMod + r /\ SeqMod \in Nat /\ SeqMod > 1
  <2>1. SeqMod \in Nat \ {0} /\ SeqMod > 1 /\ k \in Int
    BY SeqModAssumption
  <2>2. q \in Int /\ r \in 0 .. SeqMod - 1 /\ k = q * SeqMod + r
    BY <2>1, Divide
  <2> QED  BY <2>1, <2>2 DEF Seqs
<1> HIDE DEF q, r
<1>2. ASSUME r + 1 < SeqMod PROVE NextSeq(r) = (k + 1) % SeqMod
  <2>1. r + 1 \in Seqs /\ q * SeqMod \in Int
    BY <1>1, <1>2, SMT DEF Seqs
  <2>2. k + 1 = q * SeqMod + (r + 1) /\ r + 1 = 0 * SeqMod + (r + 1)
    BY <1>1, <2>1, SMT DEF Seqs
  <2>3. (q * SeqMod + (r + 1)) % SeqMod = r + 1 /\ (0 * SeqMod + (r + 1)) % SeqMod = r + 1
    <3>1. 0 \in Int /\ 1 \in Int /\ r + 1 \in 0 .. SeqMod - 1 /\ SeqMod \in Nat \ {0}
      BY <1>1, <2>1 DEF Seqs
    <3> QED  BY <1>1, <3>1, RemainderUnique
  <2> QED  BY <2>2, <2>3 DEF NextSeq
<1>3. ASSUME r + 1 = SeqMod PROVE NextSeq(r) = (k + 1) % SeqMod
  <2>1. k + 1 = (q + 1) * SeqMod + 0 /\ r + 1 = 1 * SeqMod + 0
    BY <1>1, <1>3, SMT DEF Seqs
  <2>2. 0 \in 0 .. SeqMod - 1 /\ q + 1 \in Int /\ 1 \in Int /\ SeqMod \in Nat \ {0}
    BY <1>1
  <2>3. ((q + 1) * SeqMod + 0) % SeqMod = 0 /\ (1 * SeqMod + 0) % SeqMod = 0
    BY <2>2, RemainderUnique
  <2> QED  BY <2>1, <2>3 DEF NextSeq
<1>4. r + 1 <= SeqMod /\ r \in Int
  BY <1>1 DEF Seqs
<1>5. NextSeq(r) = (k + 1) % SeqMod
  BY <1>1, <1>2, <1>3, <1>4
<1> QED  BY <1>1, <1>5 DEF r

\* A heartbeat is due exactly when the count says so.
LEMMA DueAt ==
    ASSUME NEW k \in Nat, NEW s, Made(s, k)
    PROVE  HeartbeatDue(s) <=> HeartbeatAt(k)
<1>1. HeartbeatEvery \in Nat /\ s.since_hb \in Nat
  BY Constants DEF Made
<1>2. CASE HeartbeatEvery = 0
  BY <1>1, <1>2 DEF HeartbeatDue, HeartbeatAt
<1>3. CASE HeartbeatEvery > 0
  <2>1. s.since_hb <= HeartbeatEvery
    BY <1>3 DEF Made
  <2>2. PICK c \in Nat : k = c * (HeartbeatEvery + 1) + s.since_hb
    BY <1>3 DEF Made
  <2>3. k % (HeartbeatEvery + 1) = s.since_hb
    <3>1. HeartbeatEvery + 1 \in Nat /\ s.since_hb < HeartbeatEvery + 1
      BY <1>1, <2>1
    <3> QED  BY <1>1, <2>2, <3>1, RemainderIs
  <2> QED  BY <1>1, <1>3, <2>1, <2>3 DEF HeartbeatDue, HeartbeatAt
<1> QED  BY <1>1, <1>2, <1>3

\* A generator that has not run dry makes one frame more.
LEMMA MadeNext ==
    ASSUME NEW k \in Nat, NEW s, Made(s, k), ~Exhausted(s)
    PROVE  Made(AfterFrame(s), k + 1)
<1> DEFINE a == AfterFrame(s)
<1>1. /\ HeartbeatEvery \in Nat /\ Packets \in Nat /\ k + 1 \in Nat
      /\ s \in [seq : Seqs, emitted : 0 .. Packets, since_hb : Nat]
      /\ s.emitted \in Nat /\ s.emitted < Packets /\ s.since_hb \in Nat
      /\ s.seq = k % SeqMod
  BY Constants DEF Made, Exhausted
<1>2. NextSeq(s.seq) = (k + 1) % SeqMod /\ NextSeq(s.seq) \in Seqs
  BY <1>1, NextSeqOf
<1>3. CASE HeartbeatDue(s)
  <2>1. a = [s EXCEPT !.seq = NextSeq(s.seq), !.since_hb = 0]
    BY <1>3 DEF AfterFrame
  <2>2. /\ a \in [seq : Seqs, emitted : 0 .. Packets, since_hb : Nat]
        /\ a.seq = (k + 1) % SeqMod /\ a.emitted = s.emitted /\ a.since_hb = 0
    <3>1. 0 \in Nat
      OBVIOUS
    <3> HIDE DEF a
    <3> QED  BY <1>1, <1>2, <2>1, <3>1
  <2>3. HeartbeatEvery > 0 /\ s.since_hb = HeartbeatEvery
    BY <1>1, <1>3 DEF HeartbeatDue, Made
  <2>4. PICK c \in Nat : /\ k = c * (HeartbeatEvery + 1) + s.since_hb
                         /\ s.emitted = c * HeartbeatEvery + s.since_hb
    BY <2>3 DEF Made
  <2>5. /\ c + 1 \in Nat
        /\ k + 1 = (c + 1) * (HeartbeatEvery + 1) + 0
        /\ s.emitted = (c + 1) * HeartbeatEvery + 0
        /\ (c + 1) * HeartbeatEvery < Packets
    BY <1>1, <2>3, <2>4, SMT
  <2> HIDE DEF a
  <2>6. \E d \in Nat : /\ k + 1 = d * (HeartbeatEvery + 1) + a.since_hb
                       /\ a.emitted = d * HeartbeatEvery + a.since_hb
                       /\ d > 0 => d * HeartbeatEvery < Packets
    BY <2>2, <2>5
  <2> QED  BY <1>1, <2>2, <2>3, <2>6 DEF Made, a
<1>4. CASE ~HeartbeatDue(s)
  <2>1. a = [s EXCEPT !.seq = NextSeq(s.seq), !.since_hb = s.since_hb + 1,
                      !.emitted = s.emitted + 1]
    BY <1>4 DEF AfterFrame
  <2>2. s.emitted + 1 \in 0 .. Packets /\ s.since_hb + 1 \in Nat
    BY <1>1
  <2>3. /\ a \in [seq : Seqs, emitted : 0 .. Packets, since_hb : Nat]
        /\ a.seq = (k + 1) % SeqMod
        /\ a.emitted = s.emitted + 1 /\ a.since_hb = s.since_hb + 1
    BY <1>1, <1>2, <2>1, <2>2
  <2> HIDE DEF a
  <2>4. CASE HeartbeatEvery = 0
    <3>1. k = s.emitted
      BY <2>4 DEF Made
    <3> QED  BY <2>3, <2>4, <3>1 DEF Made, a
  <2>5. CASE HeartbeatEvery > 0
    <3>1. s.since_hb + 1 <= HeartbeatEvery
      BY <1>1, <1>4, <2>5 DEF HeartbeatDue
    <3>2. PICK c \in Nat : /\ k = c * (HeartbeatEvery + 1) + s.since_hb
                           /\ s.emitted = c * HeartbeatEvery + s.since_hb
                           /\ c > 0 => c * HeartbeatEvery < Packets
      BY <2>5 DEF Made
    <3>3. /\ k + 1 = c * (HeartbeatEvery + 1) + (s.since_hb + 1)
          /\ s.emitted + 1 = c * HeartbeatEvery + (s.since_hb + 1)
      <4>1. c * (HeartbeatEvery + 1) \in Nat /\ c * HeartbeatEvery \in Nat
        BY <1>1, SMT
      <4> QED  BY <1>1, <3>2, <4>1
    <3>4. \E d \in Nat : /\ k + 1 = d * (HeartbeatEvery + 1) + a.since_hb
                         /\ a.emitted = d * HeartbeatEvery + a.since_hb
                         /\ d > 0 => d * HeartbeatEvery < Packets
      BY <2>3, <3>2, <3>3
    <3> QED  BY <2>3, <2>5, <3>1, <3>4 DEF Made, a
  <2> QED  BY <1>1, <2>4, <2>5
<1> QED  BY <1>3, <1>4

\* The quotient is the largest number whose multiple does not exceed.
LEMMA QuotientIs ==
    ASSUME NEW m \in Nat, m > 0, NEW x \in Nat, NEW c \in Nat
    PROVE  /\ x \div m \in Nat
           /\ c * m <= x => c <= x \div m
           /\ c * m <= x /\ x < (c + 1) * m => c = x \div m
<1> DEFINE q == x \div m
           r == x % m
<1>1. q \in Nat /\ r \in Nat /\ r < m /\ x = q * m + r
  BY SMT
<1> HIDE DEF q, r
<1>2. c > q => c * m >= (q + 1) * m
  BY <1>1, SMT
<1>3. (q + 1) * m = q * m + m /\ q * m \in Nat /\ c * m \in Nat
  BY <1>1, SMT
<1>4. c * m <= x => c <= q
  BY <1>1, <1>2, <1>3
<1>5. c < q => (c + 1) * m <= q * m
  BY <1>1, SMT
<1>6. x < (c + 1) * m => c >= q
  <2>1. (c + 1) * m \in Nat
    BY SMT
  <2> QED  BY <1>1, <1>3, <1>5, <2>1
<1>7. c * m <= x /\ x < (c + 1) * m => c = q
  BY <1>1, <1>4, <1>6
<1> QED  BY <1>1, <1>4, <1>7 DEF q

\* A generator makes at most FramesPerNode frames, and has made them all when it runs dry.
LEMMA MadeBound ==
    ASSUME NEW k \in Nat, NEW s, Made(s, k)
    PROVE  /\ k <= FramesPerNode
           /\ Exhausted(s) => k = FramesPerNode /\ s.emitted = Packets
           /\ ~Exhausted(s) => k < FramesPerNode
<1> DEFINE h == HeartbeatEvery
<1>1. /\ h \in Nat /\ Packets \in Nat /\ FramesPerNode \in Nat
      /\ s.emitted \in Nat /\ s.emitted <= Packets /\ s.since_hb \in Nat
      /\ Exhausted(s) => s.emitted = Packets
      /\ ~Exhausted(s) => s.emitted < Packets
  BY Constants DEF Made, Exhausted
<1>2. CASE h = 0
  <2>1. k = s.emitted /\ FramesPerNode = Packets
    BY <1>1, <1>2 DEF Made, FramesPerNode
  <2> QED  BY <1>1, <2>1
<1>3. CASE h > 0
  <2>1. s.since_hb <= h
    BY <1>3 DEF Made
  <2>2. PICK c \in Nat : /\ k = c * (h + 1) + s.since_hb
                         /\ s.emitted = c * h + s.since_hb
                         /\ c > 0 => c * h < Packets
    BY <1>3 DEF Made
  <2>3. c * (h + 1) = c * h + c /\ c * h \in Nat
    BY <1>1, SMT
  <2>4. k = s.emitted + c
    BY <1>1, <2>2, <2>3
  <2>5. CASE Packets = 0
    <3>1. c = 0 /\ FramesPerNode = 0 /\ s.emitted = 0
      BY <1>1, <2>2, <2>3, <2>5 DEF FramesPerNode
    <3> QED  BY <1>1, <2>4, <2>5, <3>1
  <2>6. CASE Packets > 0
    <3> DEFINE top == (Packets - 1) \div h
    <3>1. Packets - 1 \in Nat /\ FramesPerNode = Packets + top
      BY <1>1, <1>3, <2>6 DEF FramesPerNode
    <3>2. /\ top \in Nat
          /\ c * h <= Packets - 1 => c <= top
          /\ c * h <= Packets - 1 /\ Packets - 1 < (c + 1) * h => c = top
      BY <1>1, <1>3, <3>1, QuotientIs
    <3> HIDE DEF top
    <3>3. c * h <= Packets - 1
      <4>1. c = 0 => c * h = 0
        BY <1>1, SMT
      <4> QED  BY <1>1, <2>2, <2>3, <2>6, <4>1
    <3>4. k <= FramesPerNode /\ (~Exhausted(s) => k < FramesPerNode)
      BY <1>1, <2>4, <3>1, <3>2, <3>3
    <3>5. ASSUME Exhausted(s) PROVE k = FramesPerNode
      <4>1. (c + 1) * h = c * h + h
        BY <1>1, SMT
      <4>2. Packets - 1 < (c + 1) * h
        BY <1>1, <2>1, <2>2, <2>3, <3>5, <4>1
      <4> QED  BY <1>1, <2>4, <3>1, <3>2, <3>3, <3>5, <4>2
    <3> QED  BY <1>1, <3>4, <3>5
  <2> QED  BY <1>1, <2>5, <2>6
<1> QED  BY <1>1, <1>2, <1>3

-----------------------------------------------------------------------------
(* The names of the frames sent. *)

SentFrame == [node : Nodes, seq : Seqs, heartbeat : BOOLEAN, samples : Nat, at : Nat]

\* Counting a subset of the frames sent.
LEMMA SomeFrames ==
    ASSUME sent \in Seq(SentFrame), NEW A \in SUBSET (1 .. Len(sent))
    PROVE  IsFiniteSet(A) /\ Cardinality(A) \in Nat
<1>1. IsFiniteSet(1 .. Len(sent))
  BY LenProperties, FS_Interval
<1> QED  BY <1>1, FS_Subset, FS_CardinalityType

\* A set with one element more is larger.
LEMMA StrictlySmaller ==
    ASSUME NEW B, IsFiniteSet(B), NEW A \in SUBSET B, NEW x \in B, x \notin A
    PROVE  /\ IsFiniteSet(A) /\ Cardinality(A) \in Nat /\ Cardinality(B) \in Nat
           /\ Cardinality(A) < Cardinality(B)
<1>1. /\ IsFiniteSet(A) /\ Cardinality(A) <= Cardinality(B)
      /\ (Cardinality(A) = Cardinality(B) => A = B)
  BY FS_Subset
<1>2. Cardinality(A) \in Nat /\ Cardinality(B) \in Nat
  BY <1>1, FS_CardinalityType
<1> QED  BY <1>1, <1>2

\* The frames of a node are numbered in the order they were sent, from 0.
LEMMA Indices ==
    ASSUME sent \in Seq(SentFrame)
    PROVE  /\ \A n : /\ IsFiniteSet(FramesOf(n)) /\ Cardinality(FramesOf(n)) \in Nat
                     /\ FramesOf(n) \subseteq 1 .. Len(sent)
           /\ \A k \in 1 .. Len(sent) :
                 /\ sent[k] \in SentFrame /\ IndexOf(k) \in Nat
                 /\ IndexOf(k) < Cardinality(FramesOf(sent[k].node))
           /\ \A j, k \in 1 .. Len(sent) :
                 sent[j].node = sent[k].node /\ j < k => IndexOf(j) < IndexOf(k)
           /\ \A j, k \in 1 .. Len(sent) : Name(j) = Name(k) => j = k
<1>1. \A n : /\ IsFiniteSet(FramesOf(n)) /\ Cardinality(FramesOf(n)) \in Nat
             /\ FramesOf(n) \subseteq 1 .. Len(sent)
  <2>1. \A n : FramesOf(n) \in SUBSET (1 .. Len(sent))
    BY DEF FramesOf
  <2> QED  BY <2>1, SomeFrames
<1>2. Len(sent) \in Nat /\ \A k \in 1 .. Len(sent) : sent[k] \in SentFrame
  BY LenProperties, ElementOfSeq
<1>3. \A k \in 1 .. Len(sent) : /\ IndexOf(k) \in Nat
                                /\ IndexOf(k) < Cardinality(FramesOf(sent[k].node))
  <2> SUFFICES ASSUME NEW k \in 1 .. Len(sent)
               PROVE  /\ IndexOf(k) \in Nat
                      /\ IndexOf(k) < Cardinality(FramesOf(sent[k].node))
    OBVIOUS
  <2> DEFINE B == FramesOf(sent[k].node)
             A == {j \in B : j < k}
  <2>1. k \in B /\ k \notin A /\ A \in SUBSET B /\ IsFiniteSet(B)
    <3>1. k \in B /\ k \in Nat
      BY <1>2 DEF FramesOf
    <3>2. IsFiniteSet(B)
      BY <1>1
    <3> QED  BY <3>1, <3>2
  <2>2. IndexOf(k) = Cardinality(A)
    BY DEF IndexOf
  <2> HIDE DEF A, B
  <2>3. Cardinality(A) \in Nat /\ Cardinality(A) < Cardinality(B)
    BY <2>1, StrictlySmaller
  <2> QED  BY <2>2, <2>3 DEF B
<1>4. ASSUME NEW j \in 1 .. Len(sent), NEW k \in 1 .. Len(sent),
             sent[j].node = sent[k].node, j < k
      PROVE  IndexOf(j) < IndexOf(k)
  <2> DEFINE n == sent[k].node
             A == {i \in FramesOf(n) : i < j}
             B == {i \in FramesOf(n) : i < k}
  <2>1. IndexOf(j) = Cardinality(A) /\ IndexOf(k) = Cardinality(B)
    BY <1>4 DEF IndexOf
  <2>2. A \in SUBSET B /\ j \in B /\ j \notin A /\ B \in SUBSET FramesOf(n)
    BY <1>2, <1>4 DEF FramesOf
  <2>3. IsFiniteSet(B)
    BY <1>1, <2>2, FS_Subset
  <2> HIDE DEF A, B, n
  <2>4. Cardinality(A) < Cardinality(B)
    BY <2>2, <2>3, StrictlySmaller
  <2> QED  BY <2>1, <2>4
<1>5. ASSUME NEW j \in 1 .. Len(sent), NEW k \in 1 .. Len(sent), Name(j) = Name(k)
      PROVE  j = k
  <2>1. sent[j].node = sent[k].node /\ IndexOf(j) = IndexOf(k)
    BY <1>5 DEF Name
  <2>2. j \in Nat /\ k \in Nat /\ IndexOf(j) \in Nat /\ IndexOf(k) \in Nat
    BY <1>2, <1>3
  <2>3. ~(j < k) /\ ~(k < j)
    BY <1>4, <2>1, <2>2
  <2> QED  BY <2>2, <2>3
<1> QED  BY <1>1, <1>2, <1>3, <1>4, <1>5

\* A frame is found under its name.
LEMMA FrameOfName ==
    ASSUME sent \in Seq(SentFrame)
    PROVE  /\ \A k \in 1 .. Len(sent) : FrameOf(Name(k)) = k
           /\ \A f : FrameOf(f) # 0 => /\ FrameOf(f) \in 1 .. Len(sent)
                                       /\ Name(FrameOf(f)) = f
<1>1. \A k \in 1 .. Len(sent) : FrameOf(Name(k)) = k
  <2> SUFFICES ASSUME NEW k \in 1 .. Len(sent) PROVE FrameOf(Name(k)) = k
    OBVIOUS
  <2>1. \A j \in 1 .. Len(sent) : Name(j) = Name(k) => j = k
    BY Indices
  <2> QED  BY <2>1 DEF FrameOf
<1>2. ASSUME NEW f, FrameOf(f) # 0
      PROVE  FrameOf(f) \in 1 .. Len(sent) /\ Name(FrameOf(f)) = f
  BY <1>2 DEF FrameOf
<1> QED  BY <1>1, <1>2

\* One more frame keeps the names of the others and gets the next index of its node.
LEMMA NamesGrow ==
    ASSUME sent \in Seq(SentFrame), NEW p \in SentFrame, sent' = Append(sent, p),
           NEW new, new = Len(sent) + 1
    PROVE  /\ sent' \in Seq(SentFrame) /\ Len(sent') = new
           /\ \A k \in 1 .. Len(sent) : /\ sent'[k] = sent[k] /\ Name(k)' = Name(k)
                                          /\ IndexOf(k)' = IndexOf(k)
           /\ sent'[new] = p /\ IndexOf(new)' = Cardinality(FramesOf(p.node))
           /\ Name(new)' = <<p.node, Cardinality(FramesOf(p.node))>>
           /\ \A n : (Cardinality(FramesOf(n)))'
                        = Cardinality(FramesOf(n)) + (IF n = p.node THEN 1 ELSE 0)
<1>1. /\ sent' \in Seq(SentFrame) /\ Len(sent') = new /\ Len(sent) \in Nat /\ new \in Nat
      /\ \A k \in 1 .. Len(sent) : sent'[k] = sent[k]
      /\ sent'[new] = p
  BY AppendProperties, LenProperties
<1>2. 1 .. new = (1 .. Len(sent)) \union {new} /\ new \notin 1 .. Len(sent)
  BY <1>1
<1>3. \A n : FramesOf(n)' = FramesOf(n) \union (IF n = p.node THEN {new} ELSE {})
  BY <1>1, <1>2 DEF FramesOf
<1>4. \A n : /\ IsFiniteSet(FramesOf(n)) /\ Cardinality(FramesOf(n)) \in Nat
             /\ new \notin FramesOf(n) /\ FramesOf(n) \subseteq 1 .. Len(sent)
  BY <1>2, Indices
<1>5. ASSUME NEW n
      PROVE  (Cardinality(FramesOf(n)))'
               = Cardinality(FramesOf(n)) + (IF n = p.node THEN 1 ELSE 0)
  <2>1. CASE n = p.node
    <3>1. FramesOf(n)' = FramesOf(n) \union {new}
      BY <1>3, <2>1
    <3>2. Cardinality(FramesOf(n) \union {new}) = Cardinality(FramesOf(n)) + 1
      BY <1>4, FS_AddElement
    <3> QED  BY <2>1, <3>1, <3>2
  <2>2. CASE n # p.node
    <3>1. FramesOf(n)' = FramesOf(n)
      BY <1>3, <2>2
    <3> QED  BY <1>4, <2>2, <3>1
  <2> QED  BY <2>1, <2>2
<1>6. ASSUME NEW k \in 1 .. Len(sent) PROVE Name(k)' = Name(k) /\ IndexOf(k)' = IndexOf(k)
  <2>1. sent'[k].node = sent[k].node
    BY <1>1
  <2>2. {j \in FramesOf(sent[k].node)' : j < k} = {j \in FramesOf(sent[k].node) : j < k}
    BY <1>1, <1>3
  <2>3. IndexOf(k)' = IndexOf(k)
    BY <2>1, <2>2 DEF IndexOf
  <2> QED  BY <2>1, <2>3 DEF Name
<1>7. /\ IndexOf(new)' = Cardinality(FramesOf(p.node))
      /\ Name(new)' = <<p.node, Cardinality(FramesOf(p.node))>>
  <2>2. {j \in FramesOf(p.node)' : j < new} = FramesOf(p.node)
    BY <1>1, <1>3, <1>4
  <2> QED  BY <1>1, <2>2 DEF Name, IndexOf
<1> QED  BY <1>1, <1>5, <1>6, <1>7

-----------------------------------------------------------------------------
(* The schedule of run(). *)

Running == pc \in {"send", "collect"}

\* The rounds: every generator that has not run dry has made one frame a round.
Rounds ==
    /\ turn \in Nat
    /\ pc = "send" => turn \in Nodes
    /\ pc = "collect" => turn = NodeCount + 1
    /\ active \in SUBSET Nodes
    /\ now \in Nat /\ now <= MaxTime
    /\ Running => now <= FramesPerNode
    /\ ~Running => active = {}
    /\ \A n \in active : Cardinality(FramesOf(n)) = now + (IF n < turn THEN 1 ELSE 0)

\* The generators: each has made the frames it sent, and the idle ones have run dry.
Generators ==
    /\ source = [n \in Nodes |-> source[n]]
    /\ \A n \in Nodes : /\ Made(source[n], Cardinality(FramesOf(n)))
                        /\ n \notin active => Exhausted(source[n])

\* Frame k is the IndexOf(k)-th of its node, and was sent in that round.
RightFrame(k) ==
    /\ sent[k].seq = IndexOf(k) % SeqMod
    /\ sent[k].heartbeat = HeartbeatAt(IndexOf(k))
    /\ sent[k].samples = IF HeartbeatAt(IndexOf(k)) THEN 0 ELSE BlockSamples
    /\ sent[k].at = IndexOf(k) /\ sent[k].at <= now

Frames ==
    /\ sent \in Seq(SentFrame)
    /\ \A k \in 1 .. Len(sent) : RightFrame(k)
    /\ \A n \in Nodes : \A i \in 0 .. Cardinality(FramesOf(n)) - 1 :
          \E k \in 1 .. Len(sent) : Name(k) = <<n, i>>

Schedule == Rounds /\ Generators /\ Frames

\* A node that has its turn makes its next frame.
LEMMA NextFrameOf ==
    ASSUME Schedule, SendFrame
    PROVE  /\ turn \in Nodes /\ PacketFrom(turn) \in SentFrame
           /\ PacketFrom(turn).node = turn
           /\ PacketFrom(turn).seq = Cardinality(FramesOf(turn)) % SeqMod
           /\ PacketFrom(turn).heartbeat = HeartbeatAt(Cardinality(FramesOf(turn)))
           /\ PacketFrom(turn).samples
                 = IF HeartbeatAt(Cardinality(FramesOf(turn))) THEN 0 ELSE BlockSamples
           /\ PacketFrom(turn).at = Cardinality(FramesOf(turn))
           /\ PacketFrom(turn).at = now
           /\ Cardinality(FramesOf(turn)) \in Nat
           /\ Cardinality(FramesOf(turn)) < FramesPerNode
<1> DEFINE k == Cardinality(FramesOf(turn))
           s == source[turn]
           p == PacketFrom(turn)
           due == HeartbeatDue(s)
<1>1. turn \in Nodes /\ turn \in Nat /\ now \in Nat /\ turn \in active /\ ~Exhausted(s)
  BY DEF Schedule, Rounds, SendFrame
<1>2. k \in Nat /\ Made(s, k)
  BY <1>1, Indices DEF Schedule, Generators, Frames
<1>3. k = now
  BY <1>1 DEF Schedule, Rounds
<1>4. p = [node |-> turn, seq |-> s.seq, heartbeat |-> due,
           samples |-> IF due THEN 0 ELSE BlockSamples, at |-> now]
  BY DEF PacketFrom
<1>5. due \in BOOLEAN /\ due = HeartbeatAt(k)
  <2>1. due <=> HeartbeatAt(k)
    BY <1>2, DueAt
  <2>2. due \in BOOLEAN /\ HeartbeatAt(k) \in BOOLEAN
    BY DEF HeartbeatDue, HeartbeatAt
  <2> QED  BY <2>1, <2>2
<1>6. s.seq = k % SeqMod /\ s.seq \in Seqs
  BY <1>2 DEF Made
<1>7. k < FramesPerNode
  BY <1>1, <1>2, MadeBound
<1>8. BlockSamples \in Nat
  BY Constants
<1> HIDE DEF k, s, due, p
<1>9. p \in SentFrame
  BY <1>1, <1>4, <1>5, <1>6, <1>8 DEF SentFrame
<1>10. /\ p.node = turn /\ p.seq = k % SeqMod /\ p.heartbeat = HeartbeatAt(k)
       /\ p.samples = (IF HeartbeatAt(k) THEN 0 ELSE BlockSamples)
       /\ p.at = k /\ p.at = now
  BY <1>3, <1>4, <1>5, <1>6
<1> QED  BY <1>1, <1>2, <1>7, <1>9, <1>10 DEF k, p

\* A new run has made no frame.
LEMMA InitSchedule == Init => Schedule
<1> SUFFICES ASSUME Init PROVE Schedule
  OBVIOUS
<1>1. /\ pc = "send" /\ turn = 1 /\ active = Nodes /\ sent = <<>>
      /\ source = [n \in Nodes |-> [seq |-> 0, emitted |-> 0, since_hb |-> 0]]
  BY DEF Init
<1>2. now = 0
  BY DEF Init, Wire!Init
<1>3. \A n : FramesOf(n) = {} /\ Cardinality(FramesOf(n)) = 0
  <2>1. \A n : FramesOf(n) = {}
    BY <1>1 DEF FramesOf
  <2> QED  BY <2>1, FS_EmptySet
<1>4. Rounds
  <2>1. 1 \in Nodes /\ \A n \in Nodes : ~(n < 1)
    BY Constants
  <2> QED  BY <1>1, <1>2, <1>3, <2>1, Constants DEF Rounds, Running
<1>5. Generators
  <2>1. Made([seq |-> 0, emitted |-> 0, since_hb |-> 0], 0)
    <3> DEFINE s == [seq |-> 0, emitted |-> 0, since_hb |-> 0]
    <3>1. 0 % SeqMod = 0 /\ 0 \in Seqs
      BY SeqModAssumption, SMT DEF Seqs
    <3>2. 0 \in 0 .. Packets
      BY Constants
    <3>3. /\ s \in [seq : Seqs, emitted : 0 .. Packets, since_hb : Nat]
          /\ s.seq = 0 /\ s.emitted = 0 /\ s.since_hb = 0
      BY <3>1, <3>2
    <3> HIDE DEF s
    <3>4. \E c \in Nat : /\ 0 = c * (HeartbeatEvery + 1) + s.since_hb
                         /\ s.emitted = c * HeartbeatEvery + s.since_hb
                         /\ c > 0 => c * HeartbeatEvery < Packets
      <4>1. 0 * (HeartbeatEvery + 1) = 0 /\ 0 * HeartbeatEvery = 0
        BY Constants, SMT
      <4> QED  BY <3>3, <4>1
    <3>5. Made(s, 0)
      BY <3>1, <3>3, <3>4, Constants DEF Made
    <3> QED  BY <3>5 DEF s
  <2> QED  BY <1>1, <1>3, <2>1 DEF Generators
<1>6. Frames
  <2>1. sent \in Seq(SentFrame) /\ 1 .. Len(sent) = {} /\ 0 .. 0 - 1 = {}
    BY <1>1
  <2> QED  BY <1>3, <2>1 DEF Frames
<1> QED  BY <1>4, <1>5, <1>6 DEF Schedule

\* Nothing sent, no time passed.
LEMMA SameFrames ==
    ASSUME Frames, sent' = sent, now \in Nat, now' \in Nat, now <= now'
    PROVE  /\ Frames' /\ \A n : FramesOf(n)' = FramesOf(n)
           /\ \A k : Name(k)' = Name(k)
<1>1. \A n : FramesOf(n)' = FramesOf(n)
  BY DEF FramesOf
<1>2. \A k : IndexOf(k)' = IndexOf(k) /\ Name(k)' = Name(k)
  BY <1>1 DEF IndexOf, Name
<1>3. ASSUME NEW k \in 1 .. Len(sent) PROVE RightFrame(k)'
  <2>1. /\ RightFrame(k) /\ sent[k] \in SentFrame
    BY Indices DEF Frames
  <2>2. sent[k].at \in Nat
    BY <2>1 DEF SentFrame
  <2>3. sent[k].at <= now'
    BY <2>1, <2>2 DEF RightFrame
  <2> QED  BY <1>2, <2>1, <2>3 DEF RightFrame
<1>4. Frames'
  BY <1>1, <1>2, <1>3 DEF Frames
<1> QED  BY <1>1, <1>2, <1>4

\* The next node of the round sends.
LEMMA SendSchedule == Schedule /\ SendFrame => Schedule'
<1> SUFFICES ASSUME Schedule, SendFrame PROVE Schedule'
  OBVIOUS
<1> DEFINE p == PacketFrom(turn)
           new == Len(sent) + 1
<1>1. /\ pc = "send" /\ turn \in active /\ ~Exhausted(source[turn])
      /\ sent' = Append(sent, p)
      /\ source' = [source EXCEPT ![turn] = AfterFrame(source[turn])]
      /\ turn' = turn + 1 /\ pc' = (IF turn = NodeCount THEN "collect" ELSE "send")
      /\ active' = active
  BY DEF SendFrame, NextTurn
<1>2. now' = now
  BY DEF SendFrame, Wire!Send, Wire!SendLost, Wire!SendHeld, Wire!SendPassed,
         Wire!SendOvertaking
<1>3. /\ turn \in Nodes /\ p \in SentFrame /\ p.node = turn
      /\ p.seq = Cardinality(FramesOf(turn)) % SeqMod
      /\ p.heartbeat = HeartbeatAt(Cardinality(FramesOf(turn)))
      /\ p.samples = IF HeartbeatAt(Cardinality(FramesOf(turn))) THEN 0 ELSE BlockSamples
      /\ p.at = Cardinality(FramesOf(turn)) /\ p.at = now
  BY NextFrameOf
<1>4. /\ now \in Nat /\ turn \in Nat /\ active \in SUBSET Nodes /\ now <= MaxTime
      /\ now <= FramesPerNode
      /\ \A n \in active : Cardinality(FramesOf(n)) = now + (IF n < turn THEN 1 ELSE 0)
      /\ sent \in Seq(SentFrame)
      /\ \A k \in 1 .. Len(sent) : RightFrame(k)
  BY <1>1 DEF Schedule, Rounds, Running, Frames
<1> HIDE DEF p, new
<1>5. /\ sent' \in Seq(SentFrame) /\ Len(sent') = new
      /\ \A k \in 1 .. Len(sent) : /\ sent'[k] = sent[k] /\ Name(k)' = Name(k)
                                   /\ IndexOf(k)' = IndexOf(k)
      /\ sent'[new] = p
  BY <1>1, <1>3, <1>4, NamesGrow DEF new
<1>6. \A n : (Cardinality(FramesOf(n)))' = Cardinality(FramesOf(n)) + (IF n = turn THEN 1 ELSE 0)
  BY <1>1, <1>3, <1>4, NamesGrow
<1>7. \A k : k = new => /\ IndexOf(k)' = Cardinality(FramesOf(turn))
                        /\ Name(k)' = <<turn, Cardinality(FramesOf(turn))>>
  BY <1>1, <1>3, <1>4, NamesGrow DEF new
<1>8. \A n : Cardinality(FramesOf(n)) \in Nat
  BY <1>4, Indices
<1>9. Rounds'
  <2>1. turn' \in Nat /\ (pc' = "send" => turn' \in Nodes)
    BY <1>1, <1>3, <1>4, Constants
  <2>2. pc' = "collect" => turn' = NodeCount + 1
    BY <1>1
  <2>3. Running'
    BY <1>1 DEF Running
  <2>4. ASSUME NEW n \in active
        PROVE  (Cardinality(FramesOf(n)))' = now' + (IF n < turn' THEN 1 ELSE 0)
    <3>1. n \in Nat /\ Cardinality(FramesOf(n)) = now + (IF n < turn THEN 1 ELSE 0)
      BY <1>4, Constants
    <3>2. (Cardinality(FramesOf(n)))' = Cardinality(FramesOf(n)) + (IF n = turn THEN 1 ELSE 0)
      BY <1>6
    <3> QED  BY <1>1, <1>2, <1>4, <3>1, <3>2
  <2> QED  BY <1>1, <1>2, <1>4, <2>1, <2>2, <2>3, <2>4 DEF Rounds
<1>10. Generators'
  <2>1. source = [n \in Nodes |-> source[n]]
    BY DEF Schedule, Generators
  <2>2. /\ source'[turn] = AfterFrame(source[turn])
        /\ \A n \in Nodes \ {turn} : source'[n] = source[n]
        /\ source' = [n \in Nodes |-> source'[n]]
    BY <1>1, <1>3, <2>1
  <2>3. ASSUME NEW n \in Nodes
        PROVE  /\ Made(source'[n], (Cardinality(FramesOf(n)))')
               /\ n \notin active' => Exhausted(source'[n])
    <3>1. /\ Made(source[n], Cardinality(FramesOf(n)))
          /\ n \notin active => Exhausted(source[n])
      BY DEF Schedule, Generators
    <3>2. CASE n = turn
      <4>1. Made(AfterFrame(source[n]), Cardinality(FramesOf(n)) + 1)
        BY <1>1, <1>8, <3>1, <3>2, MadeNext
      <4>2. (Cardinality(FramesOf(n)))' = Cardinality(FramesOf(n)) + 1
        BY <1>6, <3>2
      <4> QED  BY <1>1, <2>2, <3>2, <4>1, <4>2
    <3>3. CASE n # turn
      <4>1. (Cardinality(FramesOf(n)))' = Cardinality(FramesOf(n))
        BY <1>6, <1>8, <3>3
      <4> QED  BY <1>1, <2>2, <3>1, <3>3, <4>1
    <3> QED  BY <3>2, <3>3
  <2> QED  BY <2>2, <2>3 DEF Generators
<1>11. 1 .. new = (1 .. Len(sent)) \union {new} /\ new \in 1 .. new
  <2>1. Len(sent) \in Nat
    BY <1>4, LenProperties
  <2> QED  BY <2>1 DEF new
<1>12. Frames'
  <2>1. ASSUME NEW k \in 1 .. new PROVE RightFrame(k)'
    <3>1. CASE k = new
      BY <1>2, <1>3, <1>4, <1>5, <1>7, <3>1 DEF RightFrame
    <3>2. CASE k \in 1 .. Len(sent)
      BY <1>2, <1>4, <1>5, <3>2 DEF RightFrame
    <3> QED  BY <1>11, <3>1, <3>2
  <2>2. ASSUME NEW n \in Nodes, NEW i \in 0 .. (Cardinality(FramesOf(n)))' - 1
        PROVE  \E k \in 1 .. new : Name(k)' = <<n, i>>
    <3>1. CASE i \in 0 .. Cardinality(FramesOf(n)) - 1
      <4>1. PICK k \in 1 .. Len(sent) : Name(k) = <<n, i>>
        BY <3>1 DEF Schedule, Frames
      <4>2. Name(k)' = <<n, i>> /\ k \in 1 .. new
        BY <1>5, <1>11, <4>1
      <4> QED  BY <4>2
    <3>2. CASE i \notin 0 .. Cardinality(FramesOf(n)) - 1
      <4>1. n = turn /\ i = Cardinality(FramesOf(n))
        BY <1>6, <1>8, <3>2
      <4> QED  BY <1>7, <1>11, <4>1
    <3> QED  BY <3>1, <3>2
  <2> QED  BY <1>5, <2>1, <2>2 DEF Frames
<1> QED  BY <1>9, <1>10, <1>12 DEF Schedule

\* The next node of the round has nothing to send.
LEMMA SkipSchedule == Schedule /\ SkipNode => Schedule'
<1> SUFFICES ASSUME Schedule, SkipNode PROVE Schedule'
  OBVIOUS
<1>1. /\ pc = "send" /\ (turn \notin active \/ Exhausted(source[turn]))
      /\ active' = active \ {turn} /\ source' = source /\ sent' = sent /\ now' = now
      /\ turn' = turn + 1 /\ pc' = (IF turn = NodeCount THEN "collect" ELSE "send")
  BY DEF SkipNode, NextTurn
<1>2. /\ now \in Nat /\ turn \in Nat /\ turn \in Nodes /\ active \in SUBSET Nodes
      /\ now <= MaxTime /\ now <= FramesPerNode
      /\ \A n \in active : Cardinality(FramesOf(n)) = now + (IF n < turn THEN 1 ELSE 0)
  BY <1>1 DEF Schedule, Rounds, Running
<1>3. Frames' /\ \A n : FramesOf(n)' = FramesOf(n)
  BY <1>1, <1>2, SameFrames DEF Schedule
<1>4. Rounds'
  <2>1. turn' \in Nat /\ (pc' = "send" => turn' \in Nodes)
    BY <1>1, <1>2, Constants
  <2>2. Running' /\ (pc' = "collect" => turn' = NodeCount + 1)
    BY <1>1 DEF Running
  <2>3. ASSUME NEW n \in active'
        PROVE  (Cardinality(FramesOf(n)))' = now' + (IF n < turn' THEN 1 ELSE 0)
    <3>1. /\ n \in Nat /\ n # turn
          /\ Cardinality(FramesOf(n)) = now + (IF n < turn THEN 1 ELSE 0)
      BY <1>1, <1>2, Constants
    <3> QED  BY <1>1, <1>2, <1>3, <3>1
  <2> QED  BY <1>1, <1>2, <2>1, <2>2, <2>3 DEF Rounds
<1>5. Generators'
  <2>1. \A n \in Nodes : n \notin active' => Exhausted(source[n])
    BY <1>1 DEF Schedule, Generators
  <2> QED  BY <1>1, <1>3, <2>1 DEF Schedule, Generators
<1> QED  BY <1>3, <1>4, <1>5 DEF Schedule

\* The round ends before the clock reaches its bound.
LEMMA RoundEnds ==
    ASSUME Schedule, EndRound
    PROVE  Schedule' /\ now < MaxTime
<1>1. /\ pc = "collect" /\ now' = now + 1 /\ turn' = 1
      /\ pc' = (IF active = {} THEN "flush" ELSE "send")
      /\ active' = active /\ source' = source /\ sent' = sent
  BY DEF EndRound
<1>2. /\ now \in Nat /\ turn = NodeCount + 1 /\ active \in SUBSET Nodes
      /\ now <= FramesPerNode /\ MaxTime = FramesPerNode + 1
      /\ \A n \in active : Cardinality(FramesOf(n)) = now + (IF n < turn THEN 1 ELSE 0)
  BY <1>1 DEF Schedule, Rounds, Running, MaxTime
<1>3. FramesPerNode \in Nat
  BY Constants
<1>4. Frames' /\ \A n : FramesOf(n)' = FramesOf(n)
  BY <1>1, <1>2, SameFrames DEF Schedule
<1>5. \A n \in active : /\ Cardinality(FramesOf(n)) = now + 1 /\ ~(n < 1)
                        /\ Cardinality(FramesOf(n)) <= FramesPerNode
  <2> SUFFICES ASSUME NEW n \in active
               PROVE  /\ Cardinality(FramesOf(n)) = now + 1 /\ ~(n < 1)
                      /\ Cardinality(FramesOf(n)) <= FramesPerNode
    OBVIOUS
  <2>1. n \in Nodes /\ n \in Nat /\ n < turn /\ ~(n < 1)
    BY <1>2, Constants
  <2>2. Cardinality(FramesOf(n)) \in Nat /\ Made(source[n], Cardinality(FramesOf(n)))
    BY <2>1, Indices DEF Schedule, Generators, Frames
  <2>3. Cardinality(FramesOf(n)) <= FramesPerNode
    BY <2>2, MadeBound
  <2> QED  BY <1>2, <2>1, <2>3
<1>6. Rounds'
  <2>1. 1 \in Nodes /\ 1 \in Nat
    BY Constants
  <2>2. Running' => now' <= FramesPerNode
    <3>1. Running' => active # {}
      BY <1>1 DEF Running
    <3> QED  BY <1>1, <1>2, <1>5, <3>1
  <2>3. ~Running' => active' = {}
    BY <1>1 DEF Running
  <2>4. now' \in Nat /\ now' <= MaxTime
    BY <1>1, <1>2, <1>3
  <2>5. \A n \in active' : (Cardinality(FramesOf(n)))' = now' + (IF n < turn' THEN 1 ELSE 0)
    <3> SUFFICES ASSUME NEW n \in active
                 PROVE  Cardinality(FramesOf(n)) = now + 1 + (IF n < 1 THEN 1 ELSE 0)
      BY <1>1, <1>4
    <3> QED  BY <1>2, <1>5
  <2> QED  BY <1>1, <1>2, <2>1, <2>2, <2>3, <2>4, <2>5 DEF Rounds
<1>7. Generators'
  BY <1>1, <1>4 DEF Schedule, Generators
<1> QED  BY <1>2, <1>3, <1>4, <1>6, <1>7 DEF Schedule

\* The other steps leave the nodes alone.
LEMMA StillSchedule ==
    ASSUME Schedule, UNCHANGED <<turn, active, source, sent, now>>,
           pc' = pc \/ (~Running /\ ~Running')
    PROVE  Schedule'
<1>1. now \in Nat
  BY DEF Schedule, Rounds
<1>2. Frames' /\ \A n : FramesOf(n)' = FramesOf(n)
  BY <1>1, SameFrames DEF Schedule
<1>3. Running' = Running /\ (pc' = "send" => pc = "send") /\ (pc' = "collect" => pc = "collect")
  BY DEF Running
<1>4. Rounds'
  BY <1>2, <1>3 DEF Schedule, Rounds
<1>5. Generators'
  BY <1>2 DEF Schedule, Generators
<1> QED  BY <1>2, <1>4, <1>5 DEF Schedule

\* Every step keeps the schedule.
LEMMA StepSchedule == Schedule /\ [Next]_vars => Schedule'
<1> SUFFICES ASSUME Schedule, [Next]_vars PROVE Schedule'
  OBVIOUS
<1>1. CASE SendFrame
  BY <1>1, SendSchedule
<1>2. CASE SkipNode
  BY <1>2, SkipSchedule
<1>3. CASE ReceivePacket
  BY <1>3, StillSchedule DEF ReceivePacket, Wire!Recv
<1>4. CASE EndRound
  BY <1>4, RoundEnds
<1>5. CASE FlushLink
  <2>1. UNCHANGED <<turn, active, source, sent, now>> /\ ~Running /\ ~Running'
    BY <1>5 DEF FlushLink, Wire!Flush, Running
  <2> QED  BY <2>1, StillSchedule
<1>6. CASE Close
  <2>1. UNCHANGED <<turn, active, source, sent, now>> /\ ~Running /\ ~Running'
    BY <1>6 DEF Close, Running
  <2> QED  BY <2>1, StillSchedule
<1>7. CASE UNCHANGED vars
  BY <1>7, StillSchedule DEF vars
<1> QED  BY <1>1, <1>2, <1>3, <1>4, <1>5, <1>6, <1>7 DEF Next

\* The schedule holds throughout.
LEMMA Scheduled == Spec => []Schedule
<1> QED  BY InitSchedule, StepSchedule, PTL DEF Spec

-----------------------------------------------------------------------------
(* The link of the slice is the transport of LinkProofs. *)

\* The slice's link meets the assumptions of the transport's modules.
LEMMA LinkApplies == W!ConfigAssumption /\ W!BoundAssumption
<1>1. W!Outcomes = Wire!Outcomes
  BY DEF W!Outcomes, Wire!Outcomes
<1> QED  BY <1>1, Constants, LinkAssumption

\* Counting is the same under every name.
LEMMA SameCounting ==
    \A X : W!Cardinality(X) = Cardinality(X) /\ Wire!Cardinality(X) = Cardinality(X)
  BY DEF W!Cardinality, Wire!Cardinality, Cardinality

\* The same operators, under two names.
LEMMA SameHelpers ==
    /\ Wire!None = W!None /\ (Wire!Timed <=> W!Timed) /\ Wire!Delays = W!Delays
    /\ Wire!Draw = W!Draw
    /\ \A l : Wire!Offered(l) = W!Offered(l) /\ Wire!Overtaken(l) = W!Overtaken(l)
    /\ \A l, copies : Wire!PushInner(l, copies) = W!PushInner(l, copies)
    /\ \A q, e : Wire!InsertByRelease(q, e) = W!InsertByRelease(q, e)
    /\ \A l, copy, delay : Wire!Schedule(l, copy, delay) = W!Schedule(l, copy, delay)
    /\ \A l, f, d : Wire!Emit(l, f, d) = W!Emit(l, f, d)
    /\ \A l, k : Wire!Release(l, k) = W!Release(l, k)
    /\ \A l : Wire!ReleaseDue(l) = W!ReleaseDue(l) /\ Wire!ReleaseAll(l) = W!ReleaseAll(l)
<1>1. Wire!None = W!None /\ (Wire!Timed <=> W!Timed) /\ Wire!Delays = W!Delays
  BY DEF Wire!None, W!None, Wire!Timed, W!Timed, Wire!Delays, W!Delays
<1>2. Wire!Draw = W!Draw
  BY <1>1 DEF Wire!Draw, W!Draw
<1>3. /\ \A l : Wire!Offered(l) = W!Offered(l) /\ Wire!Overtaken(l) = W!Overtaken(l)
      /\ \A l, copies : Wire!PushInner(l, copies) = W!PushInner(l, copies)
      /\ \A q, e : Wire!InsertByRelease(q, e) = W!InsertByRelease(q, e)
  <2>1. \A l : Wire!Offered(l) = W!Offered(l) /\ Wire!Overtaken(l) = W!Overtaken(l)
    BY <1>1 DEF Wire!Offered, W!Offered, Wire!Overtaken, W!Overtaken
  <2>2. \A l, copies : Wire!PushInner(l, copies) = W!PushInner(l, copies)
    BY DEF Wire!PushInner, W!PushInner
  <2>3. ASSUME NEW q, NEW e PROVE Wire!InsertByRelease(q, e) = W!InsertByRelease(q, e)
    BY SameCounting DEF Wire!InsertByRelease, W!InsertByRelease
  <2> QED  BY <2>1, <2>2, <2>3
<1>4. \A l, copy, delay : Wire!Schedule(l, copy, delay) = W!Schedule(l, copy, delay)
  BY <1>1, <1>3 DEF Wire!Schedule, W!Schedule
<1>5. \A l, f, d : Wire!Emit(l, f, d) = W!Emit(l, f, d)
  BY <1>4 DEF Wire!Emit, W!Emit
<1>6. \A l, k : Wire!Release(l, k) = W!Release(l, k)
  BY <1>3 DEF Wire!Release, W!Release
<1>7. \A l : Wire!ReleaseDue(l) = W!ReleaseDue(l) /\ Wire!ReleaseAll(l) = W!ReleaseAll(l)
  <2> SUFFICES ASSUME NEW l
               PROVE  Wire!ReleaseDue(l) = W!ReleaseDue(l) /\ Wire!ReleaseAll(l) = W!ReleaseAll(l)
    OBVIOUS
  <2>1. Wire!ReleaseDue(l) = W!ReleaseDue(l)
    BY <1>1, <1>6, SameCounting DEF Wire!ReleaseDue, W!ReleaseDue
  <2> QED  BY <1>6, <2>1 DEF Wire!ReleaseAll, W!ReleaseAll
<1> QED  BY <1>1, <1>2, <1>3, <1>4, <1>5, <1>6, <1>7

\* The same actions.
LEMMA SameActions ==
    /\ Wire!Init <=> W!Init
    /\ Wire!Send <=> W!Send
    /\ Wire!Recv <=> W!Recv
    /\ Wire!Backlog <=> W!Backlog
    /\ Wire!Flush <=> W!Flush
    /\ Wire!Tick <=> W!Tick
<1>1. Wire!Init <=> W!Init
  BY SameHelpers DEF Wire!Init, W!Init
<1>2. Wire!SendLost <=> W!SendLost
  BY SameHelpers DEF Wire!SendLost, W!SendLost
<1>3. Wire!SendHeld <=> W!SendHeld
  BY SameHelpers DEF Wire!SendHeld, W!SendHeld
<1>4. Wire!SendPassed <=> W!SendPassed
  BY SameHelpers DEF Wire!SendPassed, W!SendPassed
<1>5. Wire!SendOvertaking <=> W!SendOvertaking
  BY SameHelpers DEF Wire!SendOvertaking, W!SendOvertaking
<1>6. Wire!Recv <=> W!Recv
  BY SameHelpers DEF Wire!Recv, W!Recv
<1>7. Wire!Backlog <=> W!Backlog
  BY SameHelpers DEF Wire!Backlog, W!Backlog
<1>8. Wire!Flush <=> W!Flush
  BY <1>7, SameHelpers DEF Wire!Flush, W!Flush
<1>9. Wire!Tick <=> W!Tick
  BY DEF Wire!Tick, W!Tick
<1> QED  BY <1>1, <1>2, <1>3, <1>4, <1>5, <1>6, <1>7, <1>8, <1>9 DEF Wire!Send, W!Send

\* The same places of the copies of a frame.
LEMMA SamePlaces ==
    /\ \A f : Wire!Waiting(f) = W!Waiting(f) /\ Wire!Received(f) = W!Received(f)
    /\ Wire!Vanished = W!Vanished
<1>1. \A f, q : Wire!CountOf(f, q) = W!CountOf(f, q)
  <2> SUFFICES ASSUME NEW f, NEW q PROVE Wire!CountOf(f, q) = W!CountOf(f, q)
    OBVIOUS
  <2> QED  BY SameCounting DEF Wire!CountOf, W!CountOf
<1>2. /\ Wire!InnerFrames = W!InnerFrames /\ Wire!ScheduledFrames = W!ScheduledFrames
      /\ Wire!ArrivedFrames = W!ArrivedFrames
  BY DEF Wire!InnerFrames, W!InnerFrames, Wire!ScheduledFrames, W!ScheduledFrames,
         Wire!ArrivedFrames, W!ArrivedFrames
<1>3. \A f : Wire!Waiting(f) = W!Waiting(f) /\ Wire!Received(f) = W!Received(f)
  BY <1>1, <1>2 DEF Wire!Waiting, W!Waiting, Wire!Received, W!Received
<1> QED  BY <1>3 DEF Wire!Vanished, W!Vanished

\* And in the next state.
LEMMA SamePlacesNext ==
    /\ \A f : Wire!Waiting(f)' = W!Waiting(f)' /\ Wire!Received(f)' = W!Received(f)'
    /\ Wire!Vanished' = W!Vanished'
<1>1. /\ (\A f : Wire!Waiting(f) = W!Waiting(f) /\ Wire!Received(f) = W!Received(f))'
      /\ (Wire!Vanished = W!Vanished)'
  BY SamePlaces, PTL
<1> QED  BY <1>1

\* Every step of the slice is a step of the link, or none: it sends, receives, flushes and
\* lets time pass as the link allows, and the clock stays within its bound.
LEMMA StepLink ==
    ASSUME Schedule, [Next]_vars
    PROVE  [W!Next]_(W!vars)
<1>1. CASE SendFrame
  BY <1>1, SameActions DEF SendFrame, W!Next
<1>2. CASE SkipNode
  BY <1>2 DEF SkipNode, W!vars
<1>3. CASE ReceivePacket
  BY <1>3, SameActions DEF ReceivePacket, W!Next
<1>4. CASE EndRound
  <2>1. now < MaxTime
    BY <1>4, RoundEnds
  <2>2. W!Tick
    BY <1>4, <2>1 DEF EndRound, W!Tick
  <2> QED  BY <2>2 DEF W!Next
<1>5. CASE FlushLink
  BY <1>5, SameActions DEF FlushLink, W!Next, W!vars
<1>6. CASE Close
  BY <1>6 DEF Close, W!vars
<1>7. CASE UNCHANGED vars
  BY <1>7 DEF vars, W!vars
<1> QED  BY <1>1, <1>2, <1>3, <1>4, <1>5, <1>6, <1>7 DEF Next

\* The slice drives its link as the transport's specification says.
LEMMA DrivesLink == Spec => W!Spec
<1>1. Init => W!Init
  BY SameActions DEF Init
<1>2. Schedule /\ [Next]_vars => [W!Next]_(W!vars)
  BY StepLink
<1> QED  BY <1>1, <1>2, Scheduled, PTL DEF Spec, W!Spec

\* What is proved of the transport.
LinkFacts == W!TypeOK /\ W!Conservation /\ W!CountersTell /\ W!Counted

\* It holds of the link of the slice.
LEMMA LinkHolds == Spec => []LinkFacts
<1>1. W!Spec => []W!TypeOK
  BY LinkApplies, W!TypeCorrect
<1>2. W!Spec => []W!Conservation
  BY LinkApplies, W!FramesConserved
<1>3. W!Spec => []W!CountersTell
  BY LinkApplies, W!CountersTellAll
<1>4. W!Spec => []W!Counted
  BY LinkApplies, W!CensusHolds
<1> QED  BY <1>1, <1>2, <1>3, <1>4, DrivesLink, PTL DEF LinkFacts

-----------------------------------------------------------------------------
(* The books of the receiver. *)

\* The places in `arrived` of the copies in M.
At(M) == {j \in 1 .. Len(arrived) : arrived[j] \in M}

Intact == {c \in W!Copy : c.intact}
Damaged == {c \in W!Copy : ~c.intact}

\* One more copy has arrived.
LEMMA ArrivalsGrow ==
    ASSUME arrived \in Seq(W!Copy), NEW c \in W!Copy, arrived' = Append(arrived, c)
    PROVE  /\ Len(arrived) \in Nat /\ Len(arrived') = Len(arrived) + 1
           /\ \A j \in 1 .. Len(arrived) : arrived'[j] = arrived[j]
           /\ arrived'[Len(arrived')] = c
           /\ \A M : /\ At(M)' = At(M) \union (IF c \in M THEN {Len(arrived) + 1} ELSE {})
                     /\ Cardinality(At(M)) \in Nat
                     /\ Cardinality(At(M)')
                           = Cardinality(At(M)) + (IF c \in M THEN 1 ELSE 0)
<1>1. /\ Len(arrived) \in Nat /\ Len(arrived') = Len(arrived) + 1
      /\ \A j \in 1 .. Len(arrived) : arrived'[j] = arrived[j]
      /\ arrived'[Len(arrived) + 1] = c
  BY LenProperties, AppendProperties
<1>2. ASSUME NEW M
      PROVE  /\ At(M)' = At(M) \union (IF c \in M THEN {Len(arrived) + 1} ELSE {})
             /\ Cardinality(At(M)) \in Nat
             /\ Cardinality(At(M)') = Cardinality(At(M)) + (IF c \in M THEN 1 ELSE 0)
  <2>1. At(M)' = At(M) \union (IF c \in M THEN {Len(arrived) + 1} ELSE {})
    BY <1>1 DEF At
  <2>2. At(M) \in SUBSET (1 .. Len(arrived)) /\ Len(arrived) + 1 \notin At(M)
    BY <1>1 DEF At
  <2>3. IsFiniteSet(At(M)) /\ Cardinality(At(M)) \in Nat
    <3>1. IsFiniteSet(1 .. Len(arrived))
      BY <1>1, FS_Interval
    <3> QED  BY <2>2, <3>1, FS_Subset, FS_CardinalityType
  <2>4. CASE c \in M
    <3>1. At(M)' = At(M) \union {Len(arrived) + 1}
      BY <2>1, <2>4
    <3>2. Cardinality(At(M) \union {Len(arrived) + 1}) = Cardinality(At(M)) + 1
      BY <2>2, <2>3, FS_AddElement
    <3> QED  BY <2>1, <2>3, <2>4, <3>1, <3>2
  <2>5. CASE c \notin M
    <3>1. At(M)' = At(M)
      BY <2>1, <2>5
    <3> QED  BY <2>1, <2>3, <2>5, <3>1
  <2> QED  BY <2>4, <2>5
<1> QED  BY <1>1, <1>2

Drained == pc \in {"drain", "closed"}

\* The receiver has counted every copy that came off the link, the collector every intact
\* one; from the flush on nothing waits in the slot or the latency buffer.
Books ==
    /\ Len(sent) = link.offered
    /\ receiver.received \in Nat /\ receiver.crc_errors \in Nat
    /\ receiver = [received |-> Cardinality(At(Intact)), crc_errors |-> Cardinality(At(Damaged))]
    /\ receiver.received + receiver.crc_errors = Len(arrived)
    /\ totals.packets = receiver.received
    /\ Drained => ~W!Backlog
    /\ pc = "closed" => link.inner = <<>>

\* The slice starts with empty books.
LEMMA InitBooks == Init => Books
<1> SUFFICES ASSUME Init PROVE Books
  OBVIOUS
<1>1. /\ sent = <<>> /\ receiver = [received |-> 0, crc_errors |-> 0] /\ totals.packets = 0
      /\ pc = "send"
  BY DEF Init, CollectorInit
<1>2. arrived = <<>> /\ link.offered = 0
  BY DEF Init, Wire!Init
<1>3. \A M : Cardinality(At(M)) = 0
  <2>1. \A M : At(M) = {}
    BY <1>2 DEF At
  <2> QED  BY <2>1, FS_EmptySet
<1> QED  BY <1>1, <1>2, <1>3 DEF Books, Drained

\* A frame is sent.
LEMMA SendBooks ==
    ASSUME Schedule, LinkFacts, Books, SendFrame
    PROVE  Books'
<1>1. W!TypeOK /\ W!Send
  BY SameActions DEF SendFrame, LinkFacts
<1>2. link'.offered = link.offered + 1 /\ arrived' = arrived
  BY <1>1, LinkApplies, W!SendOffers
<1>3. Len(sent') = Len(sent) + 1
  <2>1. sent' = Append(sent, PacketFrom(turn)) /\ sent \in Seq(SentFrame)
    BY DEF SendFrame, Schedule, Frames
  <2> QED  BY <2>1, NextFrameOf, AppendProperties
<1>4. pc' \in {"send", "collect"} /\ receiver' = receiver /\ totals' = totals
  BY DEF SendFrame, NextTurn, collectorVars
<1>5. \A M : At(M)' = At(M)
  BY <1>2 DEF At
<1> QED  BY <1>2, <1>3, <1>4, <1>5 DEF Books, Drained

\* A copy comes off the link.
LEMMA ReceiveBooks ==
    ASSUME LinkFacts, Books, ReceivePacket
    PROVE  Books'
<1>1. W!TypeOK /\ W!Recv
  BY SameActions DEF ReceivePacket, LinkFacts
<1>2. /\ link'.offered = link.offered /\ (~W!Backlog => ~W!Backlog')
      /\ \E c \in W!Copy : arrived' = Append(arrived, c)
  BY <1>1, LinkApplies, W!RecvTakes
<1>3. PICK c \in W!Copy : arrived' = Append(arrived, c)
  BY <1>2
<1>4. arrived \in Seq(W!Copy)
  BY <1>1 DEF W!TypeOK
<1>5. /\ Len(arrived) \in Nat /\ Len(arrived') = Len(arrived) + 1
      /\ arrived'[Len(arrived')] = c
      /\ \A M : Cardinality(At(M)') = Cardinality(At(M)) + (IF c \in M THEN 1 ELSE 0)
  BY <1>3, <1>4, ArrivalsGrow
<1>6. /\ receiver.received \in Nat /\ receiver.crc_errors \in Nat
      /\ receiver = [received |-> Cardinality(At(Intact)), crc_errors |-> Cardinality(At(Damaged))]
      /\ receiver.received + receiver.crc_errors = Len(arrived)
      /\ totals.packets = receiver.received /\ Len(sent) = link.offered
      /\ Drained => ~W!Backlog
  BY DEF Books
<1>7. /\ sent' = sent /\ pc' = pc /\ pc # "closed"
  BY DEF ReceivePacket, Collecting
<1>8. CASE c.intact
  <2>1. /\ receiver' = [receiver EXCEPT !.received = @ + 1]
        /\ totals'.packets = totals.packets + 1
    BY <1>5, <1>8 DEF ReceivePacket, Process
  <2>2. /\ Cardinality(At(Intact)') = Cardinality(At(Intact)) + 1
        /\ Cardinality(At(Damaged)') = Cardinality(At(Damaged)) + 0
    BY <1>5, <1>8 DEF Intact, Damaged
  <2>3. receiver' = [received |-> receiver.received + 1, crc_errors |-> receiver.crc_errors]
    BY <1>6, <2>1
  <2>4. /\ receiver.received = Cardinality(At(Intact))
        /\ receiver.crc_errors = Cardinality(At(Damaged))
    BY <1>6
  <2>5. /\ receiver'.received = receiver.received + 1
        /\ receiver'.crc_errors = receiver.crc_errors
        /\ receiver' = [received |-> Cardinality(At(Intact)'),
                        crc_errors |-> Cardinality(At(Damaged)')]
    BY <1>6, <2>2, <2>3, <2>4
  <2> QED  BY <1>2, <1>5, <1>6, <1>7, <2>1, <2>5 DEF Books, Drained
<1>9. CASE ~c.intact
  <2>1. /\ receiver' = [receiver EXCEPT !.crc_errors = @ + 1] /\ totals' = totals
    BY <1>5, <1>9 DEF ReceivePacket, collectorVars
  <2>2. /\ Cardinality(At(Intact)') = Cardinality(At(Intact)) + 0
        /\ Cardinality(At(Damaged)') = Cardinality(At(Damaged)) + 1
    BY <1>5, <1>9 DEF Intact, Damaged
  <2>3. receiver' = [received |-> receiver.received, crc_errors |-> receiver.crc_errors + 1]
    BY <1>6, <2>1
  <2>4. /\ receiver.received = Cardinality(At(Intact))
        /\ receiver.crc_errors = Cardinality(At(Damaged))
    BY <1>6
  <2>5. /\ receiver'.received = receiver.received
        /\ receiver'.crc_errors = receiver.crc_errors + 1
        /\ receiver' = [received |-> Cardinality(At(Intact)'),
                        crc_errors |-> Cardinality(At(Damaged)')]
    BY <1>6, <2>2, <2>3, <2>4
  <2> QED  BY <1>2, <1>5, <1>6, <1>7, <2>1, <2>5 DEF Books, Drained
<1> QED  BY <1>8, <1>9

\* The link is flushed.
LEMMA FlushBooks ==
    ASSUME LinkFacts, Books, FlushLink
    PROVE  Books'
<1>1. /\ pc = "flush" /\ pc' = "drain" /\ sent' = sent /\ receiver' = receiver
      /\ totals' = totals
  BY DEF FlushLink, collectorVars
<1>2. link'.offered = link.offered /\ arrived' = arrived /\ ~W!Backlog'
  <2>1. CASE Wire!Flush
    BY <2>1, SameActions, LinkApplies, W!FlushEmpties DEF LinkFacts
  <2>2. CASE ~Wire!Backlog /\ UNCHANGED <<config, link, now, arrived>>
    BY <2>2, SameActions DEF W!Backlog
  <2> QED  BY <2>1, <2>2 DEF FlushLink
<1>3. \A M : At(M)' = At(M)
  BY <1>2 DEF At
<1> QED  BY <1>1, <1>2, <1>3 DEF Books, Drained

\* The run closes once nothing is left to receive.
LEMMA CloseBooks ==
    ASSUME LinkFacts, Books, Close
    PROVE  Books'
<1>1. /\ pc = "drain" /\ pc' = "closed" /\ Wire!ReleaseDue(link).inner = <<>>
      /\ UNCHANGED <<sent, receiver, totals, link, arrived>>
  BY DEF Close, NothingToReceive, collectorVars
<1>2. ~W!Backlog /\ W!TypeOK
  BY <1>1 DEF Books, Drained, LinkFacts
<1>3. link.inner = <<>>
  <2>1. W!ReleaseDue(link).inner = link.inner
    BY <1>2, LinkApplies, W!NothingDue DEF W!Backlog
  <2> QED  BY <1>1, <2>1, SameHelpers
<1>4. \A M : At(M)' = At(M)
  BY <1>1 DEF At
<1> QED  BY <1>1, <1>2, <1>3, <1>4 DEF Books, Drained, W!Backlog

\* Every step keeps the books.
LEMMA StepBooks == Schedule /\ LinkFacts /\ Books /\ [Next]_vars => Books'
<1> SUFFICES ASSUME Schedule, LinkFacts, Books, [Next]_vars PROVE Books'
  OBVIOUS
<1>1. CASE SendFrame
  BY <1>1, SendBooks
<1>2. CASE SkipNode
  <2>1. /\ pc' \in {"send", "collect"} /\ UNCHANGED <<sent, receiver, totals, link, arrived>>
    BY <1>2 DEF SkipNode, NextTurn, collectorVars
  <2>2. \A M : At(M)' = At(M)
    BY <2>1 DEF At
  <2> QED  BY <2>1, <2>2 DEF Books, Drained
<1>3. CASE ReceivePacket
  BY <1>3, ReceiveBooks
<1>4. CASE EndRound
  <2>1. /\ pc' \in {"send", "flush"} /\ UNCHANGED <<sent, receiver, totals, link, arrived>>
    BY <1>4 DEF EndRound, collectorVars
  <2>2. \A M : At(M)' = At(M)
    BY <2>1 DEF At
  <2> QED  BY <2>1, <2>2 DEF Books, Drained
<1>5. CASE FlushLink
  BY <1>5, FlushBooks
<1>6. CASE Close
  BY <1>6, CloseBooks
<1>7. CASE UNCHANGED vars
  <2>1. UNCHANGED <<pc, sent, receiver, totals, link, arrived>>
    BY <1>7 DEF vars, collectorVars
  <2>2. \A M : At(M)' = At(M)
    BY <2>1 DEF At
  <2> QED  BY <2>1, <2>2 DEF Books, Drained, W!Backlog
<1> QED  BY <1>1, <1>2, <1>3, <1>4, <1>5, <1>6, <1>7 DEF Next

\* The books balance at every moment.
LEMMA BooksKept == Spec => []Books
<1> QED  BY InitBooks, StepBooks, Scheduled, LinkHolds, PTL DEF Spec

\* For any number of nodes and packets and every configuration of the link: when the run has
\* closed nothing is left in the transport, and the receiver has accounted for every frame
\* the link let through and every extra copy.
THEOREM RunLeavesNothing == Spec => []NothingLeftBehind
<1>1. Books /\ LinkFacts => NothingLeftBehind
  <2> SUFFICES ASSUME Books, LinkFacts, pc = "closed"
               PROVE  /\ ~Wire!Backlog /\ link.inner = <<>>
                      /\ receiver.received + receiver.crc_errors
                            = link.offered - link.dropped + link.duplicated
                      /\ totals.packets = receiver.received
    BY DEF NothingLeftBehind
  <2>1. ~W!Backlog /\ link.inner = <<>> /\ totals.packets = receiver.received
    BY DEF Books, Drained
  <2>2. Len(link.scheduled) = 0 /\ link.held = W!None /\ Len(link.inner) = 0
    BY <2>1 DEF W!Backlog
  <2>3. /\ link.delivered \in Nat /\ link.offered \in Nat /\ link.dropped \in Nat
        /\ link.duplicated \in Nat /\ Len(arrived) \in Nat
    <3>1. link \in W!LinkType /\ arrived \in Seq(W!Copy)
      BY DEF LinkFacts, W!TypeOK
    <3> QED  BY <3>1, LinkApplies, W!FieldTypes, LenProperties
  <2>4. Len(arrived) = link.offered - link.dropped + link.duplicated
    <3>1. /\ link.delivered + 0 + 0 = link.offered - link.dropped + link.duplicated
          /\ Len(arrived) + 0 = link.delivered
      BY <2>2 DEF LinkFacts, W!Conservation
    <3> QED  BY <2>3, <3>1
  <2> QED  BY <2>1, <2>4, SameActions DEF Books
<1> QED  BY <1>1, BooksKept, LinkHolds, PTL

-----------------------------------------------------------------------------
(* What Station sees. *)

Facts == Schedule /\ LinkFacts /\ Books

\* At every moment: the schedule, the link and the books.
LEMMA FactsHold == Spec => []Facts
<1> QED  BY Scheduled, LinkHolds, BooksKept, PTL DEF Facts

\* The copies of frame k of one kind, as places in `arrived`.
LEMMA CopiesAt ==
    ASSUME NEW k, NEW intact
    PROVE  Copies(k, intact) = Cardinality(At({[frame |-> k, intact |-> intact]}))
<1>1. At({[frame |-> k, intact |-> intact]})
        = {j \in 1 .. Len(arrived) : arrived[j] = [frame |-> k, intact |-> intact]}
  BY DEF At
<1> QED  BY <1>1 DEF Copies

\* Copies that have arrived are of frames that were sent, intact or damaged.
LEMMA Arrivals ==
    ASSUME Facts
    PROVE  /\ arrived \in Seq(W!Copy) /\ Len(arrived) \in Nat
           /\ sent \in Seq(SentFrame) /\ Len(sent) \in Nat
           /\ 1 .. Len(sent) \subseteq W!Frame /\ link.offered = Len(sent)
           /\ \A j \in 1 .. Len(arrived) :
                 /\ arrived[j] \in W!Copy /\ arrived[j].frame \in 1 .. Len(sent)
                 /\ arrived[j].intact \in BOOLEAN
           /\ \A k, b : Copies(k, b) \in Nat
           /\ \A k, b : k \notin 1 .. Len(sent) => Copies(k, b) = 0
           /\ \A k \in 1 .. Len(sent) :
                 /\ W!Received(k) = Copies(k, TRUE) + Copies(k, FALSE)
                 /\ W!Waiting(k) \in Nat
<1>1. /\ W!TypeOK /\ W!Counted /\ arrived \in Seq(W!Copy) /\ link.offered = Len(sent)
      /\ link \in W!LinkType /\ link.offered <= MaxFrames /\ sent \in Seq(SentFrame)
  BY DEF Facts, LinkFacts, W!TypeOK, Books, Schedule, Frames
<1>2. Len(arrived) \in Nat /\ Len(sent) \in Nat /\ MaxFrames \in Nat
  BY <1>1, LenProperties, Constants
<1>3. 1 .. Len(sent) \subseteq W!Frame
  BY <1>1, <1>2 DEF W!Frame
<1>4. /\ \A g \in W!Frame : W!Waiting(g) \in Nat /\ W!Received(g) \in Nat
      /\ \A g \in W!Frame : g > link.offered => W!Received(g) = 0
  BY <1>1, LinkApplies, W!PlaceTypes
<1>5. \A A \in SUBSET (1 .. Len(arrived)) : IsFiniteSet(A) /\ Cardinality(A) \in Nat
  <2>1. IsFiniteSet(1 .. Len(arrived))
    BY <1>2, FS_Interval
  <2> QED  BY <2>1, FS_Subset, FS_CardinalityType
<1>6. \A M : /\ At(M) \in SUBSET (1 .. Len(arrived))
             /\ IsFiniteSet(At(M)) /\ Cardinality(At(M)) \in Nat
  <2>1. \A M : At(M) \in SUBSET (1 .. Len(arrived))
    BY DEF At
  <2> QED  BY <1>5, <2>1
<1>7. \A g : W!Received(g) = Cardinality({j \in 1 .. Len(arrived) : arrived[j].frame = g})
  <2> SUFFICES ASSUME NEW g
               PROVE  W!Received(g) = Cardinality({j \in 1 .. Len(arrived) : arrived[j].frame = g})
    OBVIOUS
  <2> DEFINE frames == [i \in 1 .. Len(arrived) |-> arrived[i].frame]
  <2>1. Len(frames) = Len(arrived)
    BY <1>2
  <2>2. {i \in 1 .. Len(frames) : frames[i] = g} = {j \in 1 .. Len(arrived) : arrived[j].frame = g}
    BY <2>1
  <2>3. W!Received(g) = Cardinality({i \in 1 .. Len(frames) : frames[i] = g})
    BY SameCounting DEF W!Received, W!CountOf, W!ArrivedFrames
  <2> QED  BY <2>2, <2>3
<1>8. \A j \in 1 .. Len(arrived) : arrived[j] \in W!Copy
  BY <1>1, ElementOfSeq
<1>9. ASSUME NEW j \in 1 .. Len(arrived) PROVE arrived[j].frame \in 1 .. Len(sent)
  <2> DEFINE g == arrived[j].frame
             A == {i \in 1 .. Len(arrived) : arrived[i].frame = g}
  <2>1. g \in W!Frame /\ W!Received(g) = Cardinality(A)
    BY <1>7, <1>8 DEF W!Copy
  <2>2. j \in A /\ IsFiniteSet(A)
    BY <1>5
  <2> HIDE DEF A, g
  <2>3. Cardinality(A) # 0
    BY <2>2, FS_EmptySet
  <2>4. ~(g > link.offered)
    BY <1>4, <2>1, <2>3
  <2> QED  BY <1>1, <1>2, <2>1, <2>4 DEF W!Frame, g
<1>10. \A k, b : Copies(k, b) \in Nat
  BY <1>6, CopiesAt
<1>11. ASSUME NEW k, NEW b, k \notin 1 .. Len(sent) PROVE Copies(k, b) = 0
  <2>1. At({[frame |-> k, intact |-> b]}) = {}
    <3>1. \A j \in 1 .. Len(arrived) : arrived[j].frame # k
      BY <1>9, <1>11
    <3> QED  BY <3>1 DEF At
  <2> QED  BY <2>1, CopiesAt, FS_EmptySet
<1>12. ASSUME NEW k \in 1 .. Len(sent)
       PROVE  W!Received(k) = Copies(k, TRUE) + Copies(k, FALSE)
  <2> DEFINE A == {j \in 1 .. Len(arrived) : arrived[j].frame = k}
             T == At({[frame |-> k, intact |-> TRUE]})
             F == At({[frame |-> k, intact |-> FALSE]})
  <2>1. \A j \in 1 .. Len(arrived) :
           arrived[j].frame = k => \/ arrived[j] = [frame |-> k, intact |-> TRUE]
                                   \/ arrived[j] = [frame |-> k, intact |-> FALSE]
    <3> SUFFICES ASSUME NEW j \in 1 .. Len(arrived), arrived[j].frame = k
                 PROVE  \/ arrived[j] = [frame |-> k, intact |-> TRUE]
                        \/ arrived[j] = [frame |-> k, intact |-> FALSE]
      OBVIOUS
    <3>1. arrived[j] \in [frame : W!Frame, intact : BOOLEAN]
      BY <1>8 DEF W!Copy
    <3>2. arrived[j] = [frame |-> arrived[j].frame, intact |-> arrived[j].intact]
      BY <3>1
    <3>3. arrived[j].intact = TRUE \/ arrived[j].intact = FALSE
      BY <3>1
    <3> QED  BY <3>2, <3>3
  <2>2. A = T \union F
    <3>1. \A c : \/ c = [frame |-> k, intact |-> TRUE]
                 \/ c = [frame |-> k, intact |-> FALSE] => c.frame = k
      OBVIOUS
    <3> QED  BY <2>1, <3>1 DEF At
  <2>3. T \intersect F = {}
    <3>1. [frame |-> k, intact |-> TRUE] # [frame |-> k, intact |-> FALSE]
      OBVIOUS
    <3> QED  BY <3>1 DEF At
  <2>4. W!Received(k) = Cardinality(A) /\ Copies(k, TRUE) = Cardinality(T)
        /\ Copies(k, FALSE) = Cardinality(F)
    <3>1. W!Received(k) = Cardinality(A)
      BY <1>7
    <3>2. Copies(k, TRUE) = Cardinality(T) /\ Copies(k, FALSE) = Cardinality(F)
      BY CopiesAt
    <3> QED  BY <3>1, <3>2
  <2>5. IsFiniteSet(T) /\ IsFiniteSet(F) /\ Cardinality(T) \in Nat /\ Cardinality(F) \in Nat
    BY <1>6
  <2> HIDE DEF A, T, F
  <2>6. Cardinality(T \union F) = Cardinality(T) + Cardinality(F) - Cardinality(T \intersect F)
    BY <2>5, FS_Union
  <2>7. Cardinality(T \intersect F) = 0
    BY <2>3, FS_EmptySet
  <2>8. W!Received(k) = Cardinality(T) + Cardinality(F)
    BY <2>2, <2>4, <2>5, <2>6, <2>7
  <2> QED  BY <2>4, <2>8
<1>13. \A j \in 1 .. Len(arrived) : arrived[j].intact \in BOOLEAN
  BY <1>8 DEF W!Copy
<1>14. \A k \in 1 .. Len(sent) : W!Waiting(k) \in Nat
  BY <1>3, <1>4
<1> QED  BY <1>1, <1>2, <1>3, <1>8, <1>9, <1>10, <1>11, <1>12, <1>13, <1>14

\* The names of the frames sent are within the bounds of Station.
LEMMA NamesBounded ==
    ASSUME Facts
    PROVE  /\ \A k \in 1 .. Len(sent) : Name(k) \in Names /\ FrameOf(Name(k)) = k
           /\ \A f : FrameOf(f) # 0 => FrameOf(f) \in 1 .. Len(sent) /\ Name(FrameOf(f)) = f
           /\ \A n \in Nodes : /\ Cardinality(FramesOf(n)) \in Nat
                               /\ Cardinality(FramesOf(n)) <= FramesPerNode
<1>1. sent \in Seq(SentFrame)
  BY DEF Facts, Schedule, Frames
<1>2. ASSUME NEW n \in Nodes
      PROVE  Cardinality(FramesOf(n)) \in Nat /\ Cardinality(FramesOf(n)) <= FramesPerNode
  <2>1. Cardinality(FramesOf(n)) \in Nat /\ Made(source[n], Cardinality(FramesOf(n)))
    BY <1>1, Indices DEF Facts, Schedule, Generators
  <2> QED  BY <2>1, MadeBound
<1>3. ASSUME NEW k \in 1 .. Len(sent) PROVE Name(k) \in Names
  <2>1. /\ sent[k] \in SentFrame /\ IndexOf(k) \in Nat
        /\ IndexOf(k) < Cardinality(FramesOf(sent[k].node))
    BY <1>1, Indices
  <2>2. sent[k].node \in Nodes
    BY <2>1 DEF SentFrame
  <2>3. IndexOf(k) \in 0 .. FramesPerNode - 1
    BY <1>2, <2>1, <2>2, Constants
  <2> QED  BY <2>2, <2>3 DEF Name, Names
<1> QED  BY <1>1, <1>2, <1>3, FrameOfName
\* A set of numbers below a bound has a smallest one and a largest one.
LEMMA FirstAndLast ==
    ASSUME NEW N \in Nat, NEW A \in SUBSET (0 .. N), A # {}
    PROVE  /\ Min(A) \in A /\ \A y \in A : Min(A) <= y
           /\ Max(A) \in A /\ \A y \in A : y <= Max(A)
<1>1. IsFiniteSet(0 .. N) /\ \A x \in A : x \in Nat /\ x <= N
  BY FS_Interval
<1>2. \E x \in A : \A y \in A : x <= y
  <2> DEFINE below == {0 .. x : x \in A}
  <2>1. \A x \in A : 0 .. x \subseteq 0 .. N
    BY <1>1
  <2>2. below \subseteq SUBSET (0 .. N) /\ below # {}
    BY <2>1
  <2> HIDE DEF below
  <2>3. PICK s \in below : \A r \in below : r \subseteq s => r = s
    <3> DEFINE all == 0 .. N
    <3>1. IsFiniteSet(all)
      BY <1>1
    <3>2. below \subseteq SUBSET all
      BY <2>2
    <3>3. below # {}
      BY <2>2
    <3> HIDE DEF all
    <3> QED  BY <3>1, <3>2, <3>3, SmallestSubset
  <2>4. PICK x \in A : s = 0 .. x
    BY <2>3 DEF below
  <2>5. ASSUME NEW y \in A, ~(x <= y) PROVE FALSE
    <3>1. 0 .. y \subseteq 0 .. x /\ x \in 0 .. x /\ x \notin 0 .. y
      BY <1>1, <2>5
    <3>2. 0 .. y \in below
      BY DEF below
    <3> QED  BY <2>3, <2>4, <3>1, <3>2
  <2> QED  BY <2>5
<1>3. \E x \in A : \A y \in A : y <= x
  <2> DEFINE above == {x .. N : x \in A}
  <2>1. \A x \in A : x .. N \subseteq 0 .. N
    BY <1>1
  <2>2. above \subseteq SUBSET (0 .. N) /\ above # {}
    BY <2>1
  <2> HIDE DEF above
  <2>3. PICK s \in above : \A r \in above : r \subseteq s => r = s
    <3> DEFINE all == 0 .. N
    <3>1. IsFiniteSet(all)
      BY <1>1
    <3>2. above \subseteq SUBSET all
      BY <2>2
    <3>3. above # {}
      BY <2>2
    <3> HIDE DEF all
    <3> QED  BY <3>1, <3>2, <3>3, SmallestSubset
  <2>4. PICK x \in A : s = x .. N
    BY <2>3 DEF above
  <2>5. ASSUME NEW y \in A, ~(y <= x) PROVE FALSE
    <3>1. y .. N \subseteq x .. N /\ x \in x .. N /\ x \notin y .. N
      BY <1>1, <2>5
    <3>2. y .. N \in above
      BY DEF above
    <3> QED  BY <2>3, <2>4, <3>1, <3>2
  <2> QED  BY <2>5
<1>4. Min(A) \in A /\ \A y \in A : Min(A) <= y
  BY <1>2 DEF Min
<1>5. Max(A) \in A /\ \A y \in A : Max(A) >= y
  BY <1>3 DEF Max
<1>6. \A y \in A : y <= Max(A)
  BY <1>1, <1>5
<1> QED  BY <1>4, <1>5, <1>6

\* What they become when a number is added: one above all others, or any other.
LEMMA FirstOfMore ==
    ASSUME NEW N \in Nat, NEW A \in SUBSET (0 .. N), NEW x \in Nat, \A y \in A : y < x
    PROVE  Min(A \union {x}) = IF A = {} THEN x ELSE Min(A)
<1> DEFINE B == A \union {x}
           m == Min(B)
<1>1. B \in SUBSET (0 .. N + x) /\ N + x \in Nat /\ B # {} /\ x \in B
  OBVIOUS
<1>0. /\ \A y \in B : y \in Nat /\ (y \in A \/ y = x)
      /\ \A y \in A : y \in B
  OBVIOUS
<1> HIDE DEF B
<1>2. m \in B /\ \A y \in B : m <= y
  BY <1>1, FirstAndLast
<1> HIDE DEF m
<1>3. m \in Nat
  BY <1>0, <1>2
<1>4. ASSUME A # {} PROVE m = Min(A)
  <2>1. Min(A) \in A /\ \A y \in A : Min(A) <= y
    BY <1>4, FirstAndLast
  <2>2. Min(A) < x /\ Min(A) \in B /\ Min(A) \in Nat
    BY <1>0, <2>1
  <2>3. m <= Min(A)
    BY <1>2, <2>2
  <2>4. m \in A
    BY <1>0, <1>2, <1>3, <2>2, <2>3
  <2> QED  BY <1>3, <2>1, <2>2, <2>3, <2>4
<1>5. A = {} => m = x
  BY <1>0, <1>2
<1> QED  BY <1>4, <1>5 DEF m, B

\* And how the greatest does.
LEMMA LastOfMore ==
    ASSUME NEW N \in Nat, NEW A \in SUBSET (0 .. N), NEW x \in 0 .. N
    PROVE  Max(A \union {x}) = IF A = {} \/ x > Max(A) THEN x ELSE Max(A)
<1> DEFINE B == A \union {x}
           m == Max(B)
<1>1. B \in SUBSET (0 .. N) /\ B # {} /\ x \in B
  OBVIOUS
<1>0. /\ \A y \in B : y \in Nat /\ (y \in A \/ y = x)
      /\ \A y \in A : y \in B
  OBVIOUS
<1> HIDE DEF B
<1>2. m \in B /\ \A y \in B : y <= m
  BY <1>1, FirstAndLast
<1> HIDE DEF m
<1>3. m \in Nat /\ x \in Nat
  BY <1>0, <1>1, <1>2
<1>4. ASSUME A # {} PROVE m = IF x > Max(A) THEN x ELSE Max(A)
  <2>1. Max(A) \in A /\ \A y \in A : y <= Max(A)
    BY <1>4, FirstAndLast
  <2>2. Max(A) \in B /\ Max(A) \in Nat
    BY <1>0, <2>1
  <2>3. Max(A) <= m /\ x <= m
    BY <1>1, <1>2, <2>2
  <2>4. m = x \/ m <= Max(A)
    BY <1>0, <1>2, <2>1
  <2> QED  BY <1>3, <2>2, <2>3, <2>4
<1>5. A = {} => m = x
  BY <1>0, <1>2
<1> QED  BY <1>4, <1>5 DEF m, B
\* A frame sent is found under its own name, the others under theirs.
LEMMA FrameOfGrows ==
    ASSUME sent \in Seq(SentFrame), NEW p \in SentFrame, sent' = Append(sent, p),
           NEW new, new = Len(sent) + 1,
           NEW f, f = <<p.node, Cardinality(FramesOf(p.node))>>
    PROVE  /\ FrameOf(f) = 0
           /\ \A g : FrameOf(g)' = IF g = f THEN new ELSE FrameOf(g)
<1>1. /\ Len(sent') = new /\ Name(new)' = f
      /\ \A k \in 1 .. Len(sent) : Name(k)' = Name(k)
  BY NamesGrow
<1>2. Len(sent) \in Nat
  BY LenProperties
<1>3. 1 .. new = (1 .. Len(sent)) \union {new} /\ new \notin 1 .. Len(sent)
  BY <1>2
<1>4. \A k \in 1 .. Len(sent) : Name(k) # f
  <2> SUFFICES ASSUME NEW k \in 1 .. Len(sent), Name(k) = f PROVE FALSE
    OBVIOUS
  <2>1. sent[k].node = p.node /\ IndexOf(k) = Cardinality(FramesOf(p.node))
    BY DEF Name
  <2>2. IndexOf(k) \in Nat /\ IndexOf(k) < Cardinality(FramesOf(sent[k].node))
    BY Indices
  <2> QED  BY <2>1, <2>2
<1>5. \A j, k \in 1 .. Len(sent) : Name(j) = Name(k) => j = k
  BY Indices
<1>6. FrameOf(f) = 0
  BY <1>4 DEF FrameOf
<1>7. FrameOf(f)' = new
  <2>1. \A k \in 1 .. new : Name(k)' = f <=> k = new
    BY <1>1, <1>3, <1>4
  <2>2. FrameOf(f)' = IF \E k \in 1 .. new : Name(k)' = f
                      THEN CHOOSE k \in 1 .. new : Name(k)' = f ELSE 0
    BY <1>1 DEF FrameOf
  <2> QED  BY <1>3, <2>1, <2>2
<1>8. ASSUME NEW g, g # f PROVE FrameOf(g)' = FrameOf(g)
  <2>1. FrameOf(g)' = IF \E k \in 1 .. new : Name(k)' = g
                      THEN CHOOSE k \in 1 .. new : Name(k)' = g ELSE 0
    BY <1>1 DEF FrameOf
  <2>2. \A k : k \in 1 .. new /\ Name(k)' = g <=> k \in 1 .. Len(sent) /\ Name(k) = g
    BY <1>1, <1>3, <1>8
  <2>3. ASSUME NEW k \in 1 .. Len(sent), Name(k) = g PROVE FrameOf(g)' = FrameOf(g)
    <3>1. \A j : j \in 1 .. new /\ Name(j)' = g <=> j = k
      BY <1>5, <2>2, <2>3
    <3>2. FrameOf(g)' = k
      BY <2>1, <3>1
    <3>3. FrameOf(g) = k
      BY <2>3, FrameOfName
    <3> QED  BY <3>2, <3>3
  <2>4. ASSUME \A k \in 1 .. Len(sent) : Name(k) # g PROVE FrameOf(g)' = FrameOf(g)
    <3>1. FrameOf(g)' = 0
      BY <2>1, <2>2, <2>4
    <3>2. FrameOf(g) = 0
      BY <2>4 DEF FrameOf
    <3> QED  BY <3>1, <3>2
  <2> QED  BY <2>3, <2>4
<1> QED  BY <1>6, <1>7, <1>8

\* Where the frames of a node were heard, and which.
LEMMA HeardTypes ==
    ASSUME Facts, NEW n \in Nodes
    PROVE  /\ HeardAt(n) \in SUBSET (0 .. Len(arrived)) /\ HeardAt(n) \subseteq 1 .. Len(arrived)
           /\ \A j \in HeardAt(n) : /\ arrived[j].frame \in 1 .. Len(sent)
                                    /\ IndexOf(arrived[j].frame) \in 0 .. FramesPerNode - 1
                                    /\ IndexOf(arrived[j].frame) \in 0 .. FramesPerNode
                                    /\ Name(arrived[j].frame) = <<n, IndexOf(arrived[j].frame)>>
           /\ {IndexOf(arrived[j].frame) : j \in HeardAt(n)} \in SUBSET (0 .. FramesPerNode)
<1>1. HeardAt(n) \subseteq 1 .. Len(arrived) /\ Len(arrived) \in Nat
  BY Arrivals DEF HeardAt
<1>2. ASSUME NEW j \in HeardAt(n)
      PROVE  /\ arrived[j].frame \in 1 .. Len(sent)
             /\ IndexOf(arrived[j].frame) \in 0 .. FramesPerNode - 1
             /\ IndexOf(arrived[j].frame) \in 0 .. FramesPerNode
             /\ Name(arrived[j].frame) = <<n, IndexOf(arrived[j].frame)>>
  <2> DEFINE k == arrived[j].frame
  <2>1. k \in 1 .. Len(sent) /\ sent[k].node = n
    BY <1>1, Arrivals DEF HeardAt
  <2> HIDE DEF k
  <2>2. Name(k) \in Names /\ Name(k) = <<n, IndexOf(k)>>
    BY <2>1, NamesBounded DEF Name
  <2>3. IndexOf(k) \in 0 .. FramesPerNode - 1
    BY <2>2 DEF Names
  <2>4. IndexOf(k) \in 0 .. FramesPerNode
    BY <2>3, Constants
  <2> QED  BY <2>1, <2>2, <2>3, <2>4 DEF k
<1>3. {IndexOf(arrived[j].frame) : j \in HeardAt(n)} \in SUBSET (0 .. FramesPerNode)
  BY <1>2
<1>4. HeardAt(n) \in SUBSET (0 .. Len(arrived))
  BY <1>1
<1> QED  BY <1>1, <1>2, <1>3, <1>4

\* A frame sent is not heard yet.
LEMMA HeardSame ==
    ASSUME Facts, arrived' = arrived,
           \A k \in 1 .. Len(sent) : sent'[k] = sent[k] /\ IndexOf(k)' = IndexOf(k)
    PROVE  FirstHeard' = FirstHeard /\ NewestHeard' = NewestHeard
<1>1. \A n : HeardAt(n)' = HeardAt(n)
  BY Arrivals DEF HeardAt
<1>2. ASSUME NEW n \in Nodes
      PROVE  FirstHeard'[n] = FirstHeard[n] /\ NewestHeard'[n] = NewestHeard[n]
  <2>1. \A j \in HeardAt(n) : IndexOf(arrived[j].frame)' = IndexOf(arrived[j].frame)
    BY HeardTypes
  <2>2. {IndexOf(arrived[j].frame)' : j \in HeardAt(n)}
          = {IndexOf(arrived[j].frame) : j \in HeardAt(n)}
    BY <2>1
  <2>3. NewestHeard'[n] = NewestHeard[n]
    BY <1>1, <2>2 DEF NewestHeard
  <2>4. HeardAt(n) # {} => Min(HeardAt(n)) \in HeardAt(n)
    BY HeardTypes, FirstAndLast, Arrivals
  <2>5. FirstHeard'[n] = FirstHeard[n]
    BY <1>1, <2>1, <2>4 DEF FirstHeard
  <2> QED  BY <2>3, <2>5
<1> QED  BY <1>2 DEF FirstHeard, NewestHeard
\* A copy that arrives is heard if it is intact; the first stays, the newest may change.
LEMMA HeardGrows ==
    ASSUME Facts, sent' = sent, NEW c \in W!Copy, arrived' = Append(arrived, c),
           c.frame \in 1 .. Len(sent), NEW n \in Nodes
    PROVE  LET heard == c.intact /\ sent[c.frame].node = n
               i == IndexOf(c.frame)
           IN  /\ FirstHeard'[n] = IF heard /\ FirstHeard[n] = Never THEN i ELSE FirstHeard[n]
               /\ NewestHeard'[n] = IF heard /\ i > NewestHeard[n] THEN i ELSE NewestHeard[n]
<1> DEFINE heard == c.intact /\ sent[c.frame].node = n
           i == IndexOf(c.frame)
           new == Len(arrived) + 1
           H == HeardAt(n)
           I == {IndexOf(arrived[j].frame) : j \in H}
<1>1. /\ Len(arrived) \in Nat /\ Len(arrived') = new /\ arrived'[new] = c
      /\ \A j \in 1 .. Len(arrived) : arrived'[j] = arrived[j]
  BY Arrivals, ArrivalsGrow
<1>3. 1 .. new = (1 .. Len(arrived)) \union {new} /\ new \in Nat
  BY <1>1
<1>4. HeardAt(n)' = H \union (IF heard THEN {new} ELSE {})
  BY <1>1, <1>3 DEF HeardAt
<1>5. /\ H \in SUBSET (0 .. Len(arrived)) /\ H \subseteq 1 .. Len(arrived)
      /\ I \in SUBSET (0 .. FramesPerNode) /\ FramesPerNode \in Nat
  BY HeardTypes, Constants
<1>6. i \in Nat /\ (heard => i \in 0 .. FramesPerNode)
  <2>1. Name(c.frame) \in Names /\ Name(c.frame) = <<sent[c.frame].node, i>>
    BY NamesBounded DEF Name
  <2>2. i \in 0 .. FramesPerNode - 1
    BY <2>1 DEF Names
  <2> QED  BY <1>5, <2>2
<1>7. \A j \in H : arrived'[j] = arrived[j] /\ IndexOf(arrived[j].frame) \in Nat
  <2>1. \A j \in H : IndexOf(arrived[j].frame) \in 0 .. FramesPerNode
    BY HeardTypes
  <2> QED  BY <1>1, <1>5, <2>1
<1>8. H = {} <=> I = {}
  OBVIOUS
<1>9. H # {} => /\ Min(H) \in H
                /\ Max(I) \in I
  BY <1>1, <1>5, <1>8, FirstAndLast
<1>10. /\ FirstHeard[n] = IF H = {} THEN -1 ELSE IndexOf(arrived[Min(H)].frame)
       /\ NewestHeard[n] = IF H = {} THEN -1 ELSE Max(I)
  BY DEF FirstHeard, NewestHeard, Never
<1>11. /\ FirstHeard'[n] = IF HeardAt(n)' = {} THEN -1
                           ELSE IndexOf(arrived'[Min(HeardAt(n)')].frame)
       /\ NewestHeard'[n] = IF HeardAt(n)' = {} THEN -1
                            ELSE Max({IndexOf(arrived'[j].frame) : j \in HeardAt(n)'})
  BY DEF FirstHeard, NewestHeard, Never, IndexOf, FramesOf
<1>12. H # {} => /\ IndexOf(arrived[Min(H)].frame) \in Nat
                 /\ Max(I) \in Nat
  BY <1>7, <1>9
<1>13. CASE ~heard
  <2>1. HeardAt(n)' = H
    BY <1>4, <1>13
  <2>2. {IndexOf(arrived'[j].frame) : j \in H} = I
    BY <1>7
  <2>3. FirstHeard'[n] = FirstHeard[n]
    BY <1>7, <1>9, <1>10, <1>11, <2>1
  <2>4. NewestHeard'[n] = NewestHeard[n]
    BY <1>10, <1>11, <2>1, <2>2
  <2> QED  BY <1>13, <2>3, <2>4
<1>14. CASE heard
  <2>1. HeardAt(n)' = H \union {new} /\ HeardAt(n)' # {}
    BY <1>4, <1>14
  <2>2. \A j \in H : j < new
    BY <1>1, <1>5
  <2>3. Min(H \union {new}) = IF H = {} THEN new ELSE Min(H)
    BY <1>1, <1>3, <1>5, <2>2, FirstOfMore
  <2>4. FirstHeard'[n] = IF H = {} THEN i ELSE IndexOf(arrived[Min(H)].frame)
    BY <1>1, <1>7, <1>9, <1>11, <2>1, <2>3
  <2>5. FirstHeard'[n] = IF FirstHeard[n] = Never THEN i ELSE FirstHeard[n]
    BY <1>10, <1>12, <2>4 DEF Never
  <2>6. {IndexOf(arrived'[j].frame) : j \in HeardAt(n)'} = I \union {i}
    BY <1>1, <1>7, <2>1
  <2>7. Max(I \union {i}) = IF I = {} \/ i > Max(I) THEN i ELSE Max(I)
    BY <1>5, <1>6, <1>14, LastOfMore
  <2>8. NewestHeard'[n] = IF I = {} \/ i > Max(I) THEN i ELSE Max(I)
    BY <1>11, <2>1, <2>6, <2>7
  <2>9. NewestHeard'[n] = IF i > NewestHeard[n] THEN i ELSE NewestHeard[n]
    BY <1>6, <1>8, <1>10, <1>12, <2>8
  <2> QED  BY <1>14, <2>5, <2>9
<1> QED  BY <1>13, <1>14

\* The collector of Station is the collector, which reads no more of a frame than it says.
LEMMA SameCollector ==
    ASSUME NEW n, NEW i, NEW p, p.seq = S!SeqOf(n, i), p.heartbeat = S!IsHeartbeat(i),
           p.samples = (IF S!IsHeartbeat(i) THEN 0 ELSE BlockSamples), p.node = n,
           NEW t, NEW reached
    PROVE  Process(p, t, reached) <=> S!Process(S!PacketOf(<<n, i>>), t, reached)
<1> DEFINE q == S!PacketOf(<<n, i>>)
<1>1. q.node = n /\ q.seq = p.seq /\ q.heartbeat = p.heartbeat /\ q.samples = p.samples
  BY DEF S!PacketOf
<1> HIDE DEF q
<1>2. \A ns : Track(ns, p, t) = S!Track(ns, q, t)
  <2>1. \A ns : Hear(ns, p, t) = S!Hear(ns, q, t)
    BY <1>1 DEF Hear, S!Hear
  <2>2. \A a, s : Remember(a, s) = S!Remember(a, s)
    BY DEF Remember, S!Remember
  <2>3. \A ns : /\ IsFirst(ns) <=> S!IsFirst(ns)
                /\ IsDuplicate(ns, p) <=> S!IsDuplicate(ns, q)
                /\ IsForward(ns, p) <=> S!IsForward(ns, q)
    BY <1>1 DEF IsFirst, S!IsFirst, IsDuplicate, S!IsDuplicate, IsForward, S!IsForward,
                Seen, S!Seen, SeqDelta, S!SeqDelta, SeqHalf, S!SeqHalf
  <2>4. \A ns : /\ TrackFirst(ns, p) = S!TrackFirst(ns, q)
                /\ TrackDuplicate(ns) = S!TrackDuplicate(ns)
                /\ TrackLate(ns, p) = S!TrackLate(ns, q)
    BY <1>1, <2>2 DEF TrackFirst, S!TrackFirst, TrackDuplicate, S!TrackDuplicate, TrackLate,
                      S!TrackLate
  <2>5. \A ns : TrackForward(ns, p) = S!TrackForward(ns, q)
    BY <1>1, <2>2 DEF TrackForward, S!TrackForward, SeqDelta, S!SeqDelta, SeqHalf, S!SeqHalf
  <2> QED  BY <2>1, <2>3, <2>4, <2>5 DEF Track, S!Track
<1>3. Process(p, t, reached) <=> S!Process(q, t, reached)
  BY <1>1, <1>2 DEF Process, S!Process
<1> QED  BY <1>3 DEF q

Good(k) == Copies(k, TRUE)
Bad(k) == Copies(k, FALSE)

\* The intact and the damaged copies of a frame that have arrived.
LEMMA Kinds ==
    ASSUME Facts
    PROVE  /\ \A k : Good(k) \in Nat /\ Bad(k) \in Nat
           /\ \A k : k \notin 1 .. Len(sent) => Good(k) = 0 /\ Bad(k) = 0
           /\ \A k \in 1 .. Len(sent) : W!Received(k) = Good(k) + Bad(k)
           /\ 0 \notin 1 .. Len(sent) /\ \A k \in 1 .. Len(sent) : k # 0
           /\ Good(0) = 0 /\ Bad(0) = 0
<1>1. /\ \A k, b : Copies(k, b) \in Nat
      /\ \A k, b : k \notin 1 .. Len(sent) => Copies(k, b) = 0
      /\ \A k \in 1 .. Len(sent) : W!Received(k) = Copies(k, TRUE) + Copies(k, FALSE)
  BY Arrivals
<1>2. 0 \notin 1 .. Len(sent) /\ \A k \in 1 .. Len(sent) : k # 0
  <2>1. Len(sent) \in Nat
    BY Arrivals
  <2> QED  BY <2>1
<1> QED  BY <1>1, <1>2, Zenon DEF Good, Bad

-----------------------------------------------------------------------------
(* The slice implements Station. *)

\* What Station sees of the frames when one more is sent.
LEMMA SendNames ==
    ASSUME Facts, SendFrame, NEW new, new = Len(sent) + 1,
           NEW f, f = <<turn, Cardinality(FramesOf(turn))>>
    PROVE  /\ turn \in Nodes /\ f \in Names /\ FrameOf(f) = 0 /\ new \notin 1 .. Len(sent)
           /\ SentCount[turn] = Cardinality(FramesOf(turn)) /\ SentCount[turn] < FramesPerNode
           /\ Len(sent') = new /\ \A k \in 1 .. Len(sent) : Name(k)' = Name(k)
           /\ Name(new)' = f /\ 1 .. new = (1 .. Len(sent)) \union {new}
           /\ \A g : FrameOf(g)' = IF g = f THEN new ELSE FrameOf(g)
           /\ SentCount' = [SentCount EXCEPT ![turn] = @ + 1]
           /\ SentAt' = [SentAt EXCEPT ![f] = now]
           /\ f \notin OfferedNames /\ OfferedNames' = OfferedNames \union {f}
           /\ arrived' = arrived => /\ Processed' = Processed
                                    /\ FirstHeard' = FirstHeard /\ NewestHeard' = NewestHeard
<1> DEFINE p == PacketFrom(turn)
           i == Cardinality(FramesOf(turn))
<1>1. /\ turn \in Nodes /\ p \in SentFrame /\ p.node = turn /\ p.at = now
      /\ i \in Nat /\ i < FramesPerNode
  BY NextFrameOf DEF Facts
<1>2. sent' = Append(sent, p) /\ sent \in Seq(SentFrame)
  BY DEF SendFrame, Facts, Schedule, Frames
<1> HIDE DEF p
<1>3. /\ Len(sent') = new /\ sent'[new] = p /\ Name(new)' = f
      /\ \A k \in 1 .. Len(sent) : /\ sent'[k] = sent[k] /\ Name(k)' = Name(k)
                                   /\ IndexOf(k)' = IndexOf(k)
      /\ \A n : (Cardinality(FramesOf(n)))'
                   = Cardinality(FramesOf(n)) + (IF n = turn THEN 1 ELSE 0)
  BY <1>1, <1>2, NamesGrow
<1>4. FrameOf(f) = 0 /\ \A g : FrameOf(g)' = IF g = f THEN new ELSE FrameOf(g)
  BY <1>1, <1>2, FrameOfGrows
<1>5. 1 .. new = (1 .. Len(sent)) \union {new} /\ new \notin 1 .. Len(sent) /\ new # 0
  <2>1. Len(sent) \in Nat
    BY Arrivals
  <2> QED  BY <2>1
<1>6. f \in Names
  BY <1>1, Constants DEF Names
<1>7. /\ SentCount[turn] = i /\ SentCount[turn] < FramesPerNode
      /\ SentCount' = [SentCount EXCEPT ![turn] = @ + 1]
  <2>1. ASSUME NEW n \in Nodes
        PROVE  SentCount'[n] = IF n = turn THEN SentCount[n] + 1 ELSE SentCount[n]
    <3>1. Cardinality(FramesOf(n)) \in Nat
      BY NamesBounded
    <3>2. /\ SentCount'[n] = (Cardinality(FramesOf(n)))'
          /\ SentCount[n] = Cardinality(FramesOf(n))
      BY DEF SentCount
    <3> QED  BY <1>3, <3>1, <3>2
  <2>2. SentCount[turn] = i
    BY <1>1 DEF SentCount
  <2>3. /\ SentCount = [n \in Nodes |-> SentCount[n]]
        /\ SentCount' = [n \in Nodes |-> SentCount'[n]]
    BY DEF SentCount
  <2> QED  BY <1>1, <2>1, <2>2, <2>3
<1>8. \A g : g # f /\ FrameOf(g) # 0 => FrameOf(g) \in 1 .. Len(sent)
  BY NamesBounded
<1>9. SentAt' = [SentAt EXCEPT ![f] = now]
  <2>1. ASSUME NEW g \in Names
        PROVE  SentAt'[g] = IF g = f THEN now ELSE SentAt[g]
    <3>1. SentAt'[g] = IF FrameOf(g)' = 0 THEN 0 ELSE sent'[FrameOf(g)'].at
      BY DEF SentAt
    <3>2. SentAt[g] = IF FrameOf(g) = 0 THEN 0 ELSE sent[FrameOf(g)].at
      BY DEF SentAt
    <3>3. CASE g = f
      BY <1>1, <1>3, <1>4, <1>5, <3>1, <3>3
    <3>4. CASE g # f
      BY <1>3, <1>4, <1>8, <3>1, <3>2, <3>4
    <3> QED  BY <3>3, <3>4
  <2>2. SentAt = [g \in Names |-> SentAt[g]] /\ SentAt' = [g \in Names |-> SentAt'[g]]
    BY DEF SentAt
  <2> QED  BY <1>6, <2>1, <2>2
<1>10. f \notin OfferedNames /\ OfferedNames' = OfferedNames \union {f}
  <2>1. OfferedNames' = {Name(k)' : k \in 1 .. new}
    BY <1>3 DEF OfferedNames
  <2>2. {Name(k)' : k \in 1 .. new} = {Name(k) : k \in 1 .. Len(sent)} \union {f}
    BY <1>3, <1>5
  <2>3. ASSUME NEW k \in 1 .. Len(sent), Name(k) = f PROVE FALSE
    <3>1. FrameOf(f) = k
      BY <2>3, NamesBounded
    <3> QED  BY <1>4, <3>1
  <2> QED  BY <2>1, <2>2, <2>3 DEF OfferedNames
<1>11. ASSUME arrived' = arrived
       PROVE  /\ Processed' = Processed
              /\ FirstHeard' = FirstHeard /\ NewestHeard' = NewestHeard
  <2>1. FirstHeard' = FirstHeard /\ NewestHeard' = NewestHeard
    BY <1>3, <1>11, HeardSame
  <2>3. Good(new) = 0 /\ Good(0) = 0
    BY <1>5, Kinds
  <2>4. ASSUME NEW g \in Names PROVE Processed'[g] = Processed[g]
    <3>1. Processed'[g] = Good(FrameOf(g))' /\ Processed[g] = Good(FrameOf(g))
      BY DEF Processed, Good
    <3>2. Good(FrameOf(g))' = Cardinality({j \in 1 .. Len(arrived) :
                              arrived[j] = [frame |-> FrameOf(g)', intact |-> TRUE]})
      BY <1>11 DEF Good, Bad, Copies
    <3>3. CASE g = f
      <4>1. Good(FrameOf(g))' = Good(new)
        BY <1>4, <3>2, <3>3 DEF Good, Bad, Copies
      <4> QED  BY <1>4, <2>3, <3>1, <3>3, <4>1
    <3>4. CASE g # f
      <4>1. Good(FrameOf(g))' = Good(FrameOf(g))
        BY <1>4, <3>2, <3>4 DEF Good, Bad, Copies
      <4> QED  BY <3>1, <4>1
    <3> QED  BY <3>3, <3>4
  <2>5. Processed = [g \in Names |-> Processed[g]] /\ Processed' = [g \in Names |-> Processed'[g]]
    BY DEF Processed
  <2> QED  BY <2>1, <2>4, <2>5
<1> QED  BY <1>1, <1>3, <1>4, <1>5, <1>6, <1>7, <1>9, <1>10, <1>11
\* What Station sees under way of a frame, now and after a step.
LEMMA UnderWayIs ==
    ASSUME NEW g \in Names
    PROVE  /\ UnderWay[g] = IF FrameOf(g) = 0 THEN 0
                            ELSE W!Waiting(FrameOf(g)) + Bad(FrameOf(g))
           /\ FrameOf(g)' = 0 => UnderWay'[g] = 0
           /\ \A k : FrameOf(g)' = k /\ k # 0 =>
                 UnderWay'[g] = W!Waiting(k)' + Bad(k)'
           /\ UnderWay = [h \in Names |-> UnderWay[h]]
           /\ UnderWay' = [h \in Names |-> UnderWay'[h]]
<1>1. UnderWay[g] = IF FrameOf(g) = 0 THEN 0
                    ELSE W!Waiting(FrameOf(g)) + Bad(FrameOf(g))
  BY SamePlaces DEF UnderWay, Bad
<1>2. /\ UnderWay = [h \in Names |-> UnderWay[h]]
      /\ UnderWay' = [h \in Names |-> UnderWay'[h]]
  BY DEF UnderWay
<1>3. UnderWay'[g] = IF FrameOf(g)' = 0 THEN 0
                     ELSE Wire!Waiting(FrameOf(g))' + Bad(FrameOf(g))'
  BY DEF UnderWay, Bad
<1>4. ASSUME NEW k, FrameOf(g)' = k
      PROVE  /\ Wire!Waiting(FrameOf(g))' = W!Waiting(k)'
             /\ Bad(FrameOf(g))' = Bad(k)'
  <2>1. Wire!Waiting(FrameOf(g))' = Wire!Waiting(k)'
    BY <1>4 DEF Wire!Waiting, Wire!CountOf
  <2>2. Wire!Waiting(k)' = W!Waiting(k)'
    BY SamePlacesNext
  <2>3. Bad(FrameOf(g))' = Bad(k)'
    BY <1>4 DEF Good, Bad, Copies
  <2> QED  BY <2>1, <2>2, <2>3
<1> QED  BY <1>1, <1>2, <1>3, <1>4

\* What Station has of a frame taken from the link, now and after a step.
LEMMA ProcessedIs ==
    ASSUME NEW g \in Names
    PROVE  /\ Processed[g] = Good(FrameOf(g))
           /\ \A k : FrameOf(g)' = k => Processed'[g] = Good(k)'
           /\ Processed = [h \in Names |-> Processed[h]]
           /\ Processed' = [h \in Names |-> Processed'[h]]
<1>1. Processed[g] = Good(FrameOf(g)) /\ Processed'[g] = Good(FrameOf(g))'
  BY DEF Processed, Good
<1>2. /\ Processed = [h \in Names |-> Processed[h]]
      /\ Processed' = [h \in Names |-> Processed'[h]]
  BY DEF Processed
<1>3. ASSUME NEW k, FrameOf(g)' = k
      PROVE  Good(FrameOf(g))' = Good(k)'
  BY <1>3 DEF Good, Bad, Copies
<1> QED  BY <1>1, <1>2, <1>3
\* To Station a frame that is sent is emitted: lost, or put in the link once or twice, with
\* others perhaps doubled.
LEMMA SendImplements ==
    ASSUME Facts, Facts', SendFrame, NEW new, new = Len(sent) + 1,
           NEW f, f = <<turn, Cardinality(FramesOf(turn))>>
    PROVE  \E n \in Nodes : S!Emit(n)
<1>1. /\ turn \in Nodes /\ f \in Names /\ FrameOf(f) = 0 /\ new \notin 1 .. Len(sent)
      /\ SentCount[turn] = Cardinality(FramesOf(turn)) /\ SentCount[turn] < FramesPerNode
  BY SendNames
<1>2. /\ Len(sent') = new /\ \A k \in 1 .. Len(sent) : Name(k)' = Name(k)
      /\ 1 .. new = (1 .. Len(sent)) \union {new}
      /\ \A g : FrameOf(g)' = IF g = f THEN new ELSE FrameOf(g)
  BY SendNames
<1>3. \A k : k = new => Name(k)' = f
  BY SendNames
<1>4. /\ SentCount' = [SentCount EXCEPT ![turn] = @ + 1]
      /\ SentAt' = [SentAt EXCEPT ![f] = now]
      /\ f \notin OfferedNames /\ OfferedNames' = OfferedNames \union {f}
      /\ arrived' = arrived => /\ Processed' = Processed
                               /\ FirstHeard' = FirstHeard /\ NewestHeard' = NewestHeard
  BY SendNames
<1>5. /\ UNCHANGED collectorVars /\ W!Send
      /\ W!TypeOK /\ W!TypeOK' /\ W!Counted /\ link.offered = Len(sent)
  BY SameActions DEF SendFrame, Facts, LinkFacts, Books
<1>6. now' = now
  BY <1>5 DEF W!Send, W!SendLost, W!SendHeld, W!SendPassed, W!SendOvertaking
<1>7. /\ new \in W!Frame /\ arrived' = arrived
      /\ \/ /\ W!Vanished' = W!Vanished \union {new}
            /\ \A g \in W!Frame : W!Waiting(g)' = W!Waiting(g)
         \/ /\ W!Vanished' = W!Vanished
            /\ \E c \in 1 .. 2, D \in SUBSET W!Frame :
                  /\ \A g \in D : W!Waiting(g) = 1 /\ W!Received(g) = 0
                  /\ \A g \in W!Frame : W!Waiting(g)' = IF g = new THEN c
                                                        ELSE IF g \in D THEN 2 ELSE W!Waiting(g)
  <2>1. new = link.offered + 1
    BY <1>5
  <2> QED  BY <1>5, <2>1, LinkApplies, W!SendView
<1>8. /\ \A k \in 1 .. Len(sent) : k \in W!Frame /\ W!Waiting(k) \in Nat
      /\ \A k \in W!Frame : k \notin 1 .. Len(sent) => W!Waiting(k) = 0
      /\ \A k \in 1 .. Len(sent) : W!Received(k) = Good(k) + Bad(k)
      /\ \A k : Good(k) \in Nat /\ Bad(k) \in Nat
      /\ W!Vanished \subseteq 1 .. Len(sent)
  <2>1. \A k \in W!Frame : k > link.offered => W!Waiting(k) = 0
    BY <1>5, LinkApplies, W!PlaceTypes
  <2>2. Len(sent) \in Nat
    BY Arrivals
  <2>3. \A k \in W!Frame : k \notin 1 .. Len(sent) => W!Waiting(k) = 0
    BY <1>5, <2>1, <2>2 DEF W!Frame
  <2>4. /\ \A k \in 1 .. Len(sent) : k \in W!Frame /\ W!Waiting(k) \in Nat
        /\ \A k \in 1 .. Len(sent) : W!Received(k) = Good(k) + Bad(k)
        /\ \A k : Good(k) \in Nat /\ Bad(k) \in Nat
    BY Arrivals, Kinds
  <2>5. W!Vanished \subseteq 1 .. Len(sent)
    BY <1>5 DEF W!Vanished
  <2> QED  BY <2>3, <2>4, <2>5
<1>9. /\ \A k : Bad(k)' = Bad(k) /\ Bad(new) = 0
  <2>1. \A k : Bad(k)' = Bad(k)
    BY <1>7 DEF Good, Bad, Copies
  <2>2. Bad(new) = 0
    BY <1>1, Kinds
  <2> QED  BY <2>1, <2>2
<1>10. \A g \in Names : g # f /\ FrameOf(g) # 0 => FrameOf(g) \in 1 .. Len(sent)
  BY NamesBounded
<1>11. new # 0
  <2>1. Len(sent) \in Nat
    BY Arrivals
  <2> QED  BY <2>1
<1>12. UnderWay'[f] = W!Waiting(new)' + 0 /\ UnderWay[f] = 0
  <2>1. FrameOf(f)' = new
    BY <1>2
  <2>2. UnderWay'[f] = W!Waiting(new)' + Bad(new)'
    BY <1>1, <1>11, <2>1, UnderWayIs
  <2> QED  BY <1>1, <1>9, <2>2, UnderWayIs
<1>13. ASSUME NEW g \in Names, g # f
       PROVE  \/ FrameOf(g) = 0 /\ UnderWay[g] = 0 /\ UnderWay'[g] = 0
              \/ /\ FrameOf(g) \in 1 .. Len(sent)
                 /\ UnderWay[g] = W!Waiting(FrameOf(g)) + Bad(FrameOf(g))
                 /\ \A k : k = FrameOf(g) => UnderWay'[g] = W!Waiting(k)' + Bad(k)
  <2>1. FrameOf(g)' = FrameOf(g)
    BY <1>2, <1>13
  <2>2. CASE FrameOf(g) = 0
    BY <2>1, <2>2, UnderWayIs
  <2>3. CASE FrameOf(g) # 0
    <3>1. UnderWay[g] = W!Waiting(FrameOf(g)) + Bad(FrameOf(g))
      BY <2>3, UnderWayIs
    <3>2. \A k : k = FrameOf(g) => UnderWay'[g] = W!Waiting(k)' + Bad(k)'
      BY <2>1, <2>3, UnderWayIs
    <3> QED  BY <1>9, <1>10, <1>13, <2>3, <3>1, <3>2
  <2> QED  BY <2>2, <2>3
<1>19. 0 \notin 1 .. Len(sent) /\ \A k \in 1 .. Len(sent) : k # 0
  BY Kinds
<1>14. LostNames' = {Name(k)' : k \in W!Vanished'} /\ LostNames = {Name(k) : k \in W!Vanished}
  BY SamePlaces, SamePlacesNext DEF LostNames
<1>15. S!Frame = Names
  BY DEF S!Frame, S!Index, Names
<1>17. CASE /\ W!Vanished' = W!Vanished \union {new}
            /\ \A g \in W!Frame : W!Waiting(g)' = W!Waiting(g)
  <2>1. LostNames' = LostNames \union {f}
    BY <1>2, <1>3, <1>8, <1>14, <1>17
  <2>2. UnderWay' = UnderWay
    <3>1. UnderWay'[f] = UnderWay[f]
      BY <1>1, <1>7, <1>8, <1>12, <1>17
    <3>2. ASSUME NEW g \in Names, g # f PROVE UnderWay'[g] = UnderWay[g]
      BY <1>8, <1>13, <1>17, <3>2
    <3>3. \A g \in Names : UnderWay'[g] = UnderWay[g]
      BY <3>1, <3>2
    <3> QED  BY <1>1, <3>3, UnderWayIs
  <2>3. S!Link!Lose(f)
    BY <1>4, <1>7, <2>1, <2>2 DEF S!Link!Lose
  <2> QED
    BY <1>1, <1>4, <1>5, <1>6, <1>7, <2>3 DEF S!Emit, S!collectorVars, S!history, NoneRaised, collectorVars
<1>18. CASE /\ W!Vanished' = W!Vanished
            /\ \E c \in 1 .. 2, D \in SUBSET W!Frame :
                  /\ \A k \in D : W!Waiting(k) = 1 /\ W!Received(k) = 0
                  /\ \A k \in W!Frame : W!Waiting(k)' = IF k = new THEN c
                                                        ELSE IF k \in D THEN 2 ELSE W!Waiting(k)
  <2>1. PICK c \in 1 .. 2, D \in SUBSET W!Frame :
           /\ \A k \in D : W!Waiting(k) = 1 /\ W!Received(k) = 0
           /\ \A k \in W!Frame : W!Waiting(k)' = IF k = new THEN c
                                                 ELSE IF k \in D THEN 2 ELSE W!Waiting(k)
    BY <1>18
  <2> DEFINE doubled == {Name(k) : k \in D}
  <2>2. \A k \in D : /\ k \in 1 .. Len(sent) /\ k # new
                     /\ Bad(k) = 0 /\ Good(k) = 0
    <3> SUFFICES ASSUME NEW k \in D
                 PROVE  /\ k \in 1 .. Len(sent) /\ k # new
                        /\ Bad(k) = 0 /\ Good(k) = 0
      OBVIOUS
    <3>1. k \in W!Frame /\ W!Waiting(k) = 1 /\ W!Received(k) = 0
      BY <2>1
    <3>2. k \in 1 .. Len(sent)
      <4>1. k \notin 1 .. Len(sent) => W!Waiting(k) = 0
        BY <1>8, <3>1
      <4> QED  BY <3>1, <4>1
    <3>3. Good(k) + Bad(k) = 0
      <4>1. W!Received(k) = Good(k) + Bad(k)
        BY <1>8, <3>2
      <4> QED  BY <3>1, <4>1
    <3>4. Bad(k) = 0 /\ Good(k) = 0
      BY <1>8, <3>3
    <3> QED  BY <1>1, <3>2, <3>4
  <2>3. \A g \in Names : g # f => (g \in doubled <=> FrameOf(g) # 0 /\ FrameOf(g) \in D)
    <3>1. \A k \in D : FrameOf(Name(k)) = k
      BY <2>2, NamesBounded
    <3>2. \A g : FrameOf(g) # 0 => Name(FrameOf(g)) = g
      BY NamesBounded
    <3>3. \A k \in D : k # 0
      BY <1>19, <2>2
    <3> QED  BY <3>1, <3>2, <3>3
  <2> HIDE DEF doubled
  <2>4. LostNames' = LostNames
    BY <1>2, <1>8, <1>14, <1>18
  <2>5. UnderWay' = [g \in Names |-> IF g = f THEN c
                                     ELSE IF g \in doubled THEN 2 ELSE UnderWay[g]]
    <3>1. UnderWay'[f] = c
      BY <1>7, <1>12, <2>1
    <3>2. ASSUME NEW g \in Names, g # f
          PROVE  UnderWay'[g] = IF g \in doubled THEN 2 ELSE UnderWay[g]
      <4>1. CASE FrameOf(g) = 0
        <5>1. UnderWay[g] = 0 /\ UnderWay'[g] = 0
          BY <1>13, <1>19, <3>2, <4>1
        <5> QED  BY <2>3, <3>2, <4>1, <5>1
      <4>2. CASE FrameOf(g) # 0
        <5> DEFINE k == FrameOf(g)
        <5>1. /\ k \in 1 .. Len(sent) /\ UnderWay[g] = W!Waiting(k) + Bad(k)
          BY <1>13, <3>2, <4>2
        <5>2. \A j : j = k => UnderWay'[g] = W!Waiting(j)' + Bad(j)
          BY <1>13, <3>2, <4>2
        <5> HIDE DEF k
        <5>3. k \in W!Frame /\ k # new
          BY <1>1, <1>8, <5>1
        <5>4. \A j : j = k => W!Waiting(j)' = IF k \in D THEN 2 ELSE W!Waiting(k)
          BY <2>1, <5>3
        <5>5. UnderWay'[g] = (IF k \in D THEN 2 ELSE W!Waiting(k)) + Bad(k)
          BY <5>2, <5>4
        <5>6. k \in D => Bad(k) = 0
          BY <2>2
        <5>7. g \in doubled <=> k \in D
          BY <2>3, <3>2, <4>2 DEF k
        <5>8. W!Waiting(k) \in Nat /\ Bad(k) \in Nat
          BY <1>8, <5>1
        <5> QED  BY <5>1, <5>5, <5>6, <5>7, <5>8
      <4> QED  BY <4>1, <4>2
    <3>3. UnderWay' = [g \in Names |-> UnderWay'[g]]
      BY <1>1, UnderWayIs
    <3>4. \A g \in Names : UnderWay'[g] = IF g = f THEN c
                                           ELSE IF g \in doubled THEN 2 ELSE UnderWay[g]
      BY <3>1, <3>2
    <3> QED  BY <3>3, <3>4
  <2>6. doubled \in SUBSET S!Link!Single
    <3>1. ASSUME NEW k \in D
          PROVE  /\ Name(k) \in Names /\ UnderWay[Name(k)] = 1 /\ Processed[Name(k)] = 0
      <4>1. k \in 1 .. Len(sent) /\ Name(k) \in Names /\ FrameOf(Name(k)) = k
        BY <2>2, NamesBounded
      <4>2. k # 0
        BY <1>19, <4>1
      <4>3. UnderWay[Name(k)] = W!Waiting(k) + Bad(k)
        BY <4>1, <4>2, UnderWayIs
      <4>4. Processed[Name(k)] = Good(k)
        BY <4>1, ProcessedIs
      <4> QED  BY <2>1, <2>2, <4>1, <4>3, <4>4
    <3> QED  BY <1>15, <3>1 DEF S!Link!Single, doubled
  <2>7. S!Link!Accept(f, c, doubled)
    BY <1>4, <1>7, <1>15, <2>4, <2>5 DEF S!Link!Accept
  <2> QED
    BY <1>1, <1>4, <1>5, <1>6, <1>7, <2>6, <2>7
    DEF S!Emit, S!collectorVars, S!history, NoneRaised, collectorVars
<1> QED  BY <1>7, <1>17, <1>18
\* To Station an intact copy that comes off the link arrives; of a damaged one it sees nothing.
LEMMA ReceiveImplements ==
    ASSUME Facts, Facts', ReceivePacket
    PROVE  \/ \E f \in S!Frame, reached \in 0 .. SinkCount : S!Arrive(f, reached)
           \/ UNCHANGED S!vars
<1>1. /\ W!Recv /\ sent' = sent /\ W!TypeOK /\ W!TypeOK' /\ W!Counted
      /\ link.offered = Len(sent)
  BY SameActions DEF ReceivePacket, Facts, LinkFacts, Books
<1>2. now' = now /\ now \in Nat /\ now <= MaxTime
  BY <1>1 DEF W!Recv, Facts, Schedule, Rounds
<1>3. /\ W!Vanished' = W!Vanished
      /\ \E copy \in W!Copy :
            /\ arrived' = Append(arrived, copy)
            /\ copy.frame \in 1 .. link.offered /\ W!Waiting(copy.frame) > 0
            /\ \A g \in W!Frame :
                  /\ W!Waiting(g)' = IF g = copy.frame THEN W!Waiting(g) - 1 ELSE W!Waiting(g)
                  /\ W!Received(g)' = IF g = copy.frame THEN W!Received(g) + 1 ELSE W!Received(g)
  BY <1>1, LinkApplies, W!RecvView
<1>4. PICK copy \in W!Copy :
         /\ arrived' = Append(arrived, copy)
         /\ copy.frame \in 1 .. link.offered /\ W!Waiting(copy.frame) > 0
         /\ \A g \in W!Frame :
               W!Waiting(g)' = IF g = copy.frame THEN W!Waiting(g) - 1 ELSE W!Waiting(g)
  BY <1>3
<1>5. PICK k \in 1 .. Len(sent) : k = copy.frame
  BY <1>1, <1>4
<1>6. PICK f : f = Name(k)
  OBVIOUS
<1>7. /\ f \in Names /\ FrameOf(f) = k /\ k # 0 /\ k \in W!Frame /\ sent[k] \in SentFrame
      /\ IndexOf(k) \in Nat
  BY <1>6, NamesBounded, Kinds, Arrivals, Indices
<1>8. \A g : FrameOf(g) = k /\ g \in Names => g = f
  BY <1>6, <1>7, NamesBounded
<1>9. /\ arrived'[Len(arrived')] = copy
      /\ Good(k)' = Good(k) + (IF copy.intact THEN 1 ELSE 0)
      /\ Bad(k)' = Bad(k) + (IF copy.intact THEN 0 ELSE 1)
      /\ \A j : j # k => Good(j)' = Good(j) /\ Bad(j)' = Bad(j)
  <2>1. arrived \in Seq(W!Copy)
    BY Arrivals
  <2>2. /\ arrived'[Len(arrived')] = copy
        /\ \A M : /\ Cardinality(At(M)) \in Nat
                  /\ Cardinality(At(M)') = Cardinality(At(M)) + (IF copy \in M THEN 1 ELSE 0)
    BY <1>4, <2>1, ArrivalsGrow
  <2>3. \A j : /\ Good(j) = Cardinality(At({[frame |-> j, intact |-> TRUE]}))
               /\ Bad(j) = Cardinality(At({[frame |-> j, intact |-> FALSE]}))
    BY CopiesAt DEF Good, Bad
  <2>4. \A j : /\ Good(j)' = Cardinality(At({[frame |-> j, intact |-> TRUE]})')
               /\ Bad(j)' = Cardinality(At({[frame |-> j, intact |-> FALSE]})')
    BY DEF Good, Bad, Copies, At
  <2>5. copy = [frame |-> k, intact |-> copy.intact] /\ copy.intact \in BOOLEAN
    BY <1>5 DEF W!Copy
  <2>6. \A j : /\ copy = [frame |-> j, intact |-> TRUE] <=> j = k /\ copy.intact = TRUE
               /\ copy = [frame |-> j, intact |-> FALSE] <=> j = k /\ copy.intact = FALSE
    BY <2>5
  <2>7. \A j : /\ Good(j)' = Good(j) + (IF copy = [frame |-> j, intact |-> TRUE] THEN 1 ELSE 0)
               /\ Bad(j)' = Bad(j) + (IF copy = [frame |-> j, intact |-> FALSE] THEN 1 ELSE 0)
    BY <2>2, <2>3, <2>4
  <2>8. \A j : Good(j) \in Nat /\ Bad(j) \in Nat
    BY Kinds
  <2> QED  BY <2>2, <2>5, <2>6, <2>7, <2>8
<1>10. /\ \A j : Name(j)' = Name(j) /\ \A g : FrameOf(g)' = FrameOf(g)
       /\ SentCount' = SentCount /\ SentAt' = SentAt /\ OfferedNames' = OfferedNames
       /\ LostNames' = LostNames
  <2>1. /\ \A j : Name(j)' = Name(j) /\ \A g : FrameOf(g)' = FrameOf(g)
        /\ SentCount' = SentCount /\ OfferedNames' = OfferedNames
    BY <1>1 DEF Name, IndexOf, FramesOf, FrameOf, SentCount, OfferedNames
  <2>2. SentAt' = SentAt
    BY <1>1, <2>1 DEF SentAt
  <2>3. LostNames' = {Name(j)' : j \in W!Vanished'} /\ LostNames = {Name(j) : j \in W!Vanished}
    BY SamePlaces, SamePlacesNext DEF LostNames
  <2>4. LostNames' = LostNames
    BY <1>3, <2>1, <2>3
  <2> QED  BY <2>1, <2>2, <2>4
<1>11. f = <<sent[k].node, IndexOf(k)>> /\ f[1] \in Nodes
  <2>1. sent[k].node \in Nodes
    BY <1>7 DEF SentFrame
  <2> QED  BY <1>6, <2>1 DEF Name
<1>12. ASSUME NEW n \in Nodes
       PROVE  /\ FirstHeard'[n] = IF copy.intact /\ n = f[1] /\ FirstHeard[n] = -1 THEN f[2]
                                  ELSE FirstHeard[n]
              /\ NewestHeard'[n] = IF copy.intact /\ n = f[1] /\ f[2] > NewestHeard[n] THEN f[2]
                                   ELSE NewestHeard[n]
  <2>1. copy.frame \in 1 .. Len(sent)
    BY <1>5
  <2>2. LET heard == copy.intact /\ sent[copy.frame].node = n
            i == IndexOf(copy.frame)
        IN  /\ FirstHeard'[n] = IF heard /\ FirstHeard[n] = Never THEN i ELSE FirstHeard[n]
            /\ NewestHeard'[n] = IF heard /\ i > NewestHeard[n] THEN i ELSE NewestHeard[n]
    BY <1>1, <1>4, <2>1, HeardGrows
  <2> QED  BY <1>5, <1>11, <2>2 DEF Never
<1>13. /\ FirstHeard = [n \in Nodes |-> FirstHeard[n]]
       /\ FirstHeard' = [n \in Nodes |-> FirstHeard'[n]]
       /\ NewestHeard = [n \in Nodes |-> NewestHeard[n]]
       /\ NewestHeard' = [n \in Nodes |-> NewestHeard'[n]]
  BY DEF FirstHeard, NewestHeard
<1>14. /\ UnderWay = [g \in Names |-> UnderWay[g]] /\ UnderWay' = [g \in Names |-> UnderWay'[g]]
       /\ Processed = [g \in Names |-> Processed[g]]
       /\ Processed' = [g \in Names |-> Processed'[g]]
  BY <1>7, UnderWayIs, ProcessedIs
<1>15. /\ W!Waiting(k) \in Nat /\ W!Waiting(k) > 0 /\ W!Waiting(k)' = W!Waiting(k) - 1
       /\ \A g \in W!Frame : g # k => W!Waiting(g)' = W!Waiting(g)
       /\ Good(k) \in Nat /\ Bad(k) \in Nat
  BY <1>4, <1>5, <1>7, Arrivals, Kinds
<1>16. /\ UnderWay[f] = W!Waiting(k) + Bad(k)
       /\ UnderWay'[f] = W!Waiting(k)' + Bad(k)'
       /\ Processed[f] = Good(k) /\ Processed'[f] = Good(k)'
  <2>1. FrameOf(f)' = k
    BY <1>7, <1>10
  <2> QED  BY <1>7, <2>1, UnderWayIs, ProcessedIs
<1>17. ASSUME NEW g \in Names, g # f
       PROVE  UnderWay'[g] = UnderWay[g] /\ Processed'[g] = Processed[g]
  <2>1. FrameOf(g) # k /\ FrameOf(g)' = FrameOf(g)
    BY <1>8, <1>10, <1>17
  <2>2. PICK j : j = FrameOf(g)
    OBVIOUS
  <2>3. Good(j)' = Good(j) /\ Bad(j)' = Bad(j)
    BY <1>9, <2>1, <2>2
  <2>4. Processed'[g] = Processed[g]
    BY <2>1, <2>2, <2>3, ProcessedIs
  <2>5. CASE j = 0
    BY <2>1, <2>2, <2>4, <2>5, UnderWayIs
  <2>6. CASE j # 0
    <3>1. j \in 1 .. Len(sent)
      BY <2>2, <2>6, NamesBounded
    <3>2. j \in W!Frame /\ W!Waiting(j)' = W!Waiting(j)
      BY <1>15, <2>1, <2>2, <3>1, Arrivals
    <3>3. UnderWay'[g] = W!Waiting(j)' + Bad(j)' /\ UnderWay[g] = W!Waiting(j) + Bad(j)
      BY <2>1, <2>2, <2>6, UnderWayIs
    <3> QED  BY <2>3, <2>4, <3>2, <3>3
  <2> QED  BY <2>5, <2>6
<1>18. CASE ~copy.intact
  <2>1. UNCHANGED collectorVars
    BY <1>9, <1>18 DEF ReceivePacket
  <2>2. UnderWay'[f] = UnderWay[f] /\ Processed'[f] = Processed[f]
    BY <1>9, <1>15, <1>16, <1>18
  <2>3. UnderWay' = UnderWay /\ Processed' = Processed
    BY <1>14, <1>17, <2>2
  <2>4. FirstHeard' = FirstHeard /\ NewestHeard' = NewestHeard
    BY <1>12, <1>13, <1>18
  <2> QED
    BY <1>2, <1>10, <2>1, <2>3, <2>4
    DEF S!vars, S!collectorVars, S!nodeVars, S!linkVars, S!history, NoneRaised, collectorVars
<1>19. CASE copy.intact
  <2>1. Process(sent[k], now, SinkCount)
    BY <1>5, <1>9, <1>19 DEF ReceivePacket
  <2>2. S!Process(S!PacketOf(<<f[1], f[2]>>), now, SinkCount)
    <3>1. RightFrame(k)
      BY DEF Facts, Schedule, Frames
    <3>2. /\ sent[k].seq = S!SeqOf(f[1], f[2]) /\ sent[k].heartbeat = S!IsHeartbeat(f[2])
          /\ sent[k].samples = (IF S!IsHeartbeat(f[2]) THEN 0 ELSE BlockSamples)
          /\ sent[k].node = f[1]
      <4>1. 0 + IndexOf(k) = IndexOf(k)
        BY <1>7
      <4> QED
        BY <1>11, <3>1, <4>1 DEF RightFrame, S!SeqOf, S!IsHeartbeat, HeartbeatAt
    <3> QED  BY <2>1, <3>2, SameCollector
  <2>3. UnderWay' = [UnderWay EXCEPT ![f] = @ - 1] /\ UnderWay[f] > 0
    <3>1. UnderWay'[f] = UnderWay[f] - 1 /\ UnderWay[f] > 0
      BY <1>9, <1>15, <1>16, <1>19
    <3> QED  BY <1>7, <1>14, <1>17, <3>1
  <2>4. Processed' = [Processed EXCEPT ![f] = @ + 1]
    <3>1. Processed'[f] = Processed[f] + 1
      BY <1>9, <1>15, <1>16, <1>19
    <3> QED  BY <1>7, <1>14, <1>17, <3>1
  <2>5. FirstHeard' = [FirstHeard EXCEPT ![f[1]] = IF @ = S!Never THEN f[2] ELSE @]
    BY <1>11, <1>12, <1>13, <1>19 DEF S!Never
  <2>6. NewestHeard' = [NewestHeard EXCEPT ![f[1]] = IF f[2] > @ THEN f[2] ELSE @]
    BY <1>11, <1>12, <1>13, <1>19
  <2>7. now <= SentAt[f] + MaxTime
    <3>1. SentAt[f] = sent[k].at
      BY <1>7 DEF SentAt
    <3>2. sent[k].at \in Nat /\ MaxTime \in Nat
      BY <1>7, Constants DEF SentFrame
    <3> QED  BY <1>2, <3>1, <3>2
  <2>8. S!Link!Take(f)
    BY <1>10, <2>3, <2>4 DEF S!Link!Take
  <2>9. f = <<f[1], f[2]>> /\ f \in S!Frame /\ SinkCount \in 0 .. SinkCount
    <3>1. SinkCount \in 0 .. SinkCount
      BY SinkAssumption
    <3>2. f \in S!Frame
      BY <1>7 DEF S!Frame, S!Index, Names
    <3> QED  BY <1>11, <3>1, <3>2
  <2>10. NoneRaised' = [s \in 1 .. SinkCount |->
                           IF s = SinkCount + 1 THEN NoneRaised[s] + 1 ELSE NoneRaised[s]]
    <3>1. \A s \in 1 .. SinkCount : s # SinkCount + 1
      BY SinkAssumption
    <3> QED  BY <3>1 DEF NoneRaised
  <2>11. S!Arrive(f, SinkCount)
    BY <1>2, <1>10, <2>2, <2>5, <2>6, <2>7, <2>8, <2>9, <2>10 DEF S!Arrive, S!nodeVars
  <2> QED  BY <2>9, <2>11
<1> QED  BY <1>18, <1>19
\* Without a send or a receive Station sees nothing.
LEMMA StillImplements ==
    ASSUME UNCHANGED <<collectorVars, sent, link, arrived>>
    PROVE  UNCHANGED <<S!collectorVars, S!nodeVars, S!linkVars, S!history>>
<1>1. /\ \A j : Name(j)' = Name(j) /\ \A g : FrameOf(g)' = FrameOf(g)
      /\ \A j : IndexOf(j)' = IndexOf(j)
      /\ SentCount' = SentCount /\ OfferedNames' = OfferedNames
  BY DEF Name, IndexOf, FramesOf, FrameOf, SentCount, OfferedNames
<1>2. SentAt' = SentAt
  BY <1>1 DEF SentAt
<1>3. UnderWay' = UnderWay
  BY <1>1 DEF UnderWay, Wire!Waiting, Wire!CountOf, Wire!InnerFrames, Wire!ScheduledFrames, Copies
<1>4. Processed' = Processed
  <2>1. \A k : Copies(k, TRUE)' = Copies(k, TRUE)
    BY DEF Copies
  <2>2. ASSUME NEW g \in Names PROVE Processed'[g] = Processed[g]
    <3>1. PICK k : k = FrameOf(g)
      OBVIOUS
    <3>2. FrameOf(g)' = k
      BY <1>1, <3>1
    <3> QED  BY <2>1, <3>1, <3>2, ProcessedIs DEF Good
  <2>3. /\ Processed = [g \in Names |-> Processed[g]]
        /\ Processed' = [g \in Names |-> Processed'[g]]
    BY DEF Processed
  <2> QED  BY <2>2, <2>3
<1>5. LostNames' = LostNames
  <2>1. Wire!Vanished' = Wire!Vanished
    BY DEF Wire!Vanished, Wire!Waiting, Wire!Received, Wire!CountOf, Wire!InnerFrames,
           Wire!ScheduledFrames, Wire!ArrivedFrames
  <2>2. /\ LostNames' = {Name(k)' : k \in Wire!Vanished'}
        /\ LostNames = {Name(k) : k \in Wire!Vanished}
    BY DEF LostNames
  <2> QED  BY <1>1, <2>1, <2>2
<1>6. FirstHeard' = FirstHeard /\ NewestHeard' = NewestHeard
  <2>1. FirstHeard' = FirstHeard
    BY DEF FirstHeard, HeardAt, IndexOf, FramesOf, Min
  <2>2. NewestHeard' = NewestHeard
    BY DEF NewestHeard, HeardAt, IndexOf, FramesOf, Max
  <2> QED  BY <2>1, <2>2
<1> QED
  BY <1>1, <1>2, <1>3, <1>4, <1>5, <1>6
  DEF S!collectorVars, S!nodeVars, S!linkVars, S!history, NoneRaised, collectorVars

\* To Station a flush may double frames.
LEMMA FlushImplements ==
    ASSUME Facts, Facts', FlushLink
    PROVE  S!Duplicate \/ UNCHANGED S!vars
<1>1. /\ UNCHANGED <<collectorVars, sent>> /\ W!TypeOK /\ W!TypeOK' /\ W!Counted
      /\ link.offered = Len(sent)
  BY DEF FlushLink, Facts, LinkFacts, Books
<1>2. /\ \A j : Name(j)' = Name(j) /\ \A g : FrameOf(g)' = FrameOf(g)
      /\ SentCount' = SentCount /\ OfferedNames' = OfferedNames
  BY <1>1 DEF Name, IndexOf, FramesOf, FrameOf, SentCount, OfferedNames
<1>3. SentAt' = SentAt
  BY <1>1, <1>2 DEF SentAt
<1>4. LostNames' = {Name(j)' : j \in W!Vanished'} /\ LostNames = {Name(j) : j \in W!Vanished}
  BY SamePlaces, SamePlacesNext DEF LostNames
<1>5. CASE W!Flush
  <2>1. now' = now
    BY <1>5 DEF W!Flush
  <2>2. /\ W!Vanished' = W!Vanished /\ arrived' = arrived
        /\ \E D \in SUBSET W!Frame :
              /\ \A g \in D : W!Waiting(g) = 1 /\ W!Received(g) = 0
              /\ \A g \in W!Frame : W!Waiting(g)' = IF g \in D THEN 2 ELSE W!Waiting(g)
    BY <1>1, <1>5, LinkApplies, W!FlushView
  <2>3. PICK D \in SUBSET W!Frame :
              /\ \A g \in D : W!Waiting(g) = 1 /\ W!Received(g) = 0
              /\ \A g \in W!Frame : W!Waiting(g)' = IF g \in D THEN 2 ELSE W!Waiting(g)
    BY <2>2
  <2> DEFINE doubled == {Name(k) : k \in D}
  <2>4. \A k : Good(k)' = Good(k) /\ Bad(k)' = Bad(k)
    BY <2>2 DEF Good, Bad, Copies
  <2>5. ASSUME NEW k \in D
        PROVE  k \in 1 .. Len(sent) /\ k # 0 /\ Good(k) = 0 /\ Bad(k) = 0
    <3>1. k \in W!Frame /\ W!Waiting(k) = 1 /\ W!Received(k) = 0
      BY <2>3
    <3>2. \A j \in W!Frame : j > link.offered => W!Waiting(j) = 0
      BY <1>1, LinkApplies, W!PlaceTypes
    <3>3. k \in 1 .. Len(sent)
      <4>1. Len(sent) \in Nat
        BY Arrivals
      <4> QED  BY <1>1, <3>1, <3>2, <4>1 DEF W!Frame
    <3>4. Good(k) + Bad(k) = 0 /\ Good(k) \in Nat /\ Bad(k) \in Nat
      BY <3>1, <3>3, Kinds
    <3> QED  BY <3>3, <3>4, Kinds
  <2>6. \A g \in Names : g \in doubled <=> FrameOf(g) # 0 /\ FrameOf(g) \in D
    <3>1. \A k \in D : FrameOf(Name(k)) = k
      BY <2>5, NamesBounded
    <3>2. \A g : FrameOf(g) # 0 => Name(FrameOf(g)) = g
      BY NamesBounded
    <3> QED  BY <2>5, <3>1, <3>2
  <2> HIDE DEF doubled
  <2>7. ASSUME NEW g \in Names
        PROVE  /\ UnderWay'[g] = IF g \in doubled THEN 2 ELSE UnderWay[g]
               /\ Processed'[g] = Processed[g]
    <3>1. PICK j : j = FrameOf(g)
      OBVIOUS
    <3>2. FrameOf(g)' = j
      BY <1>2, <3>1
    <3>3. Processed'[g] = Processed[g]
      BY <2>4, <3>1, <3>2, ProcessedIs
    <3>4. CASE j = 0
      <4>1. UnderWay'[g] = 0 /\ UnderWay[g] = 0
        BY <3>1, <3>2, <3>4, UnderWayIs
      <4> QED  BY <2>6, <3>1, <3>3, <3>4, <4>1
    <3>5. CASE j # 0
      <4>1. j \in 1 .. Len(sent)
        BY <3>1, <3>5, NamesBounded
      <4>2. j \in W!Frame /\ W!Waiting(j) \in Nat /\ Bad(j) \in Nat
        BY <4>1, Arrivals, Kinds
      <4>3. UnderWay'[g] = W!Waiting(j)' + Bad(j)' /\ UnderWay[g] = W!Waiting(j) + Bad(j)
        BY <3>1, <3>2, <3>5, UnderWayIs
      <4>4. W!Waiting(j)' = IF j \in D THEN 2 ELSE W!Waiting(j)
        BY <2>3, <4>2
      <4>5. j \in D => Bad(j) = 0
        BY <2>5
      <4>6. g \in doubled <=> j \in D
        BY <2>6, <3>1, <3>5
      <4> QED  BY <2>4, <3>3, <4>2, <4>3, <4>4, <4>5, <4>6
    <3> QED  BY <3>4, <3>5
  <2>8. UnderWay' = [g \in Names |-> IF g \in doubled THEN 2 ELSE UnderWay[g]]
    <3>1. UnderWay' = [g \in Names |-> UnderWay'[g]]
      BY DEF UnderWay
    <3> QED  BY <2>7, <3>1
  <2>9. Processed' = Processed
    <3>1. /\ Processed' = [g \in Names |-> Processed'[g]]
          /\ Processed = [g \in Names |-> Processed[g]]
      BY DEF Processed
    <3> QED  BY <2>7, <3>1
  <2>10. LostNames' = LostNames
    BY <1>2, <1>4, <2>2
  <2>11. FirstHeard' = FirstHeard /\ NewestHeard' = NewestHeard
    <3>1. \A k \in 1 .. Len(sent) : sent'[k] = sent[k] /\ IndexOf(k)' = IndexOf(k)
      BY <1>1 DEF IndexOf, FramesOf
    <3> QED  BY <2>2, <3>1, HeardSame
  <2>12. S!Frame = Names
    BY DEF S!Frame, S!Index, Names
  <2>13. doubled \in SUBSET S!Link!Single
    <3>1. ASSUME NEW k \in D
          PROVE  /\ Name(k) \in Names /\ UnderWay[Name(k)] = 1 /\ Processed[Name(k)] = 0
      <4>1. Name(k) \in Names /\ FrameOf(Name(k)) = k /\ k # 0 /\ Good(k) = 0 /\ Bad(k) = 0
        BY <2>5, NamesBounded
      <4>2. UnderWay[Name(k)] = W!Waiting(k) + Bad(k)
        BY <4>1, UnderWayIs
      <4>3. Processed[Name(k)] = Good(k)
        BY <4>1, ProcessedIs
      <4> QED  BY <2>3, <4>1, <4>2, <4>3
    <3> QED  BY <2>12, <3>1 DEF S!Link!Single, doubled
  <2>14. S!Link!Double(doubled)
    BY <1>2, <2>8, <2>9, <2>10, <2>12 DEF S!Link!Double
  <2> QED
    BY <1>1, <1>2, <1>3, <2>1, <2>11, <2>13, <2>14
    DEF S!Duplicate, S!collectorVars, S!nodeVars, S!history, NoneRaised, collectorVars
<1>6. CASE UNCHANGED <<config, link, now, arrived>>
  <2>1. UNCHANGED <<S!collectorVars, S!nodeVars, S!linkVars, S!history>>
    BY <1>1, <1>6, StillImplements
  <2> QED  BY <1>6, <2>1 DEF S!vars
<1> QED  BY <1>5, <1>6, SameActions DEF FlushLink
\* A new run looks to Station like its own initial state.
LEMMA InitImplements == Init => S!Init
<1> SUFFICES ASSUME Init PROVE S!Init
  OBVIOUS
<1>1. CollectorInit /\ sent = <<>> /\ Wire!Init
  BY DEF Init
<1>2. arrived = <<>> /\ now = 0 /\ link.offered = 0
  BY <1>1 DEF Wire!Init
<1>3. 1 .. Len(sent) = {} /\ 1 .. Len(arrived) = {}
  BY <1>1, <1>2
<1>4. SentCount = [n \in Nodes |-> 0]
  <2>1. \A n : FramesOf(n) = {}
    BY <1>3 DEF FramesOf
  <2> QED  BY <2>1, FS_EmptySet DEF SentCount
<1>5. \A g : FrameOf(g) = 0
  BY <1>3 DEF FrameOf
<1>6. SentAt = [f \in Names |-> 0] /\ UnderWay = [f \in Names |-> 0] /\ OfferedNames = {}
  BY <1>3, <1>5 DEF SentAt, UnderWay, OfferedNames
<1>7. Processed = [f \in Names |-> 0]
  <2>1. \A k, b : Copies(k, b) = 0
    <3>1. \A k, b : {j \in 1 .. Len(arrived) : arrived[j] = [frame |-> k, intact |-> b]} = {}
      BY <1>3
    <3> QED  BY <3>1, FS_EmptySet DEF Copies
  <2> QED  BY <2>1 DEF Processed
<1>8. LostNames = {}
  <2>1. Wire!Vanished = {}
    BY <1>2 DEF Wire!Vanished
  <2> QED  BY <2>1 DEF LostNames
<1>9. FirstHeard = [n \in Nodes |-> Never] /\ NewestHeard = [n \in Nodes |-> Never]
  <2>1. \A n : HeardAt(n) = {}
    BY <1>3 DEF HeardAt
  <2> QED  BY <2>1 DEF FirstHeard, NewestHeard
<1>10. S!Frame = Names /\ S!Never = Never
  BY DEF S!Frame, S!Index, Names, S!Never, Never
<1>11. S!CollectorInit
  BY <1>1 DEF CollectorInit, S!CollectorInit, Unheard, S!Unheard, Never, S!Never
<1>12. S!Link!Init
  BY <1>6, <1>7, <1>8, <1>10 DEF S!Link!Init
<1> QED
  BY <1>2, <1>4, <1>6, <1>9, <1>10, <1>11, <1>12 DEF S!Init, NoneRaised

\* Every step of the slice is a step of Station, or none.
LEMMA StepImplements ==
    ASSUME Facts, Facts', [Next]_vars
    PROVE  [S!Next]_(S!vars)
<1>1. CASE SendFrame
  <2>1. \E n \in Nodes : S!Emit(n)
    BY <1>1, SendImplements
  <2> QED  BY <2>1 DEF S!Next
<1>2. CASE SkipNode
  <2>1. UNCHANGED <<collectorVars, sent, link, now, arrived>>
    BY <1>2 DEF SkipNode
  <2>2. UNCHANGED <<S!collectorVars, S!nodeVars, S!linkVars, S!history>>
    BY <2>1, StillImplements
  <2> QED  BY <2>1, <2>2 DEF S!vars
<1>3. CASE ReceivePacket
  BY <1>3, ReceiveImplements DEF S!Next
<1>4. CASE EndRound
  <2>1. UNCHANGED <<collectorVars, sent, link, arrived>> /\ now' = now + 1
    BY <1>4 DEF EndRound
  <2>2. now < MaxTime
    BY <1>4, RoundEnds DEF Facts
  <2>3. UNCHANGED <<S!collectorVars, S!nodeVars, S!linkVars, S!history>>
    BY <2>1, StillImplements
  <2>4. S!Tick
    BY <2>1, <2>2, <2>3 DEF S!Tick
  <2> QED  BY <2>4 DEF S!Next
<1>5. CASE FlushLink
  BY <1>5, FlushImplements DEF S!Next
<1>6. CASE Close
  <2>1. UNCHANGED <<collectorVars, sent, link, now, arrived>>
    BY <1>6 DEF Close
  <2>2. UNCHANGED <<S!collectorVars, S!nodeVars, S!linkVars, S!history>>
    BY <2>1, StillImplements
  <2> QED  BY <2>1, <2>2 DEF S!vars
<1>7. CASE UNCHANGED vars
  <2>1. UNCHANGED <<collectorVars, sent, link, now, arrived>>
    BY <1>7 DEF vars
  <2>2. UNCHANGED <<S!collectorVars, S!nodeVars, S!linkVars, S!history>>
    BY <2>1, StillImplements
  <2> QED  BY <2>1, <2>2 DEF S!vars
<1> QED  BY <1>1, <1>2, <1>3, <1>4, <1>5, <1>6, <1>7 DEF Next

\* The slice behaves as the collector behind a lossy link.
LEMMA BehavesAsStation == Spec => S!Spec
<1>1. Facts /\ Facts' /\ [Next]_vars => [S!Next]_(S!vars)
  BY StepImplements
<1> QED  BY <1>1, InitImplements, FactsHold, PTL DEF Spec, S!Spec

-----------------------------------------------------------------------------
(* What is proved of Station holds of the slice. *)

\* Station has the same steps under both its names.
LEMMA SameStation ==
    /\ S!Init <=> Abstract!Init
    /\ S!Next <=> Abstract!Next
    /\ UNCHANGED S!vars <=> UNCHANGED Abstract!vars
<1>1. S!Frame = Abstract!Frame /\ S!Link!Single = Abstract!Link!Single /\ S!Never = Abstract!Never
  BY DEF S!Frame, Abstract!Frame, S!Index, Abstract!Index, S!Link!Single, Abstract!Link!Single,
         S!Never, Abstract!Never
<1>2. S!Init <=> Abstract!Init
  BY <1>1 DEF S!Init, Abstract!Init, S!CollectorInit, Abstract!CollectorInit, S!Unheard,
              Abstract!Unheard, S!Link!Init, Abstract!Link!Init
<1>3. UNCHANGED S!vars <=> UNCHANGED Abstract!vars
  BY DEF S!vars, Abstract!vars, S!collectorVars, Abstract!collectorVars, S!nodeVars,
         Abstract!nodeVars, S!linkVars, Abstract!linkVars, S!history, Abstract!history
<1>4. ASSUME NEW n PROVE S!Emit(n) <=> Abstract!Emit(n)
  <2>1. \A f : S!Link!Lose(f) <=> Abstract!Link!Lose(f)
    BY DEF S!Link!Lose, Abstract!Link!Lose
  <2>2. \A f, c, D : S!Link!Accept(f, c, D) <=> Abstract!Link!Accept(f, c, D)
    BY <1>1 DEF S!Link!Accept, Abstract!Link!Accept
  <2> QED
    BY <1>1, <2>1, <2>2
    DEF S!Emit, Abstract!Emit, S!collectorVars, Abstract!collectorVars, S!history, Abstract!history
<1>5. S!Duplicate <=> Abstract!Duplicate
  <2>1. \A D : S!Link!Double(D) <=> Abstract!Link!Double(D)
    BY <1>1 DEF S!Link!Double, Abstract!Link!Double
  <2> QED
    BY <1>1, <2>1 DEF S!Duplicate, Abstract!Duplicate, S!collectorVars, Abstract!collectorVars,
                      S!nodeVars, Abstract!nodeVars, S!history, Abstract!history
<1>6. ASSUME NEW f, NEW reached PROVE S!Arrive(f, reached) <=> Abstract!Arrive(f, reached)
  <2>1. S!Link!Take(f) <=> Abstract!Link!Take(f)
    BY DEF S!Link!Take, Abstract!Link!Take
  <2>2. S!PacketOf(f) = Abstract!PacketOf(f)
    BY DEF S!PacketOf, Abstract!PacketOf, S!SeqOf, Abstract!SeqOf, S!IsHeartbeat,
           Abstract!IsHeartbeat
  <2>3. ASSUME NEW p, NEW t PROVE S!Process(p, t, reached) <=> Abstract!Process(p, t, reached)
    <3>1. \A ns : S!Hear(ns, p, t) = Abstract!Hear(ns, p, t)
      BY DEF S!Hear, Abstract!Hear
    <3>2. \A a, s : S!Remember(a, s) = Abstract!Remember(a, s)
      BY DEF S!Remember, Abstract!Remember
    <3>3. \A ns : /\ S!IsFirst(ns) <=> Abstract!IsFirst(ns)
                  /\ S!IsDuplicate(ns, p) <=> Abstract!IsDuplicate(ns, p)
                  /\ S!IsForward(ns, p) <=> Abstract!IsForward(ns, p)
      BY DEF S!IsFirst, Abstract!IsFirst, S!IsDuplicate, Abstract!IsDuplicate, S!IsForward,
             Abstract!IsForward, S!Seen, Abstract!Seen, S!SeqDelta, Abstract!SeqDelta,
             S!SeqHalf, Abstract!SeqHalf
    <3>4. \A ns : /\ S!TrackFirst(ns, p) = Abstract!TrackFirst(ns, p)
                  /\ S!TrackDuplicate(ns) = Abstract!TrackDuplicate(ns)
                  /\ S!TrackLate(ns, p) = Abstract!TrackLate(ns, p)
      BY <3>2 DEF S!TrackFirst, Abstract!TrackFirst, S!TrackDuplicate, Abstract!TrackDuplicate,
                  S!TrackLate, Abstract!TrackLate
    <3>5. \A ns : S!TrackForward(ns, p) = Abstract!TrackForward(ns, p)
      BY <3>2 DEF S!TrackForward, Abstract!TrackForward, S!SeqDelta, Abstract!SeqDelta,
                  S!SeqHalf, Abstract!SeqHalf
    <3>6. \A ns : S!Track(ns, p, t) = Abstract!Track(ns, p, t)
      BY <3>1, <3>3, <3>4, <3>5 DEF S!Track, Abstract!Track
    <3> QED  BY <3>6 DEF S!Process, Abstract!Process
  <2> QED
    BY <1>1, <2>1, <2>2, <2>3 DEF S!Arrive, Abstract!Arrive, S!nodeVars, Abstract!nodeVars
<1>7. S!Tick <=> Abstract!Tick
  BY DEF S!Tick, Abstract!Tick, S!collectorVars, Abstract!collectorVars, S!nodeVars,
         Abstract!nodeVars, S!linkVars, Abstract!linkVars, S!history, Abstract!history
<1> QED  BY <1>1, <1>2, <1>3, <1>4, <1>5, <1>6, <1>7 DEF S!Next, Abstract!Next

\* For any number of nodes and packets, with or without heartbeats, and every configuration of
\* the link, the slice is the collector behind a lossy link: each step of run() is a step of
\* Station, or one it does not see.
THEOREM SliceImplementsStation == Spec => ImplementsStation
<1>1. S!Spec => Abstract!Spec
  <2>1. S!Init => Abstract!Init
    BY SameStation
  <2>2. [S!Next]_(S!vars) => [Abstract!Next]_(Abstract!vars)
    BY SameStation
  <2> QED  BY <2>1, <2>2, PTL DEF S!Spec, Abstract!Spec
<1> QED  BY <1>1, BehavesAsStation, PTL DEF ImplementsStation

-----------------------------------------------------------------------------
(* The losses the records show are losses the link inflicted. *)

\* The constants of the slice meet the assumptions of Station's modules.
LEMMA StationApplies ==
    /\ S!StartAssumption /\ S!NodeAssumption /\ S!StationBounds /\ S!SessionAssumption
    /\ S!SeqModAssumption /\ S!NodesAssumption /\ S!SeenWindowAssumption
    /\ S!StaleAfterAssumption /\ S!SinkAssumption
<1>1. S!Seqs = Seqs /\ S!SeqHalf = SeqHalf /\ S!IsFiniteSet(Nodes) = IsFiniteSet(Nodes)
  BY DEF S!Seqs, Seqs, S!SeqHalf, SeqHalf, S!IsFiniteSet, IsFiniteSet
<1>2. 0 \in Seqs
  BY SeqModAssumption DEF Seqs
<1>3. S!StartAssumption
  BY <1>1, <1>2 DEF S!StartAssumption
<1>4. S!NodeAssumption /\ S!StationBounds
  BY Constants DEF S!NodeAssumption, S!StationBounds
<1>5. S!SessionAssumption
  BY <1>1, SessionAssumption DEF S!SessionAssumption
<1>6. S!SeqModAssumption
  BY SeqModAssumption DEF S!SeqModAssumption
<1>7. S!NodesAssumption
  BY <1>1, NodesAssumption DEF S!NodesAssumption
<1>8. S!SeenWindowAssumption /\ S!StaleAfterAssumption /\ S!SinkAssumption
  BY SeenWindowAssumption, StaleAfterAssumption, SinkAssumption
  DEF S!SeenWindowAssumption, S!StaleAfterAssumption, S!SinkAssumption
<1> QED  BY <1>3, <1>4, <1>5, <1>6, <1>7, <1>8

\* What is proved of the collector behind a lossy link.
StationFacts == S!TypeOK /\ S!LossNeverOverstated

\* It holds of the collector of the slice.
LEMMA StationHolds == Spec => []StationFacts
<1>1. S!Spec => []S!TypeOK
  BY StationApplies, S!TypeCorrect
<1>2. S!Spec => []S!LossNeverOverstated
  BY StationApplies, S!NoPhantomLoss
<1> QED  BY <1>1, <1>2, BehavesAsStation, PTL DEF StationFacts

\* The link's counters tell what it damaged.
LEMMA DamageTold == Spec => []W!Truth
<1>1. W!Spec => []W!Truth
  BY LinkApplies, W!TruthHolds
<1> QED  BY <1>1, DrivesLink, PTL

\* A node's frames are numbered without gaps.
LEMMA NoIndexSkipped ==
    ASSUME sent \in Seq(SentFrame), NEW n, NEW i \in 0 .. Cardinality(FramesOf(n)) - 1
    PROVE  \E k \in 1 .. Len(sent) : Name(k) = <<n, i>>
<1> DEFINE F == FramesOf(n)
           I == 0 .. Cardinality(F) - 1
           index == [k \in F |-> IndexOf(k)]
<1>1. /\ IsFiniteSet(F) /\ Cardinality(F) \in Nat /\ F \subseteq 1 .. Len(sent)
      /\ \A k \in F : sent[k].node = n
  BY Indices DEF FramesOf
<1>2. \A k \in F : IndexOf(k) \in I
  <2>1. \A k \in 1 .. Len(sent) : /\ IndexOf(k) \in Nat
                                  /\ IndexOf(k) < Cardinality(FramesOf(sent[k].node))
    BY Indices
  <2> QED  BY <1>1, <2>1
<1>3. \A j, k \in F : IndexOf(j) = IndexOf(k) => j = k
  <2>1. \A j, k \in 1 .. Len(sent) : Name(j) = Name(k) => j = k
    BY Indices
  <2> QED  BY <1>1, <2>1 DEF Name
<1>4. IsFiniteSet(I) /\ Cardinality(I) = Cardinality(F)
  <2>1. Cardinality(F) - 1 \in Int
    BY <1>1
  <2>2. IsFiniteSet(I) /\ Cardinality(I) = IF 0 > Cardinality(F) - 1 THEN 0
                                           ELSE Cardinality(F) - 1 - 0 + 1
    BY <2>1, FS_Interval
  <2> QED  BY <1>1, <2>2
<1> HIDE DEF F, I
<1>5. index \in Injection(F, I)
  BY <1>2, <1>3 DEF Injection, IsInjective
<1>6. index \in Surjection(F, I)
  BY <1>4, <1>5, FS_Injection
<1>7. PICK k \in F : index[k] = i
  <2>1. i \in I
    BY DEF F, I
  <2> QED  BY <1>6, <2>1 DEF Surjection
<1>8. k \in 1 .. Len(sent) /\ sent[k].node = n /\ IndexOf(k) = i
  BY <1>1, <1>7
<1> QED  BY <1>8 DEF Name

\* A frame of which no intact copy has arrived is lost, under way, or damaged.
LEMMA WhyUnheard ==
    ASSUME Facts, W!Truth, NEW k \in 1 .. Len(sent), Good(k) = 0
    PROVE  k \in W!Vanished \union Waits \union W!BadIn(W!Out)
<1>1. W!Received(k) = Good(k) + Bad(k) /\ Good(k) \in Nat /\ Bad(k) \in Nat
  BY Kinds
<1>2. W!Waiting(k) \in Nat /\ link.offered = Len(sent) /\ k \in W!Frame
  BY Arrivals
<1>3. CASE Bad(k) = 0 /\ W!Waiting(k) = 0
  <2>1. W!Waiting(k) + W!Received(k) = 0
    BY <1>1, <1>3
  <2> QED  BY <1>2, <2>1 DEF W!Vanished
<1>4. CASE Bad(k) = 0 /\ W!Waiting(k) # 0
  <2>1. W!Waiting(k) > 0 /\ W!Received(k) = 0
    BY <1>1, <1>2, <1>4
  <2> QED  BY <2>1, SamePlaces DEF Waits
<1>5. CASE Bad(k) # 0
  <2>1. At({[frame |-> k, intact |-> FALSE]}) # {}
    <3>1. Bad(k) = Cardinality(At({[frame |-> k, intact |-> FALSE]}))
      BY CopiesAt DEF Bad
    <3> QED  BY <1>5, <3>1, FS_EmptySet
  <2>2. PICK j \in 1 .. Len(arrived) : arrived[j] = W!Bad(k)
    BY <2>1 DEF At, W!Bad
  <2>3. W!Bad(k) \in W!Range(arrived)
    <3>1. j \in DOMAIN arrived
      BY <2>2, Arrivals, LenProperties
    <3> QED  BY <2>2, <3>1 DEF W!Range
  <2> QED  BY <1>2, <2>3 DEF W!BadIn, W!Out
<1> QED  BY <1>3, <1>4, <1>5

\* A frame missing between the first and the newest one heard of its node was sent, and no
\* intact copy of it has arrived.
LEMMA GapIsUnheard ==
    ASSUME Facts, NEW n \in Nodes, NEW i \in S!Gaps(n)
    PROVE  /\ FrameOf(<<n, i>>) \in 1 .. Len(sent) /\ Name(FrameOf(<<n, i>>)) = <<n, i>>
           /\ Good(FrameOf(<<n, i>>)) = 0
<1>1. /\ i \in 0 .. FramesPerNode - 1 /\ FirstHeard[n] <= i /\ i <= NewestHeard[n]
      /\ Processed[<<n, i>>] = 0
  BY DEF S!Gaps, S!Index
<1>2. HeardAt(n) # {}
  BY <1>1 DEF NewestHeard, Never
<1> DEFINE A == {IndexOf(arrived[j].frame) : j \in HeardAt(n)}
<1>3. NewestHeard[n] \in A
  <2>1. A \in SUBSET (0 .. FramesPerNode) /\ A # {}
    BY <1>2, HeardTypes
  <2>2. NewestHeard[n] = Max(A)
    BY <1>2 DEF NewestHeard
  <2> HIDE DEF A
  <2> QED  BY <2>1, <2>2, Constants, FirstAndLast
<1>4. PICK j \in HeardAt(n) : NewestHeard[n] = IndexOf(arrived[j].frame)
  BY <1>3
<1> DEFINE m == arrived[j].frame
<1>5. m \in 1 .. Len(sent) /\ sent[m].node = n /\ IndexOf(m) = NewestHeard[n]
  BY <1>4, HeardTypes DEF HeardAt
<1> HIDE DEF m
<1>6. sent \in Seq(SentFrame)
  BY Arrivals
<1>7. /\ IndexOf(m) \in Nat /\ IndexOf(m) < Cardinality(FramesOf(n))
      /\ Cardinality(FramesOf(n)) \in Nat
  BY <1>5, <1>6, Indices
<1>8. i \in 0 .. Cardinality(FramesOf(n)) - 1
  <2>1. i \in Nat
    BY <1>1
  <2> QED  BY <1>1, <1>5, <1>7, <2>1
<1>9. PICK k \in 1 .. Len(sent) : Name(k) = <<n, i>>
  BY <1>6, <1>8, NoIndexSkipped
<1>10. FrameOf(<<n, i>>) = k
  BY <1>6, <1>9, FrameOfName
<1>11. Processed[<<n, i>>] = Good(k)
  <2>1. <<n, i>> \in Names
    BY <1>1 DEF Names
  <2> QED  BY <1>10, <2>1, ProcessedIs
<1> QED  BY <1>1, <1>9, <1>10, <1>11

\* What the link lost, has under way and damaged, counted.
LEMMA TroubleCounted ==
    ASSUME Facts, W!Truth
    PROVE  LET T == W!Vanished \union Waits \union W!BadIn(W!Out)
           IN  /\ IsFiniteSet(T)
               /\ Cardinality(T) <= link.dropped + link.corrupted + Cardinality(Waits)
<1> DEFINE D == W!Vanished
           B == W!BadIn(W!Out)
<1>1. link.dropped = Cardinality(D)
  BY SameCounting DEF Facts, LinkFacts, W!CountersTell
<1>2. link.corrupted = Cardinality(B)
  BY SameCounting DEF W!Truth, W!Told
<1>3. IsFiniteSet(D)
  <2>1. D \in SUBSET (1 .. link.offered) /\ link.offered \in Int
    BY Arrivals DEF W!Vanished
  <2>2. IsFiniteSet(1 .. link.offered)
    BY <2>1, FS_Interval
  <2> QED  BY <2>1, <2>2, FS_Subset
<1>4. IsFiniteSet(B)
  <2>1. B \in SUBSET (1 .. MaxFrames)
    BY DEF W!BadIn, W!Frame
  <2>2. IsFiniteSet(1 .. MaxFrames)
    BY Constants, FS_Interval
  <2> QED  BY <2>1, <2>2, FS_Subset
<1>5. IsFiniteSet(Waits)
  <2>1. Waits \in SUBSET (1 .. Len(sent))
    BY DEF Waits
  <2> QED  BY <2>1, Arrivals, SomeFrames
<1> HIDE DEF D, B
<1>6. /\ Cardinality(D) \in Nat /\ Cardinality(B) \in Nat /\ Cardinality(Waits) \in Nat
  BY <1>3, <1>4, <1>5, FS_CardinalityType
<1>7. /\ IsFiniteSet(D \union Waits)
      /\ Cardinality(D \union Waits) <= Cardinality(D) + Cardinality(Waits)
  <2>1. /\ IsFiniteSet(D \union Waits)
        /\ Cardinality(D \union Waits)
              = Cardinality(D) + Cardinality(Waits) - Cardinality(D \intersect Waits)
    BY <1>3, <1>5, FS_Union
  <2>2. Cardinality(D \intersect Waits) \in Nat
    BY <1>3, FS_Intersection, FS_CardinalityType
  <2> QED  BY <1>6, <2>1, <2>2
<1>8. Cardinality(D \union Waits) \in Nat
  BY <1>7, FS_CardinalityType
<1> DEFINE E == D \union Waits
<1>9. /\ IsFiniteSet(E) /\ Cardinality(E) \in Nat
      /\ Cardinality(E) <= Cardinality(D) + Cardinality(Waits)
  BY <1>7, <1>8
<1> HIDE DEF E
<1>10. /\ IsFiniteSet(E \union B)
       /\ Cardinality(E \union B) = Cardinality(E) + Cardinality(B) - Cardinality(E \intersect B)
  BY <1>4, <1>9, FS_Union
<1>11. Cardinality(E \intersect B) \in Nat
  BY <1>9, FS_Intersection, FS_CardinalityType
<1>12. Cardinality(E \union B) <= Cardinality(D) + Cardinality(B) + Cardinality(Waits)
  BY <1>6, <1>9, <1>10, <1>11
<1> QED  BY <1>1, <1>2, <1>10, <1>12 DEF D, B, E

\* For any number of nodes and packets and every configuration of the link, the frames the
\* records of all nodes call lost are at most those the link dropped, damaged or still has: the
\* losses are the link's, at every moment of the run (collector.py:124-140).
THEOREM LossesAreTheLinks == Spec => []LossIsReal
<1>1. Facts /\ W!Truth /\ StationFacts => LossIsReal
  <2> SUFFICES ASSUME Facts, W!Truth, StationFacts PROVE LossIsReal
    OBVIOUS
  <2> DEFINE lost == [n \in Nodes |-> nodes[n].lost]
             U == 0 .. FramesPerNode - 1
             A == [n \in Nodes |-> S!Gaps(n)]
             T == W!Vanished \union Waits \union W!BadIn(W!Out)
             P == Pairs(A, Nodes)
             frame == [p \in P |-> FrameOf(p)]
  <2>1. IsFiniteSet(T) /\ Cardinality(T) <= link.dropped + link.corrupted + Cardinality(Waits)
    BY TroubleCounted
  <2>2. lost \in [Nodes -> Nat]
    <3>1. nodes \in [Nodes -> S!NodeStats]
      BY DEF StationFacts, S!TypeOK, S!CollectorTypeOK
    <3> QED  BY <3>1 DEF S!NodeStats
  <2>3. A \in [Nodes -> SUBSET U]
    <3>1. \A n \in Nodes : S!Gaps(n) \in SUBSET U
      BY DEF S!Gaps, S!Index
    <3> QED  BY <3>1
  <2>4. \A n \in Nodes : IsFiniteSet(A[n]) /\ lost[n] <= Cardinality(A[n])
    <3> SUFFICES ASSUME NEW n \in Nodes
                 PROVE  IsFiniteSet(S!Gaps(n)) /\ nodes[n].lost <= Cardinality(S!Gaps(n))
      OBVIOUS
    <3>1. IsFiniteSet(U)
      <4>1. FramesPerNode - 1 \in Int
        BY Constants
      <4> QED  BY <4>1, FS_Interval
    <3>2. S!Gaps(n) \in SUBSET U
      BY DEF S!Gaps, S!Index
    <3>3. IsFiniteSet(S!Gaps(n))
      <4> HIDE DEF U
      <4> QED  BY <3>1, <3>2, FS_Subset
    <3>4. \A X : S!Cardinality(X) = Cardinality(X)
      BY DEF S!Cardinality, Cardinality
    <3>5. nodes[n].lost <= Cardinality(S!Gaps(n))
      BY <3>4 DEF StationFacts, S!LossNeverOverstated
    <3> QED  BY <3>3, <3>5
  <2>5. IsFiniteSet(Nodes)
    BY NodesAssumption
  <2>6. \A p \in P : /\ FrameOf(p) \in T
                     /\ Name(FrameOf(p)) = p
    <3> SUFFICES ASSUME NEW p \in P PROVE FrameOf(p) \in T /\ Name(FrameOf(p)) = p
      OBVIOUS
    <3>1. p[1] \in Nodes /\ p[2] \in S!Gaps(p[1]) /\ p = <<p[1], p[2]>>
      BY DEF Pairs
    <3>2. /\ FrameOf(p) \in 1 .. Len(sent) /\ Name(FrameOf(p)) = p
          /\ Good(FrameOf(p)) = 0
      <4> DEFINE n == p[1]
                 i == p[2]
      <4>1. n \in Nodes /\ i \in S!Gaps(n) /\ p = <<n, i>>
        BY <3>1
      <4> HIDE DEF n, i
      <4> QED  BY <4>1, GapIsUnheard
    <3>3. FrameOf(p) \in T
      BY <3>2, WhyUnheard
    <3> QED  BY <3>2, <3>3
  <2> HIDE DEF lost, U, A, T
  <2>7. IsFiniteSet(P) /\ SumFunction(lost) <= Cardinality(P)
    BY <2>2, <2>3, <2>4, <2>5, SumAtMostPairs
  <2>8. frame \in Injection(P, T)
    BY <2>6 DEF Injection, IsInjective
  <2>9. Cardinality(P) <= Cardinality(T)
    <3> HIDE DEF P, frame
    <3> QED  BY <2>1, <2>8, FS_Injection
  <2>10. SumFunction(lost) \in Nat /\ Cardinality(P) \in Nat /\ Cardinality(T) \in Nat
    <3> HIDE DEF P
    <3> QED  BY <2>1, <2>2, <2>5, <2>7, SumType, FS_CardinalityType
  <2>11. link.dropped + link.corrupted + Cardinality(Waits) \in Int
    <3>1. link \in W!LinkType
      BY DEF Facts, LinkFacts, W!TypeOK
    <3>2. link.dropped \in Nat /\ link.corrupted \in Nat
      BY <3>1, LinkApplies, W!FieldTypes
    <3>3. Cardinality(Waits) \in Nat
      <4>1. Waits \in SUBSET (1 .. Len(sent))
        BY DEF Waits
      <4> QED  BY <4>1, Arrivals, SomeFrames
    <3> QED  BY <3>2, <3>3
  <2>12. SumFunction(lost) <= link.dropped + link.corrupted + Cardinality(Waits)
    <3> DEFINE a == SumFunction(lost)
               b == Cardinality(P)
               c == Cardinality(T)
               d == link.dropped + link.corrupted + Cardinality(Waits)
    <3>1. a \in Int /\ b \in Int /\ c \in Int /\ d \in Int /\ a <= b /\ b <= c /\ c <= d
      BY <2>1, <2>7, <2>9, <2>10, <2>11
    <3> HIDE DEF a, b, c, d
    <3>2. a <= d
      BY <3>1
    <3> QED  BY <3>2 DEF a, d
  <2> QED  BY <2>12 DEF LossIsReal, lost
<1> QED  BY <1>1, FactsHold, DamageTold, StationHolds, PTL

-----------------------------------------------------------------------------
(* The duplicates and the damage the records show are the link's. *)

\* Where copies of frame f have arrived, damaged or not.
PlacesOf(f) == {j \in 1 .. Len(arrived) : arrived[j].frame = f}

\* The frames of which the link made a second copy.
Doubled == {f \in W!Frame : W!Waiting(f) + W!Received(f) = 2}

\* A frame that has arrived twice was doubled, and none arrives more often.
LEMMA ArrivedTwice ==
    ASSUME Facts
    PROVE  /\ IsFiniteSet(Doubled) /\ Cardinality(Doubled) = link.duplicated
           /\ \A i, j, l \in 1 .. Len(arrived) :
                 arrived[i].frame = arrived[j].frame /\ arrived[j].frame = arrived[l].frame
                 => i = j \/ j = l \/ i = l
           /\ \A i, j \in 1 .. Len(arrived) :
                 i # j /\ arrived[i].frame = arrived[j].frame => arrived[i].frame \in Doubled
           /\ \A f \in W!Frame :
                 W!Received(f) = 2 => \E i, j \in 1 .. Len(arrived) :
                    i # j /\ arrived[i].frame = f /\ arrived[j].frame = f
<1>1. W!TypeOK /\ W!Counted /\ W!CountersTell /\ MaxFrames \in Nat
  BY Constants DEF Facts, LinkFacts
<1>2. /\ \A f \in W!Frame : W!Waiting(f) \in Nat /\ W!Received(f) \in Nat
      /\ \A f \in W!Frame : W!Waiting(f) + W!Received(f) <= 2
  BY <1>1, LinkApplies, W!PlaceTypes
<1>3. /\ Len(arrived) \in Nat
      /\ \A j \in 1 .. Len(arrived) : arrived[j].frame \in W!Frame
  <2>1. \A j \in 1 .. Len(arrived) : arrived[j].frame \in 1 .. Len(sent)
    BY Arrivals
  <2> QED  BY <2>1, Arrivals
<1>4. ASSUME NEW f PROVE IsFiniteSet(PlacesOf(f)) /\ W!Received(f) = Cardinality(PlacesOf(f))
  <2> DEFINE frames == [i \in 1 .. Len(arrived) |-> arrived[i].frame]
  <2>1. Len(frames) = Len(arrived)
    BY <1>3
  <2>2. {i \in 1 .. Len(frames) : frames[i] = f} = PlacesOf(f)
    BY <2>1 DEF PlacesOf
  <2>3. W!Received(f) = Cardinality({i \in 1 .. Len(frames) : frames[i] = f})
    BY SameCounting DEF W!Received, W!CountOf, W!ArrivedFrames
  <2>4. PlacesOf(f) \in SUBSET (1 .. Len(arrived)) /\ IsFiniteSet(1 .. Len(arrived))
    BY <1>3, FS_Interval DEF PlacesOf
  <2>5. IsFiniteSet(PlacesOf(f))
    BY <2>4, FS_Subset
  <2> QED  BY <2>2, <2>3, <2>5
<1>5. IsFiniteSet(Doubled) /\ Cardinality(Doubled) = link.duplicated
  <2>1. Doubled \in SUBSET (1 .. MaxFrames) /\ IsFiniteSet(1 .. MaxFrames)
    BY <1>1, FS_Interval DEF Doubled, W!Frame
  <2>2. Cardinality(Doubled) = link.duplicated
    BY <1>1, SameCounting DEF W!CountersTell, Doubled
  <2> QED  BY <2>1, <2>2, FS_Subset
<1>6. ASSUME NEW i \in 1 .. Len(arrived), NEW j \in 1 .. Len(arrived),
             NEW l \in 1 .. Len(arrived),
             arrived[i].frame = arrived[j].frame, arrived[j].frame = arrived[l].frame
      PROVE  i = j \/ j = l \/ i = l
  <2> DEFINE f == arrived[i].frame
             P == PlacesOf(f)
  <2>1. f \in W!Frame /\ i \in P /\ j \in P /\ l \in P
    BY <1>3, <1>6 DEF PlacesOf
  <2> HIDE DEF f
  <2>2. IsFiniteSet(P) /\ Cardinality(P) \in Nat /\ W!Received(f) = Cardinality(P)
    BY <1>4, FS_CardinalityType
  <2>3. Cardinality(P) <= 2
    BY <1>2, <2>1, <2>2
  <2> HIDE DEF P
  <2> QED  BY <2>1, <2>2, <2>3, NoThird
<1>7. ASSUME NEW i \in 1 .. Len(arrived), NEW j \in 1 .. Len(arrived), i # j,
             arrived[i].frame = arrived[j].frame
      PROVE  arrived[i].frame \in Doubled
  <2> DEFINE f == arrived[i].frame
  <2>1. f \in W!Frame /\ i \in PlacesOf(f) /\ j \in PlacesOf(f)
    BY <1>3, <1>7 DEF PlacesOf
  <2> HIDE DEF f
  <2>2. Cardinality(PlacesOf(f)) >= 2
    BY <1>4, <1>7, <2>1, TwoOf
  <2>3. W!Received(f) >= 2
    BY <1>4, <2>2
  <2>4. W!Waiting(f) + W!Received(f) = 2
    BY <1>2, <2>1, <2>3
  <2> QED  BY <2>1, <2>4 DEF Doubled, f
<1>8. ASSUME NEW f \in W!Frame, W!Received(f) = 2
      PROVE  \E i, j \in 1 .. Len(arrived) :
                i # j /\ arrived[i].frame = f /\ arrived[j].frame = f
  <2>1. Cardinality(PlacesOf(f)) >= 2
    BY <1>4, <1>8
  <2>2. \E i, j \in PlacesOf(f) : i # j
    BY <1>4, <2>1, TwoOf
  <2> QED  BY <2>2 DEF PlacesOf
<1> QED  BY <1>5, <1>6, <1>7, <1>8

\* When the slice has ended, nothing is left in the link.
LEMMA AllOut ==
    ASSUME Facts, W!Truth, pc = "closed"
    PROVE  /\ W!Out = W!Range(arrived)
           /\ \A f \in W!Frame : W!Waiting(f) = 0
<1>1. ~W!Backlog /\ link.inner = <<>>
  BY DEF Facts, Books, Drained
<1>2. link.held = W!None /\ link.scheduled = <<>>
  BY <1>1 DEF W!Backlog
<1>3. W!Carried(link) = {}
  BY <1>1, <1>2 DEF W!Carried, W!Range
<1>4. W!InnerFrames = <<>> /\ W!ScheduledFrames = <<>>
  BY <1>1, <1>2 DEF W!InnerFrames, W!ScheduledFrames
<1>5. \A f : W!CountOf(f, <<>>) = 0
  <2> SUFFICES ASSUME NEW f PROVE W!CountOf(f, <<>>) = 0
    OBVIOUS
  <2>1. {i \in 1 .. Len(<<>>) : <<>>[i] = f} = {}
    OBVIOUS
  <2>2. W!CountOf(f, <<>>) = Cardinality({i \in 1 .. Len(<<>>) : <<>>[i] = f})
    BY SameCounting DEF W!CountOf
  <2> QED  BY <2>1, <2>2, FS_EmptySet
<1>6. \A f \in W!Frame : link.held # f
  BY <1>2 DEF W!None, W!Frame
<1>7. \A f \in W!Frame : W!Waiting(f) = 0
  BY <1>4, <1>5, <1>6 DEF W!Waiting
<1> QED  BY <1>3, <1>7 DEF W!Out

\* At the end each damaged frame has been rejected, once per copy, and no other.
LEMMA CrcErrorsAre ==
    ASSUME Facts, W!Truth, pc = "closed"
    PROVE  /\ receiver.crc_errors = Cardinality(Rejected)
           /\ Cardinality({arrived[j].frame : j \in Rejected}) = link.corrupted
           /\ \A j \in Rejected, k \in 1 .. Len(arrived) :
                 arrived[k].frame = arrived[j].frame => k \in Rejected
           /\ config.duplicate = {FALSE} => receiver.crc_errors = link.corrupted
<1> DEFINE X == At(Damaged)
           g == [j \in 1 .. Len(arrived) |-> arrived[j].frame]
           B == W!BadIn(W!Out)
<1>1. /\ Len(arrived) \in Nat
      /\ \A j \in 1 .. Len(arrived) : arrived[j] \in W!Copy /\ arrived[j].intact \in BOOLEAN
  BY Arrivals
<1>2. X \in SUBSET (1 .. Len(arrived)) /\ X \in SUBSET Nat /\ IsFiniteSet(X)
  <2>1. X \in SUBSET (1 .. Len(arrived)) /\ X \in SUBSET Nat
    BY DEF At
  <2>2. IsFiniteSet(1 .. Len(arrived))
    BY <1>1, FS_Interval
  <2> HIDE DEF X
  <2> QED  BY <2>1, <2>2, FS_Subset
<1>3. receiver.crc_errors = Cardinality(X)
  BY DEF Facts, Books
<1>4. Labels(g, X) = B
  <2>1. \A j \in X : arrived[j] = W!Bad(arrived[j].frame) /\ arrived[j].frame \in W!Frame
    <3> SUFFICES ASSUME NEW j \in X
                 PROVE  arrived[j] = W!Bad(arrived[j].frame) /\ arrived[j].frame \in W!Frame
      OBVIOUS
    <3>1. arrived[j] \in [frame : W!Frame, intact : BOOLEAN] /\ ~arrived[j].intact
      BY DEF At, Damaged, W!Copy
    <3>2. arrived[j].intact = FALSE
      BY <3>1
    <3>3. arrived[j] = [frame |-> arrived[j].frame, intact |-> arrived[j].intact]
      BY <3>1
    <3> QED  BY <3>1, <3>2, <3>3 DEF W!Bad
  <2>2. \A j \in X : arrived[j].frame \in B
    <3> SUFFICES ASSUME NEW j \in X PROVE arrived[j].frame \in B
      OBVIOUS
    <3>1. arrived[j] \in W!Range(arrived)
      <4>1. j \in DOMAIN arrived
        BY <1>2, Arrivals, LenProperties
      <4> QED  BY <4>1 DEF W!Range
    <3> QED  BY <2>1, <3>1, AllOut DEF W!BadIn
  <2>3. \A f \in B : \E j \in X : arrived[j].frame = f
    <3> SUFFICES ASSUME NEW f \in B PROVE \E j \in X : arrived[j].frame = f
      OBVIOUS
    <3>1. f \in W!Frame /\ W!Bad(f) \in W!Range(arrived)
      BY AllOut DEF W!BadIn
    <3>2. PICK j \in DOMAIN arrived : arrived[j] = W!Bad(f)
      BY <3>1 DEF W!Range
    <3>3. j \in 1 .. Len(arrived)
      BY <3>2, Arrivals, LenProperties
    <3>4. arrived[j].frame = f /\ arrived[j] \in Damaged
      <4>1. arrived[j] \in W!Copy
        BY <1>1, <3>3
      <4>2. W!Bad(f).frame = f /\ ~W!Bad(f).intact
        BY DEF W!Bad
      <4> QED  BY <3>2, <4>1, <4>2 DEF Damaged
    <3> QED  BY <3>3, <3>4 DEF At
  <2>4. \A j \in X : g[j] = arrived[j].frame
    BY <1>2
  <2> HIDE DEF X, g, B
  <2> QED  BY <2>2, <2>3, <2>4 DEF Labels
<1>5. \A i, j, l \in X : g[i] = g[j] /\ g[j] = g[l] => i = j \/ j = l \/ i = l
  <2>1. \A i \in X : i \in 1 .. Len(arrived) /\ g[i] = arrived[i].frame
    BY <1>2
  <2> HIDE DEF X, g
  <2> QED  BY <2>1, ArrivedTwice
<1>6. TwiceLabels(g, X) \in SUBSET Doubled
  <2>1. \A i \in X : i \in 1 .. Len(arrived) /\ g[i] = arrived[i].frame
    BY <1>2
  <2> HIDE DEF X, g
  <2> QED  BY <2>1, ArrivedTwice DEF TwiceLabels
<1>7. link.corrupted = Cardinality(B)
  BY SameCounting DEF W!Truth, W!Told
<1> HIDE DEF X, g, B
<1>8. /\ Cardinality(B) \in Nat /\ Cardinality(TwiceLabels(g, X)) \in Nat
      /\ Cardinality(X) = Cardinality(B) + Cardinality(TwiceLabels(g, X))
  BY <1>2, <1>4, <1>5, LabelsCounted
<1>9. /\ Cardinality(TwiceLabels(g, X)) <= link.duplicated /\ link.duplicated \in Nat
  <2>1. IsFiniteSet(Doubled) /\ Cardinality(Doubled) = link.duplicated
    BY ArrivedTwice
  <2> QED  BY <1>6, <2>1, FS_Subset, FS_CardinalityType
<1>10. config.duplicate = {FALSE} => link.duplicated = 0
  <2>1. link.duplicated > 0 => TRUE \in config.duplicate
    BY DEF W!Truth, W!Told, W!Knobs
  <2> QED  BY <1>9, <2>1
<1>11. ASSUME config.duplicate = {FALSE} PROVE receiver.crc_errors = link.corrupted
  <2>1. Cardinality(TwiceLabels(g, X)) = 0
    BY <1>8, <1>9, <1>10, <1>11
  <2> QED  BY <1>3, <1>7, <1>8, <2>1
<1>12. X = Rejected
  <2>1. \A j \in 1 .. Len(arrived) : arrived[j] \in Damaged <=> ~arrived[j].intact
    BY <1>1 DEF Damaged
  <2> QED  BY <2>1 DEF At, Rejected, X
<1>13. {arrived[j].frame : j \in X} = B
  <2>1. \A j \in X : g[j] = arrived[j].frame
    BY <1>2 DEF g
  <2> QED  BY <1>4, <2>1 DEF Labels
<1>14. ASSUME NEW j \in Rejected, NEW k \in 1 .. Len(arrived), arrived[k].frame = arrived[j].frame
       PROVE  k \in Rejected
  <2>1. j \in 1 .. Len(arrived) /\ ~arrived[j].intact
    BY DEF Rejected
  <2>2. arrived[j] \in W!Out /\ arrived[k] \in W!Out
    <3>1. j \in DOMAIN arrived /\ k \in DOMAIN arrived
      BY <2>1, Arrivals, LenProperties
    <3> QED  BY <3>1, AllOut DEF W!Range
  <2>3. arrived[k] = arrived[j]
    BY <1>14, <2>2 DEF W!Truth, W!Told
  <2> QED  BY <2>1, <2>3 DEF Rejected
<1> QED  BY <1>3, <1>7, <1>11, <1>12, <1>13, <1>14

\* Whatever a packet is, tracking it adds one packet to the record.
LEMMA TrackAddsPacket ==
    ASSUME NEW ns \in NodeStats, NEW p, NEW t
    PROVE  Track(ns, p, t).packets = ns.packets + 1
<1> DEFINE h == Hear(ns, p, t)
<1>1. h.packets = ns.packets + 1
  BY DEF Hear, NodeStats
<1>2. Track(ns, p, t) = IF IsFirst(ns) THEN TrackFirst(h, p)
                        ELSE IF IsDuplicate(ns, p) THEN TrackDuplicate(h)
                        ELSE IF IsForward(ns, p) THEN TrackForward(h, p)
                        ELSE TrackLate(h, p)
  BY DEF Track
<1>3. "packets" \in DOMAIN h
  BY DEF Hear, NodeStats
<1> HIDE DEF h
<1>4. /\ TrackFirst(h, p).packets = h.packets /\ TrackDuplicate(h).packets = h.packets
      /\ TrackForward(h, p).packets = h.packets /\ TrackLate(h, p).packets = h.packets
  BY <1>3 DEF TrackFirst, TrackDuplicate, TrackForward, TrackLate
<1> QED  BY <1>1, <1>2, <1>4

\* A record counts each intact copy of its node's frames once.
PacketsHeard == \A n \in Nodes : nodes[n].packets = Cardinality(HeardAt(n))

\* No record has counted anything yet.
LEMMA InitPackets == Init => PacketsHeard
<1> SUFFICES ASSUME Init, NEW n \in Nodes PROVE nodes[n].packets = Cardinality(HeardAt(n))
  BY DEF PacketsHeard
<1>1. nodes[n].packets = 0
  BY DEF Init, CollectorInit, Unheard
<1>2. arrived = <<>>
  BY DEF Init, Wire!Init
<1>3. HeardAt(n) = {}
  BY <1>2 DEF HeardAt
<1> QED  BY <1>1, <1>3, FS_EmptySet

\* The records and what has been heard stay as they are.
LEMMA StillPackets ==
    ASSUME Facts, PacketsHeard, arrived' = arrived, nodes' = nodes,
           \A k \in 1 .. Len(sent) : sent'[k] = sent[k]
    PROVE  PacketsHeard'
<1>1. \A n : HeardAt(n)' = HeardAt(n)
  BY Arrivals DEF HeardAt
<1> QED  BY <1>1 DEF PacketsHeard

\* A copy that comes off the link is in its node's record if it is intact.
LEMMA ReceivePackets ==
    ASSUME Facts, StationFacts, PacketsHeard, ReceivePacket
    PROVE  PacketsHeard'
<1>1. W!TypeOK /\ W!Recv /\ sent' = sent
  BY SameActions DEF ReceivePacket, Facts, LinkFacts
<1>2. PICK c \in W!Copy : arrived' = Append(arrived, c)
  BY <1>1, LinkApplies, W!RecvTakes
<1> DEFINE new == Len(arrived) + 1
<1>3. /\ Len(arrived) \in Nat /\ Len(arrived') = new /\ arrived'[new] = c
      /\ \A j \in 1 .. Len(arrived) : arrived'[j] = arrived[j]
  BY <1>2, Arrivals, ArrivalsGrow
<1>4. 1 .. new = (1 .. Len(arrived)) \union {new} /\ new \notin 1 .. Len(arrived)
  BY <1>3
<1>5. \A n : HeardAt(n)' = HeardAt(n) \union (IF c.intact /\ sent[c.frame].node = n
                                             THEN {new} ELSE {})
  BY <1>1, <1>3, <1>4 DEF HeardAt
<1>6. \A n : /\ HeardAt(n) \in SUBSET (1 .. Len(arrived))
             /\ IsFiniteSet(HeardAt(n)) /\ Cardinality(HeardAt(n)) \in Nat
  <2>1. \A n : HeardAt(n) \in SUBSET (1 .. Len(arrived))
    BY DEF HeardAt
  <2>2. IsFiniteSet(1 .. Len(arrived))
    BY <1>3, FS_Interval
  <2> QED  BY <2>1, <2>2, FS_Subset, FS_CardinalityType
<1>7. nodes \in [Nodes -> NodeStats]
  <2>1. S!NodeStats = NodeStats
    BY DEF S!NodeStats, NodeStats, S!Seqs, Seqs, S!Never, Never
  <2> QED  BY <2>1 DEF StationFacts, S!TypeOK, S!CollectorTypeOK
<1>8. CASE c.intact
  <2> DEFINE m == sent[c.frame].node
             p == sent[c.frame]
  <2>1. nodes' = [nodes EXCEPT ![m] = Track(@, p, now)]
    BY <1>3, <1>8 DEF ReceivePacket, Process
  <2> SUFFICES ASSUME NEW n \in Nodes PROVE nodes'[n].packets = Cardinality(HeardAt(n)')
    BY DEF PacketsHeard
  <2>2. nodes[n] \in NodeStats /\ nodes[n].packets = Cardinality(HeardAt(n))
    BY <1>7 DEF PacketsHeard
  <2>3. CASE n = m
    <3>1. nodes'[n].packets = nodes[n].packets + 1
      BY <1>7, <2>1, <2>2, <2>3, TrackAddsPacket
    <3>2. HeardAt(n)' = HeardAt(n) \union {new} /\ new \notin HeardAt(n)
      BY <1>4, <1>5, <1>6, <1>8, <2>3
    <3>3. Cardinality(HeardAt(n) \union {new}) = Cardinality(HeardAt(n)) + 1
      BY <1>6, <3>2, FS_AddElement
    <3> QED  BY <2>2, <3>1, <3>2, <3>3
  <2>4. CASE n # m
    <3>1. nodes'[n] = nodes[n]
      BY <1>7, <2>1, <2>4
    <3>2. HeardAt(n)' = HeardAt(n)
      BY <1>5, <2>4
    <3> QED  BY <2>2, <3>1, <3>2
  <2> QED  BY <2>3, <2>4
<1>9. CASE ~c.intact
  <2>1. nodes' = nodes
    BY <1>3, <1>9 DEF ReceivePacket, collectorVars
  <2>2. \A n : HeardAt(n)' = HeardAt(n)
    BY <1>5, <1>9
  <2> QED  BY <2>1, <2>2 DEF PacketsHeard
<1> QED  BY <1>8, <1>9

\* The records count what has been heard, at every moment.
LEMMA PacketsCounted == Spec => []PacketsHeard
<1>1. Facts /\ StationFacts /\ PacketsHeard /\ [Next]_vars => PacketsHeard'
  <2> SUFFICES ASSUME Facts, StationFacts, PacketsHeard, [Next]_vars PROVE PacketsHeard'
    OBVIOUS
  <2>1. CASE SendFrame
    <3>1. sent' = Append(sent, PacketFrom(turn)) /\ nodes' = nodes
      BY <2>1 DEF SendFrame, collectorVars
    <3>2. arrived' = arrived
      BY <2>1 DEF SendFrame, Wire!Send, Wire!SendLost, Wire!SendHeld, Wire!SendPassed,
                  Wire!SendOvertaking
    <3>3. \A k \in 1 .. Len(sent) : sent'[k] = sent[k]
      BY <3>1, Arrivals, AppendProperties
    <3> QED  BY <3>1, <3>2, <3>3, StillPackets
  <2>2. CASE ReceivePacket
    BY <2>2, ReceivePackets
  <2>3. CASE FlushLink
    <3>1. nodes' = nodes /\ sent' = sent /\ arrived' = arrived
      BY <2>3 DEF FlushLink, collectorVars, Wire!Flush
    <3> QED  BY <3>1, StillPackets
  <2>4. CASE SkipNode \/ EndRound \/ Close \/ UNCHANGED vars
    <3>1. nodes' = nodes /\ sent' = sent /\ arrived' = arrived
      BY <2>4 DEF SkipNode, EndRound, Close, vars, collectorVars
    <3> QED  BY <3>1, StillPackets
  <2> QED  BY <2>1, <2>2, <2>3, <2>4 DEF Next
<1> QED  BY <1>1, InitPackets, FactsHold, StationHolds, PTL DEF Spec

\* What is proved of the estimates of the collector.
LEMMA EstimatesHold == Spec => []S!EstInv
<1>1. S!Spec => []S!EstInv
  BY StationApplies, S!EstimatesInductive
<1> QED  BY <1>1, BehavesAsStation, PTL

\* The numbers of the frames heard of a node, by place; those that were heard twice.
NumberAt(n) == [j \in HeardAt(n) |-> IndexOf(arrived[j].frame)]
HeardTwice(n) == TwiceLabels(NumberAt(n), HeardAt(n))

\* A node's record shows no more duplicates than frames heard twice, and as many if the window
\* holds a whole session.
LEMMA DuplicatesAre ==
    ASSUME Facts, StationFacts, S!EstInv, PacketsHeard, NEW n \in Nodes
    PROVE  /\ HeardTwice(n) \in SUBSET (0 .. FramesPerNode - 1) /\ IsFiniteSet(HeardTwice(n))
           /\ nodes[n].duplicated \in Nat
           /\ nodes[n].duplicated <= Cardinality(HeardTwice(n))
           /\ FramesPerNode <= SeenWindow => nodes[n].duplicated = Cardinality(HeardTwice(n))
<1> DEFINE X == HeardAt(n)
           g == NumberAt(n)
           T == S!Heard(n)
<1>1. /\ X \subseteq 1 .. Len(arrived) /\ Len(arrived) \in Nat
      /\ \A j \in X : /\ arrived[j].frame \in 1 .. Len(sent)
                      /\ IndexOf(arrived[j].frame) \in 0 .. FramesPerNode - 1
                      /\ Name(arrived[j].frame) = <<n, IndexOf(arrived[j].frame)>>
  BY HeardTypes, Arrivals
<1>2. X \in SUBSET Nat /\ IsFiniteSet(X)
  <2>1. IsFiniteSet(1 .. Len(arrived)) /\ X \in SUBSET (1 .. Len(arrived))
    BY <1>1, FS_Interval
  <2>2. X \in SUBSET Nat
    BY <2>1
  <2> HIDE DEF X
  <2> QED  BY <2>1, <2>2, FS_Subset
<1>3. \A j \in X : g[j] = IndexOf(arrived[j].frame)
  BY DEF NumberAt
<1>4. \A i, j \in X : g[i] = g[j] => arrived[i].frame = arrived[j].frame
  <2>1. \A j, k \in 1 .. Len(sent) : Name(j) = Name(k) => j = k
    BY Indices, Arrivals
  <2> HIDE DEF X, g
  <2> QED  BY <1>1, <1>3, <2>1
<1>5. \A i, j, l \in X : g[i] = g[j] /\ g[j] = g[l] => i = j \/ j = l \/ i = l
  <2> HIDE DEF X, g
  <2> QED  BY <1>1, <1>4, ArrivedTwice
<1>6. Labels(g, X) = T
  <2>1. ASSUME NEW j \in X PROVE g[j] \in T
    <3> DEFINE k == arrived[j].frame
               i == IndexOf(k)
    <3>1. /\ k \in 1 .. Len(sent) /\ i \in 0 .. FramesPerNode - 1 /\ Name(k) = <<n, i>>
          /\ j \in 1 .. Len(arrived) /\ arrived[j].intact
      BY <1>1, <2>1 DEF HeardAt
    <3>2. arrived[j] = [frame |-> k, intact |-> TRUE]
      <4>1. arrived[j] \in W!Copy /\ arrived[j].intact \in BOOLEAN
        BY <3>1, Arrivals
      <4>2. arrived[j] = [frame |-> arrived[j].frame, intact |-> arrived[j].intact]
        BY <4>1 DEF W!Copy
      <4>3. arrived[j].intact = TRUE
        BY <3>1, <4>1
      <4> QED  BY <4>2, <4>3
    <3>3. FrameOf(<<n, i>>) = k /\ <<n, i>> \in Names
      <4>1. FrameOf(Name(k)) = k
        BY <3>1, FrameOfName, Arrivals
      <4> QED  BY <3>1, <4>1 DEF Names
    <3>4. j \in At({[frame |-> k, intact |-> TRUE]})
      BY <3>1, <3>2 DEF At
    <3> HIDE DEF k, i
    <3>5. Good(k) # 0
      <4>1. Good(k) = Cardinality(At({[frame |-> k, intact |-> TRUE]}))
        BY CopiesAt DEF Good
      <4>2. IsFiniteSet(At({[frame |-> k, intact |-> TRUE]}))
        <5>1. /\ IsFiniteSet(1 .. Len(arrived))
              /\ At({[frame |-> k, intact |-> TRUE]}) \in SUBSET (1 .. Len(arrived))
          BY <1>1, FS_Interval DEF At
        <5> QED  BY <5>1, FS_Subset
      <4> QED  BY <3>4, <4>1, <4>2, FS_EmptySet
    <3>6. Good(k) > 0
      BY <3>5, Kinds
    <3>7. Processed[<<n, i>>] > 0
      BY <3>3, <3>6, ProcessedIs
    <3>8. i \in T
      BY <3>1, <3>7 DEF S!Heard, S!Index
    <3> QED  BY <1>3, <2>1, <3>8 DEF k, i
  <2>2. ASSUME NEW i \in T PROVE \E j \in X : g[j] = i
    <3>1. i \in 0 .. FramesPerNode - 1 /\ Processed[<<n, i>>] > 0 /\ <<n, i>> \in Names
      BY <2>2 DEF S!Heard, S!Index, Names
    <3>2. PICK k : k = FrameOf(<<n, i>>)
      OBVIOUS
    <3>3. Good(k) > 0
      BY <3>1, <3>2, ProcessedIs
    <3>4. k # 0 /\ k \in 1 .. Len(sent) /\ Name(k) = <<n, i>>
      <4>1. k # 0
        BY <3>3, Kinds
      <4> QED  BY <3>2, <4>1, FrameOfName, Arrivals
    <3>5. At({[frame |-> k, intact |-> TRUE]}) # {}
      <4>1. Good(k) = Cardinality(At({[frame |-> k, intact |-> TRUE]}))
        BY CopiesAt DEF Good
      <4> QED  BY <3>3, <4>1, FS_EmptySet
    <3>6. PICK j \in 1 .. Len(arrived) : arrived[j] = [frame |-> k, intact |-> TRUE]
      BY <3>5 DEF At
    <3>7. sent[k].node = n /\ IndexOf(k) = i
      BY <3>4 DEF Name
    <3>8. j \in X
      BY <3>6, <3>7 DEF HeardAt
    <3>9. g[j] = i
      BY <1>3, <3>6, <3>7, <3>8
    <3> QED  BY <3>8, <3>9
  <2> HIDE DEF X, g, T
  <2> QED  BY <2>1, <2>2 DEF Labels
<1>7. nodes[n].packets = Cardinality(X)
  BY DEF PacketsHeard
<1>8. /\ nodes[n].packets - nodes[n].duplicated - Cardinality(T) >= 0
      /\ Cardinality(T) <= SeenWindow =>
            nodes[n].packets - nodes[n].duplicated - Cardinality(T) = 0
  <2>1. \A Y : S!Cardinality(Y) = Cardinality(Y)
    BY DEF S!Cardinality, Cardinality
  <2> QED  BY <2>1 DEF S!EstInv, S!Estimated, S!Excess
<1>9. nodes[n].duplicated \in Nat
  <2>1. nodes \in [Nodes -> S!NodeStats]
    BY DEF StationFacts, S!TypeOK, S!CollectorTypeOK
  <2> QED  BY <2>1 DEF S!NodeStats
<1>10. \A i \in T : i \in 0 .. FramesPerNode - 1
  BY DEF S!Heard, S!Index
<1>11. HeardTwice(n) = TwiceLabels(g, X)
  BY DEF HeardTwice
<1>12. HeardTwice(n) \in SUBSET (0 .. FramesPerNode - 1)
  BY <1>1, <1>3, <1>11 DEF TwiceLabels
<1> HIDE DEF X, g, T
<1>13. /\ IsFiniteSet(HeardTwice(n)) /\ Cardinality(HeardTwice(n)) \in Nat
       /\ Cardinality(T) \in Nat
       /\ Cardinality(X) = Cardinality(T) + Cardinality(HeardTwice(n))
  BY <1>2, <1>5, <1>6, <1>11, LabelsCounted
<1>14. Cardinality(T) <= FramesPerNode
  <2>1. IsFiniteSet(0 .. FramesPerNode - 1) /\ Cardinality(0 .. FramesPerNode - 1) = FramesPerNode
    <3>1. FramesPerNode \in Nat /\ FramesPerNode - 1 \in Int
      BY Constants
    <3>2. /\ IsFiniteSet(0 .. FramesPerNode - 1)
          /\ Cardinality(0 .. FramesPerNode - 1)
                = IF 0 > FramesPerNode - 1 THEN 0 ELSE FramesPerNode - 1 - 0 + 1
      BY <3>1, FS_Interval
    <3> QED  BY <3>1, <3>2
  <2>2. T \in SUBSET (0 .. FramesPerNode - 1)
    BY <1>10
  <2> QED  BY <2>1, <2>2, FS_Subset
<1>15. nodes[n].duplicated <= Cardinality(HeardTwice(n))
  BY <1>7, <1>8, <1>9, <1>13
<1>16. ASSUME FramesPerNode <= SeenWindow PROVE nodes[n].duplicated = Cardinality(HeardTwice(n))
  <2>1. Cardinality(T) <= SeenWindow
    BY <1>13, <1>14, <1>16, Constants, SeenWindowAssumption
  <2> QED  BY <1>7, <1>8, <1>9, <1>13, <2>1
<1> QED  BY <1>9, <1>12, <1>13, <1>15, <1>16

\* The duplicates of all records are frames the link doubled; at the end of a run without
\* damage they are all of them, if the window holds a whole session.
LEMMA DuplicatesSummed ==
    ASSUME Facts, W!Truth, StationFacts, S!EstInv, PacketsHeard
    PROVE  LET duplicated == [n \in Nodes |-> nodes[n].duplicated]
           IN  /\ SumFunction(duplicated) <= link.duplicated
               /\ config.corrupt = {FALSE} /\ pc = "closed" /\ FramesPerNode <= SeenWindow =>
                     SumFunction(duplicated) = link.duplicated
<1> DEFINE d == [n \in Nodes |-> nodes[n].duplicated]
           U == 0 .. FramesPerNode - 1
           A == [n \in Nodes |-> HeardTwice(n)]
           P == Pairs(A, Nodes)
           frame == [p \in P |-> FrameOf(p)]
<1>1. IsFiniteSet(Doubled) /\ Cardinality(Doubled) = link.duplicated
  BY ArrivedTwice
<1>2. d \in [Nodes -> Nat] /\ A \in [Nodes -> SUBSET U] /\ IsFiniteSet(Nodes)
  BY DuplicatesAre, NodesAssumption
<1>3. /\ \A n \in Nodes : IsFiniteSet(A[n]) /\ d[n] <= Cardinality(A[n])
      /\ FramesPerNode <= SeenWindow => \A n \in Nodes : d[n] = Cardinality(A[n])
  BY DuplicatesAre
\* What it means to be heard twice.
<1>4. \A n \in Nodes : \A i \in HeardTwice(n) : \E a, b \in HeardAt(n) :
         a # b /\ IndexOf(arrived[a].frame) = i /\ IndexOf(arrived[b].frame) = i
  <2> SUFFICES ASSUME NEW n \in Nodes, NEW i \in HeardTwice(n)
               PROVE  \E a, b \in HeardAt(n) : /\ a # b /\ IndexOf(arrived[a].frame) = i
                                               /\ IndexOf(arrived[b].frame) = i
    OBVIOUS
  <2> DEFINE g == NumberAt(n)
             X == HeardAt(n)
  <2>1. \A j \in X : g[j] = IndexOf(arrived[j].frame)
    BY DEF NumberAt
  <2>2. i \in TwiceLabels(g, X)
    BY DEF HeardTwice
  <2> HIDE DEF g, X
  <2>3. PICK a \in X, b \in X : a # b /\ g[a] = g[b] /\ i = g[a]
    BY <2>2 DEF TwiceLabels
  <2>4. a # b /\ IndexOf(arrived[a].frame) = i /\ IndexOf(arrived[b].frame) = i
    BY <2>1, <2>3
  <2> QED  BY <2>3, <2>4 DEF X
<1>5. \A p \in P : FrameOf(p) \in Doubled /\ Name(FrameOf(p)) = p
  <2> SUFFICES ASSUME NEW p \in P PROVE FrameOf(p) \in Doubled /\ Name(FrameOf(p)) = p
    OBVIOUS
  <2>1. p[1] \in Nodes /\ p[2] \in HeardTwice(p[1]) /\ p = <<p[1], p[2]>>
    BY DEF Pairs
  <2> DEFINE n == p[1]
             i == p[2]
  <2>2. n \in Nodes /\ i \in HeardTwice(n) /\ p = <<n, i>>
    BY <2>1
  <2> HIDE DEF n, i, P
  <2>3. PICK a \in HeardAt(n), b \in HeardAt(n) :
           a # b /\ IndexOf(arrived[a].frame) = i /\ IndexOf(arrived[b].frame) = i
    BY <1>4, <2>2
  <2>4. /\ a \in 1 .. Len(arrived) /\ b \in 1 .. Len(arrived)
        /\ arrived[a].frame \in 1 .. Len(sent) /\ arrived[b].frame \in 1 .. Len(sent)
        /\ Name(arrived[a].frame) = p /\ Name(arrived[b].frame) = p
    BY <2>2, <2>3, HeardTypes
  <2>5. arrived[a].frame = arrived[b].frame
    BY <2>4, Indices, Arrivals
  <2>6. arrived[a].frame \in Doubled
    BY <2>3, <2>4, <2>5, ArrivedTwice
  <2>7. FrameOf(p) = arrived[a].frame
    BY <2>4, FrameOfName, Arrivals
  <2> QED  BY <2>4, <2>6, <2>7
<1>6. ASSUME config.corrupt = {FALSE}, pc = "closed", NEW f \in Doubled
      PROVE  \E p \in P : FrameOf(p) = f
  <2>1. f \in W!Frame /\ W!Waiting(f) + W!Received(f) = 2 /\ W!Waiting(f) = 0
    BY <1>6, AllOut DEF Doubled
  <2>2. W!Received(f) = 2
    <3>1. W!Received(f) \in Nat
      BY <2>1, LinkApplies, W!PlaceTypes DEF Facts, LinkFacts
    <3> QED  BY <2>1, <3>1
  <2>3. PICK a \in 1 .. Len(arrived), b \in 1 .. Len(arrived) :
           a # b /\ arrived[a].frame = f /\ arrived[b].frame = f
    BY <2>1, <2>2, ArrivedTwice
  <2>4. \A j \in 1 .. Len(arrived) : arrived[j].intact
    <3> SUFFICES ASSUME NEW j \in 1 .. Len(arrived), ~arrived[j].intact PROVE FALSE
      OBVIOUS
    <3>1. arrived[j] \in W!Range(arrived)
      <4>1. j \in DOMAIN arrived
        BY Arrivals, LenProperties
      <4> QED  BY <4>1 DEF W!Range
    <3>2. arrived[j] \in W!Out
      BY <3>1 DEF W!Out
    <3>3. TRUE \in config.corrupt
      BY <3>2 DEF W!Truth, W!Told, W!Knobs
    <3> QED  BY <1>6, <3>3
  <2>5. f \in 1 .. Len(sent)
    BY <2>3, Arrivals
  <2> DEFINE n == sent[f].node
             i == IndexOf(f)
  <2>6. n \in Nodes /\ Name(f) = <<n, i>> /\ FrameOf(<<n, i>>) = f
    <3>1. sent[f] \in SentFrame
      BY <2>5, Indices, Arrivals
    <3>2. n \in Nodes /\ Name(f) = <<n, i>>
      BY <3>1 DEF SentFrame, Name
    <3> QED  BY <2>5, <3>2, FrameOfName, Arrivals
  <2>7. a \in HeardAt(n) /\ b \in HeardAt(n)
    BY <2>3, <2>4 DEF HeardAt
  <2>8. i \in HeardTwice(n)
    <3> DEFINE g == NumberAt(n)
               X == HeardAt(n)
    <3>1. g[a] = i /\ g[b] = i /\ a \in X /\ b \in X
      BY <2>3, <2>7 DEF NumberAt
    <3> HIDE DEF g, X, i
    <3>2. i \in TwiceLabels(g, X)
      BY <2>3, <3>1 DEF TwiceLabels
    <3> QED  BY <3>2 DEF HeardTwice, g, X
  <2>9. <<n, i>> \in P
    <3>1. i \in UNION {A[m] : m \in Nodes}
      BY <2>6, <2>8
    <3> QED  BY <2>6, <2>8, <3>1 DEF Pairs
  <2> QED  BY <2>6, <2>9
<1> HIDE DEF d, U, A
<1>7. IsFiniteSet(P) /\ SumFunction(d) <= Cardinality(P)
  BY <1>2, <1>3, SumAtMostPairs
<1>8. frame \in Injection(P, Doubled)
  BY <1>5 DEF Injection, IsInjective
<1>9. /\ Cardinality(P) <= link.duplicated
      /\ SumFunction(d) \in Nat /\ Cardinality(P) \in Nat /\ link.duplicated \in Nat
  <2> HIDE DEF P, frame
  <2> QED  BY <1>1, <1>2, <1>7, <1>8, FS_Injection, SumType, FS_CardinalityType
<1>10. SumFunction(d) <= link.duplicated
  <2> HIDE DEF P
  <2> QED  BY <1>7, <1>9
<1>11. ASSUME config.corrupt = {FALSE}, pc = "closed", FramesPerNode <= SeenWindow
       PROVE  SumFunction(d) = link.duplicated
  <2>1. SumFunction(d) = Cardinality(P)
    BY <1>2, <1>3, <1>11, SumIsPairs
  <2>2. frame \in Surjection(P, Doubled)
    <3>1. \A f \in Doubled : \E p \in P : FrameOf(p) = f
      BY <1>6, <1>11
    <3> QED  BY <1>5, <3>1 DEF Surjection
  <2>3. Cardinality(P) = Cardinality(Doubled)
    <3> HIDE DEF P, frame
    <3> QED  BY <1>1, <1>8, <2>2, FS_Injection
  <2> QED  BY <1>1, <2>1, <2>3
<1> QED  BY <1>10, <1>11 DEF d

-----------------------------------------------------------------------------
(* The reorders the records show are reorders of the link. *)

\* The number remembered last is in the window.
LEMMA RememberedLast ==
    ASSUME NEW q \in Seq(Seqs), NEW s \in Seqs
    PROVE  \E i \in 1 .. Len(Remember(q, s)) : Remember(q, s)[i] = s
<1> DEFINE longer == Append(q, s)
<1>1. /\ Len(q) \in Nat /\ longer \in Seq(Seqs) /\ Len(longer) = Len(q) + 1
      /\ longer[Len(q) + 1] = s
  BY LenProperties, AppendProperties
<1>2. longer # <<>>
  BY <1>1
<1> HIDE DEF longer
<1>3. CASE Len(q) >= SeenWindow
  <2>1. Remember(q, s) = Tail(longer)
    BY <1>3 DEF Remember, longer
  <2>2. /\ Len(Tail(longer)) = Len(longer) - 1
        /\ \A i \in 1 .. Len(Tail(longer)) : Tail(longer)[i] = longer[i + 1]
    BY <1>1, <1>2, HeadTailProperties
  <2>3. Len(q) \in 1 .. Len(Tail(longer))
    BY <1>1, <1>3, <2>2, SeenWindowAssumption
  <2>4. Tail(longer)[Len(q)] = s
    BY <1>1, <2>2, <2>3
  <2> QED  BY <2>1, <2>3, <2>4
<1>4. CASE ~(Len(q) >= SeenWindow)
  <2>1. Remember(q, s) = longer
    BY <1>4 DEF Remember, longer
  <2>2. Len(q) + 1 \in 1 .. Len(longer)
    BY <1>1
  <2> QED  BY <1>1, <2>1, <2>2
<1> QED  BY <1>3, <1>4

\* A packet behind the newest one that is not known to be a copy.
ComesLate(ns, p) == ~IsFirst(ns) /\ ~IsDuplicate(ns, p) /\ ~IsForward(ns, p)

\* Whatever a packet is, tracking it remembers its number, and counts a reorder if it is late.
LEMMA TrackReorders ==
    ASSUME NEW ns \in NodeStats, NEW p, p.seq \in Seqs, NEW t
    PROVE  /\ Track(ns, p, t).reordered = ns.reordered + (IF ComesLate(ns, p) THEN 1 ELSE 0)
           /\ p.seq \in Seen(Track(ns, p, t))
<1> DEFINE h == Hear(ns, p, t)
           w == Remember(ns.seen_q, p.seq)
<1>1. h.reordered = ns.reordered /\ h.seen_q = ns.seen_q
  BY DEF Hear, NodeStats
<1>2. {"reordered", "seen_q"} \subseteq DOMAIN h
  BY DEF Hear, NodeStats
<1>3. ns.seen_q \in Seq(Seqs) /\ ns.reordered \in Nat
  BY DEF NodeStats
<1>4. \E i \in 1 .. Len(w) : w[i] = p.seq
  BY <1>3, RememberedLast
<1>5. Track(ns, p, t) = IF IsFirst(ns) THEN TrackFirst(h, p)
                        ELSE IF IsDuplicate(ns, p) THEN TrackDuplicate(h)
                        ELSE IF IsForward(ns, p) THEN TrackForward(h, p)
                        ELSE TrackLate(h, p)
  BY DEF Track
<1> HIDE DEF h
<1>6. /\ TrackFirst(h, p).reordered = h.reordered /\ TrackFirst(h, p).seen_q = w
      /\ TrackDuplicate(h).reordered = h.reordered /\ TrackDuplicate(h).seen_q = h.seen_q
      /\ TrackForward(h, p).reordered = h.reordered /\ TrackForward(h, p).seen_q = w
      /\ TrackLate(h, p).reordered = h.reordered + 1 /\ TrackLate(h, p).seen_q = w
  BY <1>1, <1>2 DEF TrackFirst, TrackDuplicate, TrackForward, TrackLate
<1> HIDE DEF w
<1>7. \A r : r.seen_q = w => p.seq \in Seen(r)
  BY <1>4 DEF Seen
<1>8. IsDuplicate(ns, p) => p.seq \in Seen(TrackDuplicate(h))
  BY <1>1, <1>6 DEF IsDuplicate, Seen
<1>9. CASE IsFirst(ns)
  BY <1>1, <1>3, <1>5, <1>6, <1>7, <1>9 DEF ComesLate
<1>10. CASE ~IsFirst(ns) /\ IsDuplicate(ns, p)
  BY <1>1, <1>3, <1>5, <1>6, <1>8, <1>10 DEF ComesLate
<1>11. CASE ~IsFirst(ns) /\ ~IsDuplicate(ns, p) /\ IsForward(ns, p)
  BY <1>1, <1>3, <1>5, <1>6, <1>7, <1>11 DEF ComesLate
<1>12. CASE ~IsFirst(ns) /\ ~IsDuplicate(ns, p) /\ ~IsForward(ns, p)
  BY <1>1, <1>3, <1>5, <1>6, <1>7, <1>12 DEF ComesLate
<1> QED  BY <1>9, <1>10, <1>11, <1>12

\* The frames of a node that arrived behind one sent later.
LateOf(n) == {k \in W!Late(arrived) : sent[k].node = n}

\* A record shows no more reorders than frames of its node that arrived late, if the link has
\* no jitter, and the copy that came last is in its window.
Overtakings ==
    /\ config.jitter = 0 => \A n \in Nodes : nodes[n].reordered <= Cardinality(LateOf(n))
    /\ \A j \in 1 .. Len(arrived) : j = Len(arrived) /\ arrived[j].intact =>
          sent[arrived[j].frame].seq \in Seen(nodes[sent[arrived[j].frame].node])

\* There are only so many of them, and a late frame stays one.
LEMMA LateGrows ==
    /\ \A n : IsFiniteSet(LateOf(n)) /\ Cardinality(LateOf(n)) \in Nat
    /\ \A s \in Seq(W!Copy) : \A c \in W!Copy : W!Late(s) \subseteq W!Late(Append(s, c))
<1>1. ASSUME NEW n PROVE IsFiniteSet(LateOf(n)) /\ Cardinality(LateOf(n)) \in Nat
  <2>1. W!IsFiniteSet(W!Late(arrived))
    BY LinkApplies, W!LateFinite
  <2>2. IsFiniteSet(W!Late(arrived))
    BY <2>1 DEF W!IsFiniteSet, IsFiniteSet
  <2>3. LateOf(n) \in SUBSET W!Late(arrived)
    BY DEF LateOf
  <2> QED  BY <2>2, <2>3, FS_Subset, FS_CardinalityType
<1>2. ASSUME NEW s \in Seq(W!Copy), NEW c \in W!Copy
      PROVE  W!Late(s) \subseteq W!Late(Append(s, c))
  <2>1. CASE \/ \E i \in 1 .. Len(s) : s[i].frame = c.frame
             \/ \A i \in 1 .. Len(s) : s[i].frame <= c.frame
    BY <2>1, LinkApplies, W!LateStays
  <2>2. CASE /\ \A i \in 1 .. Len(s) : s[i].frame # c.frame
             /\ \E i \in 1 .. Len(s) : s[i].frame > c.frame
    BY <2>2, LinkApplies, W!LateAdds
  <2>3. \A i \in 1 .. Len(s) : s[i].frame \in Nat
    <3>1. \A i \in 1 .. Len(s) : s[i] \in W!Copy
      BY ElementOfSeq
    <3> QED  BY <3>1 DEF W!Copy, W!Frame
  <2>4. c.frame \in Nat
    BY DEF W!Copy, W!Frame
  <2> QED  BY <2>1, <2>2, <2>3, <2>4
<1> QED  BY <1>1, <1>2

\* What a late packet means: a frame of its node sent no earlier has arrived.
LEMMA LateIsBehind ==
    ASSUME Facts, S!IInv, NEW k \in 1 .. Len(sent), NEW n, n = sent[k].node,
           ComesLate(nodes[n], sent[k])
    PROVE  \E j \in 1 .. Len(arrived) : arrived[j].frame >= k
<1> DEFINE i == IndexOf(k)
           h == NewestHeard[n]
           I == {IndexOf(arrived[j].frame) : j \in HeardAt(n)}
<1>1. /\ sent[k] \in SentFrame /\ n \in Nodes /\ i \in 0 .. FramesPerNode - 1
      /\ FramesPerNode \in Nat /\ RightFrame(k)
  <2>1. sent \in Seq(SentFrame) /\ RightFrame(k)
    BY DEF Facts, Schedule, Frames
  <2>2. sent[k] \in SentFrame
    BY <2>1, Indices
  <2>3. Name(k) \in Names /\ Name(k) = <<n, i>>
    BY NamesBounded DEF Name
  <2> QED  BY <2>1, <2>2, <2>3, Constants DEF Names
<1>2. i \in S!Index /\ sent[k].seq = S!SeqOf(n, i)
  <2>1. sent[k].seq = i % SeqMod
    BY <1>1 DEF RightFrame
  <2>2. S!SeqOf(n, i) = (0 + i) % SeqMod /\ 0 + i = i
    BY <1>1 DEF S!SeqOf
  <2> QED  BY <1>1, <2>1, <2>2 DEF S!Index
<1>3. h # Never /\ h \in S!Index /\ nodes[n].last_seq = S!SeqOf(n, h)
  <2>1. S!Known(nodes[n], n, FirstHeard[n], h, S!Heard(n))
    BY <1>1 DEF S!IInv, S!RecordsKnow
  <2>2. h # Never
    <3> SUFFICES ASSUME h = Never PROVE FALSE
      OBVIOUS
    <3>1. nodes[n].last_seq = -1
      BY <2>1 DEF S!Known, S!Never, Never
    <3> QED  BY <3>1 DEF ComesLate, IsFirst
  <2> QED  BY <2>1, <2>2 DEF S!Known, S!Never, Never
<1>4. HeardAt(n) # {} /\ h = Max(I)
  BY <1>1, <1>3 DEF NewestHeard
<1>5. h \in I
  <2>1. I \in SUBSET (0 .. FramesPerNode) /\ I # {}
    BY <1>1, <1>4, HeardTypes
  <2> HIDE DEF I
  <2>2. Max(I) \in I
    BY <1>1, <2>1, FirstAndLast
  <2> QED  BY <1>4, <2>2
<1>6. i <= h
  <2>1. S!SeqDelta(S!SeqOf(n, i), S!SeqOf(n, h)) = i - h
    BY <1>1, <1>2, <1>3, StationApplies, S!SeqOfDelta
  <2>2. SeqDelta(sent[k].seq, nodes[n].last_seq) = i - h
    BY <1>2, <1>3, <2>1 DEF S!SeqDelta, SeqDelta, S!SeqHalf, SeqHalf
  <2>3. ~(i - h > 0)
    BY <2>2 DEF ComesLate, IsForward
  <2>4. h \in Int /\ i \in Int
    BY <1>1, <1>3 DEF S!Index
  <2> QED  BY <2>3, <2>4
<1>7. PICK j \in HeardAt(n) : IndexOf(arrived[j].frame) = h
  BY <1>5
<1>8. /\ j \in 1 .. Len(arrived) /\ arrived[j].frame \in 1 .. Len(sent)
      /\ sent[arrived[j].frame].node = n
  <2>1. j \in 1 .. Len(arrived)
    BY <1>7, Arrivals DEF HeardAt
  <2> QED  BY <1>7, <2>1, Arrivals DEF HeardAt
<1>9. ~(arrived[j].frame < k)
  <2> SUFFICES ASSUME arrived[j].frame < k PROVE FALSE
    OBVIOUS
  <2>1. IndexOf(arrived[j].frame) < IndexOf(k)
    BY <1>8, Indices, Arrivals
  <2>2. h < i /\ h \in Int /\ i \in Int
    BY <1>1, <1>3, <1>7, <2>1 DEF S!Index
  <2> QED  BY <1>6, <2>2
<1>10. arrived[j].frame >= k
  BY <1>8, <1>9, Arrivals
<1> QED  BY <1>8, <1>10

\* A copy that comes off the link counts as a reorder only if it is a new frame that a later one
\* has overtaken.
LEMMA ReceiveReorders ==
    ASSUME Facts, Facts', StationFacts, S!IInv, W!Truth', W!Ordered', Overtakings, ReceivePacket
    PROVE  Overtakings'
<1>1. W!TypeOK /\ W!TypeOK' /\ W!Recv /\ sent' = sent
  BY SameActions DEF ReceivePacket, Facts, LinkFacts
<1>2. config' = config /\ \E e \in W!Copy : arrived' = Append(arrived, e)
  BY <1>1, LinkApplies, W!RecvTakes
<1>3. PICK c \in W!Copy : arrived' = Append(arrived, c)
  BY <1>2
<1> DEFINE new == Len(arrived) + 1
           k == c.frame
           m == sent[c.frame].node
           p == sent[c.frame]
<1>4. /\ Len(arrived) \in Nat /\ Len(arrived') = new /\ arrived'[new] = c
      /\ \A j \in 1 .. Len(arrived) : arrived'[j] = arrived[j]
      /\ arrived \in Seq(W!Copy)
  BY <1>3, Arrivals, ArrivalsGrow
<1>5. nodes \in [Nodes -> NodeStats]
  <2>1. S!NodeStats = NodeStats
    BY DEF S!NodeStats, NodeStats, S!Seqs, Seqs, S!Never, Never
  <2> QED  BY <2>1 DEF StationFacts, S!TypeOK, S!CollectorTypeOK
<1>6. /\ \A n : LateOf(n) \subseteq LateOf(n)'
      /\ \A n : IsFiniteSet(LateOf(n)) /\ Cardinality(LateOf(n)) \in Nat
      /\ \A n : IsFiniteSet(LateOf(n)') /\ Cardinality(LateOf(n)') \in Nat
      /\ \A n : Cardinality(LateOf(n)) <= Cardinality(LateOf(n)')
  <2>1. \A n : IsFiniteSet(LateOf(n)) /\ Cardinality(LateOf(n)) \in Nat
    BY LateGrows
  <2>2. W!Late(arrived) \subseteq W!Late(arrived')
    BY <1>3, <1>4, LateGrows
  <2>3. \A n : LateOf(n)' = {f \in W!Late(arrived') : sent[f].node = n}
    BY <1>1 DEF LateOf, W!Late, W!Frame
  <2>4. \A n : LateOf(n) \subseteq LateOf(n)'
    BY <2>2, <2>3 DEF LateOf
  <2>5. IsFiniteSet(W!Late(arrived'))
    <3>1. W!IsFiniteSet(W!Late(arrived'))
      BY LinkApplies, W!LateFinite
    <3> QED  BY <3>1 DEF W!IsFiniteSet, IsFiniteSet
  <2>6. \A n : LateOf(n)' \in SUBSET W!Late(arrived')
    BY <2>3
  <2>7. \A n : IsFiniteSet(LateOf(n)') /\ Cardinality(LateOf(n)') \in Nat
    BY <2>5, <2>6, FS_Subset, FS_CardinalityType
  <2>8. \A n : Cardinality(LateOf(n)) <= Cardinality(LateOf(n)')
    BY <2>4, <2>7, FS_Subset
  <2> QED  BY <2>1, <2>4, <2>7, <2>8
<1>7. CASE c.intact
  <2>1. nodes' = [nodes EXCEPT ![m] = Track(@, p, now)]
    BY <1>4, <1>7 DEF ReceivePacket, Process
  <2>2. k \in 1 .. Len(sent) /\ p \in SentFrame /\ m \in Nodes /\ p.seq \in Seqs
    <3>1. k \in 1 .. Len(sent)
      <4>1. W!Recv /\ W!TypeOK /\ W!TypeOK' /\ W!Counted /\ link.offered = Len(sent)
        BY <1>1 DEF Facts, LinkFacts, Books
      <4>2. PICK e \in W!Copy : arrived' = Append(arrived, e) /\ e.frame \in 1 .. link.offered
        BY <4>1, LinkApplies, W!RecvView
      <4>3. arrived'[new] = e
        BY <1>4, <4>2, ArrivalsGrow
      <4> QED  BY <1>4, <4>1, <4>2, <4>3
    <3>2. p \in SentFrame
      BY <3>1, Indices, Arrivals
    <3> QED  BY <3>1, <3>2 DEF SentFrame
  <2>3. /\ nodes[m] \in NodeStats
        /\ nodes'[m].reordered = nodes[m].reordered + (IF ComesLate(nodes[m], p) THEN 1 ELSE 0)
        /\ p.seq \in Seen(nodes'[m])
        /\ \A n \in Nodes : n # m => nodes'[n] = nodes[n]
    <3>1. nodes[m] \in NodeStats /\ nodes'[m] = Track(nodes[m], p, now)
      BY <1>5, <2>1, <2>2
    <3>2. \A n \in Nodes : n # m => nodes'[n] = nodes[n]
      BY <1>5, <2>1
    <3> QED  BY <2>2, <3>1, <3>2, TrackReorders
  <2>4. ASSUME NEW j \in 1 .. Len(arrived'), j = Len(arrived'), arrived'[j].intact
        PROVE  sent'[arrived'[j].frame].seq \in Seen(nodes'[sent'[arrived'[j].frame].node])
    BY <1>1, <1>4, <2>3, <2>4
  <2>5. ASSUME config.jitter = 0, ComesLate(nodes[m], p), NEW n, n = m
        PROVE  Cardinality(LateOf(n)') = Cardinality(LateOf(n)) + 1
    <3>1. \A i \in 1 .. Len(arrived) : arrived[i].frame # k
      <4> SUFFICES ASSUME NEW i \in 1 .. Len(arrived), arrived[i].frame = k PROVE FALSE
        OBVIOUS
      <4> DEFINE s == W!InOrder(link', arrived')
                 last == Len(arrived)
      <4>1. W!Together(s) /\ s = arrived' \o W!Queue(link')
        BY <1>2, <2>5 DEF W!Ordered, W!LineFacts, W!InOrder
      <4>2. /\ last \in Nat /\ last >= 1 /\ last \in 1 .. last /\ i \in 1 .. last
        BY <1>4
      <4>3. /\ \A j \in 1 .. new : s[j] = arrived'[j]
            /\ new <= Len(s) /\ Len(s) \in Nat
        <5>1. arrived' \in Seq(W!Copy) /\ W!Queue(link') \in Seq(W!Copy)
          <6>1. s \in Seq(W!Copy)
            BY <1>2, <2>5 DEF W!Ordered, W!LineFacts
          <6>2. arrived' \in Seq(W!Copy)
            BY <1>3, <1>4, AppendProperties
          <6>3. link' \in W!LinkType
            <7>1. W!TypeOK'
              BY <1>1
            <7> QED  BY <7>1 DEF W!TypeOK
          <6> QED  BY <6>2, <6>3, LinkApplies, W!QueueType
        <5> DEFINE q == W!Queue(link')
        <5>2. arrived' \in Seq(W!Copy) /\ q \in Seq(W!Copy) /\ s = arrived' \o q
          BY <4>1, <5>1
        <5> HIDE DEF q, s
        <5>3. /\ Len(arrived' \o q) = Len(arrived') + Len(q) /\ Len(q) \in Nat
              /\ \A j \in 1 .. Len(arrived') : (arrived' \o q)[j] = arrived'[j]
          BY <5>2, ConcatProperties, LenProperties
        <5> QED  BY <1>4, <5>2, <5>3
      <4> HIDE DEF s
      <4>4. i < new /\ i \in 1 .. Len(s) /\ new \in 1 .. Len(s) /\ new - 1 = last
        BY <4>2, <4>3
      <4>5. s[i].frame = s[new].frame
        BY <1>4, <4>2, <4>3, <4>4
      <4>6. s[new - 1].frame = s[new].frame
        BY <4>1, <4>4, <4>5 DEF W!Together
      <4>7. arrived[last].frame = k /\ arrived'[last] = arrived[last]
        BY <1>4, <4>2, <4>3, <4>4, <4>6
      <4>8. arrived'[last] = c
        <5>1. c \in W!Out' /\ arrived'[last] \in W!Out'
          <6>1. new \in DOMAIN arrived' /\ last \in DOMAIN arrived'
            <7>1. arrived' \in Seq(W!Copy)
              BY <1>3, <1>4, AppendProperties
            <7>2. DOMAIN arrived' = 1 .. Len(arrived')
              BY <7>1, LenProperties
            <7> QED  BY <1>4, <4>2, <7>2
          <6>2. c \in W!Range(arrived') /\ arrived'[last] \in W!Range(arrived')
            BY <1>4, <6>1 DEF W!Range
          <6> QED  BY <6>2 DEF W!Out
        <5>2. \A b, d \in W!Out' : b.frame = d.frame => b = d
          BY DEF W!Truth, W!Told
        <5> QED  BY <4>7, <5>1, <5>2
      <4>9. p.seq \in Seen(nodes[m])
        BY <1>7, <4>2, <4>7, <4>8 DEF Overtakings
      <4> QED  BY <2>5, <4>9 DEF ComesLate, IsDuplicate
    <3>2. PICK j \in 1 .. Len(arrived) : arrived[j].frame >= k
      BY <2>2, <2>5, LateIsBehind
    <3>3. arrived[j].frame > k
      BY <2>2, <3>1, <3>2, Arrivals
    <3>4. W!Late(Append(arrived, c)) = W!Late(arrived) \union {k} /\ k \notin W!Late(arrived)
      BY <1>4, <3>1, <3>2, <3>3, LinkApplies, W!LateAdds
    <3>5. LateOf(n)' = LateOf(n) \union {k} /\ k \notin LateOf(n)
      <4>1. LateOf(n)' = {f \in W!Late(arrived') : sent[f].node = n}
        BY <1>1 DEF LateOf, W!Late, W!Frame
      <4> QED  BY <1>3, <2>5, <3>4, <4>1 DEF LateOf
    <3>6. Cardinality(LateOf(n) \union {k}) = Cardinality(LateOf(n)) + 1
      BY <1>6, <3>5, FS_AddElement
    <3> QED  BY <3>5, <3>6
  <2>6. ASSUME config.jitter = 0, NEW n \in Nodes
        PROVE  nodes'[n].reordered <= Cardinality(LateOf(n)')
    <3>1. nodes[n].reordered <= Cardinality(LateOf(n)) /\ nodes[n].reordered \in Nat
      BY <1>5, <2>6 DEF Overtakings, NodeStats
    <3>2. CASE n # m
      <4>1. nodes'[n].reordered = nodes[n].reordered
        BY <2>3, <3>2
      <4> QED  BY <1>6, <3>1, <4>1
    <3>3. CASE n = m /\ ComesLate(nodes[m], p)
      <4>1. nodes'[n].reordered = nodes[n].reordered + 1
        BY <2>3, <3>3
      <4>2. Cardinality(LateOf(n)') = Cardinality(LateOf(n)) + 1
        BY <2>5, <2>6, <3>3
      <4> QED  BY <1>6, <3>1, <4>1, <4>2
    <3>4. CASE n = m /\ ~ComesLate(nodes[m], p)
      <4>1. nodes'[n].reordered = nodes[n].reordered
        BY <2>3, <3>1, <3>4
      <4> QED  BY <1>6, <3>1, <4>1
    <3> QED  BY <3>2, <3>3, <3>4
  <2> QED  BY <1>2, <2>4, <2>6 DEF Overtakings
<1>8. CASE ~c.intact
  <2>1. nodes' = nodes
    BY <1>4, <1>8 DEF ReceivePacket, collectorVars
  <2>2. ~arrived'[Len(arrived')].intact
    BY <1>4, <1>8
  <2>3. ASSUME config.jitter = 0, NEW n \in Nodes
        PROVE  nodes'[n].reordered <= Cardinality(LateOf(n)')
    <3>1. nodes[n].reordered <= Cardinality(LateOf(n)) /\ nodes[n].reordered \in Nat
      BY <1>5, <2>3 DEF Overtakings, NodeStats
    <3> QED  BY <1>6, <2>1, <3>1
  <2> QED  BY <1>2, <2>2, <2>3 DEF Overtakings
<1> QED  BY <1>7, <1>8

\* The records, what has arrived and the configuration stay as they are.
LEMMA StillReorders ==
    ASSUME Facts, Overtakings, arrived' = arrived, nodes' = nodes, config' = config,
           \A k \in 1 .. Len(sent) : sent'[k] = sent[k]
    PROVE  Overtakings'
<1>1. \A k \in W!Late(arrived) : k \in 1 .. Len(sent)
  <2> SUFFICES ASSUME NEW k \in W!Late(arrived) PROVE k \in 1 .. Len(sent)
    OBVIOUS
  <2>1. PICK j \in 1 .. Len(arrived) : arrived[j].frame = k
    BY DEF W!Late
  <2> QED  BY <2>1, Arrivals
<1>2. \A n : LateOf(n)' = LateOf(n)
  <2>1. W!Late(arrived)' = W!Late(arrived)
    BY DEF W!Late, W!Frame
  <2>2. \A k \in W!Late(arrived) : sent'[k] = sent[k]
    BY <1>1
  <2> QED  BY <2>1, <2>2 DEF LateOf
<1>3. ASSUME config.jitter = 0, NEW n \in Nodes
      PROVE  nodes'[n].reordered <= Cardinality(LateOf(n))
  BY <1>3 DEF Overtakings
<1>4. ASSUME NEW j \in 1 .. Len(arrived), j = Len(arrived), arrived[j].intact
      PROVE  sent'[arrived[j].frame].seq \in Seen(nodes[sent'[arrived[j].frame].node])
  <2>1. sent'[arrived[j].frame] = sent[arrived[j].frame]
    BY Arrivals
  <2> QED  BY <1>4, <2>1 DEF Overtakings
<1> QED  BY <1>2, <1>3, <1>4 DEF Overtakings

\* That holds at every moment.
LEMMA OvertakingsHold == Spec => [](Overtakings /\ W!Ordered)
<1>1. Init => Overtakings
  <2> SUFFICES ASSUME Init PROVE Overtakings
    OBVIOUS
  <2>1. arrived = <<>> /\ nodes = [n \in Nodes |-> Unheard]
    BY DEF Init, CollectorInit, Wire!Init
  <2>2. \A n \in Nodes : nodes[n].reordered = 0
    BY <2>1 DEF Unheard
  <2>3. \A n \in Nodes : nodes[n].reordered <= Cardinality(LateOf(n))
    BY <2>2, LateGrows
  <2>4. 1 .. Len(arrived) = {}
    BY <2>1
  <2> QED  BY <2>3, <2>4 DEF Overtakings
<1>2. ASSUME Facts, Facts', StationFacts, S!IInv, W!Truth', W!Ordered', Overtakings, [Next]_vars
      PROVE  Overtakings'
  <2>1. CASE SendFrame
    <3>1. sent' = Append(sent, PacketFrom(turn)) /\ nodes' = nodes
      BY <2>1 DEF SendFrame, collectorVars
    <3>2. arrived' = arrived /\ config' = config
      BY <2>1 DEF SendFrame, Wire!Send, Wire!SendLost, Wire!SendHeld, Wire!SendPassed,
                  Wire!SendOvertaking
    <3>3. \A k \in 1 .. Len(sent) : sent'[k] = sent[k]
      BY <3>1, Arrivals, AppendProperties
    <3> QED  BY <1>2, <3>1, <3>2, <3>3, StillReorders
  <2>2. CASE ReceivePacket
    BY <1>2, <2>2, ReceiveReorders
  <2>3. CASE FlushLink
    <3>1. nodes' = nodes /\ sent' = sent /\ arrived' = arrived /\ config' = config
      BY <2>3 DEF FlushLink, collectorVars, Wire!Flush
    <3> QED  BY <1>2, <3>1, StillReorders
  <2>4. CASE SkipNode \/ EndRound \/ Close \/ UNCHANGED vars
    <3>1. nodes' = nodes /\ sent' = sent /\ arrived' = arrived /\ config' = config
      BY <2>4 DEF SkipNode, EndRound, Close, vars, collectorVars
    <3> QED  BY <1>2, <3>1, StillReorders
  <2> QED  BY <1>2, <2>1, <2>2, <2>3, <2>4 DEF Next
<1>3. Spec => []W!Ordered
  <2>1. W!Spec => []W!Ordered
    BY LinkApplies, W!OrderHolds
  <2> QED  BY <2>1, DrivesLink, PTL
<1>4. Spec => []S!IInv
  <2>1. S!Spec => []S!IInv
    BY StationApplies, S!Inductive
  <2> QED  BY <2>1, BehavesAsStation, PTL
<1>5. /\ Facts /\ Facts' /\ StationFacts /\ S!IInv /\ W!Truth' /\ W!Ordered' /\ Overtakings
      /\ [Next]_vars
      => Overtakings'
  BY <1>2
<1> QED  BY <1>1, <1>3, <1>4, <1>5, FactsHold, StationHolds, DamageTold, PTL DEF Spec

\* What was late stays late, whatever comes behind it.
LEMMA LatePrefix ==
    ASSUME NEW a \in Seq(W!Copy), NEW q \in Seq(W!Copy)
    PROVE  W!Late(a) \subseteq W!Late(a \o q)
<1> DEFINE s == a \o q
<1>1. /\ Len(a) \in Nat /\ Len(q) \in Nat /\ Len(s) = Len(a) + Len(q)
      /\ \A i \in 1 .. Len(a) : s[i] = a[i]
  BY ConcatProperties, LenProperties
<1> HIDE DEF s
<1>2. ASSUME NEW f \in W!Late(a) PROVE f \in W!Late(s)
  <2>1. PICK j \in 1 .. Len(a) : /\ a[j].frame = f /\ \A i \in 1 .. j - 1 : a[i].frame # f
                                 /\ \E i \in 1 .. j - 1 : a[i].frame > f
    BY DEF W!Late
  <2>2. j \in 1 .. Len(s) /\ \A i \in 1 .. j - 1 : i \in 1 .. Len(a)
    BY <1>1
  <2>3. /\ s[j].frame = f /\ \A i \in 1 .. j - 1 : s[i].frame # f
        /\ \E i \in 1 .. j - 1 : s[i].frame > f
    BY <1>1, <2>1, <2>2
  <2>4. f \in W!Frame
    BY DEF W!Late
  <2> QED  BY <2>2, <2>3, <2>4 DEF W!Late
<1>3. W!Late(a) \subseteq W!Late(s)
  BY <1>2
<1> QED  BY <1>3 DEF s

\* Without jitter the reorders of all records are reorders the link counted.
LEMMA ReordersSummed ==
    ASSUME Facts, StationFacts, W!Ordered, Overtakings, config.jitter = 0
    PROVE  SumFunction([n \in Nodes |-> nodes[n].reordered]) <= link.reordered
<1> DEFINE d == [n \in Nodes |-> nodes[n].reordered]
           A == [n \in Nodes |-> LateOf(n)]
           U == W!Late(arrived)
           P == Pairs(A, Nodes)
           frame == [p \in P |-> p[2]]
           L == W!Late(W!InOrder(link, arrived))
<1>1. d \in [Nodes -> Nat] /\ IsFiniteSet(Nodes)
  <2>1. nodes \in [Nodes -> S!NodeStats]
    BY DEF StationFacts, S!TypeOK, S!CollectorTypeOK
  <2> QED  BY <2>1, NodesAssumption DEF S!NodeStats
<1>2. A \in [Nodes -> SUBSET U]
  BY DEF LateOf
<1>3. \A n \in Nodes : IsFiniteSet(A[n]) /\ d[n] <= Cardinality(A[n])
  BY LateGrows DEF Overtakings
<1>4. \A p \in P : p[2] \in U /\ p = <<sent[p[2]].node, p[2]>>
  BY DEF Pairs, LateOf
<1>5. IsFiniteSet(L) /\ link.reordered = Cardinality(L)
  <2>1. W!IsFiniteSet(L)
    BY LinkApplies, W!LateFinite
  <2>2. link.reordered = W!Cardinality(L)
    BY DEF W!Ordered, W!LineFacts
  <2> QED  BY <2>1, <2>2 DEF W!IsFiniteSet, IsFiniteSet, W!Cardinality, Cardinality
<1>6. U \subseteq L
  <2>1. link \in W!LinkType
    BY DEF Facts, LinkFacts, W!TypeOK
  <2>2. W!Queue(link) \in Seq(W!Copy) /\ arrived \in Seq(W!Copy)
    BY <2>1, LinkApplies, W!QueueType, Arrivals
  <2> QED  BY <2>2, LatePrefix DEF W!InOrder
<1>7. IsFiniteSet(U)
  BY <1>5, <1>6, FS_Subset
<1> HIDE DEF d, A, U, L
<1>8. IsFiniteSet(P) /\ SumFunction(d) <= Cardinality(P)
  BY <1>1, <1>2, <1>3, SumAtMostPairs
<1>9. frame \in Injection(P, U)
  <2> HIDE DEF P
  <2> QED  BY <1>4 DEF Injection, IsInjective
<1>10. /\ Cardinality(P) <= Cardinality(U)
       /\ Cardinality(P) \in Nat /\ Cardinality(U) \in Nat /\ Cardinality(L) \in Nat
       /\ Cardinality(U) <= Cardinality(L) /\ SumFunction(d) \in Nat
  <2> HIDE DEF P, frame
  <2>1. Cardinality(P) <= Cardinality(U)
    BY <1>7, <1>8, <1>9, FS_Injection
  <2>2. Cardinality(U) <= Cardinality(L)
    BY <1>5, <1>6, FS_Subset
  <2>3. SumFunction(d) \in Nat
    BY <1>1, SumType
  <2> QED  BY <1>5, <1>7, <1>8, <2>1, <2>2, <2>3, FS_CardinalityType
<1>11. SumFunction(d) <= link.reordered
  <2> HIDE DEF P
  <2> QED  BY <1>5, <1>8, <1>10
<1> QED  BY <1>11 DEF d

\* For any number of nodes and packets and every configuration of the link, the records show
\* no duplicate, without jitter no reorder, and the receiver no damage that the link did not
\* make: each duplicate is a frame it doubled, each reorder one it counted, and at the end each
\* copy of each damaged frame has been rejected, and no other.
THEOREM FaultsAreTheLinks == Spec => []LinkExplainsStats
<1>1. Facts /\ W!Truth /\ StationFacts /\ S!EstInv /\ PacketsHeard /\ Overtakings /\ W!Ordered
        => LinkExplainsStats
  BY DuplicatesSummed, ReordersSummed, CrcErrorsAre DEF LinkExplainsStats
<1> QED  BY <1>1, FactsHold, DamageTold, StationHolds, EstimatesHold, PacketsCounted,
            OvertakingsHold, PTL

-----------------------------------------------------------------------------
(* What the records of the slice tell of the loss. *)

\* Every moment of every run of the slice, whatever the link does: each node's last_seq is the
\* newest number the collector was handed of it, and the frames missing before that one are at
\* least the record's `lost` and at most its `lost` and `reordered` together (collector.py:123).
THEOREM SliceRecordsBracket == Spec => [](S!HighWaterExact /\ S!LossBracketed)
<1>1. S!Spec => []S!HighWaterExact
  BY StationApplies, S!HighWater
<1>2. S!Spec => []S!LossBracketed
  BY StationApplies, S!RecordBracketsLoss
<1> QED  BY <1>1, <1>2, BehavesAsStation, PTL

-----------------------------------------------------------------------------
(* A perfect link. *)

\* The data frames of node n, and the places of the data frames the collector has processed.
DataOf(n) == {k \in FramesOf(n) : ~sent[k].heartbeat}
DataHeard == {j \in 1 .. Len(arrived) : arrived[j].intact /\ ~sent[arrived[j].frame].heartbeat}

\* The generators count their data frames, the totals the samples of those processed.
Payload ==
    /\ \A n \in Nodes : source[n].emitted = Cardinality(DataOf(n))
    /\ totals.samples = BlockSamples * Cardinality(DataHeard)

\* There are only so many of either.
LEMMA DataFinite ==
    ASSUME Facts
    PROVE  /\ \A n : IsFiniteSet(DataOf(n)) /\ Cardinality(DataOf(n)) \in Nat
           /\ IsFiniteSet(DataHeard) /\ Cardinality(DataHeard) \in Nat
<1>1. ASSUME NEW n PROVE IsFiniteSet(DataOf(n)) /\ Cardinality(DataOf(n)) \in Nat
  <2>1. DataOf(n) \in SUBSET (1 .. Len(sent))
    BY DEF DataOf, FramesOf
  <2> QED  BY <2>1, SomeFrames, Arrivals
<1>2. IsFiniteSet(DataHeard) /\ Cardinality(DataHeard) \in Nat
  <2>1. DataHeard \in SUBSET (1 .. Len(arrived)) /\ IsFiniteSet(1 .. Len(arrived))
    BY Arrivals, FS_Interval DEF DataHeard
  <2> QED  BY <2>1, FS_Subset, FS_CardinalityType
<1> QED  BY <1>1, <1>2

\* A frame sent is counted by its generator if it carries data.
LEMMA SendPayload ==
    ASSUME Facts, Payload, SendFrame
    PROVE  Payload'
<1> DEFINE p == PacketFrom(turn)
           new == Len(sent) + 1
<1>1. /\ sent' = Append(sent, p) /\ sent \in Seq(SentFrame) /\ turn \in Nodes
      /\ p \in SentFrame /\ p.node = turn /\ p.heartbeat = HeartbeatDue(source[turn])
      /\ source' = [source EXCEPT ![turn] = AfterFrame(source[turn])]
      /\ source = [n \in Nodes |-> source[n]]
      /\ totals' = totals
  <2>1. sent' = Append(sent, p) /\ sent \in Seq(SentFrame) /\ turn \in Nodes
    BY Arrivals DEF SendFrame, Facts, Schedule, Rounds
  <2>2. p \in SentFrame /\ p.node = turn
    BY NextFrameOf DEF SendFrame, Facts
  <2>3. p.heartbeat = HeartbeatDue(source[turn])
    BY DEF PacketFrom
  <2> QED  BY <2>1, <2>2, <2>3 DEF SendFrame, collectorVars, Facts, Schedule, Generators
<1>2. arrived' = arrived
  BY DEF SendFrame, Wire!Send, Wire!SendLost, Wire!SendHeld, Wire!SendPassed,
         Wire!SendOvertaking
<1>3. /\ Len(sent) \in Nat /\ Len(sent') = new /\ sent'[new] = p
      /\ \A k \in 1 .. Len(sent) : sent'[k] = sent[k]
  BY <1>1, AppendProperties, LenProperties
<1>4. 1 .. new = (1 .. Len(sent)) \union {new} /\ new \notin 1 .. Len(sent)
  BY <1>3
<1> HIDE DEF p, new
<1>5. \A n : DataOf(n)' = DataOf(n) \union (IF n = turn /\ ~p.heartbeat THEN {new} ELSE {})
  BY <1>1, <1>3, <1>4 DEF DataOf, FramesOf
<1>6. \A n : /\ IsFiniteSet(DataOf(n)) /\ Cardinality(DataOf(n)) \in Nat
             /\ new \notin DataOf(n)
  BY <1>4, DataFinite DEF DataOf, FramesOf
<1>7. ASSUME NEW n \in Nodes PROVE source'[n].emitted = Cardinality(DataOf(n)')
  <2>1. source[n].emitted = Cardinality(DataOf(n))
    BY DEF Payload
  <2>2. Made(source[turn], Cardinality(FramesOf(turn)))
    BY <1>1 DEF Facts, Schedule, Generators
  <2>3. source[turn] \in [seq : Seqs, emitted : 0 .. Packets, since_hb : Nat]
    BY <2>2 DEF Made
  <2>4. CASE n = turn /\ ~p.heartbeat
    <3>1. source'[n].emitted = source[n].emitted + 1
      BY <1>1, <2>3, <2>4 DEF AfterFrame
    <3>2. Cardinality(DataOf(n) \union {new}) = Cardinality(DataOf(n)) + 1
      BY <1>6, FS_AddElement
    <3>3. DataOf(n)' = DataOf(n) \union {new}
      BY <1>5, <2>4
    <3> QED  BY <2>1, <3>1, <3>2, <3>3
  <2>5. CASE n = turn /\ p.heartbeat
    <3>1. source'[n].emitted = source[n].emitted
      BY <1>1, <2>3, <2>5 DEF AfterFrame
    <3>2. DataOf(n)' = DataOf(n)
      BY <1>5, <2>5
    <3> QED  BY <2>1, <3>1, <3>2
  <2>6. CASE n # turn
    <3>1. source'[n] = source[n]
      BY <1>1, <2>6
    <3>2. DataOf(n)' = DataOf(n)
      BY <1>5, <2>6
    <3> QED  BY <2>1, <3>1, <3>2
  <2> QED  BY <2>4, <2>5, <2>6
<1>8. DataHeard' = DataHeard
  <2>1. \A j \in 1 .. Len(arrived) : sent'[arrived[j].frame] = sent[arrived[j].frame]
    BY <1>3, Arrivals
  <2> QED  BY <1>2, <2>1 DEF DataHeard
<1> QED  BY <1>1, <1>7, <1>8 DEF Payload

\* A copy that comes off the link adds its samples.
LEMMA ReceivePayload ==
    ASSUME Facts, Facts', StationFacts, Payload, ReceivePacket
    PROVE  Payload'
<1>1. W!TypeOK /\ W!TypeOK' /\ W!Recv /\ sent' = sent /\ source' = source
  BY SameActions DEF ReceivePacket, Facts, LinkFacts
<1>2. PICK c \in W!Copy : arrived' = Append(arrived, c)
  BY <1>1, LinkApplies, W!RecvTakes
<1> DEFINE new == Len(arrived) + 1
           p == sent[c.frame]
<1>3. /\ Len(arrived) \in Nat /\ Len(arrived') = new /\ arrived'[new] = c
      /\ \A j \in 1 .. Len(arrived) : arrived'[j] = arrived[j]
  BY <1>2, Arrivals, ArrivalsGrow
<1>4. 1 .. new = (1 .. Len(arrived)) \union {new} /\ new \notin 1 .. Len(arrived)
  BY <1>3
<1>5. DataHeard' = DataHeard \union (IF c.intact /\ ~p.heartbeat THEN {new} ELSE {})
  BY <1>1, <1>3, <1>4 DEF DataHeard
<1>6. IsFiniteSet(DataHeard) /\ Cardinality(DataHeard) \in Nat /\ new \notin DataHeard
  BY <1>4, DataFinite DEF DataHeard
<1>7. Cardinality(DataHeard \union {new}) = Cardinality(DataHeard) + 1
  BY <1>6, FS_AddElement
<1>8. totals.samples = BlockSamples * Cardinality(DataHeard) /\ totals.samples \in Nat
  <2>1. totals \in [packets : Nat, samples : Nat]
    BY DEF StationFacts, S!TypeOK, S!CollectorTypeOK
  <2> QED  BY <2>1 DEF Payload
<1>9. \A n \in Nodes : source'[n].emitted = Cardinality(DataOf(n)')
  BY <1>1 DEF Payload, DataOf, FramesOf
<1>10. CASE c.intact
  <2>1. totals'.samples = totals.samples + p.samples
    BY <1>3, <1>10 DEF ReceivePacket, Process
  <2>2. p.samples = IF p.heartbeat THEN 0 ELSE BlockSamples
    <3>1. c.frame \in 1 .. Len(sent)
      <4>1. W!Recv /\ W!TypeOK /\ W!TypeOK' /\ W!Counted /\ link.offered = Len(sent)
        BY <1>1 DEF Facts, LinkFacts, Books
      <4>2. PICK e \in W!Copy : arrived' = Append(arrived, e) /\ e.frame \in 1 .. link.offered
        BY <4>1, LinkApplies, W!RecvView
      <4>3. arrived'[new] = e
        BY <1>3, <4>2, Arrivals, ArrivalsGrow
      <4> QED  BY <1>3, <4>1, <4>2, <4>3
    <3>2. RightFrame(c.frame)
      BY <3>1 DEF Facts, Schedule, Frames
    <3> QED  BY <3>2 DEF RightFrame
  <2>3. CASE p.heartbeat
    <3>1. DataHeard' = DataHeard /\ totals'.samples = totals.samples
      BY <1>5, <1>8, <2>1, <2>2, <2>3
    <3> QED  BY <1>8, <1>9, <3>1 DEF Payload
  <2>4. CASE ~p.heartbeat
    <3>1. DataHeard' = DataHeard \union {new} /\ totals'.samples = totals.samples + BlockSamples
      BY <1>5, <1>10, <2>1, <2>2, <2>4
    <3>2. Cardinality(DataHeard') = Cardinality(DataHeard) + 1
      BY <1>7, <3>1
    <3>3. \A b, x \in Nat : b * (x + 1) = b * x + b
      BY SMT
    <3>4. totals'.samples = BlockSamples * Cardinality(DataHeard')
      BY <1>6, <1>8, <3>1, <3>2, <3>3, Constants
    <3> QED  BY <1>9, <3>4 DEF Payload
  <2> QED  BY <2>3, <2>4
<1>11. CASE ~c.intact
  <2>1. totals' = totals
    BY <1>3, <1>11 DEF ReceivePacket, collectorVars
  <2>2. DataHeard' = DataHeard
    BY <1>5, <1>11
  <2> QED  BY <1>8, <1>9, <2>1, <2>2 DEF Payload
<1> QED  BY <1>10, <1>11

\* At every moment.
LEMMA PayloadCounted == Spec => []Payload
<1>1. Init => Payload
  <2> SUFFICES ASSUME Init PROVE Payload
    OBVIOUS
  <2>1. /\ sent = <<>> /\ arrived = <<>> /\ totals.samples = 0
        /\ \A n \in Nodes : source[n].emitted = 0
    BY DEF Init, CollectorInit, Wire!Init
  <2>2. DataHeard = {} /\ \A n : DataOf(n) = {}
    BY <2>1 DEF DataHeard, DataOf, FramesOf
  <2>3. BlockSamples * 0 = 0
    BY Constants, SMT
  <2> QED  BY <2>1, <2>2, <2>3, FS_EmptySet DEF Payload
<1>2. ASSUME Facts, Facts', StationFacts, Payload, [Next]_vars PROVE Payload'
  <2>1. CASE SendFrame
    BY <1>2, <2>1, SendPayload
  <2>2. CASE ReceivePacket
    BY <1>2, <2>2, ReceivePayload
  <2>3. CASE FlushLink
    <3>1. totals' = totals /\ sent' = sent /\ arrived' = arrived /\ source' = source
      BY <2>3 DEF FlushLink, collectorVars, Wire!Flush
    <3> QED  BY <1>2, <3>1 DEF Payload, DataOf, FramesOf, DataHeard
  <2>4. CASE SkipNode \/ EndRound \/ Close \/ UNCHANGED vars
    <3>1. totals' = totals /\ sent' = sent /\ arrived' = arrived /\ source' = source
      BY <2>4 DEF SkipNode, EndRound, Close, vars, collectorVars
    <3> QED  BY <1>2, <3>1 DEF Payload, DataOf, FramesOf, DataHeard
  <2> QED  BY <1>2, <2>1, <2>2, <2>3, <2>4 DEF Next
<1>3. Facts /\ Facts' /\ StationFacts /\ Payload /\ [Next]_vars => Payload'
  BY <1>2
<1> QED  BY <1>1, <1>3, FactsHold, StationHolds, PTL DEF Spec

\* The run is over, and every knob but the latency was off.
Perfect ==
    /\ pc = "closed"
    /\ \A knob \in {"loss", "duplicate", "reorder", "corrupt"} : config[knob] = {FALSE}
    /\ config.jitter = 0

\* Then the link has lost, damaged, doubled and reordered nothing.
LEMMA NothingHappened ==
    ASSUME Facts, W!Truth, W!Ordered, Perfect
    PROVE  /\ link.dropped = 0 /\ link.corrupted = 0 /\ link.duplicated = 0 /\ link.reordered = 0
           /\ Waits = {} /\ W!Vanished = {} /\ W!BadIn(W!Out) = {} /\ Doubled = {}
<1>1. /\ config.loss = {FALSE} /\ config.duplicate = {FALSE} /\ config.reorder = {FALSE}
      /\ config.corrupt = {FALSE} /\ config.jitter = 0 /\ pc = "closed"
  <2>1. \A knob \in {"loss", "duplicate", "reorder", "corrupt"} : config[knob] = {FALSE}
    BY DEF Perfect
  <2>2. /\ config["loss"] = {FALSE} /\ config["duplicate"] = {FALSE}
        /\ config["reorder"] = {FALSE} /\ config["corrupt"] = {FALSE}
    BY <2>1
  <2> QED  BY <2>2 DEF Perfect
<1>2. link.dropped \in Nat /\ link.duplicated \in Nat
  <2>1. link \in W!LinkType
    BY DEF Facts, LinkFacts, W!TypeOK
  <2> QED  BY <2>1, LinkApplies, W!FieldTypes
<1>3. link.dropped = 0 /\ link.duplicated = 0 /\ \A c \in W!Out : c.intact
  BY <1>1, <1>2 DEF W!Truth, W!Told, W!Knobs
<1>4. W!BadIn(W!Out) = {}
  BY <1>3 DEF W!BadIn, W!Bad
<1>5. link.corrupted = 0
  <2>1. link.corrupted = Cardinality(W!BadIn(W!Out))
    BY SameCounting DEF W!Truth, W!Told
  <2> QED  BY <1>4, <2>1, FS_EmptySet
<1>6. Doubled = {}
  BY <1>3, ArrivedTwice, FS_EmptySet
<1>7. W!Vanished = {}
  <2>1. Cardinality(W!Vanished) = 0
    BY <1>3, SameCounting DEF Facts, LinkFacts, W!CountersTell
  <2>2. W!Vanished \in SUBSET (1 .. Len(sent))
    BY Arrivals DEF W!Vanished
  <2> QED  BY <2>1, <2>2, SomeFrames, Arrivals, FS_EmptySet
<1>8. Waits = {}
  <2>1. \A f \in W!Frame : W!Waiting(f) = 0
    BY <1>1, AllOut
  <2>2. \A k \in 1 .. Len(sent) : W!Waiting(k) = 0
    BY <2>1, Arrivals
  <2>3. \A k : Wire!Waiting(k) = W!Waiting(k)
    BY SamePlaces
  <2> QED  BY <2>2, <2>3 DEF Waits
<1>9. link.reordered = 0
  <2> DEFINE s == W!InOrder(link, arrived)
  <2>1. W!LineFacts(s, link.held, link.offered, link.reordered)
    BY <1>1 DEF W!Ordered
  <2>2. s \in Seq(W!Copy) /\ W!Ascending(s) /\ link.reordered = Cardinality(W!Late(s))
    BY <1>1, <2>1, SameCounting DEF W!LineFacts
  <2> HIDE DEF s
  <2>3. Len(s) \in Nat /\ \A i \in 1 .. Len(s) : s[i].frame \in Nat
    <3>1. Len(s) \in Nat /\ \A i \in 1 .. Len(s) : s[i] \in W!Copy
      BY <2>2, LenProperties, ElementOfSeq
    <3> QED  BY <3>1 DEF W!Copy, W!Frame
  <2>4. W!Late(s) = {}
    <3> SUFFICES ASSUME NEW f \in W!Late(s) PROVE FALSE
      OBVIOUS
    <3>1. PICK j \in 1 .. Len(s) : s[j].frame = f /\ \E i \in 1 .. j - 1 : s[i].frame > f
      BY DEF W!Late
    <3>2. PICK i \in 1 .. j - 1 : s[i].frame > f
      BY <3>1
    <3>3. i \in 1 .. Len(s) /\ i < j
      BY <2>3
    <3>4. s[i].frame <= s[j].frame
      BY <2>2, <3>3 DEF W!Ascending
    <3> QED  BY <2>3, <3>1, <3>2, <3>3, <3>4
  <2> QED  BY <2>2, <2>4, FS_EmptySet
<1> QED  BY <1>3, <1>4, <1>5, <1>6, <1>7, <1>8, <1>9

\* Every node has sent all its frames, and each has arrived once, intact.
LEMMA AllDelivered ==
    ASSUME Facts, W!Truth, W!Ordered, Perfect
    PROVE  /\ \A n \in Nodes : /\ Cardinality(FramesOf(n)) = FramesPerNode
                               /\ source[n].emitted = Packets
           /\ \A k \in 1 .. Len(sent) : Good(k) > 0
           /\ \A k \in 1 .. Len(sent) : \E j \in 1 .. Len(arrived) :
                 arrived[j].frame = k /\ arrived[j].intact
           /\ \A i, j \in 1 .. Len(arrived) : arrived[i].frame = arrived[j].frame => i = j
<1>1. ASSUME NEW n \in Nodes
      PROVE  Cardinality(FramesOf(n)) = FramesPerNode /\ source[n].emitted = Packets
  <2>1. pc = "closed"
    BY DEF Perfect
  <2>2. n \notin active
    BY <2>1 DEF Facts, Schedule, Rounds, Running
  <2>3. /\ Made(source[n], Cardinality(FramesOf(n))) /\ Exhausted(source[n])
        /\ Cardinality(FramesOf(n)) \in Nat
    BY <2>2, NamesBounded DEF Facts, Schedule, Generators
  <2> QED  BY <2>3, MadeBound
<1>2. ASSUME NEW k \in 1 .. Len(sent) PROVE Good(k) > 0
  <2>1. Good(k) # 0
    BY NothingHappened, WhyUnheard
  <2> QED  BY <2>1, Kinds
<1>3. ASSUME NEW k \in 1 .. Len(sent)
      PROVE  \E j \in 1 .. Len(arrived) : arrived[j].frame = k /\ arrived[j].intact
  <2>1. Good(k) = Cardinality(At({[frame |-> k, intact |-> TRUE]}))
    BY CopiesAt DEF Good
  <2>2. At({[frame |-> k, intact |-> TRUE]}) # {}
    <3>1. Good(k) > 0
      BY <1>2
    <3>2. Good(k) # 0
      BY <3>1
    <3> QED  BY <2>1, <3>2, FS_EmptySet
  <2>3. PICK j \in 1 .. Len(arrived) : arrived[j] = [frame |-> k, intact |-> TRUE]
    BY <2>2 DEF At
  <2> QED  BY <2>3
<1>4. \A i, j \in 1 .. Len(arrived) : arrived[i].frame = arrived[j].frame => i = j
  BY NothingHappened, ArrivedTwice
<1> QED  BY <1>1, <1>2, <1>3, <1>4

\* No summand is larger than the sum.
LEMMA SumAtLeast ==
    ASSUME NEW D, IsFiniteSet(D), NEW f \in [D -> Nat], NEW x \in D
    PROVE  f[x] <= SumFunction(f)
<1> DEFINE g == [f EXCEPT ![x] = 0]
<1>1. g \in [D -> Nat] /\ g[x] = 0 /\ \A y \in D \ {x} : g[y] = f[y]
  OBVIOUS
<1> HIDE DEF g
<1>2. SumFunction(g) + f[x] = SumFunction(f) + g[x]
  BY <1>1, SumChange
<1>3. SumFunction(g) \in Nat /\ SumFunction(f) \in Nat /\ f[x] \in Nat
  BY <1>1, SumType
<1> QED  BY <1>1, <1>2, <1>3

\* So the records show no fault.
LEMMA NoFaults ==
    ASSUME Facts, W!Truth, W!Ordered, StationFacts, LossIsReal, LinkExplainsStats, Perfect,
           NEW n \in Nodes
    PROVE  nodes[n].lost = 0 /\ nodes[n].reordered = 0 /\ nodes[n].duplicated = 0
<1>1. ASSUME NEW f \in [Nodes -> Nat], SumFunction(f) <= 0 PROVE f[n] = 0
  <2>1. f[n] <= SumFunction(f) /\ SumFunction(f) \in Nat /\ f[n] \in Nat
    BY NodesAssumption, SumAtLeast, SumType
  <2> QED  BY <1>1, <2>1
<1>2. /\ [m \in Nodes |-> nodes[m].lost] \in [Nodes -> Nat]
      /\ [m \in Nodes |-> nodes[m].reordered] \in [Nodes -> Nat]
      /\ [m \in Nodes |-> nodes[m].duplicated] \in [Nodes -> Nat]
  <2>1. nodes \in [Nodes -> S!NodeStats]
    BY DEF StationFacts, S!TypeOK, S!CollectorTypeOK
  <2> QED  BY <2>1 DEF S!NodeStats
<1>3. SumFunction([m \in Nodes |-> nodes[m].lost]) <= 0
  <2>1. link.dropped = 0 /\ link.corrupted = 0 /\ Cardinality(Waits) = 0
    BY NothingHappened, FS_EmptySet
  <2> QED  BY <2>1 DEF LossIsReal
<1>4. SumFunction([m \in Nodes |-> nodes[m].reordered]) <= 0
  <2>1. link.reordered = 0 /\ config.jitter = 0
    BY NothingHappened DEF Perfect
  <2> QED  BY <2>1 DEF LinkExplainsStats
<1>5. SumFunction([m \in Nodes |-> nodes[m].duplicated]) <= 0
  <2>1. link.duplicated = 0
    BY NothingHappened
  <2> QED  BY <2>1 DEF LinkExplainsStats
<1>6. nodes[n].lost = 0
  <2>1. [m \in Nodes |-> nodes[m].lost][n] = 0
    BY <1>1, <1>2, <1>3
  <2> QED  BY <2>1
<1>7. nodes[n].reordered = 0
  <2>1. [m \in Nodes |-> nodes[m].reordered][n] = 0
    BY <1>1, <1>2, <1>4
  <2> QED  BY <2>1
<1>8. nodes[n].duplicated = 0
  <2>1. [m \in Nodes |-> nodes[m].duplicated][n] = 0
    BY <1>1, <1>2, <1>5
  <2> QED  BY <2>1
<1> QED  BY <1>6, <1>7, <1>8

\* Each data frame of each node was processed once.
LEMMA EachSampleOnce ==
    ASSUME Facts, W!Truth, W!Ordered, Payload, Perfect
    PROVE  Cardinality(DataHeard) = NodeCount * Packets
<1> DEFINE A == [n \in Nodes |-> DataOf(n)]
           B == [n \in Nodes |-> 1 .. Packets]
           f == [n \in Nodes |-> Packets]
           P == Pairs(A, Nodes)
           place == [j \in DataHeard |-> <<sent[arrived[j].frame].node, arrived[j].frame>>]
<1>1. IsFiniteSet(Nodes) /\ Cardinality(Nodes) = NodeCount /\ f \in [Nodes -> Nat]
  <2>1. NodeCount \in Nat /\ NodeCount > 0 /\ Nodes = 1 .. NodeCount /\ Packets \in Nat
    BY Constants
  <2>2. Cardinality(1 .. NodeCount) = IF 1 > NodeCount THEN 0 ELSE NodeCount - 1 + 1
    BY <2>1, FS_Interval
  <2> QED  BY <2>1, <2>2, NodesAssumption
<1>2. IsFiniteSet(1 .. Packets) /\ Cardinality(1 .. Packets) = Packets
  <2>1. Packets \in Nat
    BY Constants
  <2>2. /\ IsFiniteSet(1 .. Packets)
        /\ Cardinality(1 .. Packets) = IF 1 > Packets THEN 0 ELSE Packets - 1 + 1
    BY <2>1, FS_Interval
  <2> QED  BY <2>1, <2>2
<1>3. /\ A \in [Nodes -> SUBSET (1 .. Len(sent))]
      /\ \A n \in Nodes : IsFiniteSet(A[n]) /\ f[n] = Cardinality(A[n])
  <2>1. A \in [Nodes -> SUBSET (1 .. Len(sent))]
    BY DEF DataOf, FramesOf
  <2>2. \A n \in Nodes : Cardinality(DataOf(n)) = Packets
    BY AllDelivered DEF Payload
  <2> QED  BY <2>1, <2>2, DataFinite
<1>4. /\ B \in [Nodes -> SUBSET (1 .. Packets)]
      /\ \A n \in Nodes : IsFiniteSet(B[n]) /\ f[n] = Cardinality(B[n])
  BY <1>2
<1>5. Pairs(B, Nodes) = Nodes \X (1 .. Packets)
  BY DEF Pairs
<1>6. Cardinality(Nodes \X (1 .. Packets)) = NodeCount * Packets
  BY <1>1, <1>2, FS_Product
<1>7. place \in Injection(DataHeard, P)
  <2>1. ASSUME NEW j \in DataHeard PROVE place[j] \in P
    <3> DEFINE k == arrived[j].frame
    <3>1. k \in 1 .. Len(sent) /\ ~sent[k].heartbeat
      BY Arrivals DEF DataHeard
    <3> HIDE DEF k
    <3>2. sent[k].node \in Nodes
      <4>1. sent[k] \in SentFrame
        BY <3>1, Indices, Arrivals
      <4> QED  BY <4>1 DEF SentFrame
    <3>3. k \in A[sent[k].node]
      BY <3>1, <3>2 DEF DataOf, FramesOf
    <3>4. <<sent[k].node, k>> \in P
      <4> HIDE DEF A
      <4> QED  BY <3>2, <3>3 DEF Pairs
    <3> QED  BY <3>4 DEF k
  <2>2. ASSUME NEW i \in DataHeard, NEW j \in DataHeard, place[i] = place[j] PROVE i = j
    <3>1. arrived[i].frame = arrived[j].frame
      BY <2>2
    <3> QED  BY <3>1, AllDelivered DEF DataHeard
  <2> HIDE DEF P
  <2> QED  BY <2>1, <2>2 DEF Injection, IsInjective
<1>8. \A p \in P : \E j \in DataHeard : place[j] = p
  <2> SUFFICES ASSUME NEW p \in P PROVE \E j \in DataHeard : place[j] = p
    OBVIOUS
  <2>1. p[1] \in Nodes /\ p[2] \in DataOf(p[1]) /\ p = <<p[1], p[2]>>
    BY DEF Pairs
  <2>2. p[2] \in 1 .. Len(sent) /\ sent[p[2]].node = p[1] /\ ~sent[p[2]].heartbeat
    BY <2>1 DEF DataOf, FramesOf
  <2>3. PICK j \in 1 .. Len(arrived) : arrived[j].frame = p[2] /\ arrived[j].intact
    BY <2>2, AllDelivered
  <2>4. j \in DataHeard
    BY <2>2, <2>3 DEF DataHeard
  <2>5. place[j] = <<p[1], p[2]>>
    BY <2>2, <2>3, <2>4
  <2> QED  BY <2>1, <2>4, <2>5
<1> HIDE DEF A, B, f
<1>9. SumFunction(f) = Cardinality(P)
  BY <1>1, <1>3, SumIsPairs
<1>10. SumFunction(f) = Cardinality(Pairs(B, Nodes))
  BY <1>1, <1>4, SumIsPairs
<1>11. Cardinality(DataHeard) = Cardinality(P)
  <2>1. place \in Surjection(DataHeard, P)
    <3> HIDE DEF P
    <3>1. place \in [DataHeard -> P]
      <4> HIDE DEF place
      <4> QED  BY <1>7 DEF Injection
    <3> HIDE DEF place
    <3> QED  BY <1>8, <3>1 DEF Surjection
  <2>2. place \in Bijection(DataHeard, P)
    <3> HIDE DEF P, place
    <3> QED  BY <1>7, <2>1 DEF Bijection
  <2>3. IsFiniteSet(DataHeard)
    BY DataFinite
  <2> HIDE DEF P, place
  <2>4. ExistsBijection(DataHeard, P)
    BY <2>2 DEF ExistsBijection
  <2> QED  BY <2>3, <2>4, FS_Bijection
<1> QED  BY <1>5, <1>6, <1>9, <1>10, <1>11

\* Nothing heard two rounds before the end was the last that was sent.
LEMMA NoFalseAlarm ==
    ASSUME Facts, W!Truth, W!Ordered, StationFacts, S!EstInv, Perfect, StaleAfter >= 2
    PROVE  StaleNodes(now) = {}
<1> SUFFICES ASSUME NEW n \in StaleNodes(now) PROVE FALSE
  OBVIOUS
<1> DEFINE T == S!Heard(n)
           last == FramesPerNode - 1
<1>1. n \in Nodes /\ nodes[n].last_seen >= 0 /\ now - nodes[n].last_seen > StaleAfter
  BY DEF StaleNodes
<1>2. /\ nodes[n].last_seen \in Nat /\ now \in Nat /\ now <= FramesPerNode + 1
      /\ FramesPerNode \in Nat /\ StaleAfter \in Nat
  <2>1. nodes \in [Nodes -> S!NodeStats]
    BY DEF StationFacts, S!TypeOK, S!CollectorTypeOK
  <2>2. nodes[n].last_seen \in Nat \union {-1}
    BY <1>1, <2>1 DEF S!NodeStats, S!Never
  <2>3. now \in Nat /\ now <= FramesPerNode + 1
    BY DEF Facts, Schedule, Rounds, MaxTime
  <2> QED  BY <1>1, <2>2, <2>3, Constants, StaleAfterAssumption
<1>3. /\ \A k \in T : SentAt[<<n, k>>] <= nodes[n].last_seen
      /\ T = {} => nodes[n].last_seen = -1
  BY <1>1 DEF S!EstInv, S!Timely, S!Never
<1>4. T # {}
  BY <1>2, <1>3
<1>5. last \in 0 .. FramesPerNode - 1
  <2>1. PICK k \in T : k \in 0 .. FramesPerNode - 1
    BY <1>4 DEF S!Heard, S!Index
  <2> QED  BY <1>2, <2>1
<1>6. PICK k \in 1 .. Len(sent) : Name(k) = <<n, last>>
  <2>1. Cardinality(FramesOf(n)) = FramesPerNode
    BY <1>1, AllDelivered
  <2>2. last \in 0 .. Cardinality(FramesOf(n)) - 1
    BY <1>5, <2>1
  <2> QED  BY <2>2, NoIndexSkipped, Arrivals
<1>7. /\ <<n, last>> \in Names /\ FrameOf(<<n, last>>) = k /\ k # 0
      /\ sent[k].at = last /\ Good(k) > 0
  <2>1. FrameOf(Name(k)) = k /\ RightFrame(k) /\ IndexOf(k) = last
    BY <1>6, NamesBounded DEF Name, Facts, Schedule, Frames
  <2>2. sent[k].at = last
    BY <2>1 DEF RightFrame
  <2>3. k # 0
    BY Arrivals
  <2> QED  BY <1>1, <1>5, <1>6, <2>1, <2>2, <2>3, AllDelivered DEF Names
<1>8. last \in T
  <2>1. Processed[<<n, last>>] > 0
    BY <1>7, ProcessedIs
  <2> QED  BY <1>5, <2>1 DEF S!Heard, S!Index
<1>9. SentAt[<<n, last>>] = last
  BY <1>7 DEF SentAt
<1>10. last <= nodes[n].last_seen
  BY <1>3, <1>8, <1>9
<1> QED  BY <1>1, <1>2, <1>10

\* For any number of nodes and packets, with or without heartbeats, and any fixed latency: a run
\* over a link with every knob off delivers each sample once and reports no fault, and no node
\* as stale that was only silent for the two rounds that end the run (cli/slice.py, run).
THEOREM PerfectRun == Spec => []PerfectLinkPerfectStats
<1>1. /\ Facts /\ W!Truth /\ W!Ordered /\ StationFacts /\ S!EstInv /\ Payload
      /\ LossIsReal /\ LinkExplainsStats
      => PerfectLinkPerfectStats
  <2> SUFFICES ASSUME Facts, W!Truth, W!Ordered, StationFacts, S!EstInv, Payload,
                      LossIsReal, LinkExplainsStats, Perfect
               PROVE  /\ totals.samples = NodeCount * Packets * BlockSamples
                      /\ \A n \in Nodes : /\ nodes[n].lost = 0 /\ nodes[n].reordered = 0
                                          /\ nodes[n].duplicated = 0
                      /\ StaleAfter >= 2 => StaleNodes(now) = {}
    BY DEF PerfectLinkPerfectStats, Perfect
  <2>1. totals.samples = BlockSamples * (NodeCount * Packets)
    BY EachSampleOnce DEF Payload
  <2>2. \A a, b, c \in Nat : c * (a * b) = a * b * c
    BY SMT
  <2>3. totals.samples = NodeCount * Packets * BlockSamples
    BY <2>1, <2>2, Constants
  <2> QED  BY <2>3, NoFaults, NoFalseAlarm
<1> QED  BY <1>1, FactsHold, DamageTold, OvertakingsHold, StationHolds, EstimatesHold,
            PayloadCounted, LossesAreTheLinks, FaultsAreTheLinks, PTL
=============================================================================
