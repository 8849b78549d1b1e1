---------------------------- MODULE SerialProofs ----------------------------
(***************************************************************************)
(* What the framing loop promises of the buffer and of the bytes, for all  *)
(* packets, bursts and damage, and every way reads may cut the stream.     *)
(***************************************************************************)
EXTENDS SerialLine, NumberProofs

(***************************************************************************)
(* The inductive invariant.                                                *)
(***************************************************************************)

\* The buffer and the wire are the rest of what was sent.
InLine ==
    /\ Len(line) = front + Len(buf) + Len(wire)
    /\ \A i \in 1 .. Len(buf) : buf[i] = line[front + i]
    /\ \A i \in 1 .. Len(wire) : wire[i] = line[front + Len(buf) + i]

\* The frames taken lie one behind the other in what has left the buffer.
InOrder ==
    /\ \A k \in 1 .. Len(spans) : 1 <= spans[k].at /\ spans[k].at + spans[k].len <= front + 1
    /\ \A j, k \in 1 .. Len(spans) : j < k => spans[j].at + spans[j].len <= spans[k].at

Counted ==
    /\ IsFiniteSet(SpansOf("received")) /\ IsFiniteSet(SpansOf("crc_errors"))
    /\ stats.received = Cardinality(SpansOf("received")) /\ stats.received = Len(yielded)
    /\ stats.crc_errors = Cardinality(SpansOf("crc_errors"))

NoiseCounted == IsFiniteSet(Skipped) /\ stats.resync_bytes = Cardinality(Skipped)

IInv == TypeOK /\ InLine /\ InOrder /\ NoiseCounted /\ Counted /\ BufferBounded

-----------------------------------------------------------------------------
(***************************************************************************)
(* The check sum: a number written in base seven, from which the length    *)
(* and the digits can be read back.                                        *)
(***************************************************************************)

Horner(D, g, N) ==
    /\ g \in [0 .. N -> Nat]
    /\ g[0] = 0
    /\ \A n \in 1 .. N : g[n] = 7 * g[n - 1] + D[n] + 1

LEMMA HornerExists ==
    ASSUME NEW N \in Nat, NEW D \in [1 .. N -> 0 .. 5]
    PROVE  \E g : Horner(D, g, N)
<1> DEFINE step == [n \in 1 .. N |-> [x \in Nat |-> 7 * x + D[n] + 1]]
<1>1. step \in [1 .. N -> [Nat -> Nat]] /\ 0 \in Nat
  OBVIOUS
<1>2. \A n \in 1 .. N, x \in Nat : step[n][x] = 7 * x + D[n] + 1
  OBVIOUS
<1> HIDE DEF step
<1>3. PICK g \in [0 .. N -> Nat] : Recursion(g, 0, step, N)
  BY <1>1, RecursionExists
<1>4. g[0] = 0 /\ \A n \in 1 .. N : g[n] = step[n][g[n - 1]]
  BY <1>3 DEF Recursion
<1>5. \A n \in 1 .. N : g[n - 1] \in Nat
  OBVIOUS
<1>6. \A n \in 1 .. N : g[n] = 7 * g[n - 1] + D[n] + 1
  BY <1>2, <1>4, <1>5
<1> QED  BY <1>4, <1>6 DEF Horner

LEMMA LastDigit ==
    ASSUME NEW a \in Nat, NEW b \in Nat, NEW d \in 0 .. 5, NEW e \in 0 .. 5,
           7 * a + d + 1 = 7 * b + e + 1
    PROVE  a = b /\ d = e
OBVIOUS

\* What was summed is read back from the sum.
LEMMA HornerTells ==
    ASSUME NEW N \in Nat, NEW M \in Nat, NEW D \in [1 .. N -> 0 .. 5], NEW E \in [1 .. M -> 0 .. 5],
           NEW g, NEW h, Horner(D, g, N), Horner(E, h, M), g[N] = h[M]
    PROVE  N = M /\ \A n \in 1 .. N : D[n] = E[n]
<1> DEFINE Told(m, k) == m = k /\ \A n \in 1 .. m : D[n] = E[n]
           T == {m \in 0 .. N : \E k \in 0 .. M : g[m] = h[k] /\ ~Told(m, k)}
<1>1. g \in [0 .. N -> Nat] /\ h \in [0 .. M -> Nat] /\ g[0] = 0 /\ h[0] = 0
  BY DEF Horner
<1>2. /\ \A n \in 1 .. N : g[n] = 7 * g[n - 1] + D[n] + 1
      /\ \A n \in 1 .. M : h[n] = 7 * h[n - 1] + E[n] + 1
  BY DEF Horner
<1>3. T = {}
  <2> SUFFICES ASSUME T # {} PROVE FALSE
    OBVIOUS
  <2>1. PICK m \in T : \A n \in T : m <= n
    <3>1. T \in SUBSET Nat
      OBVIOUS
    <3> HIDE DEF T
    <3> QED  BY <3>1, SmallestNumber
  <2>2. PICK k \in 0 .. M : g[m] = h[k] /\ ~Told(m, k)
    BY <2>1
  <2>3. m \in 0 .. N
    BY <2>1
  <2>4. CASE m = 0 \/ k = 0
    <3>3. m # 0 => g[m] > 0
      <4> HAVE m # 0
      <4>1. m \in 1 .. N /\ m - 1 \in 0 .. N
        BY <2>3
      <4>2. g[m - 1] \in Nat /\ D[m] \in 0 .. 5
        BY <1>1, <4>1
      <4>3. g[m] = 7 * g[m - 1] + D[m] + 1
        BY <1>2, <4>1
      <4> HIDE DEF T
      <4> QED  BY SMTT(30), <4>2, <4>3
    <3>4. k # 0 => h[k] > 0
      <4> HAVE k # 0
      <4>1. k \in 1 .. M /\ k - 1 \in 0 .. M
        BY <2>2
      <4>2. h[k - 1] \in Nat /\ E[k] \in 0 .. 5
        BY <1>1, <4>1
      <4>3. h[k] = 7 * h[k - 1] + E[k] + 1
        BY <1>2, <4>1
      <4> HIDE DEF T
      <4> QED  BY <4>2, <4>3
    <3>5. m = 0 /\ k = 0
      BY <1>1, <2>2, <2>4, <3>3, <3>4
    <3> QED  BY <2>2, <3>5
  <2>5. CASE m # 0 /\ k # 0
    <3>1. m \in 1 .. N /\ k \in 1 .. M /\ m - 1 \in 0 .. N /\ k - 1 \in 0 .. M
      BY <2>3, <2>5
    <3>2. g[m - 1] \in Nat /\ h[k - 1] \in Nat /\ D[m] \in 0 .. 5 /\ E[k] \in 0 .. 5
      BY <1>1, <3>1
    <3>3. 7 * g[m - 1] + D[m] + 1 = 7 * h[k - 1] + E[k] + 1
      BY <1>2, <2>2, <3>1
    <3>4. g[m - 1] = h[k - 1] /\ D[m] = E[k]
      <4> DEFINE a == g[m - 1]
                 b == h[k - 1]
                 d == D[m]
                 e == E[k]
      <4>1. a \in Nat /\ b \in Nat /\ d \in 0 .. 5 /\ e \in 0 .. 5
        BY <3>2
      <4>2. 7 * a + d + 1 = 7 * b + e + 1
        BY <3>3
      <4> HIDE DEF T, a, b, d, e
      <4>3. a = b /\ d = e
        BY <4>1, <4>2, LastDigit
      <4> QED  BY <4>3 DEF a, b, d, e
    <3>5. m - 1 \notin T
      BY <2>1, <2>3
    <3>6. Told(m - 1, k - 1)
      BY <3>1, <3>4, <3>5
    <3>7. m = k /\ \A n \in 1 .. m - 1 : D[n] = E[n]
      BY <2>3, <3>6
    <3>8. \A n \in 1 .. m : D[n] = E[n]
      BY <3>1, <3>4, <3>7
    <3> QED  BY <2>2, <3>7, <3>8
  <2> QED  BY <2>4, <2>5
<1>4. N \in 0 .. N /\ M \in 0 .. M /\ N \notin T
  BY <1>3
<1> QED  BY <1>4

LEMMA DigitOf ==
    ASSUME NEW cell
    PROVE  Digit(cell) \in 0 .. 5 /\ (cell \in Bytes => Digit(cell) = cell)
           /\ (Digit(cell) # 5 => cell \in Bytes)
<1>1. Cardinality(Bytes) = 5
  <2>1. 0 \in Int /\ 4 \in Int /\ 0 <= 4 /\ 4 - 0 + 1 = 5
    OBVIOUS
  <2>2. Cardinality(0 .. 4) = IF 0 > 4 THEN 0 ELSE 4 - 0 + 1
    BY <2>1, FS_Interval, Zenon
  <2>3. Cardinality(0 .. 4) = 5
    BY <2>2
  <2> QED  BY <2>3 DEF Bytes
<1> QED  BY <1>1 DEF Digit, Bytes

Digits(content) == [n \in 1 .. Len(content) |-> Digit(content[n])]

LEMMA CrcIsHorner ==
    ASSUME NEW content \in Seq(Cell)
    PROVE  \E g : Horner(Digits(content), g, Len(content)) /\ Crc(content) = g[Len(content)]
<1> DEFINE N == Len(content)
           D == Digits(content)
           Sum(g) == [n \in 0 .. N |-> IF n = 0 THEN 0 ELSE 7 * g[n - 1] + Digit(content[n]) + 1]
           sum == CHOOSE g : g = Sum(g)
<1>1. N \in Nat
  OBVIOUS
<1>2. Crc(content) = sum[N]
  BY DEF Crc
<1>3. D \in [1 .. N -> 0 .. 5] /\ \A n \in 1 .. N : D[n] = Digit(content[n])
  BY DigitOf DEF Digits
<1> HIDE DEF D
<1>4. PICK g : Horner(D, g, N)
  BY <1>1, <1>3, HornerExists
<1> HIDE DEF N
<1>5. g = Sum(g)
  <2>1. g \in [0 .. N -> Nat] /\ g[0] = 0 /\ \A n \in 1 .. N : g[n] = 7 * g[n - 1] + D[n] + 1
    BY <1>4 DEF Horner
  <2>2. \A n \in 0 .. N : g[n] = Sum(g)[n]
    <3> TAKE n \in 0 .. N
    <3>1. CASE n = 0
      BY <2>1, <3>1
    <3>2. CASE n # 0
      <4>1. n \in 1 .. N
        BY <1>1, <3>2
      <4>2. g[n] = 7 * g[n - 1] + Digit(content[n]) + 1
        BY <1>3, <2>1, <4>1
      <4> QED  BY <3>2, <4>2
    <3> QED  BY <3>1, <3>2
  <2> QED  BY <2>1, <2>2
<1>6. sum = Sum(sum)
  <2> HIDE DEF Sum
  <2> QED  BY <1>5
<1> HIDE DEF sum
<1>7. Horner(D, sum, N)
  <2> DEFINE T == {n \in 0 .. N : sum[n] \notin Nat}
  <2>1. /\ DOMAIN sum = 0 .. N
        /\ \A n \in 0 .. N : sum[n] = IF n = 0 THEN 0
                                      ELSE 7 * sum[n - 1] + Digit(content[n]) + 1
    BY <1>6
  <2>2. sum[0] = 0 /\ \A n \in 1 .. N : sum[n] = 7 * sum[n - 1] + D[n] + 1
    <3>1. sum[0] = 0
      BY <1>1, <2>1
    <3>2. ASSUME NEW n \in 1 .. N PROVE sum[n] = 7 * sum[n - 1] + D[n] + 1
      <4>1. n \in 0 .. N /\ n # 0
        BY <1>1
      <4> QED  BY <1>3, <2>1, <4>1
    <3> QED  BY <3>1, <3>2
  <2>3. T = {}
    <3> SUFFICES ASSUME T # {} PROVE FALSE
      OBVIOUS
    <3>1. PICK n \in T : \A m \in T : n <= m
      <4>1. T \in SUBSET Nat
        BY <1>1
      <4> HIDE DEF T
      <4> QED  BY <4>1, SmallestNumber
    <3>2. n \in 1 .. N /\ n - 1 \in 0 .. N /\ n - 1 \notin T
      BY <1>1, <2>2, <3>1
    <3>3. sum[n - 1] \in Nat /\ D[n] \in Nat
      BY <1>3, <3>2
    <3> QED  BY <2>2, <3>1, <3>2, <3>3
  <2>4. \A n \in 0 .. N : sum[n] \in Nat
    BY <2>3
  <2>5. sum = [n \in 0 .. N |-> sum[n]]
    BY <1>6
  <2>6. sum \in [0 .. N -> Nat]
    BY <2>4, <2>5
  <2> QED  BY <2>2, <2>6 DEF Horner
<1> QED  BY <1>2, <1>7 DEF N, D

\* The sum of a content with a byte in it is none of the bytes.
LEMMA CrcIsNoByte ==
    ASSUME NEW content \in Seq(Cell), Len(content) >= 2
    PROVE  Crc(content) \in Nat /\ Crc(content) \notin Bytes
<1> DEFINE N == Len(content)
           D == Digits(content)
<1>1. PICK g : Horner(D, g, N) /\ Crc(content) = g[N]
  BY CrcIsHorner
<1>2. N \in Nat /\ N >= 2 /\ D \in [1 .. N -> 0 .. 5]
  BY DigitOf DEF Digits
<1> HIDE DEF D, N
<1>3. g \in [0 .. N -> Nat] /\ \A n \in 1 .. N : g[n] = 7 * g[n - 1] + D[n] + 1
  BY <1>1 DEF Horner
<1>4. N \in 1 .. N /\ N - 1 \in 1 .. N /\ N - 1 \in 0 .. N /\ N - 2 \in 0 .. N
      /\ (N - 1) - 1 = N - 2
  BY <1>2
<1>5. g[N - 2] \in Nat /\ D[N - 1] \in Nat /\ D[N] \in Nat /\ g[N - 1] \in Nat /\ g[N] \in Nat
  <2>1. D[N - 1] \in 0 .. 5 /\ D[N] \in 0 .. 5
    BY <1>2, <1>4
  <2>2. N \in 0 .. N
    BY <1>2
  <2>3. g[N - 2] \in Nat /\ g[N - 1] \in Nat /\ g[N] \in Nat
    BY <1>3, <1>4, <2>2
  <2> QED  BY <2>1, <2>3
<1>6. g[N - 1] = 7 * g[N - 2] + D[N - 1] + 1 /\ g[N] = 7 * g[N - 1] + D[N] + 1
  BY <1>3, <1>4
<1>7. g[N] > 4
  BY <1>5, <1>6
<1> QED  BY <1>1, <1>5, <1>7 DEF Bytes

\* A content of bytes is told by its sum.
LEMMA CrcTells ==
    ASSUME NEW content \in Seq(Cell), NEW other \in Seq(Bytes), Crc(content) = Crc(other)
    PROVE  content = other
<1> DEFINE N == Len(content)
           M == Len(other)
           D == Digits(content)
           E == Digits(other)
<1>1. other \in Seq(Cell)
  <2>1. Bytes \subseteq Cell
    BY DEF Bytes, Cell
  <2> QED  BY <2>1
<1>2. PICK g : Horner(D, g, N) /\ Crc(content) = g[N]
  BY CrcIsHorner
<1>3. PICK h : Horner(E, h, M) /\ Crc(other) = h[M]
  BY <1>1, CrcIsHorner
<1>4. N \in Nat /\ M \in Nat
  OBVIOUS
<1>5. D \in [1 .. N -> 0 .. 5] /\ \A n \in 1 .. N : D[n] = Digit(content[n])
  BY DigitOf DEF Digits
<1>6. E \in [1 .. M -> 0 .. 5] /\ \A n \in 1 .. M : E[n] = Digit(other[n])
  BY DigitOf DEF Digits
<1> HIDE DEF D, E
<1>7. N = M /\ \A n \in 1 .. N : D[n] = E[n]
  <2>1. g[N] = h[M]
    BY <1>2, <1>3
  <2> HIDE DEF N, M
  <2> QED  BY ZenonT(60), <1>2, <1>3, <1>4, <1>5, <1>6, <2>1, HornerTells
<1>8. \A n \in 1 .. N : content[n] = other[n]
  <2> TAKE n \in 1 .. N
  <2>1. other[n] \in Bytes
    BY <1>7
  <2>2. Digit(other[n]) = other[n]
    BY <2>1, DigitOf
  <2>3. Digit(content[n]) = Digit(other[n])
    BY <1>5, <1>6, <1>7
  <2>4. Digit(content[n]) # 5
    BY <2>1, <2>2, <2>3 DEF Bytes
  <2>5. content[n] \in Bytes
    BY <2>4, DigitOf
  <2>6. Digit(content[n]) = content[n]
    BY <2>5, DigitOf
  <2> QED  BY <2>2, <2>3, <2>6
<1> QED  BY <1>1, <1>7, <1>8, SeqEqual

(***************************************************************************)
(* The frames: the decoder accepts what the encoder makes.                 *)
(***************************************************************************)

LEMMA SyncWord ==
    ASSUME NEW s \in Seq(Cell), NEW p \in 1 .. Len(s) - 1
    PROVE  SubSeq(s, p, p + 1) = Magic <=> s[p] = Magic[1] /\ s[p + 1] = Magic[2]
<1> DEFINE w == SubSeq(s, p, p + 1)
<1>1. p \in Nat \ {0} /\ p + 1 \in Nat /\ p + 1 <= Len(s) /\ p <= (p + 1) + 1
  OBVIOUS
<1>2. /\ w \in Seq(Cell) /\ Len(w) = (p + 1) - p + 1
      /\ \A i \in 1 .. (p + 1) - p + 1 : w[i] = s[p + i - 1]
  BY <1>1, Slice
<1>3. (p + 1) - p + 1 = 2 /\ p + 1 - 1 = p /\ p + 2 - 1 = p + 1
  BY <1>1
<1>4. 1 \in 1 .. 2 /\ 2 \in 1 .. 2
  OBVIOUS
<1> HIDE DEF w
<1>5. w[1] = s[p] /\ w[2] = s[p + 1] /\ Len(w) = 2
  BY <1>2, <1>3, <1>4
<1>6. Magic \in Seq(Cell) /\ Len(Magic) = 2
  BY DEF Magic, Cell
<1>7. ASSUME w[1] = Magic[1], w[2] = Magic[2] PROVE w = Magic
  <2>1. \A i \in 1 .. 2 : w[i] = Magic[i]
    BY <1>7
  <2> QED  BY <1>2, <1>5, <1>6, <2>1, SeqEqual
<1> QED  BY <1>5, <1>7 DEF w

\* The frame of the i-th packet.
Size(i) == Len(Frames[i])
Content(i) == SubSeq(Frames[i], 1, Size(i) - CrcSize)

LEMMA ByteIsCell == Bytes \subseteq Cell /\ Seq(Bytes) \subseteq Seq(Cell)
<1>1. Bytes \subseteq Cell
  BY DEF Bytes, Cell
<1> QED  BY <1>1

LEMMA FrameShape ==
    ASSUME NEW i \in FrameIndex
    PROVE  /\ Frames[i] \in Seq(Cell) /\ Size(i) \in Nat
           /\ Size(i) >= 8 /\ Size(i) <= MaxPacketBytes
           /\ Size(i) = FrameLength(Packets[i].channel_count, Packets[i].sample_count)
           /\ Frames[i][1] = Magic[1] /\ Frames[i][2] = Magic[2] /\ Frames[i][3] = Version
           /\ Frames[i][4] = Packets[i].msg_type /\ Frames[i][5] = Packets[i].ident
           /\ Frames[i][6] = Packets[i].channel_count /\ Frames[i][7] = Packets[i].sample_count
           /\ SubSeq(Frames[i], HeaderSize + 1, Size(i) - CrcSize) = Packets[i].samples
           /\ Content(i) \in Seq(Bytes)
           /\ \A b \in 1 .. Size(i) - 1 : Frames[i][b] \in Bytes
           /\ Frames[i][Size(i)] = Crc(Content(i))
<1> DEFINE p == Packets[i]
           F == Frames[i]
           fields == <<Version, p.msg_type, p.ident, p.channel_count, p.sample_count>>
           header == Magic \o fields
           content == header \o p.samples
           area == p.channel_count * p.sample_count
<1>1. p \in Packet /\ Encodable(p)
  BY PacketsAssumption DEF FrameIndex
<1>2. /\ p.msg_type \in {SampleBlock, Heartbeat} /\ p.ident \in Bytes
      /\ p.channel_count \in Bytes /\ p.sample_count \in Bytes /\ p.samples \in Seq(Bytes)
  BY <1>1 DEF Packet
<1>3. Len(p.samples) = area /\ 7 + area + 1 <= MaxPacketBytes
  BY <1>1 DEF Encodable, FrameLength, HeaderSize, CrcSize
<1>4. F = Append(content, Crc(content))
  BY DEF Frames, Encode
<1>5. area = p.channel_count * p.sample_count
  OBVIOUS
<1> HIDE DEF p, F, area
<1>6. Magic \in Seq(Bytes) /\ Len(Magic) = 2
  BY DEF Magic, Bytes
<1>7. /\ fields \in Seq(Bytes) /\ Len(fields) = 5
      /\ fields[1] = Version /\ fields[2] = p.msg_type /\ fields[3] = p.ident
      /\ fields[4] = p.channel_count /\ fields[5] = p.sample_count
  <2>1. Version \in Bytes /\ p.msg_type \in Bytes
    BY <1>2 DEF Version, Bytes, SampleBlock, Heartbeat
  <2> QED  BY <1>2, <2>1
<1> HIDE DEF fields
<1>8. /\ header \in Seq(Bytes) /\ Len(header) = 7
      /\ \A k \in 1 .. 2 : header[k] = Magic[k]
      /\ \A k \in 1 .. 5 : header[2 + k] = fields[k]
  <2>1. Magic \in Seq(Bytes) /\ fields \in Seq(Bytes)
    BY <1>6, <1>7
  <2>2. /\ header \in Seq(Bytes) /\ Len(header) = Len(Magic) + Len(fields)
        /\ \A k \in 1 .. Len(Magic) : header[k] = Magic[k]
        /\ \A k \in 1 .. Len(fields) : header[Len(Magic) + k] = fields[k]
    BY <2>1, Joined
  <2>3. Len(Magic) = 2 /\ Len(fields) = 5
    BY <1>6, <1>7
  <2> QED  BY <2>2, <2>3
<1>9. /\ header[1] = Magic[1] /\ header[2] = Magic[2] /\ header[3] = Version
      /\ header[4] = p.msg_type /\ header[5] = p.ident
      /\ header[6] = p.channel_count /\ header[7] = p.sample_count
  <2>1. \A k \in 1 .. 5 : header[2 + k] = fields[k]
    BY <1>8
  <2>2. 1 \in 1 .. 5 /\ 2 \in 1 .. 5 /\ 3 \in 1 .. 5 /\ 4 \in 1 .. 5 /\ 5 \in 1 .. 5
    OBVIOUS
  <2>3. 2 + 1 = 3 /\ 2 + 2 = 4 /\ 2 + 3 = 5 /\ 2 + 4 = 6 /\ 2 + 5 = 7
    OBVIOUS
  <2>4. /\ header[3] = fields[1] /\ header[4] = fields[2] /\ header[5] = fields[3]
        /\ header[6] = fields[4] /\ header[7] = fields[5]
    BY <2>1, <2>2, <2>3, Zenon
  <2>5. header[1] = Magic[1] /\ header[2] = Magic[2]
    BY <1>8
  <2>6. /\ fields[1] = Version /\ fields[2] = p.msg_type /\ fields[3] = p.ident
        /\ fields[4] = p.channel_count /\ fields[5] = p.sample_count
    BY <1>7
  <2> QED  BY <2>4, <2>5, <2>6, Zenon
<1> HIDE DEF header
<1>10. /\ content \in Seq(Bytes) /\ Len(content) = 7 + area /\ area \in Nat
       /\ \A k \in 1 .. 7 : content[k] = header[k]
       /\ \A k \in 1 .. area : content[7 + k] = p.samples[k]
  <2>1. header \in Seq(Bytes) /\ p.samples \in Seq(Bytes)
    BY <1>2, <1>8
  <2>2. /\ content \in Seq(Bytes) /\ Len(content) = Len(header) + Len(p.samples)
        /\ \A k \in 1 .. Len(header) : content[k] = header[k]
        /\ \A k \in 1 .. Len(p.samples) : content[Len(header) + k] = p.samples[k]
    BY <2>1, Joined
  <2>3. Len(header) = 7 /\ Len(p.samples) = area /\ Len(p.samples) \in Nat
    BY <1>3, <1>8, <2>1
  <2> QED  BY <2>2, <2>3
<1> HIDE DEF content
<1>11. content \in Seq(Cell) /\ Crc(content) \in Cell
  <2>1. content \in Seq(Cell) /\ Len(content) >= 2
    BY <1>10, ByteIsCell
  <2> QED  BY <2>1, CrcIsNoByte DEF Cell
<1>12. /\ F \in Seq(Cell) /\ Len(F) = area + 8
       /\ \A k \in 1 .. 7 + area : F[k] = content[k]
       /\ F[area + 8] = Crc(content)
  <2>1. /\ Append(content, Crc(content)) \in Seq(Cell)
        /\ Len(Append(content, Crc(content))) = Len(content) + 1
        /\ \A k \in 1 .. Len(content) : Append(content, Crc(content))[k] = content[k]
        /\ Append(content, Crc(content))[Len(content) + 1] = Crc(content)
    BY <1>11, AppendProperties
  <2>2. Len(content) + 1 = area + 8
    BY <1>10
  <2> QED  BY <1>4, <1>10, <2>1, <2>2
<1>13. SubSeq(F, 1, area + 7) = content
  <2> DEFINE m == 1
             n == area + 7
             w == SubSeq(F, m, n)
  <2>1. m \in Nat \ {0} /\ n \in Nat /\ n <= Len(F) /\ m <= n + 1 /\ F \in Seq(Cell)
    BY <1>10, <1>12
  <2>2. n - m + 1 = 7 + area /\ \A k \in 1 .. 7 + area : m + k - 1 = k
    BY <1>10
  <2> HIDE DEF m, n
  <2>3. w \in Seq(Cell) /\ Len(w) = n - m + 1 /\ \A k \in 1 .. n - m + 1 : w[k] = F[m + k - 1]
    BY <2>1, Slice
  <2> HIDE DEF w
  <2>4. Len(w) = 7 + area /\ \A k \in 1 .. 7 + area : w[k] = F[k]
    BY <2>2, <2>3
  <2>5. content \in Seq(Cell) /\ Len(content) = 7 + area
    BY <1>10, <1>11
  <2>6. \A k \in 1 .. Len(w) : w[k] = content[k]
    BY <1>12, <2>4
  <2>7. w = content
    BY <2>3, <2>4, <2>5, <2>6, SeqEqual
  <2> QED  BY <2>7 DEF w, m, n
<1>14. SubSeq(F, 8, area + 7) = p.samples
  <2> DEFINE m == 8
             n == area + 7
             w == SubSeq(F, m, n)
  <2>1. m \in Nat \ {0} /\ n \in Nat /\ n <= Len(F) /\ m <= n + 1 /\ F \in Seq(Cell)
    BY <1>10, <1>12
  <2>2. n - m + 1 = area /\ \A k \in 1 .. area : m + k - 1 = 7 + k /\ 7 + k \in 1 .. 7 + area
    BY <1>10
  <2> HIDE DEF m, n
  <2>3. w \in Seq(Cell) /\ Len(w) = n - m + 1 /\ \A k \in 1 .. n - m + 1 : w[k] = F[m + k - 1]
    BY <2>1, Slice
  <2> HIDE DEF w
  <2>4. Len(w) = area /\ \A k \in 1 .. area : w[k] = F[7 + k]
    BY <2>2, <2>3
  <2>5. p.samples \in Seq(Cell) /\ Len(p.samples) = area
    BY <1>2, <1>3, ByteIsCell
  <2>6. \A k \in 1 .. Len(w) : w[k] = p.samples[k]
    BY <1>10, <1>12, <2>2, <2>4
  <2>7. w = p.samples
    BY <2>3, <2>4, <2>5, <2>6, SeqEqual
  <2> QED  BY <2>7 DEF w, m, n
<1>15. /\ Size(i) = area + 8 /\ Size(i) - CrcSize = area + 7 /\ Size(i) - 1 = area + 7
       /\ HeaderSize + 1 = 8
  BY <1>10, <1>12 DEF Size, F, CrcSize, HeaderSize
<1>16. \A b \in 1 .. area + 7 : F[b] \in Bytes
  BY <1>10, <1>12
<1>17. FrameLength(p.channel_count, p.sample_count) = area + 8
  <2>1. FrameLength(p.channel_count, p.sample_count) = 7 + area + 1
    BY <1>5 DEF FrameLength, HeaderSize, CrcSize
  <2> QED  BY <1>10, <2>1
<1>18. /\ F[1] = Magic[1] /\ F[2] = Magic[2] /\ F[3] = Version /\ F[4] = p.msg_type
       /\ F[5] = p.ident /\ F[6] = p.channel_count /\ F[7] = p.sample_count
  <2>1. \A k \in 1 .. 7 : F[k] = header[k]
    BY <1>10, <1>12
  <2> QED  BY <1>9, <2>1
<1>19. Size(i) \in Nat /\ Size(i) >= 8 /\ Size(i) <= MaxPacketBytes
  BY <1>3, <1>10, <1>15, MaxPacketAssumption
<1>20. Content(i) = content
  BY <1>13, <1>15 DEF Content, F
<1>21. F[Size(i)] = Crc(Content(i))
  BY <1>12, <1>15, <1>20
<1> QED  BY <1>10, <1>12, <1>14, <1>15, <1>16, <1>17, <1>18, <1>19, <1>20, <1>21 DEF F, p

\* What is sent is what comes out of the decoder, which finds no fault with it.
LEMMA FrameDecodes ==
    ASSUME NEW i \in FrameIndex
    PROVE  /\ ~FramingError(Frames[i]) /\ ~CrcError(Frames[i])
           /\ Decode(Frames[i]) = Packets[i]
<1> DEFINE p == Packets[i]
           F == Frames[i]
<1>1. p \in Packet /\ Encodable(p)
  BY PacketsAssumption DEF FrameIndex
<1>2. /\ F \in Seq(Cell) /\ Len(F) \in Nat /\ Len(F) >= 8 /\ Len(F) <= MaxPacketBytes
      /\ Len(F) = FrameLength(p.channel_count, p.sample_count)
      /\ F[1] = Magic[1] /\ F[2] = Magic[2] /\ F[3] = Version
      /\ F[4] = p.msg_type /\ F[5] = p.ident
      /\ F[6] = p.channel_count /\ F[7] = p.sample_count
      /\ SubSeq(F, HeaderSize + 1, Len(F) - CrcSize) = p.samples
      /\ F[Len(F)] = Crc(SubSeq(F, 1, Len(F) - CrcSize))
  BY FrameShape DEF Size, Content
<1> HIDE DEF F, p
<1>3. SubSeq(F, 1, 2) = Magic
  <2>1. 1 \in 1 .. Len(F) - 1 /\ 1 + 1 = 2
    BY <1>2
  <2> QED  BY <1>2, <2>1, SyncWord
<1>4. p.msg_type \in {SampleBlock, Heartbeat}
      /\ (p.msg_type = Heartbeat => p.channel_count = 0 /\ p.sample_count = 0)
  BY <1>1 DEF Packet, Encodable
<1>5. ~FramingError(F)
  <2>1. ~(Len(F) < HeaderSize + CrcSize) /\ ~(Len(F) > MaxPacketBytes)
    BY <1>2, MaxPacketAssumption DEF HeaderSize, CrcSize
  <2> QED
    BY <1>2, <1>3, <1>4, <2>1 DEF FramingError, VersionAt, MsgTypeAt, ChannelCountAt, SampleCountAt
<1>6. ~CrcError(F)
  BY <1>2 DEF CrcError
<1>7. Decode(F) = [msg_type |-> p.msg_type, ident |-> p.ident, channel_count |-> p.channel_count,
                   sample_count |-> p.sample_count, samples |-> p.samples]
  BY <1>2 DEF Decode, MsgTypeAt, IdentAt, ChannelCountAt, SampleCountAt
<1>8. p = [msg_type |-> p.msg_type, ident |-> p.ident, channel_count |-> p.channel_count,
           sample_count |-> p.sample_count, samples |-> p.samples]
  BY <1>1 DEF Packet
<1> QED  BY <1>5, <1>6, <1>7, <1>8 DEF F, p

-----------------------------------------------------------------------------
(* What an iteration of the framing loop does. *)

LEMMA Shift ==
    ASSUME NEW a \in Int, NEW b \in Int, NEW c \in Int, NEW k \in Int
    PROVE  a + b + c = (a + k) + (b - k) + c
OBVIOUS

\* The buffer stays the rest of the line.
LEMMA ConsumeInLine ==
    ASSUME buf \in Seq(Cell), wire \in Seq(Cell), front \in Nat, InLine,
           NEW k \in 0 .. Len(buf), NEW discarded, NEW counters,
           Consume(k, discarded, counters), UNCHANGED <<line, wire>>
    PROVE  /\ buf' \in Seq(Cell) /\ Len(buf') = Len(buf) - k
           /\ front' = front + k /\ front' \in Nat
           /\ InLine'
<1>1. /\ buf' = SubSeq(buf, k + 1, Len(buf)) /\ front' = front + k
      /\ Len(buf) \in Nat /\ Len(wire) \in Nat /\ k \in Nat
  BY DEF Consume
<1>3. /\ buf' \in Seq(Cell) /\ Len(buf') = Len(buf) - k
      /\ \A i \in 1 .. Len(buf) - k : buf'[i] = buf[(k + 1) + i - 1]
  <2> DEFINE m == k + 1
             n == Len(buf)
  <2>1. m \in Nat \ {0} /\ n \in Nat /\ n <= Len(buf) /\ m <= n + 1
    BY <1>1
  <2>2. n - m + 1 = Len(buf) - k /\ buf' = SubSeq(buf, m, n)
    BY <1>1
  <2> HIDE DEF m, n
  <2>3. /\ SubSeq(buf, m, n) \in Seq(Cell) /\ Len(SubSeq(buf, m, n)) = n - m + 1
        /\ \A i \in 1 .. n - m + 1 : SubSeq(buf, m, n)[i] = buf[m + i - 1]
    BY <2>1, Slice
  <2>4. /\ buf' \in Seq(Cell) /\ Len(buf') = Len(buf) - k
        /\ \A i \in 1 .. Len(buf) - k : buf'[i] = buf[m + i - 1]
    BY <2>2, <2>3
  <2> QED  BY <2>4 DEF m
<1>4. \A i \in 1 .. Len(buf') : buf'[i] = line'[front' + i]
  <2> SUFFICES ASSUME NEW i \in 1 .. Len(buf') PROVE buf'[i] = line[front + k + i]
    BY <1>1
  <2>1. Len(buf') = Len(buf) - k /\ Len(buf) \in Nat /\ k \in Nat
    BY <1>1, <1>3
  <2>2. i \in 1 .. Len(buf) - k
    BY <2>1
  <2>3. buf'[i] = buf[(k + 1) + i - 1]
    BY <1>3, <2>2
  <2>4. (k + 1) + i - 1 = k + i /\ k + i \in 1 .. Len(buf)
    BY <2>1, <2>2
  <2>5. buf'[i] = buf[k + i]
    BY <2>3, <2>4
  <2>6. buf[k + i] = line[front + (k + i)]
    BY <2>4 DEF InLine
  <2>7. front + (k + i) = front + k + i
    BY <2>1, <2>2
  <2> QED  BY <2>5, <2>6, <2>7
<1>5. Len(line') = front' + Len(buf') + Len(wire')
  <2>1. Len(line') = Len(line) /\ Len(wire') = Len(wire)
    OBVIOUS
  <2>2. Len(line) = front + Len(buf) + Len(wire)
    BY DEF InLine
  <2>3. Len(buf') = Len(buf) - k /\ front' = front + k
    BY <1>1, <1>3
  <2>4. Len(buf) \in Int /\ Len(wire) \in Int /\ front \in Int /\ k \in Int
    BY <1>1
  <2>5. front + Len(buf) + Len(wire) = (front + k) + (Len(buf) - k) + Len(wire)
    BY <2>4, Shift
  <2> QED  BY <2>1, <2>2, <2>3, <2>5, Zenon
<1>6. front' + Len(buf') = front + Len(buf)
  <2>1. Len(buf') = Len(buf) - k /\ front' = front + k
    BY <1>1, <1>3
  <2>2. Len(buf) \in Int /\ front \in Int /\ k \in Int
    BY <1>1
  <2>3. (front + k) + (Len(buf) - k) = front + Len(buf)
    BY <2>2
  <2> QED  BY <2>1, <2>3, Zenon
<1>7. \A i \in 1 .. Len(wire') : wire'[i] = line'[front' + Len(buf') + i]
  BY <1>6 DEF InLine
<1>8. InLine'
  BY <1>4, <1>5, <1>7 DEF InLine
<1>9. front' \in Nat
  BY <1>1
<1>10. Len(buf') = Len(buf) - k
  BY <1>3
<1> QED  BY <1>1, <1>3, <1>8, <1>9, <1>10

LEMMA ConsumeCounts ==
    ASSUME stats \in StreamReceiverStats, NEW k, NEW discarded \in Nat,
           NEW counters \in SUBSET {"received", "crc_errors", "framing_errors"},
           Consume(k, discarded, counters)
    PROVE  /\ stats' \in StreamReceiverStats
           /\ stats'.resync_bytes = stats.resync_bytes + discarded
           /\ stats'.received = stats.received + (IF "received" \in counters THEN 1 ELSE 0)
           /\ stats'.crc_errors = stats.crc_errors + (IF "crc_errors" \in counters THEN 1 ELSE 0)
<1>1. stats' = [c \in {"received", "crc_errors", "framing_errors", "resync_bytes"} |->
                   stats[c] + (IF c = "resync_bytes" THEN discarded ELSE 0)
                            + (IF c \in counters THEN 1 ELSE 0)]
  BY DEF Consume, StreamReceiverStats
<1>2. /\ stats.received \in Nat /\ stats.crc_errors \in Nat
      /\ stats.framing_errors \in Nat /\ stats.resync_bytes \in Nat
  BY DEF StreamReceiverStats
<1>3. "resync_bytes" \notin counters
  OBVIOUS
<1>4. stats' = [received |-> stats.received + (IF "received" \in counters THEN 1 ELSE 0),
                crc_errors |-> stats.crc_errors + (IF "crc_errors" \in counters THEN 1 ELSE 0),
                framing_errors |-> stats.framing_errors
                                      + (IF "framing_errors" \in counters THEN 1 ELSE 0),
                resync_bytes |-> stats.resync_bytes + discarded]
  BY <1>1, <1>2, <1>3
<1> QED  BY <1>2, <1>4 DEF StreamReceiverStats

LEMMA NoiseGrows ==
    ASSUME front \in Nat, NoiseCounted, NEW m \in Nat,
           Skipped' = Skipped \union (front + 1 .. front + m)
    PROVE  IsFiniteSet(Skipped') /\ Cardinality(Skipped') = Cardinality(Skipped) + m
<1> DEFINE more == front + 1 .. front + m
<1>1. IsFiniteSet(more) /\ Cardinality(more) = m
  BY FS_Interval
<1>2. Skipped \intersect more = {}
  BY DEF Skipped
<1>3. IsFiniteSet(Skipped) /\ Cardinality(Skipped) \in Nat
  BY FS_CardinalityType DEF NoiseCounted
<1>4. /\ IsFiniteSet(Skipped \union more)
      /\ Cardinality(Skipped \union more)
            = Cardinality(Skipped) + Cardinality(more) - Cardinality(Skipped \intersect more)
  BY <1>1, <1>3, FS_Union
<1> HIDE DEF more
<1>5. Cardinality(Skipped \intersect more) = 0
  BY <1>2, FS_EmptySet
<1> QED  BY <1>1, <1>3, <1>4, <1>5 DEF more

LEMMA SpanFields ==
    ASSUME spans \in Seq(Span), NEW i \in 1 .. Len(spans)
    PROVE  spans[i].at \in Nat /\ spans[i].len \in Nat
<1>1. spans[i] \in Span
  OBVIOUS
<1> QED  BY <1>1 DEF Span

\* Noise leaves the buffer: a discard, or the byte of a refused frame.
LEMMA DiscardKeeps ==
    ASSUME IInv, NEW k \in 0 .. Len(buf),
           NEW counters \in SUBSET {"framing_errors"},
           Consume(k, k, counters), UNCHANGED <<yielded, spans, lineVars>>, scanning' \in BOOLEAN
    PROVE  /\ TypeOK' /\ InLine' /\ InOrder' /\ NoiseCounted' /\ Counted'
           /\ Len(buf') = Len(buf) - k
<1>1. /\ buf \in Seq(Cell) /\ wire \in Seq(Cell) /\ front \in Nat
      /\ stats \in StreamReceiverStats /\ k \in Nat /\ spans \in Seq(Span)
  BY DEF IInv, TypeOK, ReceiverTypeOK
<1>2. /\ buf' \in Seq(Cell) /\ Len(buf') = Len(buf) - k /\ front' = front + k /\ front' \in Nat
      /\ InLine'
  BY <1>1, ConsumeInLine DEF IInv, lineVars
<1>3. /\ stats' \in StreamReceiverStats /\ stats'.resync_bytes = stats.resync_bytes + k
      /\ stats'.received = stats.received /\ stats'.crc_errors = stats.crc_errors
  <2>1. /\ counters \in SUBSET {"received", "crc_errors", "framing_errors"}
        /\ "received" \notin counters /\ "crc_errors" \notin counters
    OBVIOUS
  <2>2. stats.received \in Nat /\ stats.crc_errors \in Nat
    BY <1>1 DEF StreamReceiverStats
  <2> QED  BY <1>1, <2>1, <2>2, ConsumeCounts
<1>4. TypeOK'
  BY <1>2, <1>3 DEF IInv, TypeOK, ReceiverTypeOK, lineVars, Position
<1>5. \A i \in 1 .. Len(spans) : spans[i].at \in Nat /\ spans[i].len \in Nat
  BY <1>1, SpanFields
<1>6. InOrder'
  <2>1. /\ front \in Nat /\ k \in Nat /\ front' = front + k /\ spans' = spans
        /\ InOrder
    BY <1>1, <1>2 DEF IInv
  <2>2. \A i \in 1 .. Len(spans) : 1 <= spans[i].at /\ spans[i].at + spans[i].len <= front' + 1
    <3> TAKE i \in 1 .. Len(spans)
    <3>1. 1 <= spans[i].at /\ spans[i].at + spans[i].len <= front + 1
      BY <2>1 DEF InOrder
    <3>2. spans[i].at \in Nat /\ spans[i].len \in Nat
      BY <1>5
    <3> QED  BY <2>1, <3>1, <3>2
  <2> QED  BY <2>1, <2>2 DEF InOrder
<1>7. Skipped' = Skipped \union (front + 1 .. front + k)
  <2>1. \A i \in 1 .. Len(spans) : spans[i].at + spans[i].len - 1 <= front
    BY SMTT(30), <1>1, <1>5 DEF IInv, InOrder
  <2>2. DOMAIN spans = 1 .. Len(spans)
    BY <1>1
  <2>3. \A b \in front + 1 .. front + k : \A i \in DOMAIN spans : b \notin Taken(i)
    BY <1>1, <1>5, <2>1, <2>2 DEF Taken
  <2>4. \A i \in DOMAIN spans : Taken(i)' = Taken(i)
    BY DEF Taken
  <2>5. Skipped' = {b \in 1 .. front + k : \A i \in DOMAIN spans : b \notin Taken(i)}
    BY <1>2, <2>4 DEF Skipped
  <2> QED  BY <1>1, <2>3, <2>5 DEF Skipped
<1>8. NoiseCounted'
  BY <1>1, <1>3, <1>7, NoiseGrows DEF IInv, NoiseCounted
<1>9. Counted'
  <2>1. SpansOf("received")' = SpansOf("received") /\ SpansOf("crc_errors")' = SpansOf("crc_errors")
    BY DEF SpansOf
  <2> QED  BY <1>3, <2>1 DEF IInv, Counted
<1> QED  BY <1>2, <1>4, <1>6, <1>8, <1>9

LEMMA RestOf ==
    ASSUME buf \in Seq(Cell), NEW at \in 1 .. Len(buf)
    PROVE  Rest(at) \in Seq(Cell) /\ Len(Rest(at)) = Len(buf) - at + 1
<1> DEFINE n == Len(buf)
<1>1. at \in Nat \ {0} /\ n \in Nat /\ n <= Len(buf) /\ at <= n + 1
  OBVIOUS
<1>2. Rest(at) = SubSeq(buf, at, n)
  BY DEF Rest
<1> HIDE DEF n
<1>3. SubSeq(buf, at, n) \in Seq(Cell) /\ Len(SubSeq(buf, at, n)) = n - at + 1
  BY <1>1, Slice
<1> QED  BY <1>2, <1>3 DEF n

LEMMA CandidateOf ==
    ASSUME buf \in Seq(Cell), NEW at \in 1 .. Len(buf), HasFrame(at)
    PROVE  /\ ImpliedLength(Rest(at)) \in Nat /\ at - 1 + ImpliedLength(Rest(at)) \in 0 .. Len(buf)
           /\ Candidate(at) \in Seq(Cell)
<1> DEFINE len == ImpliedLength(Rest(at))
<1>1. len \in Nat /\ Len(Rest(at)) >= len
  BY MaxPacketAssumption DEF HasFrame, Plausible
<1>2. Candidate(at) = SubSeq(Rest(at), 1, len)
  BY DEF Candidate
<1> HIDE DEF len
<1>3. Rest(at) \in Seq(Cell) /\ Len(Rest(at)) = Len(buf) - at + 1 /\ Len(buf) \in Nat
  BY RestOf
<1>4. 1 \in Nat \ {0} /\ len <= Len(Rest(at)) /\ 1 <= len + 1
  BY <1>1, <1>3
<1>5. Candidate(at) \in Seq(Cell)
  BY <1>1, <1>2, <1>3, <1>4, Slice
<1>6. at - 1 + len \in 0 .. Len(buf)
  BY <1>1, <1>3
<1> QED  BY <1>1, <1>5, <1>6 DEF len

\* A whole frame leaves the buffer, and the noise in front of it.
LEMMA TakeKeeps ==
    ASSUME IInv, NEW at \in 1 .. Len(buf), HasFrame(at),
           NEW verdict \in {"received", "crc_errors"}, TakeFrame(at, verdict),
           yielded' \in Seq(Decoded),
           Len(yielded') = Len(yielded) + (IF verdict = "received" THEN 1 ELSE 0),
           UNCHANGED <<scanning, lineVars>>
    PROVE  TypeOK' /\ InLine' /\ InOrder' /\ NoiseCounted' /\ Counted'
<1> DEFINE len == ImpliedLength(Rest(at))
           new == [at |-> front + at, len |-> len, verdict |-> verdict]
           last == Len(spans) + 1
<1>1. /\ buf \in Seq(Cell) /\ wire \in Seq(Cell) /\ front \in Nat
      /\ stats \in StreamReceiverStats /\ spans \in Seq(Span) /\ yielded \in Seq(Decoded)
      /\ at \in Nat /\ at >= 1
  BY DEF IInv, TypeOK, ReceiverTypeOK
<1>2. len \in Nat /\ at - 1 + len \in 0 .. Len(buf)
  BY <1>1, CandidateOf
<1>3. /\ Consume(at - 1 + len, at - 1, {verdict})
      /\ spans' = Append(spans, new)
  BY DEF TakeFrame
<1> HIDE DEF len
<1>4. /\ buf' \in Seq(Cell) /\ front' = front + (at - 1 + len) /\ front' \in Nat /\ InLine'
  BY <1>1, <1>2, <1>3, ConsumeInLine DEF IInv, lineVars
<1>5. /\ stats' \in StreamReceiverStats /\ stats'.resync_bytes = stats.resync_bytes + (at - 1)
      /\ stats'.received = stats.received + (IF verdict = "received" THEN 1 ELSE 0)
      /\ stats'.crc_errors = stats.crc_errors + (IF verdict = "crc_errors" THEN 1 ELSE 0)
  <2>1. {verdict} \in SUBSET {"received", "crc_errors", "framing_errors"} /\ at - 1 \in Nat
    BY <1>1
  <2>2. /\ stats' \in StreamReceiverStats /\ stats'.resync_bytes = stats.resync_bytes + (at - 1)
        /\ stats'.received = stats.received + (IF "received" \in {verdict} THEN 1 ELSE 0)
        /\ stats'.crc_errors = stats.crc_errors + (IF "crc_errors" \in {verdict} THEN 1 ELSE 0)
    BY <1>1, <1>3, <2>1, ConsumeCounts
  <2> QED  BY <2>2
<1>6. new \in Span
  BY <1>1, <1>2 DEF Span
<1>7. /\ spans' \in Seq(Span) /\ Len(spans') = last /\ last \in Nat /\ last >= 1
      /\ \A i \in 1 .. Len(spans) : spans'[i] = spans[i]
      /\ spans'[last] = new /\ Len(spans) \in Nat
      /\ 1 .. Len(spans') = (1 .. Len(spans)) \union {last}
  BY <1>1, <1>3, <1>6
<1>8. new.at = front + at /\ new.len = len /\ new.verdict = verdict
  OBVIOUS
<1> HIDE DEF new, last
<1>9. \A i \in 1 .. Len(spans) :
          /\ spans[i].at \in Nat /\ spans[i].len \in Nat
          /\ 1 <= spans[i].at /\ spans[i].at + spans[i].len <= front + 1
  BY <1>1, SpanFields DEF IInv, InOrder
<1>10. TypeOK'
  BY <1>4, <1>5, <1>7 DEF IInv, TypeOK, ReceiverTypeOK, lineVars, Position
<1>11. InOrder'
  <2>1. ASSUME NEW k \in 1 .. Len(spans')
        PROVE  1 <= spans'[k].at /\ spans'[k].at + spans'[k].len <= front' + 1
    <3>1. CASE k = last
      <4>1. spans'[k].at = front + at /\ spans'[k].len = len
        BY <1>7, <1>8, <3>1
      <4>2. front \in Nat /\ at \in Nat /\ at >= 1 /\ len \in Nat /\ front' = front + (at - 1 + len)
        BY <1>1, <1>2, <1>4
      <4> QED  BY <4>1, <4>2
    <3>2. CASE k \in 1 .. Len(spans)
      <4>1. /\ spans'[k] = spans[k] /\ spans[k].at \in Nat /\ spans[k].len \in Nat
            /\ 1 <= spans[k].at /\ spans[k].at + spans[k].len <= front + 1
        BY <1>7, <1>9, <3>2
      <4>2. front \in Nat /\ front' \in Nat /\ front <= front'
        BY <1>1, <1>2, <1>4
      <4> QED  BY <4>1, <4>2
    <3> QED  BY <1>7, <3>1, <3>2
  <2>2. ASSUME NEW j \in 1 .. Len(spans'), NEW k \in 1 .. Len(spans'), j < k
        PROVE  spans'[j].at + spans'[j].len <= spans'[k].at
    <3>1. j \in 1 .. Len(spans) /\ spans'[j] = spans[j]
      BY <1>7, <2>2 DEF last
    <3>2. CASE k = last
      BY SMTT(30), <1>1, <1>7, <1>8, <1>9, <3>1, <3>2
    <3>3. CASE k \in 1 .. Len(spans)
      BY <1>7, <2>2, <3>1, <3>3 DEF IInv, InOrder
    <3> QED  BY <1>7, <3>2, <3>3
  <2> QED  BY <2>1, <2>2 DEF InOrder
<1>12. Skipped' = Skipped \union (front + 1 .. front + (at - 1))
  <2> DEFINE In(b, s) == b \in s.at .. s.at + s.len - 1
  <2>1. DOMAIN spans = 1 .. Len(spans) /\ DOMAIN spans' = (1 .. Len(spans)) \union {last}
    BY <1>1, <1>7
  <2>2. Skipped = {b \in 1 .. front : \A i \in 1 .. Len(spans) : ~In(b, spans[i])}
    BY <2>1 DEF Skipped, Taken
  <2>3. Skipped' = {b \in 1 .. front' : \A i \in DOMAIN spans' : ~In(b, spans'[i])}
    BY DEF Skipped, Taken
  <2>4. Skipped' = {b \in 1 .. front' : /\ \A i \in 1 .. Len(spans) : ~In(b, spans[i])
                                       /\ ~In(b, new)}
    BY <1>7, <2>1, <2>3
  <2>5. \A b \in 1 .. front' :
           /\ In(b, new) <=> b > front + (at - 1)
           /\ b > front => \A i \in 1 .. Len(spans) : ~In(b, spans[i])
    <3> TAKE b \in 1 .. front'
    <3>1. front \in Nat /\ at \in Nat /\ at >= 1 /\ len \in Nat /\ front' = front + (at - 1 + len)
      BY <1>1, <1>2, <1>4
    <3>2. In(b, new) <=> b \in front + at .. front + at + len - 1
      BY <1>8
    <3>3. In(b, new) <=> b > front + (at - 1)
      BY <3>1, <3>2
    <3>4. ASSUME b > front, NEW i \in 1 .. Len(spans)
          PROVE  ~In(b, spans[i])
      BY SMTT(30), <1>9, <3>1, <3>4
    <3> QED  BY <3>3, <3>4
  <2> HIDE DEF In
  <2> QED  BY SMTT(30), <1>1, <1>2, <1>4, <2>2, <2>4, <2>5
<1>13. NoiseCounted'
  <2>1. at - 1 \in Nat
    BY <1>1
  <2>2. IsFiniteSet(Skipped') /\ Cardinality(Skipped') = Cardinality(Skipped) + (at - 1)
    BY <1>1, <1>12, <2>1, NoiseGrows DEF IInv
  <2> QED  BY <1>5, <2>2 DEF IInv, NoiseCounted
<1>14. \A v \in {"received", "crc_errors"} :
          /\ IsFiniteSet(SpansOf(v)')
          /\ Cardinality(SpansOf(v)') = Cardinality(SpansOf(v)) + (IF v = verdict THEN 1 ELSE 0)
          /\ Cardinality(SpansOf(v)) \in Nat
  <2> TAKE v \in {"received", "crc_errors"}
  <2>1. DOMAIN spans = 1 .. Len(spans) /\ DOMAIN spans' = (1 .. Len(spans)) \union {last}
    BY <1>1, <1>7
  <2>2. IsFiniteSet(SpansOf(v)) /\ Cardinality(SpansOf(v)) \in Nat /\ last \notin SpansOf(v)
    <3>1. IsFiniteSet(SpansOf(v))
      BY DEF IInv, Counted
    <3>2. last \notin SpansOf(v)
      BY <1>7, <2>1 DEF SpansOf, last
    <3> QED  BY <3>1, <3>2, FS_CardinalityType
  <2>3. SpansOf(v)' = IF v = verdict THEN SpansOf(v) \union {last} ELSE SpansOf(v)
    BY <1>7, <1>8, <2>1 DEF SpansOf
  <2> QED  BY <2>2, <2>3, FS_AddElement
<1>15. Counted'
  <2>1. stats.received \in Nat /\ stats.crc_errors \in Nat /\ Len(yielded) \in Nat
    BY <1>1 DEF StreamReceiverStats
  <2> QED  BY <1>5, <1>14, <2>1 DEF IInv, Counted
<1> QED  BY <1>4, <1>10, <1>11, <1>13, <1>15

-----------------------------------------------------------------------------
(* The steps of the framing loop, of the reader and of the sender. *)

LEMMA ScanStep == IInv /\ Turn => IInv'
<1> SUFFICES ASSUME IInv, Turn PROVE IInv'
  OBVIOUS
<1>1. buf \in Seq(Cell) /\ Len(buf) \in Nat /\ MaxPacketBytes \in Nat /\ MaxPacketBytes >= 8
  BY MaxPacketAssumption DEF IInv, TypeOK, ReceiverTypeOK, HeaderSize, CrcSize
<1>2. UNCHANGED lineVars /\ scanning = TRUE
  BY DEF Turn, Scan, IInv, TypeOK, ReceiverTypeOK
<1>3. CASE NoSync
  <2> DEFINE kept == IF buf # <<>> /\ Last(buf) = Magic[1] THEN 1 ELSE 0
             k == Len(buf) - kept
  <2>1. k \in 0 .. Len(buf) /\ Len(buf) - k <= 1
    BY <1>1
  <2>2. Consume(k, k, {}) /\ UNCHANGED <<yielded, spans>> /\ scanning' = FALSE
    BY <1>3 DEF NoSync, Discard
  <2> HIDE DEF kept, k
  <2>3. /\ TypeOK' /\ InLine' /\ InOrder' /\ NoiseCounted' /\ Counted'
        /\ Len(buf') = Len(buf) - k
    BY <1>2, <2>1, <2>2, DiscardKeeps
  <2> QED  BY <1>1, <2>1, <2>3 DEF IInv, BufferBounded
<1>4. ASSUME NEW at \in FirstSync,
             AwaitHeader(at) \/ FalseSync(at) \/ AwaitFrame(at) \/ Refuse(at)
      PROVE  IInv'
  <2>1. at \in 1 .. Len(buf)
    BY <1>1 DEF FirstSync, SyncAt
  <2>2. Len(Rest(at)) = Len(buf) - at + 1
    BY <1>1, <2>1, RestOf
  <2>3. CASE AwaitHeader(at) \/ AwaitFrame(at)
    <3>1. Len(Rest(at)) < MaxPacketBytes
      <4>1. CASE AwaitHeader(at)
        BY <1>1, <2>1, <2>2, <4>1 DEF AwaitHeader, HasHeader, HeaderSize
      <4>2. CASE AwaitFrame(at)
        BY <1>1, <2>1, <2>2, <4>2 DEF AwaitFrame, HasFrame, Plausible
      <4> QED  BY <2>3, <4>1, <4>2
    <3>2. /\ at - 1 \in 0 .. Len(buf) /\ Consume(at - 1, at - 1, {})
          /\ UNCHANGED <<yielded, spans>> /\ scanning' = FALSE
      BY <1>1, <2>1, <2>3 DEF AwaitHeader, AwaitFrame, Discard
    <3>3. /\ TypeOK' /\ InLine' /\ InOrder' /\ NoiseCounted' /\ Counted'
          /\ Len(buf') = Len(buf) - (at - 1)
      <4> DEFINE k == at - 1
      <4>1. k \in 0 .. Len(buf) /\ Consume(k, k, {}) /\ {} \in SUBSET {"framing_errors"}
        BY <3>2
      <4>2. UNCHANGED <<yielded, spans, lineVars>> /\ scanning' \in BOOLEAN
        BY <1>2, <3>2
      <4> HIDE DEF k
      <4>3. /\ TypeOK' /\ InLine' /\ InOrder' /\ NoiseCounted' /\ Counted'
            /\ Len(buf') = Len(buf) - k
        BY <4>1, <4>2, DiscardKeeps
      <4> QED  BY <4>3 DEF k
    <3>4. Len(buf') < MaxPacketBytes
      BY <1>1, <2>1, <2>2, <3>1, <3>3
    <3> QED  BY <3>3, <3>4 DEF IInv, BufferBounded
  <2>4. CASE FalseSync(at) \/ Refuse(at)
    <3>1. PICK counters \in SUBSET {"framing_errors"} :
             Consume(at, at, counters) /\ UNCHANGED <<yielded, spans, scanning>>
      BY <2>4 DEF FalseSync, Refuse, Discard
    <3>2. at \in 0 .. Len(buf) /\ scanning' = TRUE
      BY <1>1, <1>2, <2>1, <3>1
    <3>3. TypeOK' /\ InLine' /\ InOrder' /\ NoiseCounted' /\ Counted'
      BY <1>2, <3>1, <3>2, DiscardKeeps
    <3> QED  BY <3>2, <3>3 DEF IInv, BufferBounded
  <2> QED  BY <1>4, <2>3, <2>4
<1>5. ASSUME NEW at \in FirstSync, Reject(at) \/ Yield(at)
      PROVE  IInv'
  <2>1. at \in 1 .. Len(buf) /\ HasFrame(at) /\ scanning' = scanning
    BY <1>1, <1>5 DEF FirstSync, SyncAt, Reject, Yield
  <2>2. yielded \in Seq(Decoded) /\ Len(yielded) \in Nat
    BY DEF IInv, TypeOK, ReceiverTypeOK
  <2>3. PICK verdict \in {"received", "crc_errors"} :
          /\ TakeFrame(at, verdict) /\ yielded' \in Seq(Decoded)
          /\ Len(yielded') = Len(yielded) + (IF verdict = "received" THEN 1 ELSE 0)
    <3>1. CASE Reject(at)
      BY <2>2, <3>1 DEF Reject
    <3>2. CASE Yield(at)
      <4>1. Decode(Candidate(at)) \in Decoded
        BY <1>1, <2>1, CandidateOf DEF Decoded
      <4> QED  BY <2>2, <3>2, <4>1, AppendProperties DEF Yield
    <3> QED  BY <1>5, <3>1, <3>2
  <2>4. TypeOK' /\ InLine' /\ InOrder' /\ NoiseCounted' /\ Counted'
    <3>1. UNCHANGED <<scanning, lineVars>>
      BY <1>2, <2>1
    <3>2. HasFrame(at) /\ TakeFrame(at, verdict) /\ yielded' \in Seq(Decoded)
      BY <2>1, <2>3
    <3>3. Len(yielded') = Len(yielded) + (IF verdict = "received" THEN 1 ELSE 0)
      BY <2>3
    <3> QED  BY <2>1, <3>1, <3>2, <3>3, TakeKeeps
  <2> QED  BY <1>2, <2>1, <2>4 DEF IInv, BufferBounded
<1> QED  BY <1>3, <1>4, <1>5 DEF Turn, Scan

LEMMA PollStep == ASSUME IInv, NEW n \in 0 .. Len(wire), Poll(n) PROVE IInv'
<1> DEFINE chunk == SubSeq(wire, 1, n)
           rest == SubSeq(wire, n + 1, Len(wire))
<1>1. /\ buf \in Seq(Cell) /\ wire \in Seq(Cell) /\ Len(buf) \in Nat /\ Len(wire) \in Nat
      /\ n \in Nat /\ n <= Len(wire) /\ front \in Nat
  BY DEF IInv, TypeOK, ReceiverTypeOK
<1>2. /\ buf' = buf \o chunk /\ wire' = rest /\ scanning' = TRUE
      /\ UNCHANGED <<stats, yielded, front, spans, sent, noise, bursts, line, start, damaged>>
  BY DEF Poll, Fill
<1>3. chunk \in Seq(Cell) /\ Len(chunk) = n /\ \A i \in 1 .. n : chunk[i] = wire[i]
  <2>1. 1 \in Nat \ {0} /\ 1 <= n + 1
    BY <1>1
  <2>2. /\ SubSeq(wire, 1, n) \in Seq(Cell) /\ Len(SubSeq(wire, 1, n)) = n - 1 + 1
        /\ \A i \in 1 .. n - 1 + 1 : SubSeq(wire, 1, n)[i] = wire[1 + i - 1]
    BY <1>1, <2>1, Slice
  <2> QED  BY <1>1, <2>2
<1>4. /\ rest \in Seq(Cell) /\ Len(rest) = Len(wire) - n
      /\ \A i \in 1 .. Len(wire) - n : rest[i] = wire[n + i]
  <2> DEFINE m == n + 1
             z == Len(wire)
  <2>1. m \in Nat \ {0} /\ z \in Nat /\ z <= Len(wire) /\ m <= z + 1 /\ z - m + 1 = Len(wire) - n
    BY <1>1
  <2>2. rest = SubSeq(wire, m, z)
    OBVIOUS
  <2> HIDE DEF m, z
  <2>3. /\ SubSeq(wire, m, z) \in Seq(Cell) /\ Len(SubSeq(wire, m, z)) = z - m + 1
        /\ \A i \in 1 .. z - m + 1 : SubSeq(wire, m, z)[i] = wire[m + i - 1]
    BY <1>1, <2>1, Slice
  <2>4. \A i \in 1 .. Len(wire) - n : m + i - 1 = n + i
    BY <1>1 DEF m
  <2> QED  BY <2>1, <2>2, <2>3, <2>4
<1> HIDE DEF chunk, rest
<1>5. /\ buf' \in Seq(Cell) /\ Len(buf') = Len(buf) + n
      /\ \A i \in 1 .. Len(buf) : buf'[i] = buf[i]
      /\ \A i \in 1 .. n : buf'[Len(buf) + i] = wire[i]
  <2>1. /\ buf \o chunk \in Seq(Cell) /\ Len(buf \o chunk) = Len(buf) + Len(chunk)
        /\ \A i \in 1 .. Len(buf) : (buf \o chunk)[i] = buf[i]
        /\ \A i \in 1 .. Len(chunk) : (buf \o chunk)[Len(buf) + i] = chunk[i]
    <3>1. buf \in Seq(Cell) /\ chunk \in Seq(Cell)
      BY <1>1, <1>3
    <3>2. buf \o chunk \in Seq(Cell) /\ Len(buf \o chunk) = Len(buf) + Len(chunk)
      BY <3>1, Joined
    <3>3. \A i \in 1 .. Len(buf) : (buf \o chunk)[i] = buf[i]
      BY <3>1, Joined
    <3>4. \A i \in 1 .. Len(chunk) : (buf \o chunk)[Len(buf) + i] = chunk[i]
      BY <3>1, Joined
    <3> QED  BY <3>2, <3>3, <3>4
  <2> QED  BY <1>2, <1>3, <2>1
<1>6. TypeOK'
  BY <1>2, <1>4, <1>5 DEF IInv, TypeOK, ReceiverTypeOK, Position
<1>7. InLine'
  <2>1. Len(line') = front' + Len(buf') + Len(wire')
    <3>1. Len(line) = front + Len(buf) + Len(wire)
      BY DEF IInv, InLine
    <3>2. Len(buf') = Len(buf) + n /\ Len(wire') = Len(wire) - n /\ line' = line /\ front' = front
      BY <1>2, <1>4, <1>5
    <3> QED  BY <1>1, <3>1, <3>2
  <2>2. ASSUME NEW i \in 1 .. Len(buf')
        PROVE  buf'[i] = line'[front' + i]
    <3>1. CASE i <= Len(buf)
      BY <1>1, <1>2, <1>5, <2>2, <3>1 DEF IInv, InLine
    <3>2. CASE i > Len(buf)
      <4>1. i - Len(buf) \in 1 .. n /\ i = Len(buf) + (i - Len(buf)) /\ i \in Nat
        BY <1>1, <1>5, <2>2, <3>2
      <4>2. buf'[i] = wire[i - Len(buf)]
        BY <1>5, <4>1
      <4>3. wire[i - Len(buf)] = line[front + Len(buf) + (i - Len(buf))]
        BY <1>1, <4>1 DEF IInv, InLine
      <4>4. front + Len(buf) + (i - Len(buf)) = front + i
        BY <1>1, <4>1
      <4> QED  BY <1>2, <4>2, <4>3, <4>4
    <3> QED  BY <1>1, <1>5, <3>1, <3>2
  <2>3. ASSUME NEW i \in 1 .. Len(wire')
        PROVE  wire'[i] = line'[front' + Len(buf') + i]
    <3>1. n + i \in 1 .. Len(wire) /\ wire'[i] = wire[n + i]
      BY <1>1, <1>2, <1>4, <2>3
    <3>2. wire[n + i] = line[front + Len(buf) + (n + i)]
      BY <3>1 DEF IInv, InLine
    <3>3. front + Len(buf) + (n + i) = front' + Len(buf') + i
      BY <1>1, <1>2, <1>4, <1>5, <2>3
    <3> QED  BY <1>2, <3>1, <3>2, <3>3
  <2> QED  BY <2>1, <2>2, <2>3 DEF InLine
<1>8. InOrder' /\ NoiseCounted' /\ Counted'
  BY <1>2 DEF IInv, InOrder, NoiseCounted, Counted, Skipped, Taken, SpansOf
<1> QED  BY <1>2, <1>6, <1>7, <1>8 DEF IInv, BufferBounded

LEMMA FlipsOf ==
    ASSUME NEW flips \in Flips
    PROVE  /\ \A i \in DOMAIN flips : flips[i] \in Cell
           /\ Cardinality(DOMAIN flips) \in Nat
<1>1. PICK hit \in SUBSET (1 .. MaxPacketBytes) : flips \in [hit -> Bytes]
  BY DEF Flips
<1>2. IsFiniteSet(1 .. MaxPacketBytes)
  BY MaxPacketAssumption, FS_Interval
<1>3. Cardinality(hit) \in Nat
  BY <1>2, FS_Subset, FS_CardinalityType
<1>4. Bytes \subseteq Cell
  BY DEF Bytes, Cell
<1> QED  BY <1>1, <1>3, <1>4

LEMMA SendStep ==
    ASSUME IInv, NEW burst \in Bursts \union {<<>>}, NEW flips \in Flips, Send(burst, flips)
    PROVE  IInv'
<1> DEFINE frame == Frames[sent + 1]
           hit == DOMAIN flips
           damagedFrame == [i \in DOMAIN frame |-> IF i \in hit THEN flips[i] ELSE frame[i]]
           onWire == burst \o damagedFrame
<1>1. /\ sent < Len(Packets) /\ hit \subseteq DOMAIN frame
      /\ noise.bytes_corrupted + Cardinality(hit) <= MaxDamage
      /\ burst # <<>> => bursts < MaxBursts
      /\ wire' = wire \o onWire /\ line' = line \o onWire /\ sent' = sent + 1
      /\ noise' = [bytes_sent |-> noise.bytes_sent + Len(frame),
                   garbage_injected |-> noise.garbage_injected + Len(burst),
                   bytes_corrupted |-> noise.bytes_corrupted + Cardinality(hit)]
      /\ bursts' = IF burst = <<>> THEN bursts ELSE bursts + 1
      /\ start' = Append(start, Len(line) + Len(burst) + 1)
      /\ damaged' = IF hit = {} THEN damaged ELSE damaged \union {sent + 1}
  BY DEF Send
<1>2. UNCHANGED <<buf, scanning, stats, yielded, front, spans>>
  BY DEF Send, receiverVars
<1>3. /\ wire \in Seq(Cell) /\ line \in Seq(Cell) /\ sent \in 0 .. Len(Packets)
      /\ noise \in SerialNoiseStats /\ bursts \in 0 .. MaxBursts
      /\ start \in [1 .. sent -> Position] /\ damaged \subseteq 1 .. sent
      /\ Len(Packets) \in Nat /\ MaxBursts \in Nat /\ front \in Nat /\ Len(buf) \in Nat
  BY PacketsAssumption, LineBounds DEF IInv, TypeOK, ReceiverTypeOK
<1>4. frame \in Seq(Cell) /\ Len(frame) \in Nat /\ Len(frame) >= 1
  <2>1. sent + 1 \in FrameIndex
    BY <1>1, <1>3 DEF FrameIndex
  <2>2. frame \in Seq(Cell) /\ Len(frame) \in Nat /\ Len(frame) >= 8
    BY <2>1, FrameShape DEF Size
  <2> QED  BY <2>2
<1>5. Cardinality(hit) \in Nat /\ \A i \in hit : flips[i] \in Cell
  BY FlipsOf
<1> HIDE DEF frame
<1>6. damagedFrame \in Seq(Cell) /\ Len(damagedFrame) = Len(frame)
  <2>1. DOMAIN frame = 1 .. Len(frame) /\ \A i \in 1 .. Len(frame) : frame[i] \in Cell
    BY <1>4
  <2>2. damagedFrame \in [1 .. Len(frame) -> Cell]
    BY <1>5, <2>1
  <2> QED  BY <1>4, <2>2
<1>7. burst \in Seq(Cell) /\ Len(burst) \in Nat
  <2>1. Bytes \subseteq Cell
    BY DEF Bytes, Cell
  <2>2. burst \in Seq(Bytes)
    <3>1. Bursts \subseteq Seq(Bytes) /\ <<>> \in Seq(Bytes)
      BY PacketsAssumption
    <3> QED  BY <3>1
  <2> QED  BY <2>1, <2>2
<1> HIDE DEF hit, damagedFrame
<1>8. onWire \in Seq(Cell) /\ Len(onWire) = Len(burst) + Len(frame)
  <2>1. burst \in Seq(Cell) /\ damagedFrame \in Seq(Cell)
    BY <1>6, <1>7
  <2>2. onWire \in Seq(Cell) /\ Len(onWire) = Len(burst) + Len(damagedFrame)
    BY <2>1, Joined
  <2> QED  BY <1>6, <2>2
<1> HIDE DEF onWire
<1>9. /\ wire' \in Seq(Cell) /\ Len(wire') = Len(wire) + Len(onWire)
      /\ Len(wire) \in Nat /\ Len(onWire) \in Nat
      /\ \A i \in 1 .. Len(wire) : wire'[i] = wire[i]
      /\ \A i \in 1 .. Len(onWire) : wire'[Len(wire) + i] = onWire[i]
  <2>1. wire \in Seq(Cell) /\ onWire \in Seq(Cell) /\ wire' = wire \o onWire
    BY <1>1, <1>3, <1>8
  <2>2. wire' \in Seq(Cell) /\ Len(wire') = Len(wire) + Len(onWire)
    BY <2>1, Joined
  <2>3. \A i \in 1 .. Len(wire) : wire'[i] = wire[i]
    BY <2>1, Joined
  <2>4. \A i \in 1 .. Len(onWire) : wire'[Len(wire) + i] = onWire[i]
    BY <2>1, Joined
  <2> QED  BY <2>1, <2>2, <2>3, <2>4
<1>10. /\ line' \in Seq(Cell) /\ Len(line') = Len(line) + Len(onWire) /\ Len(line) \in Nat
       /\ \A i \in 1 .. Len(line) : line'[i] = line[i]
       /\ \A i \in 1 .. Len(onWire) : line'[Len(line) + i] = onWire[i]
  <2>1. line \in Seq(Cell) /\ onWire \in Seq(Cell) /\ line' = line \o onWire
    BY <1>1, <1>3, <1>8
  <2>2. line' \in Seq(Cell) /\ Len(line') = Len(line) + Len(onWire)
    BY <2>1, Joined
  <2>3. \A i \in 1 .. Len(line) : line'[i] = line[i]
    BY <2>1, Joined
  <2>4. \A i \in 1 .. Len(onWire) : line'[Len(line) + i] = onWire[i]
    BY <2>1, Joined
  <2> QED  BY <2>1, <2>2, <2>3, <2>4
<1>11. TypeOK'
  <2>1. noise' \in SerialNoiseStats
    <3>1. noise.bytes_sent \in Nat /\ noise.garbage_injected \in Nat /\ noise.bytes_corrupted \in Nat
      BY <1>3 DEF SerialNoiseStats
    <3>2. /\ noise.bytes_sent + Len(frame) \in Nat /\ noise.garbage_injected + Len(burst) \in Nat
          /\ noise.bytes_corrupted + Cardinality(hit) \in Nat
      BY SMTT(30), <1>4, <1>5, <1>7, <3>1
    <3>3. noise' = [bytes_sent |-> noise.bytes_sent + Len(frame),
                    garbage_injected |-> noise.garbage_injected + Len(burst),
                    bytes_corrupted |-> noise.bytes_corrupted + Cardinality(hit)]
      BY <1>1
    <3> QED  BY <3>2, <3>3 DEF SerialNoiseStats
  <2>2. sent' \in 0 .. Len(Packets) /\ bursts' \in 0 .. MaxBursts
    BY <1>1, <1>3
  <2>3. damaged' \subseteq 1 .. sent'
    BY <1>1, <1>3
  <2>4. start' \in [1 .. sent' -> Position']
    <3> DEFINE S == 0 .. Len(line')
               x == Len(line) + Len(burst) + 1
    <3>1. x \in S /\ Position \subseteq S
      BY <1>4, <1>7, <1>8, <1>9, <1>10 DEF Position
    <3> HIDE DEF S, x
    <3>2. sent \in Nat /\ start \in [1 .. sent -> S]
      <4>1. start \in [1 .. sent -> Position] /\ sent \in Nat
        BY <1>3
      <4> QED  BY <3>1, <4>1
    <3>3. start \in Seq(S) /\ Len(start) = sent
      BY <3>2
    <3>4. Append(start, x) \in Seq(S) /\ Len(Append(start, x)) = sent + 1
      BY <3>1, <3>3
    <3>5. Append(start, x) \in [1 .. sent + 1 -> S]
      <4> DEFINE a == Append(start, x)
                 n == sent + 1
      <4>1. a \in Seq(S) /\ Len(a) = n /\ n \in Nat
        BY <3>2, <3>4
      <4> HIDE DEF a, n
      <4>2. a \in [1 .. n -> S]
        BY <4>1
      <4> QED  BY <4>2 DEF a, n
    <3> QED  BY <1>1, <3>5 DEF S, x, Position
  <2> QED  BY <1>2, <1>9, <1>10, <2>1, <2>2, <2>3, <2>4 DEF IInv, TypeOK, ReceiverTypeOK
<1>12. InLine'
  <2>1. Len(line) = front + Len(buf) + Len(wire)
    BY DEF IInv, InLine
  <2>2. Len(line') = front' + Len(buf') + Len(wire')
    BY SMTT(30), <1>2, <1>3, <1>9, <1>10, <2>1
  <2>3. ASSUME NEW i \in 1 .. Len(buf')
        PROVE  buf'[i] = line'[front' + i]
    <3>1. buf[i] = line[front + i] /\ i \in 1 .. Len(buf)
      BY <1>2, <2>3 DEF IInv, InLine
    <3>2. front + i \in 1 .. Len(line)
      BY SMTT(30), <1>3, <1>9, <2>1, <3>1
    <3> QED  BY <1>2, <1>10, <3>1, <3>2
  <2>4. ASSUME NEW i \in 1 .. Len(wire')
        PROVE  wire'[i] = line'[front' + Len(buf') + i]
    <3>1. i \in Nat /\ i >= 1 /\ i <= Len(wire) + Len(onWire)
      BY <1>9, <2>4
    <3>2. CASE i <= Len(wire)
      <4>1. i \in 1 .. Len(wire) /\ front + Len(buf) + i \in 1 .. Len(line)
        BY <1>3, <1>9, <2>1, <3>1, <3>2
      <4>2. wire[i] = line[front + Len(buf) + i]
        BY <4>1 DEF IInv, InLine
      <4> QED  BY <1>2, <1>9, <1>10, <4>1, <4>2
    <3>3. CASE i > Len(wire)
      <4> DEFINE j == i - Len(wire)
      <4>1. j \in 1 .. Len(onWire) /\ Len(wire) + j = i
        BY <1>9, <3>1, <3>3
      <4>2. Len(line) + j = front + Len(buf) + i
        BY <1>3, <1>9, <2>1, <3>1
      <4> HIDE DEF j
      <4>3. wire'[Len(wire) + j] = onWire[j] /\ line'[Len(line) + j] = onWire[j]
        BY <1>9, <1>10, <4>1
      <4> QED  BY <1>2, <4>1, <4>2, <4>3
    <3> QED  BY <1>9, <3>1, <3>2, <3>3
  <2> QED  BY <2>2, <2>3, <2>4 DEF InLine
<1>13. InOrder' /\ NoiseCounted' /\ Counted' /\ BufferBounded'
  BY <1>2 DEF IInv, InOrder, NoiseCounted, Counted, Skipped, Taken, SpansOf, BufferBounded
<1> QED  BY <1>11, <1>12, <1>13 DEF IInv

-----------------------------------------------------------------------------
LEMMA Initially == Init => IInv
<1> SUFFICES ASSUME Init PROVE IInv
  OBVIOUS
<1>1. /\ buf = <<>> /\ scanning = FALSE /\ yielded = <<>> /\ front = 0 /\ spans = <<>>
      /\ stats = [received |-> 0, crc_errors |-> 0, framing_errors |-> 0, resync_bytes |-> 0]
      /\ wire = <<>> /\ line = <<>> /\ sent = 0 /\ bursts = 0 /\ start = <<>> /\ damaged = {}
      /\ noise = [bytes_sent |-> 0, garbage_injected |-> 0, bytes_corrupted |-> 0]
  BY DEF Init, ReceiverInit
<1>2. TypeOK
  <2>1. ReceiverTypeOK
    <3>1. <<>> \in Seq(Cell) /\ <<>> \in Seq(Decoded) /\ <<>> \in Seq(Span)
      OBVIOUS
    <3>2. stats \in StreamReceiverStats
      BY <1>1 DEF StreamReceiverStats
    <3> QED  BY <1>1, <3>1, <3>2 DEF ReceiverTypeOK
  <2>2. noise \in SerialNoiseStats /\ bursts \in 0 .. MaxBursts /\ sent \in 0 .. Len(Packets)
    BY <1>1, PacketsAssumption, LineBounds DEF SerialNoiseStats
  <2>3. start \in [1 .. sent -> Position]
    BY <1>1
  <2> QED  BY <1>1, <2>1, <2>2, <2>3 DEF TypeOK
<1>3. InLine /\ InOrder /\ BufferBounded
  BY <1>1, MaxPacketAssumption DEF InLine, InOrder, BufferBounded, HeaderSize, CrcSize
<1>4. Skipped = {} /\ \A v : SpansOf(v) = {}
  BY <1>1 DEF Skipped, SpansOf
<1>5. NoiseCounted /\ Counted
  BY <1>1, <1>4, FS_EmptySet DEF NoiseCounted, Counted
<1> QED  BY <1>2, <1>3, <1>5 DEF IInv

LEMMA Inductive == Spec => []IInv
<1>1. IInv /\ [Next]_vars => IInv'
  <2> SUFFICES ASSUME IInv, [Next]_vars PROVE IInv'
    OBVIOUS
  <2>1. CASE \E burst \in Bursts \union {<<>>}, flips \in Flips : Send(burst, flips)
    BY <2>1, SendStep
  <2>2. CASE \E n \in 0 .. Len(wire) : Poll(n)
    BY <2>2, PollStep
  <2>3. CASE Turn
    BY <2>3, ScanStep
  <2>4. CASE UNCHANGED vars
    BY <2>4 DEF vars, receiverVars, lineVars, IInv, TypeOK, ReceiverTypeOK, Position, InLine,
                InOrder, NoiseCounted, Counted, Skipped, Taken, SpansOf, BufferBounded
  <2> QED  BY <2>1, <2>2, <2>3, <2>4 DEF Next
<1> QED  BY <1>1, Initially, PTL DEF Spec

\* The state of the line and of the receiver keeps its types.
THEOREM TypeCorrect == Spec => []TypeOK
<1>1. IInv => TypeOK
  BY DEF IInv
<1> QED  BY <1>1, Inductive, PTL

\* Whenever the loop waits, less than one frame is in the buffer: for every stream of bytes,
\* whatever the noise claims.
THEOREM Bounded == Spec => []BufferBounded
<1>1. IInv => BufferBounded
  BY DEF IInv
<1> QED  BY <1>1, Inductive, PTL

\* Every byte read is in exactly one frame taken, counted as noise or in the buffer.
THEOREM EveryByteOnce == Spec => []BytesAccounted
<1>1. IInv => BytesAccounted
  <2> SUFFICES ASSUME IInv PROVE BytesAccounted
    OBVIOUS
  <2> DEFINE read == Len(line) - Len(wire)
             taken == SubSeq(line, 1, front)
  <2>1. /\ line \in Seq(Cell) /\ buf \in Seq(Cell) /\ front \in Nat /\ spans \in Seq(Span)
        /\ Len(line) \in Nat /\ Len(wire) \in Nat /\ Len(buf) \in Nat
        /\ Len(line) = front + Len(buf) + Len(wire)
    BY DEF IInv, TypeOK, ReceiverTypeOK, InLine
  <2>2. read \in Nat /\ read <= Len(line) /\ read = front + Len(buf) /\ front <= Len(line)
    BY <2>1
  <2>3. BytesRead = SubSeq(line, 1, read)
    BY DEF BytesRead
  <2> HIDE DEF read
  <2>4. /\ BytesRead \in Seq(Cell) /\ Len(BytesRead) = read
        /\ \A i \in 1 .. read : BytesRead[i] = line[i]
    <3>1. read \in 0 .. Len(line)
      BY <2>1, <2>2
    <3> QED  BY <2>1, <2>3, <3>1, Prefix
  <2>5. /\ taken \in Seq(Cell) /\ Len(taken) = front
        /\ \A i \in 1 .. front : taken[i] = line[i]
    <3>1. front \in 0 .. Len(line)
      BY <2>1, <2>2
    <3> QED  BY <2>1, <3>1, Prefix
  <2> HIDE DEF taken
  <2>6. taken \o buf \in Seq(Cell) /\ Len(taken \o buf) = read
    BY <2>1, <2>2, <2>5, Joined
  <2>7. \A i \in 1 .. read : BytesRead[i] = (taken \o buf)[i]
    <3> TAKE i \in 1 .. read
    <3>1. CASE i <= front
      <4>1. taken \in Seq(Cell) /\ buf \in Seq(Cell) /\ i \in 1 .. Len(taken)
        BY <2>1, <2>5, <3>1
      <4>2. (taken \o buf)[i] = taken[i]
        BY <4>1, Joined
      <4>3. BytesRead[i] = line[i] /\ taken[i] = line[i]
        BY <2>4, <2>5, <4>1
      <4> QED  BY <4>2, <4>3
    <3>2. CASE i > front
      <4> DEFINE j == i - front
      <4>1. j \in 1 .. Len(buf) /\ Len(taken) + j = i
        BY <2>1, <2>2, <2>5, <3>2
      <4>2. front + j = i
        BY <2>1, <2>2
      <4> HIDE DEF j
      <4>3. (taken \o buf)[Len(taken) + j] = buf[j]
        BY <2>1, <2>5, <4>1, Joined
      <4>4. buf[j] = line[front + j]
        BY <4>1 DEF IInv, InLine
      <4>5. BytesRead[i] = line[i]
        BY <2>4
      <4> QED  BY <4>1, <4>2, <4>3, <4>4, <4>5
    <3>3. i <= front \/ i > front
      BY <2>1, <2>2
    <3> QED  BY <3>1, <3>2, <3>3
  <2>8. BytesRead = taken \o buf
    BY <2>4, <2>6, <2>7, SeqEqual
  <2>9. DOMAIN spans = 1 .. Len(spans)
    BY <2>1
  <2>10. \A j, k \in DOMAIN spans : j < k => spans[j].at + spans[j].len <= spans[k].at
    BY <2>9 DEF IInv, InOrder
  <2>11. \A k \in DOMAIN spans : Taken(k) \subseteq 1 .. front
    <3> TAKE k \in DOMAIN spans
    <3>1. /\ spans[k].at \in Nat /\ spans[k].len \in Nat
          /\ 1 <= spans[k].at /\ spans[k].at + spans[k].len <= front + 1
      BY <2>1, <2>9, SpanFields DEF IInv, InOrder
    <3> QED  BY SMTT(30), <2>1, <3>1 DEF Taken
  <2> QED  BY <2>8, <2>10, <2>11 DEF IInv, BytesAccounted, NoiseCounted, Counted, taken
<1> QED  BY <1>1, Inductive, PTL

-----------------------------------------------------------------------------
(***************************************************************************)
(* What comes out is what was sent, and what was sent whole is not lost    *)
(* but to a false header: where the frames lie in the stream.              *)
(***************************************************************************)

End(i) == start[i] + Size(i) - 1

\* The frames lie one behind the other.
Placed ==
    /\ \A i \in 1 .. sent : start[i] \in Nat /\ start[i] >= 1 /\ End(i) <= Len(line)
    /\ \A i, j \in 1 .. sent : i < j => End(i) < start[j]

\* An undamaged frame is in the line as it was sent.
Unharmed ==
    \A i \in (1 .. sent) \ damaged : \A b \in 1 .. Size(i) : line[start[i] + b - 1] = Frames[i][b]

\* Only the last cell of a frame is not a byte: noise and flipped bits make no check sum.
SumsAtEnds ==
    \A b \in 1 .. Len(line) :
        line[b] \in Bytes \/ \E i \in 1 .. sent : b = End(i) /\ line[b] = Frames[i][Size(i)]

Laid == Placed /\ Unharmed /\ SumsAtEnds

LEMMA SentAreFrames ==
    ASSUME TypeOK, NEW i \in 1 .. sent
    PROVE  i \in FrameIndex /\ Size(i) \in Nat /\ Size(i) >= 8 /\ Frames[i] \in Seq(Cell)
<1>1. i \in FrameIndex
  BY PacketsAssumption DEF TypeOK, FrameIndex
<1> QED  BY <1>1, FrameShape

\* What a send adds to the line.
LEMMA SendEffect ==
    ASSUME IInv, NEW burst \in Bursts \union {<<>>}, NEW flips \in Flips, Send(burst, flips)
    PROVE  LET F == Frames[sent + 1]
               at == Len(line) + Len(burst) + 1
           IN  /\ sent' = sent + 1 /\ sent + 1 \in FrameIndex
               /\ Len(burst) \in Nat /\ Len(line) \in Nat
               /\ Len(line') = Len(line) + Len(burst) + Len(F)
               /\ \A b \in 1 .. Len(line) : line'[b] = line[b]
               /\ \A b \in 1 .. Len(burst) : line'[Len(line) + b] \in Bytes
               /\ \A b \in 1 .. Len(F) : line'[at + b - 1] = F[b] \/ line'[at + b - 1] \in Bytes
               /\ sent + 1 \notin damaged' =>
                      \A b \in 1 .. Len(F) : line'[at + b - 1] = F[b]
               /\ \A i \in 1 .. sent : start'[i] = start[i]
               /\ start'[sent + 1] = at
               /\ \A i \in 1 .. sent : i \in damaged' => i \in damaged
               /\ damaged \subseteq damaged'
<1> DEFINE F == Frames[sent + 1]
           hit == DOMAIN flips
           onLine == [i \in DOMAIN F |-> IF i \in hit THEN flips[i] ELSE F[i]]
           tail == burst \o onLine
           at == Len(line) + Len(burst) + 1
<1>1. /\ sent < Len(Packets) /\ hit \subseteq DOMAIN F
      /\ line' = line \o tail /\ sent' = sent + 1
      /\ start' = Append(start, at)
      /\ damaged' = IF hit = {} THEN damaged ELSE damaged \union {sent + 1}
  BY DEF Send
<1>2. /\ line \in Seq(Cell) /\ sent \in Nat /\ Len(Packets) \in Nat
      /\ start \in [1 .. sent -> Position] /\ damaged \subseteq 1 .. sent
  BY PacketsAssumption DEF IInv, TypeOK
<1>3. sent + 1 \in FrameIndex
  BY <1>1, <1>2 DEF FrameIndex
<1>4. F \in Seq(Cell) /\ Len(F) \in Nat /\ DOMAIN F = 1 .. Len(F)
  BY <1>3, FrameShape
<1>5. \A i \in hit : flips[i] \in Bytes
  BY DEF Flips
<1>6. burst \in Seq(Bytes) /\ burst \in Seq(Cell) /\ Len(burst) \in Nat
  <2>1. Bursts \subseteq Seq(Bytes) /\ <<>> \in Seq(Bytes)
    BY PacketsAssumption
  <2>2. burst \in Seq(Bytes)
    BY <2>1
  <2> QED  BY <2>2, ByteIsCell
<1> HIDE DEF F, hit
<1>7. /\ onLine \in Seq(Cell) /\ Len(onLine) = Len(F)
      /\ \A b \in 1 .. Len(F) : onLine[b] = IF b \in hit THEN flips[b] ELSE F[b]
  <2>1. \A b \in 1 .. Len(F) : (IF b \in hit THEN flips[b] ELSE F[b]) \in Cell
    BY <1>4, <1>5, ByteIsCell
  <2>2. onLine \in [1 .. Len(F) -> Cell]
    BY <1>4, <2>1
  <2> QED  BY <1>4, <2>2
<1> HIDE DEF onLine
<1>8. /\ tail \in Seq(Cell) /\ Len(tail) = Len(burst) + Len(F)
      /\ \A b \in 1 .. Len(burst) : tail[b] = burst[b]
      /\ \A b \in 1 .. Len(F) : tail[Len(burst) + b] = onLine[b]
  <2>1. onLine \in Seq(Cell) /\ burst \in Seq(Cell)
    BY <1>6, <1>7
  <2>2. /\ tail \in Seq(Cell) /\ Len(tail) = Len(burst) + Len(onLine)
        /\ \A b \in 1 .. Len(burst) : tail[b] = burst[b]
        /\ \A b \in 1 .. Len(onLine) : tail[Len(burst) + b] = onLine[b]
    BY <2>1, Joined
  <2> QED  BY <1>7, <2>2
<1> HIDE DEF tail
<1>9. /\ Len(line') = Len(line) + Len(tail) /\ Len(line) \in Nat
      /\ \A b \in 1 .. Len(line) : line'[b] = line[b]
      /\ \A b \in 1 .. Len(tail) : line'[Len(line) + b] = tail[b]
  <2>1. line \in Seq(Cell) /\ tail \in Seq(Cell)
    BY <1>2, <1>8
  <2> QED  BY <1>1, <2>1, Joined
<1>10. \A b \in 1 .. Len(burst) : line'[Len(line) + b] \in Bytes
  <2> TAKE b \in 1 .. Len(burst)
  <2>1. b \in 1 .. Len(tail)
    BY <1>4, <1>6, <1>8
  <2>2. line'[Len(line) + b] = burst[b]
    BY <1>8, <1>9, <2>1
  <2> QED  BY <1>6, <2>2
<1>11. \A b \in 1 .. Len(F) : line'[at + b - 1] = onLine[b]
  <2> TAKE b \in 1 .. Len(F)
  <2>1. Len(burst) + b \in 1 .. Len(tail) /\ Len(line) + (Len(burst) + b) = at + b - 1
    BY <1>4, <1>6, <1>8, <1>9
  <2>2. line'[Len(line) + (Len(burst) + b)] = tail[Len(burst) + b]
    BY <1>9, <2>1
  <2> QED  BY <1>8, <2>1, <2>2
<1>12. \A b \in 1 .. Len(F) : line'[at + b - 1] = F[b] \/ line'[at + b - 1] \in Bytes
  BY <1>5, <1>7, <1>11
<1>13. ASSUME sent + 1 \notin damaged'
       PROVE  \A b \in 1 .. Len(F) : line'[at + b - 1] = F[b]
  <2>1. hit = {}
    BY <1>1, <1>13
  <2> QED  BY <1>7, <1>11, <2>1
<1>14. (\A i \in 1 .. sent : start'[i] = start[i]) /\ start'[sent + 1] = at
  <2> DEFINE a == at
  <2>1. start \in Seq(Position) /\ Len(start) = sent
    BY <1>2
  <2>2. start' = Append(start, a)
    BY <1>1
  <2> HIDE DEF a
  <2>3. (\A i \in 1 .. sent : start'[i] = start[i]) /\ start'[sent + 1] = a
    BY <2>1, <2>2
  <2> QED  BY <2>3 DEF a
<1>15. Len(line') = Len(line) + Len(burst) + Len(F)
  BY <1>4, <1>6, <1>8, <1>9
<1>16. (\A i \in 1 .. sent : i \in damaged' => i \in damaged) /\ damaged \subseteq damaged'
  BY <1>1, <1>2
<1> QED
  BY <1>1, <1>3, <1>6, <1>9, <1>10, <1>12, <1>13, <1>14, <1>15, <1>16 DEF F

LEMMA SendLays ==
    ASSUME IInv, Laid, NEW burst \in Bursts \union {<<>>}, NEW flips \in Flips, Send(burst, flips)
    PROVE  Laid'
<1> DEFINE new == sent + 1
           at == Len(line) + Len(burst) + 1
           b0 == Len(burst)
           n == Size(new)
<1>1. /\ sent' = new /\ new \in FrameIndex /\ b0 \in Nat /\ Len(line) \in Nat
      /\ Len(line') = Len(line) + b0 + n
      /\ \A b \in 1 .. Len(line) : line'[b] = line[b]
      /\ \A b \in 1 .. b0 : line'[Len(line) + b] \in Bytes
      /\ \A b \in 1 .. n : line'[at + b - 1] = Frames[new][b] \/ line'[at + b - 1] \in Bytes
      /\ new \notin damaged' => \A b \in 1 .. n : line'[at + b - 1] = Frames[new][b]
      /\ \A i \in 1 .. sent : start'[i] = start[i]
      /\ start'[new] = at
      /\ \A i \in 1 .. sent : i \in damaged' => i \in damaged
      /\ damaged \subseteq damaged'
  BY SendEffect DEF Size
<1>2. n \in Nat /\ n >= 8 /\ \A b \in 1 .. n - 1 : Frames[new][b] \in Bytes
  <2>1. new \in FrameIndex
    BY <1>1
  <2> HIDE DEF new
  <2> QED  BY <2>1, FrameShape
<1>3. TypeOK /\ sent \in Nat
  BY PacketsAssumption DEF IInv, TypeOK
<1>4. \A i \in 1 .. sent : /\ Size(i) \in Nat /\ Size(i) >= 8 /\ start[i] \in Nat /\ start[i] >= 1
                           /\ End(i) <= Len(line) /\ End(i)' = End(i) /\ End(i) \in Nat
                           /\ start'[i] = start[i]
  <2> TAKE i \in 1 .. sent
  <2>1. Size(i) \in Nat /\ Size(i) >= 8
    BY <1>3, SentAreFrames
  <2>2. start[i] \in Nat /\ start[i] >= 1 /\ End(i) <= Len(line)
    BY DEF Laid, Placed
  <2>3. start'[i] = start[i]
    BY <1>1
  <2>4. End(i)' = start'[i] + Size(i) - 1
    BY DEF End, Size, Frames, FrameIndex
  <2>5. End(i) = start[i] + Size(i) - 1
    BY DEF End
  <2> QED  BY <2>1, <2>2, <2>3, <2>4, <2>5
<1>5. /\ at \in Nat /\ at > Len(line) /\ at + n - 1 = Len(line')
      /\ \A i \in {new} : End(i)' = at + n - 1 /\ start'[i] = at
  <2>2. start'[new] = at /\ Len(line') = Len(line) + b0 + n /\ Len(line) \in Nat /\ b0 \in Nat
    BY <1>1
  <2>3. n \in Nat
    BY <1>2
  <2>4. \A i \in {new} : End(i)' = start'[i] + n - 1 /\ start'[i] = start'[new]
    BY DEF End, Size, Frames, FrameIndex
  <2> HIDE DEF n, b0, new
  <2>5. at = Len(line) + b0 + 1
    BY DEF b0
  <2> HIDE DEF at
  <2> QED  BY <2>2, <2>3, <2>4, <2>5
<1>6. \A i \in 1 .. sent' : i \in 1 .. sent \/ i = new
  BY <1>1, <1>3
<1> HIDE DEF n, b0
<1>7. Placed'
  <2>1. ASSUME NEW i \in 1 .. sent'
        PROVE  start'[i] \in Nat /\ start'[i] >= 1 /\ End(i)' <= Len(line')
    <3>1. CASE i \in 1 .. sent
      <4>1. start'[i] = start[i] /\ End(i)' = End(i) /\ start[i] \in Nat /\ start[i] >= 1
            /\ End(i) <= Len(line) /\ End(i) \in Nat
        BY <1>4, <3>1
      <4>2. Len(line) <= Len(line') /\ Len(line) \in Nat /\ Len(line') \in Nat
        <5>1. Len(line') = Len(line) + b0 + n /\ Len(line) \in Nat /\ b0 \in Nat /\ n \in Nat
          BY <1>1, <1>2
        <5> QED  BY <5>1
      <4> QED  BY <4>1, <4>2
    <3>2. CASE i = new
      <4>1. at \in Nat /\ at > Len(line) /\ End(i)' = Len(line') /\ Len(line) \in Nat
        BY <1>1, <1>5, <3>2
      <4>2. Len(line') \in Nat /\ start'[i] = at
        <5>1. Len(line') = Len(line) + b0 + n /\ Len(line) \in Nat /\ b0 \in Nat /\ n \in Nat
          BY <1>1, <1>2
        <5>2. start'[i] = at
          BY <1>1, <3>2
        <5> HIDE DEF at
        <5> QED  BY <5>1, <5>2
      <4> HIDE DEF at, new
      <4> QED  BY <4>1, <4>2
    <3> QED  BY <1>6, <3>1, <3>2
  <2>2. ASSUME NEW i \in 1 .. sent', NEW j \in 1 .. sent', i < j
        PROVE  End(i)' < start'[j]
    <3>1. i \in 1 .. sent
      BY <1>3, <1>6, <2>2
    <3>2. CASE j \in 1 .. sent
      <4>1. End(i) < start[j]
        BY <2>2, <3>1, <3>2 DEF Laid, Placed
      <4> QED  BY <1>4, <3>1, <3>2, <4>1
    <3>3. CASE j = new
      <4>1. End(i)' = End(i) /\ End(i) <= Len(line) /\ End(i) \in Nat /\ start'[j] = at
        BY <1>1, <1>4, <3>1, <3>3
      <4> QED  BY <1>1, <1>5, <4>1
    <3> QED  BY <1>6, <3>2, <3>3
  <2> QED  BY <2>1, <2>2 DEF Placed
<1>8. Unharmed'
  <2> SUFFICES ASSUME NEW i \in (1 .. sent') \ damaged', NEW b \in 1 .. Size(i)
               PROVE  line'[start'[i] + b - 1] = Frames[i][b]
    BY DEF Unharmed, Size, Frames, FrameIndex
  <2>1. CASE i \in 1 .. sent
    <3>1. i \in (1 .. sent) \ damaged
      BY <1>1, <2>1
    <3>2. line[start[i] + b - 1] = Frames[i][b]
      BY <3>1 DEF Laid, Unharmed
    <3>3. start[i] + b - 1 \in 1 .. Len(line)
      <4>1. /\ start[i] \in Nat /\ start[i] >= 1 /\ Size(i) \in Nat
            /\ start[i] + Size(i) - 1 <= Len(line)
        BY <1>4, <2>1 DEF End
      <4> QED  BY SMTT(30), <1>1, <4>1
    <3> QED  BY <1>1, <1>4, <2>1, <3>2, <3>3
  <2>2. CASE i = new
    <3>1. \A c \in 1 .. n : line'[at + c - 1] = Frames[new][c]
      BY <1>1, <2>2
    <3> QED  BY <1>1, <2>2, <3>1 DEF n
  <2> QED  BY <1>6, <2>1, <2>2
<1>9. SumsAtEnds'
  <2> SUFFICES ASSUME NEW b \in 1 .. Len(line')
               PROVE  \/ line'[b] \in Bytes
                      \/ \E i \in 1 .. sent' : b = End(i)' /\ line'[b] = Frames[i][Size(i)]
    BY DEF SumsAtEnds, Size, Frames, FrameIndex
  <2>1. b \in Nat /\ b >= 1 /\ b <= Len(line) + b0 + n
    BY <1>1, <1>2
  <2>2. CASE b <= Len(line)
    <3>1. b \in 1 .. Len(line) /\ line'[b] = line[b]
      BY <1>1, <2>1, <2>2
    <3>2. CASE line[b] \in Bytes
      BY <3>1, <3>2
    <3>3. ASSUME NEW i \in 1 .. sent, b = End(i), line[b] = Frames[i][Size(i)]
          PROVE  \E j \in 1 .. sent' : b = End(j)' /\ line'[b] = Frames[j][Size(j)]
      <4>1. i \in 1 .. sent'
        BY <1>1, <1>3
      <4>2. b = End(i)'
        BY <1>4, <3>3
      <4> QED  BY <3>1, <3>3, <4>1, <4>2
    <3> QED  BY <3>1, <3>2, <3>3 DEF Laid, SumsAtEnds
  <2>3. CASE b > Len(line) /\ b <= Len(line) + b0
    <3>1. b - Len(line) \in 1 .. b0 /\ Len(line) + (b - Len(line)) = b
      BY <1>1, <2>1, <2>3
    <3> QED  BY <1>1, <3>1
  <2>4. CASE b > Len(line) + b0
    <3> DEFINE c == b - (Len(line) + b0)
    <3>1. c \in 1 .. n /\ at + c - 1 = b
      BY <1>1, <1>2, <2>1, <2>4 DEF b0
    <3> HIDE DEF c, at
    <3>2. line'[b] = Frames[new][c] \/ line'[b] \in Bytes
      BY <1>1, <3>1
    <3>3. CASE c < n
      BY <1>2, <3>1, <3>2, <3>3
    <3>4. CASE c = n
      <4>1. PICK i \in 1 .. sent' : i = new
        BY <1>1, <1>3
      <4>2. b = End(i)'
        BY <1>5, <3>1, <3>4, <4>1 DEF at
      <4>3. line'[b] = Frames[i][Size(i)] \/ line'[b] \in Bytes
        BY <3>2, <3>4, <4>1 DEF n
      <4> QED  BY <4>2, <4>3
    <3>5. c < n \/ c = n
      BY <1>2, <3>1
    <3> QED  BY <3>3, <3>4, <3>5
  <2> QED  BY <1>1, <2>1, <2>2, <2>3, <2>4
<1> QED  BY <1>7, <1>8, <1>9 DEF Laid

-----------------------------------------------------------------------------
(* The candidate the loop looks at. *)

LEMMA RestCells ==
    ASSUME buf \in Seq(Cell), NEW at \in 1 .. Len(buf)
    PROVE  /\ Rest(at) \in Seq(Cell) /\ Len(Rest(at)) = Len(buf) - at + 1
           /\ \A k \in 1 .. Len(buf) - at + 1 : Rest(at)[k] = buf[at + k - 1]
<1> DEFINE n == Len(buf)
<1>1. at \in Nat \ {0} /\ n \in Nat /\ n <= Len(buf) /\ at <= n + 1
  OBVIOUS
<1>2. Rest(at) = SubSeq(buf, at, n)
  BY DEF Rest
<1> HIDE DEF n
<1>3. /\ SubSeq(buf, at, n) \in Seq(Cell) /\ Len(SubSeq(buf, at, n)) = n - at + 1
      /\ \A k \in 1 .. n - at + 1 : SubSeq(buf, at, n)[k] = buf[at + k - 1]
  BY <1>1, Slice
<1> QED  BY <1>2, <1>3 DEF n

LEMMA CandidateCells ==
    ASSUME buf \in Seq(Cell), NEW at \in 1 .. Len(buf), HasFrame(at)
    PROVE  LET n == ImpliedLength(Rest(at))
           IN  /\ n \in Nat /\ at + n - 1 <= Len(buf)
               /\ Candidate(at) \in Seq(Cell) /\ Len(Candidate(at)) = n
               /\ \A k \in 1 .. n : Candidate(at)[k] = buf[at + k - 1]
<1> DEFINE n == ImpliedLength(Rest(at))
           r == Rest(at)
<1>1. n \in Nat /\ Len(r) >= n
  BY MaxPacketAssumption DEF HasFrame, Plausible
<1>2. Candidate(at) = SubSeq(r, 1, n)
  BY DEF Candidate
<1>3. /\ r \in Seq(Cell) /\ Len(r) = Len(buf) - at + 1
      /\ \A k \in 1 .. Len(buf) - at + 1 : r[k] = buf[at + k - 1]
  BY RestCells
<1> HIDE DEF n, r
<1>4. n \in 0 .. Len(r)
  BY <1>1, <1>3
<1>5. /\ Candidate(at) \in Seq(Cell) /\ Len(Candidate(at)) = n
      /\ \A k \in 1 .. n : Candidate(at)[k] = r[k]
  BY <1>2, <1>3, <1>4, Prefix
<1>6. at + n - 1 <= Len(buf) /\ Len(buf) \in Nat
  BY <1>3, <1>4
<1>7. \A k \in 1 .. n : Candidate(at)[k] = buf[at + k - 1]
  <2> TAKE k \in 1 .. n
  <2>1. k \in 1 .. Len(buf) - at + 1
    BY <1>1, <1>6
  <2> QED  BY <1>3, <1>5, <2>1
<1> QED  BY <1>1, <1>5, <1>6, <1>7 DEF n

\* A candidate that passes the decoder is a frame that was sent, where it was sent: the check
\* sum at its end is one that a sender put there, for just these bytes.
LEMMA GoodIsSent ==
    ASSUME IInv, Laid, NEW at \in 1 .. Len(buf), HasFrame(at),
           ~FramingError(Candidate(at)), ~CrcError(Candidate(at))
    PROVE  \E i \in 1 .. sent : front + at = start[i] /\ Candidate(at) = Frames[i]
<1> DEFINE c == Candidate(at)
           n == ImpliedLength(Rest(at))
           content == SubSeq(c, 1, n - 1)
           last == front + at + n - 1
<1>1. /\ buf \in Seq(Cell) /\ front \in Nat /\ Len(buf) \in Nat /\ at \in Nat /\ at >= 1
      /\ Len(wire) \in Nat /\ line \in Seq(Cell) /\ Len(line) \in Nat /\ TypeOK
  BY DEF IInv, TypeOK, ReceiverTypeOK
<1>2. /\ n \in Nat /\ at + n - 1 <= Len(buf) /\ c \in Seq(Cell) /\ Len(c) = n
      /\ \A k \in 1 .. n : c[k] = buf[at + k - 1]
  BY <1>1, CandidateCells
<1>3. n >= 8 /\ c[n] = Crc(content)
  <2>1. ~(Len(c) < HeaderSize + CrcSize)
    BY DEF FramingError
  <2>2. c[Len(c)] = Crc(SubSeq(c, 1, Len(c) - CrcSize))
    BY DEF CrcError
  <2> HIDE DEF c, n
  <2> QED  BY <1>2, <2>1, <2>2 DEF HeaderSize, CrcSize
<1> HIDE DEF c, n
<1>4. content \in Seq(Cell) /\ Len(content) = n - 1 /\ \A k \in 1 .. n - 1 : content[k] = c[k]
  <2>1. n - 1 \in 0 .. Len(c)
    BY <1>2, <1>3
  <2> QED  BY <1>2, <2>1, Prefix
<1> HIDE DEF content
<1>5. c[n] \notin Bytes
  <2>1. Len(content) >= 2
    BY <1>2, <1>3, <1>4
  <2> QED  BY <1>3, <1>4, <2>1, CrcIsNoByte
<1>6. last \in 1 .. Len(line) /\ line[last] = c[n]
  <2>1. n \in 1 .. n /\ at + n - 1 \in 1 .. Len(buf) /\ front + (at + n - 1) = last
    BY <1>1, <1>2, <1>3
  <2>2. c[n] = buf[at + n - 1]
    BY <1>2, <2>1
  <2>3. buf[at + n - 1] = line[front + (at + n - 1)]
    BY <2>1 DEF IInv, InLine
  <2>4. Len(line) = front + Len(buf) + Len(wire)
    BY DEF IInv, InLine
  <2>5. last \in 1 .. Len(line)
    BY <1>1, <2>1, <2>4
  <2> QED  BY <2>1, <2>2, <2>3, <2>5
<1>7. PICK i \in 1 .. sent : last = End(i) /\ line[last] = Frames[i][Size(i)]
  BY <1>5, <1>6 DEF Laid, SumsAtEnds
<1>8. /\ i \in FrameIndex /\ Frames[i] \in Seq(Cell) /\ Size(i) \in Nat /\ Size(i) >= 8
      /\ Content(i) \in Seq(Bytes) /\ Frames[i][Size(i)] = Crc(Content(i))
  <2>1. i \in FrameIndex
    BY <1>1, SentAreFrames
  <2> QED  BY <2>1, FrameShape
<1>9. content = Content(i)
  <2>1. Crc(content) = Crc(Content(i))
    BY <1>3, <1>6, <1>7, <1>8
  <2> QED  BY <1>4, <1>8, <2>1, CrcTells
<1>10. /\ Len(Content(i)) = Size(i) - 1
       /\ \A k \in 1 .. Size(i) - 1 : Content(i)[k] = Frames[i][k]
  <2>1. Size(i) - 1 \in 0 .. Len(Frames[i]) /\ Len(Frames[i]) = Size(i)
    BY <1>8 DEF Size
  <2>2. Content(i) = SubSeq(Frames[i], 1, Size(i) - 1)
    BY DEF Content, CrcSize
  <2> QED  BY <1>8, <2>1, <2>2, Prefix
<1>11. n = Size(i)
  BY <1>2, <1>4, <1>8, <1>9, <1>10
<1>12. front + at = start[i]
  <2>1. front + at + n - 1 = start[i] + Size(i) - 1
    BY <1>7 DEF End
  <2>2. start[i] \in Nat
    BY DEF Laid, Placed
  <2>3. front \in Nat /\ at \in Nat /\ n \in Nat /\ Size(i) = n
    BY <1>1, <1>2, <1>11
  <2> HIDE DEF last
  <2>4. front + at + n - 1 = start[i] + n - 1
    BY <2>1, <2>3
  <2> QED  BY <2>2, <2>3, <2>4
<1>13. c = Frames[i]
  <2>1. \A k \in 1 .. n : c[k] = Frames[i][k]
    <3> TAKE k \in 1 .. n
    <3>1. CASE k = n
      BY <1>6, <1>7, <1>11, <3>1
    <3>2. CASE k # n
      <4>1. k \in 1 .. n - 1
        BY <1>2, <3>2
      <4> QED  BY <1>4, <1>9, <1>10, <1>11, <4>1
    <3> QED  BY <3>1, <3>2
  <2>2. Len(Frames[i]) = n
    BY <1>11 DEF Size
  <2> QED  BY <1>2, <1>8, <2>1, <2>2, SeqEqual
<1> QED  BY <1>12, <1>13 DEF c

\* What the loop sees of an undamaged frame that starts in the buffer.
LEMMA IntactSeen ==
    ASSUME IInv, Laid, NEW i \in (1 .. sent) \ damaged, NEW at \in 1 .. Len(buf),
           front + at = start[i]
    PROVE  /\ buf[at] = Magic[1]
           /\ at < Len(buf) => at \in SyncAt
           /\ HasHeader(at) => Plausible(Rest(at)) /\ ImpliedLength(Rest(at)) = Size(i)
           /\ HasFrame(at) => Candidate(at) = Frames[i]
<1> DEFINE F == Frames[i]
           r == Rest(at)
<1>1. /\ buf \in Seq(Cell) /\ front \in Nat /\ Len(buf) \in Nat /\ at \in Nat /\ at >= 1 /\ TypeOK
  BY DEF IInv, TypeOK, ReceiverTypeOK
<1>2. i \in FrameIndex
  BY <1>1, SentAreFrames
<1>3. /\ Size(i) \in Nat /\ Size(i) >= 8 /\ Size(i) <= MaxPacketBytes
      /\ Size(i) = FrameLength(Packets[i].channel_count, Packets[i].sample_count)
      /\ F[1] = Magic[1] /\ F[2] = Magic[2] /\ F[3] = Version
      /\ F[4] = Packets[i].msg_type
      /\ F[6] = Packets[i].channel_count /\ F[7] = Packets[i].sample_count
      /\ F \in Seq(Cell) /\ Len(F) = Size(i)
  BY <1>2, FrameShape DEF Size
<1>4. Packets[i].msg_type \in {SampleBlock, Heartbeat}
  <2>1. Packets[i] \in Packet
    BY <1>2, PacketsAssumption DEF FrameIndex
  <2> QED  BY <2>1 DEF Packet
<1> HIDE DEF F
<1>5. ASSUME NEW k \in 1 .. Size(i), at + k - 1 <= Len(buf)
      PROVE  buf[at + k - 1] = F[k]
  <2>1. line[start[i] + k - 1] = F[k]
    BY DEF Laid, Unharmed, F
  <2>2. at + k - 1 \in 1 .. Len(buf) /\ front + (at + k - 1) = (front + at) + k - 1
    BY <1>1, <1>3, <1>5
  <2>3. buf[at + k - 1] = line[front + (at + k - 1)]
    BY <2>2 DEF IInv, InLine
  <2> QED  BY <2>1, <2>2, <2>3
<1>6. buf[at] = Magic[1]
  <2>1. 1 \in 1 .. Size(i) /\ at + 1 - 1 = at /\ at <= Len(buf)
    BY <1>1, <1>3
  <2> QED  BY <1>3, <1>5, <2>1
<1>7. ASSUME at < Len(buf) PROVE at \in SyncAt
  <2>1. 2 \in 1 .. Size(i) /\ at + 2 - 1 = at + 1 /\ at + 1 <= Len(buf)
    BY <1>1, <1>3, <1>7
  <2>2. buf[at + 1] = Magic[2]
    BY <1>3, <1>5, <2>1
  <2>3. at \in 1 .. Len(buf) - 1
    BY <1>1, <1>7
  <2>4. SubSeq(buf, at, at + 1) = Magic
    BY <1>1, <1>6, <2>2, <2>3, SyncWord
  <2> QED  BY <2>3, <2>4 DEF SyncAt
<1>8. /\ r \in Seq(Cell) /\ Len(r) = Len(buf) - at + 1
      /\ \A k \in 1 .. Len(buf) - at + 1 : r[k] = buf[at + k - 1]
  BY <1>1, RestCells
<1>9. ASSUME HasHeader(at)
      PROVE  Plausible(r) /\ ImpliedLength(r) = Size(i)
  <2>1. Len(r) >= 7
    BY <1>9 DEF HasHeader, HeaderSize
  <2> HIDE DEF r
  <2>2. \A k \in 1 .. 7 : r[k] = F[k]
    <3> TAKE k \in 1 .. 7
    <3>1. k \in 1 .. Len(buf) - at + 1 /\ k \in 1 .. Size(i) /\ at + k - 1 <= Len(buf)
      <4>1. Len(r) = Len(buf) - at + 1 /\ Len(buf) \in Nat /\ at \in Nat
        BY <1>1, <1>8
      <4>2. Size(i) \in Nat /\ Size(i) >= 8
        BY <1>3
      <4> QED  BY <2>1, <4>1, <4>2
    <3> QED  BY <1>5, <1>8, <3>1
  <2>3. r[3] = F[3] /\ r[4] = F[4] /\ r[6] = F[6] /\ r[7] = F[7]
    BY <2>2
  <2>4. ImpliedLength(r) = Size(i)
    BY <1>3, <2>3 DEF ImpliedLength, ChannelCountAt, SampleCountAt
  <2>5. Size(i) \in 0 .. MaxPacketBytes
    BY <1>3, MaxPacketAssumption
  <2> QED  BY <1>3, <1>4, <2>3, <2>4, <2>5 DEF Plausible, VersionAt, MsgTypeAt
<1>10. ASSUME HasFrame(at) PROVE Candidate(at) = F
  <2>1. ImpliedLength(r) = Size(i)
    BY <1>9, <1>10 DEF HasFrame
  <2>2. /\ at + Size(i) - 1 <= Len(buf)
        /\ Candidate(at) \in Seq(Cell) /\ Len(Candidate(at)) = Size(i)
        /\ \A k \in 1 .. Size(i) : Candidate(at)[k] = buf[at + k - 1]
    BY <1>1, <1>10, <2>1, CandidateCells
  <2>3. \A k \in 1 .. Size(i) : Candidate(at)[k] = F[k]
    <3> TAKE k \in 1 .. Size(i)
    <3>1. at + k - 1 <= Len(buf)
      BY SMTT(30), <1>1, <1>3, <2>2
    <3> QED  BY <1>5, <2>2, <3>1
  <2> QED  BY <1>3, <2>2, <2>3, SeqEqual
<1> QED  BY <1>6, <1>7, <1>9, <1>10 DEF F

-----------------------------------------------------------------------------
(* What a turn of the loop takes out of the stream. *)

\* No undamaged frame starts in the next m bytes of the buffer.
NoStart(m) == \A i \in (1 .. sent) \ damaged : start[i] \notin front + 1 .. front + m

LEMMA NoneBefore ==
    ASSUME IInv, Laid, NEW at \in FirstSync
    PROVE  /\ at \in 1 .. Len(buf) - 1 /\ at \in 1 .. Len(buf) /\ NoStart(at - 1)
           /\ buf[at] = Magic[1] /\ buf[at + 1] = Magic[2]
<1>1. buf \in Seq(Cell) /\ front \in Nat /\ Len(buf) \in Nat
  BY DEF IInv, TypeOK, ReceiverTypeOK
<1>2. at \in 1 .. Len(buf) - 1 /\ at \in 1 .. Len(buf) /\ SubSeq(buf, at, at + 1) = Magic
      /\ \A b \in SyncAt : at <= b
  BY <1>1 DEF FirstSync, SyncAt
<1>3. ASSUME NEW i \in (1 .. sent) \ damaged, start[i] \in front + 1 .. front + (at - 1)
      PROVE  FALSE
  <2> DEFINE b == start[i] - front
  <2>1. start[i] \in Nat
    BY DEF Laid, Placed
  <2>2. b \in 1 .. Len(buf) /\ front + b = start[i] /\ b < at /\ b < Len(buf) /\ b \in Nat
    <3>1. at \in Nat /\ at < Len(buf) /\ Len(buf) \in Nat /\ front \in Nat
      BY <1>1, <1>2
    <3>2. start[i] >= front + 1 /\ start[i] <= front + (at - 1)
      BY <1>3, <2>1, <3>1
    <3> QED  BY <2>1, <3>1, <3>2
  <2> HIDE DEF b
  <2>3. b \in SyncAt
    BY <2>2, IntactSeen
  <2> QED  BY <1>2, <2>2, <2>3
<1> QED  BY <1>1, <1>2, <1>3, SyncWord DEF NoStart

LEMMA NoneInNoise ==
    ASSUME IInv, Laid, SyncAt = {},
           NEW k \in 0 .. Len(buf), k = Len(buf) => buf = <<>> \/ Last(buf) # Magic[1]
    PROVE  NoStart(k)
<1>1. buf \in Seq(Cell) /\ front \in Nat /\ Len(buf) \in Nat
  BY DEF IInv, TypeOK, ReceiverTypeOK
<1>2. ASSUME NEW i \in (1 .. sent) \ damaged, start[i] \in front + 1 .. front + k
      PROVE  FALSE
  <2> DEFINE b == start[i] - front
  <2>1. start[i] \in Nat
    BY DEF Laid, Placed
  <2>2. b \in 1 .. Len(buf) /\ front + b = start[i] /\ b <= k /\ b \in Nat /\ k \in Nat
    BY <1>1, <1>2, <2>1
  <2> HIDE DEF b
  <2>3. buf[b] = Magic[1] /\ (b < Len(buf) => b \in SyncAt)
    BY <2>2, IntactSeen
  <2>4. b = Len(buf) /\ k = Len(buf)
    BY <1>1, <2>2, <2>3
  <2>5. buf # <<>> /\ Last(buf) = Magic[1]
    BY <1>1, <2>2, <2>3, <2>4 DEF Last
  <2> QED  BY <2>4, <2>5
<1> QED  BY <1>2 DEF NoStart

\* What leaves the buffer is noise that hides no frame, a frame that was sent, or a candidate
\* that fails its check sum.
LEMMA TurnTakes ==
    ASSUME IInv, Laid, Turn
    PROVE  /\ UNCHANGED lineVars
           /\ \E k \in 0 .. Len(buf) :
                 /\ front' = front + k
                 /\ \/ yielded' = yielded /\ spans' = spans /\ NoStart(k)
                    \/ \E at \in 1 .. k, i \in 1 .. sent :
                          /\ NoStart(at - 1)
                          /\ start[i] = front + at /\ End(i) = front + k
                          /\ yielded' = Append(yielded, Packets[i])
                          /\ spans' = Append(spans, [at |-> start[i], len |-> Size(i),
                                                     verdict |-> "received"])
                    \/ \E at \in 1 .. k :
                          /\ NoStart(at)
                          /\ yielded' = yielded
                          /\ spans' = Append(spans, [at |-> front + at, len |-> k - at + 1,
                                                     verdict |-> "crc_errors"])
<1>1. /\ buf \in Seq(Cell) /\ Len(buf) \in Nat /\ front \in Nat /\ TypeOK
  BY DEF IInv, TypeOK, ReceiverTypeOK
<1>2. UNCHANGED lineVars
  BY DEF Turn
<1>3. CASE NoSync
  <2> DEFINE kept == IF buf # <<>> /\ Last(buf) = Magic[1] THEN 1 ELSE 0
             k == Len(buf) - kept
  <2>1. k \in 0 .. Len(buf) /\ (k = Len(buf) => buf = <<>> \/ Last(buf) # Magic[1])
    BY <1>1
  <2>2. front' = front + k /\ yielded' = yielded /\ spans' = spans /\ SyncAt = {}
    BY <1>3 DEF NoSync, Discard, Consume
  <2> HIDE DEF kept, k
  <2>3. NoStart(k)
    BY <2>1, <2>2, NoneInNoise
  <2> QED  BY <1>2, <2>1, <2>2, <2>3
<1>4. ASSUME NEW at \in FirstSync, AwaitHeader(at) \/ AwaitFrame(at)
      PROVE  /\ at - 1 \in 0 .. Len(buf) /\ front' = front + (at - 1)
             /\ yielded' = yielded /\ spans' = spans /\ NoStart(at - 1)
  <2>1. at \in 1 .. Len(buf) /\ NoStart(at - 1)
    BY NoneBefore
  <2>2. front' = front + (at - 1) /\ yielded' = yielded /\ spans' = spans
    BY <1>4 DEF AwaitHeader, AwaitFrame, Discard, Consume
  <2> QED  BY <1>1, <2>1, <2>2
<1>5. ASSUME NEW at \in FirstSync
      PROVE  /\ FalseSync(at) \/ Refuse(at) \/ Reject(at) => NoStart(at)
             /\ HasFrame(at) => at + ImpliedLength(Rest(at)) - 1 \in 0 .. Len(buf)
             /\ HasFrame(at) => ImpliedLength(Rest(at)) \in Nat
  <2>1. at \in 1 .. Len(buf) /\ NoStart(at - 1) /\ at \in Nat
    BY NoneBefore
  <2>2. ASSUME FalseSync(at) \/ Refuse(at) \/ Reject(at),
               NEW i \in (1 .. sent) \ damaged, front + at = start[i]
        PROVE  FALSE
    <3>1. /\ HasHeader(at) => Plausible(Rest(at))
          /\ HasFrame(at) => Candidate(at) = Frames[i]
      BY <2>1, <2>2, IntactSeen
    <3>2. ~FramingError(Frames[i]) /\ ~CrcError(Frames[i])
      BY <1>1, FrameDecodes, SentAreFrames
    <3> QED  BY <2>2, <3>1, <3>2 DEF FalseSync, Refuse, Reject
  <2>3. ASSUME FalseSync(at) \/ Refuse(at) \/ Reject(at) PROVE NoStart(at)
    <3> SUFFICES ASSUME NEW i \in (1 .. sent) \ damaged PROVE start[i] \notin front + 1 .. front + at
      BY DEF NoStart
    <3>1. start[i] \notin front + 1 .. front + (at - 1) /\ start[i] # front + at
      BY <2>1, <2>2, <2>3 DEF NoStart
    <3>2. start[i] \in Nat
      BY DEF Laid, Placed
    <3> QED  BY <1>1, <2>1, <3>1, <3>2
  <2>4. ASSUME HasFrame(at)
        PROVE  ImpliedLength(Rest(at)) \in Nat /\ at + ImpliedLength(Rest(at)) - 1 \in 0 .. Len(buf)
    <3> DEFINE n == ImpliedLength(Rest(at))
    <3>1. n \in Nat /\ at + n - 1 <= Len(buf)
      BY <1>1, <2>1, <2>4, CandidateCells
    <3> HIDE DEF n
    <3>2. n \in Nat /\ at + n - 1 \in 0 .. Len(buf)
      BY <1>1, <2>1, <3>1
    <3> QED  BY <3>2 DEF n
  <2> QED  BY <2>3, <2>4
<1>6. ASSUME NEW at \in FirstSync, FalseSync(at) \/ Refuse(at)
      PROVE  /\ at \in 0 .. Len(buf) /\ front' = front + at
             /\ yielded' = yielded /\ spans' = spans /\ NoStart(at)
  <2>1. at \in 1 .. Len(buf)
    BY NoneBefore
  <2>2. front' = front + at /\ yielded' = yielded /\ spans' = spans
    BY <1>6 DEF FalseSync, Refuse, Discard, Consume
  <2> QED  BY <1>1, <1>5, <1>6, <2>1, <2>2
<1>7. ASSUME NEW at \in FirstSync, Reject(at)
      PROVE  \E k \in 0 .. Len(buf) :
                /\ front' = front + k /\ at \in 1 .. k /\ NoStart(at) /\ yielded' = yielded
                /\ spans' = Append(spans, [at |-> front + at, len |-> k - at + 1,
                                           verdict |-> "crc_errors"])
  <2> DEFINE n == ImpliedLength(Rest(at))
             k == at + n - 1
  <2>1. at \in 1 .. Len(buf) /\ at \in Nat
    BY NoneBefore
  <2>2. HasFrame(at) /\ ~FramingError(Candidate(at)) /\ NoStart(at) /\ yielded' = yielded
    BY <1>5, <1>7 DEF Reject, CrcError
  <2>3. n \in Nat /\ k \in 0 .. Len(buf) /\ Len(Candidate(at)) = n
    BY <1>1, <1>5, <2>1, <2>2, CandidateCells
  <2>4. n >= 8
    BY <2>2, <2>3 DEF FramingError, HeaderSize, CrcSize
  <2>5. /\ front' = front + (at - 1 + n)
        /\ spans' = Append(spans, [at |-> front + at, len |-> n, verdict |-> "crc_errors"])
    BY <1>7 DEF Reject, TakeFrame, Consume
  <2> HIDE DEF n
  <2>6. at - 1 + n = k /\ n = k - at + 1 /\ at \in 1 .. k
    BY <2>1, <2>3, <2>4
  <2> HIDE DEF k
  <2> QED  BY <2>2, <2>3, <2>5, <2>6
<1>8. ASSUME NEW at \in FirstSync, Yield(at)
      PROVE  \E k \in 0 .. Len(buf), i \in 1 .. sent :
                /\ front' = front + k /\ at \in 1 .. k /\ NoStart(at - 1)
                /\ start[i] = front + at /\ End(i) = front + k
                /\ yielded' = Append(yielded, Packets[i])
                /\ spans' = Append(spans, [at |-> start[i], len |-> Size(i),
                                           verdict |-> "received"])
  <2> DEFINE n == ImpliedLength(Rest(at))
             k == at + n - 1
  <2>1. at \in 1 .. Len(buf) /\ at \in Nat /\ NoStart(at - 1)
    BY NoneBefore
  <2>2. HasFrame(at) /\ ~FramingError(Candidate(at)) /\ ~CrcError(Candidate(at))
    BY <1>8 DEF Yield
  <2>3. PICK i \in 1 .. sent : front + at = start[i] /\ Candidate(at) = Frames[i]
    BY <2>1, <2>2, GoodIsSent
  <2>4. /\ Size(i) \in Nat /\ Size(i) >= 8 /\ Decode(Frames[i]) = Packets[i]
    BY <1>1, SentAreFrames, FrameDecodes
  <2>5. n \in Nat /\ k \in 0 .. Len(buf) /\ n = Size(i)
    BY <1>1, <1>5, <2>1, <2>2, <2>3, CandidateCells DEF Size
  <2>6. /\ front' = front + (at - 1 + n)
        /\ spans' = Append(spans, [at |-> front + at, len |-> n, verdict |-> "received"])
        /\ yielded' = Append(yielded, Decode(Candidate(at)))
    BY <1>8 DEF Yield, TakeFrame, Consume
  <2> HIDE DEF n
  <2>7. at - 1 + n = k /\ at \in 1 .. k
    BY <2>1, <2>4, <2>5
  <2>8. End(i) = front + k
    <3>1. End(i) = (front + at) + n - 1
      BY <2>3, <2>5 DEF End
    <3>2. (front + at) + n - 1 = front + (at + n - 1)
      BY <1>1, <2>1, <2>5
    <3> QED  BY <3>1, <3>2
  <2>9. /\ yielded' = Append(yielded, Packets[i]) /\ front' = front + k
        /\ spans' = Append(spans, [at |-> start[i], len |-> Size(i), verdict |-> "received"])
    BY <2>3, <2>4, <2>5, <2>6, <2>7
  <2> HIDE DEF k
  <2> QED  BY <2>1, <2>3, <2>5, <2>7, <2>8, <2>9
<1>9. \/ NoSync
      \/ \E at \in FirstSync :
            \/ AwaitHeader(at) \/ FalseSync(at) \/ AwaitFrame(at)
            \/ Reject(at) \/ Refuse(at) \/ Yield(at)
  BY DEF Turn, Scan
<1>10. ASSUME NEW at \in FirstSync, AwaitHeader(at) \/ AwaitFrame(at) \/ FalseSync(at) \/ Refuse(at)
       PROVE  \E k \in 0 .. Len(buf) :
                 front' = front + k /\ yielded' = yielded /\ spans' = spans /\ NoStart(k)
  BY <1>4, <1>6, <1>10
<1>11. CASE \E at \in FirstSync : AwaitHeader(at) \/ AwaitFrame(at) \/ FalseSync(at) \/ Refuse(at)
  BY <1>2, <1>10, <1>11
<1>12. CASE \E at \in FirstSync : Reject(at)
  BY <1>2, <1>7, <1>12
<1>13. CASE \E at \in FirstSync : Yield(at)
  <2>1. PICK at \in FirstSync : Yield(at)
    BY <1>13
  <2>2. PICK k \in 0 .. Len(buf), i \in 1 .. sent :
            /\ front' = front + k /\ at \in 1 .. k /\ NoStart(at - 1)
            /\ start[i] = front + at /\ End(i) = front + k
            /\ yielded' = Append(yielded, Packets[i])
            /\ spans' = Append(spans, [at |-> start[i], len |-> Size(i), verdict |-> "received"])
    BY <1>8, <2>1
  <2> QED  BY <1>2, <2>2
<1> QED  BY <1>3, <1>9, <1>11, <1>12, <1>13

-----------------------------------------------------------------------------
(***************************************************************************)
(* The line and its receiver implement OrderedLink.                        *)
(***************************************************************************)

\* What has come out are frames that lie in what has left the buffer.
Passed ==
    \A k \in 1 .. Len(yielded) :
        IndexOf(yielded[k]) \in 1 .. sent /\ End(IndexOf(yielded[k])) <= front

Passing == [k \in DOMAIN yielded |-> IndexOf(yielded[k])]

LEMMA Indexed ==
    ASSUME NEW i \in FrameIndex
    PROVE  IndexOf(Packets[i]) = i
<1>1. \A j \in FrameIndex : Packets[j] = Packets[i] => j = i
  BY PacketsAssumption DEF FrameIndex
<1> QED  BY <1>1 DEF IndexOf

LEMMA EndsMove ==
    ASSUME IInv, Laid, Next
    PROVE  /\ front \in Nat /\ front' \in Nat /\ front <= front' /\ sent <= sent'
           /\ 1 .. sent \subseteq 1 .. sent'
           /\ \A i \in 1 .. sent : /\ start'[i] = start[i] /\ End(i)' = End(i)
                                   /\ start[i] \in Nat /\ Size(i) \in Nat /\ End(i) \in Nat
                                   /\ start[i] <= End(i)
<1>1. front \in Nat /\ sent \in Nat /\ TypeOK /\ Len(buf) \in Nat
  BY PacketsAssumption DEF IInv, TypeOK, ReceiverTypeOK
<1>5. /\ front' \in Nat /\ front <= front' /\ sent <= sent' /\ sent' \in Nat
      /\ \A i \in 1 .. sent : start'[i] = start[i]
  <2>1. CASE \E burst \in Bursts \union {<<>>}, flips \in Flips : Send(burst, flips)
    <3>1. sent' = sent + 1 /\ \A i \in 1 .. sent : start'[i] = start[i]
      BY <2>1, SendEffect
    <3>2. front' = front
      BY <2>1 DEF Send, receiverVars
    <3> QED  BY <1>1, <3>1, <3>2
  <2>2. CASE \E n \in 0 .. Len(wire) : Poll(n)
    BY <1>1, <2>2 DEF Poll, Fill
  <2>3. CASE Turn
    <3>1. PICK k \in 0 .. Len(buf) : front' = front + k
      BY <2>3, TurnTakes
    <3>2. sent' = sent /\ start' = start
      BY <2>3 DEF Turn, lineVars
    <3> QED  BY <1>1, <3>1, <3>2
  <2> QED  BY <2>1, <2>2, <2>3 DEF Next
<1>6. 1 .. sent \subseteq 1 .. sent'
  BY <1>1, <1>5
<1>7. ASSUME NEW i \in 1 .. sent
      PROVE  /\ start'[i] = start[i] /\ End(i)' = End(i)
             /\ start[i] \in Nat /\ Size(i) \in Nat /\ End(i) \in Nat /\ start[i] <= End(i)
  <2>1. start'[i] = start[i] /\ start[i] \in Nat
    BY <1>5 DEF Laid, Placed
  <2>2. Size(i) \in Nat /\ Size(i) >= 8
    BY <1>1, SentAreFrames
  <2>3. End(i) = start[i] + Size(i) - 1 /\ End(i)' = start'[i] + Size(i) - 1
    BY DEF End, Size, Frames, FrameIndex
  <2> QED  BY <2>1, <2>2, <2>3
<1> QED  BY <1>1, <1>5, <1>6, <1>7

LEMMA LaidStays == IInv /\ Laid /\ [Next]_vars => Laid'
<1> SUFFICES ASSUME IInv, Laid, [Next]_vars PROVE Laid'
  OBVIOUS
<1>1. CASE \E burst \in Bursts \union {<<>>}, flips \in Flips : Send(burst, flips)
  BY <1>1, SendLays
<1>2. CASE UNCHANGED <<sent, line, start, damaged>>
  BY SMTT(30), <1>2 DEF Laid, Placed, Unharmed, SumsAtEnds, End, Size, Frames, FrameIndex
<1> QED  BY <1>1, <1>2 DEF Next, Poll, Turn, lineVars, vars

\* A step of the line is a step of the abstract link, or none.
LEMMA PassStep ==
    ASSUME IInv, Laid, Passed, Next
    PROVE  Passed' /\ [Ordered!Next]_(Ordered!vars)
<1>1. yielded \in Seq(Decoded) /\ Len(yielded) \in Nat /\ DOMAIN yielded = 1 .. Len(yielded) /\ TypeOK
  BY DEF IInv, TypeOK, ReceiverTypeOK
<1>2. /\ front \in Nat /\ front' \in Nat /\ front <= front' /\ 1 .. sent \subseteq 1 .. sent'
      /\ \A i \in 1 .. sent : /\ start'[i] = start[i] /\ End(i)' = End(i)
                              /\ start[i] \in Nat /\ End(i) \in Nat /\ start[i] <= End(i)
  BY EndsMove
<1>3. ASSUME yielded' = yielded
      PROVE  Passed' /\ Passing' = Passing
  <2>1. Passing' = Passing
    BY <1>3 DEF Passing, IndexOf, FrameIndex
  <2>2. ASSUME NEW k \in 1 .. Len(yielded'), NEW j, j = IndexOf(yielded[k])
        PROVE  j \in 1 .. sent' /\ End(j)' <= front'
    <3>1. j \in 1 .. sent /\ End(j) <= front
      BY <1>3, <2>2 DEF Passed
    <3>2. End(j)' = End(j) /\ End(j) \in Nat /\ j \in 1 .. sent'
      BY <1>2, <3>1
    <3> QED  BY <1>2, <3>1, <3>2
  <2>3. \A k \in 1 .. Len(yielded') : \A j : j = IndexOf(yielded'[k]) =>
            j \in 1 .. sent' /\ start'[j] + Size(j) - 1 <= front'
    BY <1>3, <2>2 DEF End, Size, Frames, FrameIndex
  <2>4. Passed'
    BY <2>3 DEF Passed, End, Size, Frames, IndexOf, FrameIndex
  <2> QED  BY <2>1, <2>4
<1>4. ASSUME NEW i \in 1 .. sent, start[i] > front, End(i) = front', UNCHANGED lineVars,
             yielded' = Append(yielded, Packets[i])
      PROVE  Passed' /\ Ordered!Pass(i)
  <2>1. i \in FrameIndex /\ IndexOf(Packets[i]) = i
    BY <1>1, SentAreFrames, Indexed
  <2>2. /\ Len(yielded') = Len(yielded) + 1 /\ DOMAIN yielded' = 1 .. Len(yielded) + 1
        /\ \A k \in 1 .. Len(yielded) : yielded'[k] = yielded[k]
        /\ yielded'[Len(yielded) + 1] = Packets[i]
    BY <1>1, <1>4
  <2>3. \A k \in 1 .. Len(yielded) : IndexOf(yielded[k]) < i
    <3> TAKE k \in 1 .. Len(yielded)
    <3> DEFINE j == IndexOf(yielded[k])
    <3>1. j \in 1 .. sent /\ End(j) <= front
      BY DEF Passed
    <3> HIDE DEF j
    <3>2. j < i => End(j) < start[i]
      BY <3>1 DEF Laid, Placed
    <3>3. i < j => End(i) < start[j]
      BY <3>1 DEF Laid, Placed
    <3>4. /\ start[j] \in Nat /\ End(j) \in Nat /\ start[j] <= End(j)
          /\ start[i] \in Nat /\ End(i) \in Nat /\ start[i] <= End(i)
      BY <1>2, <3>1
    <3>5. ~(i < j) /\ i # j
      BY <1>2, <1>4, <3>1, <3>3, <3>4
    <3>6. i \in Int /\ j \in Int
      BY <3>1
    <3>7. j < i
      BY <3>5, <3>6
    <3> QED  BY <3>7 DEF j
  <2>4. Passing \in Seq(Int) /\ Len(Passing) = Len(yielded)
    <3>1. \A k \in 1 .. Len(yielded) : IndexOf(yielded[k]) \in Int
      BY DEF Passed
    <3>2. Passing \in [1 .. Len(yielded) -> Int]
      BY <1>1, <3>1 DEF Passing
    <3> QED  BY <1>1, <3>2
  <2>5. Passing' = Append(Passing, i)
    <3>1. /\ Passing' \in Seq(Int) /\ Len(Passing') = Len(yielded) + 1
          /\ \A k \in 1 .. Len(yielded) : Passing'[k] = Passing[k]
          /\ Passing'[Len(yielded) + 1] = i
      <4>1. \A k \in 1 .. Len(yielded) + 1 :
               IndexOf(yielded'[k]) = IF k = Len(yielded) + 1 THEN i ELSE IndexOf(yielded[k])
        BY <1>1, <2>1, <2>2
      <4>2. Passing' = [k \in 1 .. Len(yielded) + 1 |->
                           IF k = Len(yielded) + 1 THEN i ELSE IndexOf(yielded[k])]
        BY <2>2, <4>1 DEF Passing, IndexOf, FrameIndex
      <4>3. \A k \in 1 .. Len(yielded) + 1 :
               (IF k = Len(yielded) + 1 THEN i ELSE IndexOf(yielded[k])) \in Int
        BY <1>1 DEF Passed
      <4>4. Passing' \in [1 .. Len(yielded) + 1 -> Int]
        BY <4>2, <4>3
      <4>5. Passing' \in Seq(Int) /\ Len(Passing') = Len(yielded) + 1
        BY <1>1, <4>4
      <4>6. \A k \in 1 .. Len(yielded) : Passing'[k] = Passing[k]
        BY <1>1, <4>2 DEF Passing
      <4>7. Passing'[Len(yielded) + 1] = i
        BY <1>1, <4>2
      <4> QED  BY <4>5, <4>6, <4>7
    <3>2. /\ Append(Passing, i) \in Seq(Int) /\ Len(Append(Passing, i)) = Len(yielded) + 1
          /\ \A k \in 1 .. Len(yielded) : Append(Passing, i)[k] = Passing[k]
          /\ Append(Passing, i)[Len(yielded) + 1] = i
      <4>1. i \in Int
        OBVIOUS
      <4> QED  BY <2>4, <4>1, AppendProperties
    <3>3. \A k \in 1 .. Len(yielded) + 1 : k \in 1 .. Len(yielded) \/ k = Len(yielded) + 1
      BY <1>1
    <3>4. \A k \in 1 .. Len(Passing') : Passing'[k] = Append(Passing, i)[k]
      BY <3>1, <3>2, <3>3
    <3> QED  BY <3>1, <3>2, <3>4, SeqEqual
  <2>6. Ordered!Pass(i)
    <3>1. \A k \in DOMAIN Passing : Passing[k] < i
      BY <1>1, <2>3 DEF Passing
    <3>2. sent' = sent
      BY <1>4 DEF lineVars
    <3> QED  BY <2>5, <3>1, <3>2 DEF Ordered!Pass, Passing
  <2>7. Passed'
    <3>1. ASSUME NEW k \in 1 .. Len(yielded'), NEW j, j = IndexOf(yielded'[k])
          PROVE  j \in 1 .. sent' /\ start'[j] + Size(j) - 1 <= front'
      <4>1. k \in 1 .. Len(yielded) \/ k = Len(yielded) + 1
        BY <1>1, <2>2
      <4>2. CASE k \in 1 .. Len(yielded)
        <5>1. j \in 1 .. sent /\ End(j) <= front
          BY <2>2, <3>1, <4>2 DEF Passed
        <5>2. j \in 1 .. sent' /\ End(j) \in Nat /\ start'[j] = start[j]
          BY <1>2, <5>1
        <5> QED  BY <1>2, <5>1, <5>2 DEF End
      <4>3. CASE k = Len(yielded) + 1
        <5>1. j = i
          BY <2>1, <2>2, <3>1, <4>3
        <5>2. start'[i] = start[i] /\ i \in 1 .. sent'
          BY <1>2
        <5> QED  BY <1>2, <1>4, <5>1, <5>2 DEF End
      <4> QED  BY <4>1, <4>2, <4>3
    <3>2. \A k \in 1 .. Len(yielded') : \A j : j = IndexOf(yielded'[k]) =>
              j \in 1 .. sent' /\ start'[j] + Size(j) - 1 <= front'
      BY <3>1
    <3> QED  BY <3>2 DEF Passed, End, Size, Frames, IndexOf, FrameIndex
  <2> QED  BY <2>6, <2>7
<1>5. CASE \E burst \in Bursts \union {<<>>}, flips \in Flips : Send(burst, flips)
  <2>1. yielded' = yielded /\ sent' = sent + 1 /\ sent < Len(Packets)
    BY <1>5 DEF Send, receiverVars
  <2>2. Passed' /\ Passing' = Passing
    BY <1>3, <2>1
  <2>3. Ordered!Offer
    BY <2>1, <2>2 DEF Ordered!Offer, Passing
  <2> QED  BY <2>2, <2>3 DEF Ordered!Next
<1>6. ASSUME yielded' = yielded, sent' = sent
      PROVE  Passed' /\ UNCHANGED Ordered!vars
  BY <1>3, <1>6 DEF Ordered!vars, Passing
<1>7. CASE \E n \in 0 .. Len(wire) : Poll(n)
  <2>1. yielded' = yielded /\ sent' = sent
    BY <1>7 DEF Poll, Fill
  <2> QED  BY <1>6, <2>1
<1>8. CASE Turn
  <2>1. sent' = sent /\ UNCHANGED lineVars
    BY <1>8 DEF Turn, lineVars
  <2>2. CASE yielded' = yielded
    BY <1>6, <2>1, <2>2
  <2>3. CASE yielded' # yielded
    <3>1. \E k \in 0 .. Len(buf) : \E at \in 1 .. k, i \in 1 .. sent :
             /\ front' = front + k /\ start[i] = front + at /\ End(i) = front + k
             /\ yielded' = Append(yielded, Packets[i])
      BY <1>8, <2>3, TurnTakes
    <3>2. PICK i \in 1 .. sent : /\ start[i] > front /\ End(i) = front'
                                /\ yielded' = Append(yielded, Packets[i])
      BY <1>2, <3>1
    <3>3. Passed' /\ Ordered!Pass(i)
      BY <1>4, <2>1, <3>2
    <3> QED  BY <3>3 DEF Ordered!Next
  <2> QED  BY <2>2, <2>3
<1> QED  BY <1>5, <1>7, <1>8 DEF Next

\* The frames that come out of the line are frames that were sent, bit for bit, each at most
\* once and in order, whatever noise and damage and however the reads cut the stream: the
\* line and its receiver implement OrderedLink.
THEOREM ImplementsOrderedLink == Spec => IsOrderedLink
<1> DEFINE Inv == IInv /\ Laid /\ Passed
<1>1. Init => Laid /\ Passed /\ Ordered!Init
  <2> SUFFICES ASSUME Init PROVE Laid /\ Passed /\ Ordered!Init
    OBVIOUS
  <2>1. yielded = <<>> /\ sent = 0 /\ line = <<>>
    BY DEF Init, ReceiverInit
  <2>2. Laid
    BY <2>1 DEF Laid, Placed, Unharmed, SumsAtEnds
  <2>3. Passed
    BY <2>1 DEF Passed
  <2>4. Passing = <<>>
    BY <2>1 DEF Passing
  <2> QED  BY <2>1, <2>2, <2>3, <2>4 DEF Ordered!Init, Passing
<1>2. IInv /\ Laid /\ Passed /\ [Next]_vars => Laid' /\ Passed' /\ [Ordered!Next]_(Ordered!vars)
  <2> SUFFICES ASSUME IInv, Laid, Passed, [Next]_vars
               PROVE  Laid' /\ Passed' /\ [Ordered!Next]_(Ordered!vars)
    OBVIOUS
  <2>1. CASE Next
    BY <2>1, PassStep, LaidStays
  <2>2. CASE UNCHANGED vars
    <3>1. UNCHANGED <<yielded, sent, start, front>>
      BY <2>2 DEF vars, receiverVars, lineVars
    <3>2. Passed'
      BY <3>1 DEF Passed, End, Size, Frames, IndexOf, FrameIndex
    <3>3. UNCHANGED Ordered!vars
      BY <3>1 DEF Ordered!vars, IndexOf, FrameIndex
    <3> QED  BY <2>2, <3>2, <3>3, LaidStays
  <2> QED  BY <2>1, <2>2
<1> QED  BY <1>1, <1>2, Inductive, PTL DEF Spec, IsOrderedLink, Ordered!Spec

-----------------------------------------------------------------------------
(***************************************************************************)
(* An undamaged frame is lost only to a false header.                      *)
(***************************************************************************)

ReceivedAt(i, k) == spans[k].verdict = "received" /\ spans[k].at = start[i]
SwallowedBy(i, k) ==
    /\ spans[k].verdict = "crc_errors"
    /\ spans[k].at < start[i] /\ start[i] < spans[k].at + spans[k].len

\* Undamaged frames whose start has left the buffer were received, or swallowed.
Claimed ==
    \A i \in (1 .. sent) \ damaged :
        start[i] <= front => \E k \in 1 .. Len(spans) : ReceivedAt(i, k) \/ SwallowedBy(i, k)

\* The loop waits with next to nothing in the buffer, or for the rest of a header or a frame.
Stalled ==
    ~scanning => \/ Len(buf) <= 1
                 \/ /\ SubSeq(buf, 1, 2) = Magic
                    /\ \/ Len(buf) < HeaderSize
                       \/ Plausible(buf) /\ ImpliedLength(buf) > Len(buf)

LEMMA ClaimKept ==
    ASSUME IInv, Laid, Claimed, Next,
           spans \in Seq(Span), spans' \in Seq(Span), Len(spans) <= Len(spans'),
           \A k \in 1 .. Len(spans) : spans'[k] = spans[k],
           \A i \in (1 .. sent') \ damaged' :
               start'[i] > front /\ start'[i] <= front' =>
                   \E k \in 1 .. Len(spans') : ReceivedAt(i, k)' \/ SwallowedBy(i, k)'
    PROVE  Claimed'
<1>1. /\ front \in Nat /\ front' \in Nat /\ 1 .. sent \subseteq 1 .. sent'
      /\ \A i \in 1 .. sent : start'[i] = start[i] /\ start[i] \in Nat
  BY EndsMove
<1>2. /\ \A i \in (1 .. sent') \ damaged' : start'[i] <= front => i \in (1 .. sent) \ damaged
      /\ \A i \in 1 .. sent' : start'[i] \in Nat
  <2>1. Laid'
    BY LaidStays
  <2>2. \A i \in 1 .. sent' : start'[i] \in Nat
    BY <2>1 DEF Laid, Placed
  <2>3. CASE \E burst \in Bursts \union {<<>>}, flips \in Flips : Send(burst, flips)
    <3>1. PICK burst \in Bursts \union {<<>>}, flips \in Flips : Send(burst, flips)
      BY <2>3
    <3>2. /\ sent' = sent + 1 /\ start'[sent + 1] = Len(line) + Len(burst) + 1
          /\ Len(burst) \in Nat /\ Len(line) \in Nat /\ damaged \subseteq damaged'
      BY <3>1, SendEffect
    <3>3. Len(line) = front + Len(buf) + Len(wire) /\ Len(buf) \in Nat /\ Len(wire) \in Nat
          /\ sent \in Nat
      BY PacketsAssumption DEF IInv, InLine, TypeOK, ReceiverTypeOK
    <3>4. start'[sent + 1] > front
      BY <1>1, <3>2, <3>3
    <3>5. ASSUME NEW i \in (1 .. sent') \ damaged', start'[i] <= front
          PROVE  i \in (1 .. sent) \ damaged
      <4>1. i # sent + 1
        BY <1>1, <2>2, <3>4, <3>5
      <4>2. i \in 1 .. sent
        BY <3>2, <3>3, <3>5, <4>1
      <4> QED  BY <3>2, <3>5, <4>2
    <3> QED  BY <2>2, <3>5
  <2>4. CASE sent' = sent /\ damaged' = damaged
    BY <2>2, <2>4
  <2> QED  BY <2>3, <2>4 DEF Next, Poll, Turn, lineVars
<1>3. Len(spans) \in Nat /\ Len(spans') \in Nat
  OBVIOUS
<1> SUFFICES ASSUME NEW i \in (1 .. sent') \ damaged', start'[i] <= front'
             PROVE  \E k \in 1 .. Len(spans') : ReceivedAt(i, k)' \/ SwallowedBy(i, k)'
  BY DEF Claimed
<1>4. CASE start'[i] > front
  BY <1>4
<1>5. CASE start'[i] <= front
  <2>1. i \in (1 .. sent) \ damaged /\ start'[i] = start[i]
    BY <1>1, <1>2, <1>5
  <2>2. PICK k \in 1 .. Len(spans) : ReceivedAt(i, k) \/ SwallowedBy(i, k)
    BY <1>5, <2>1 DEF Claimed
  <2>3. k \in 1 .. Len(spans') /\ spans'[k] = spans[k]
    BY <1>3
  <2>4. ReceivedAt(i, k)' \/ SwallowedBy(i, k)'
    BY <2>1, <2>2, <2>3 DEF ReceivedAt, SwallowedBy
  <2> QED  BY <2>3, <2>4
<1>6. start'[i] \in Nat
  BY <1>2
<1> QED  BY <1>1, <1>4, <1>5, <1>6

LEMMA ClaimStep ==
    ASSUME IInv, Laid, Claimed, Next, IInv'
    PROVE  Claimed'
<1>1. /\ spans \in Seq(Span) /\ spans' \in Seq(Span)
      /\ Len(spans) \in Nat /\ front \in Nat /\ TypeOK /\ Len(buf) \in Nat
  BY SMTT(30) DEF IInv, TypeOK, ReceiverTypeOK
<1>2. CASE spans' = spans /\ front' = front
  <2>1. \A i \in (1 .. sent') \ damaged' : ~(start'[i] > front /\ start'[i] <= front')
    <3>1. Laid'
      BY LaidStays
    <3>2. \A i \in 1 .. sent' : start'[i] \in Nat
      BY <3>1 DEF Laid, Placed
    <3> QED  BY <1>1, <1>2, <3>2
  <2> QED  BY <1>1, <1>2, <2>1, ClaimKept
<1>3. CASE Turn
  <2>1. sent' = sent /\ damaged' = damaged /\ start' = start
    BY <1>3 DEF Turn, lineVars
  <2>2. \A i \in 1 .. sent : start[i] \in Nat
    BY DEF Laid, Placed
  <2>3. PICK k \in 0 .. Len(buf) :
           /\ front' = front + k
           /\ \/ yielded' = yielded /\ spans' = spans /\ NoStart(k)
              \/ \E at \in 1 .. k, i \in 1 .. sent :
                    /\ NoStart(at - 1)
                    /\ start[i] = front + at /\ End(i) = front + k
                    /\ yielded' = Append(yielded, Packets[i])
                    /\ spans' = Append(spans, [at |-> start[i], len |-> Size(i),
                                               verdict |-> "received"])
              \/ \E at \in 1 .. k :
                    /\ NoStart(at)
                    /\ yielded' = yielded
                    /\ spans' = Append(spans, [at |-> front + at, len |-> k - at + 1,
                                               verdict |-> "crc_errors"])
    BY <1>3, TurnTakes
  <2> DEFINE Fresh(i) == start[i] > front /\ start[i] <= front'
             last == Len(spans) + 1
  <2>4. ASSUME NEW new, spans' = Append(spans, new)
        PROVE  /\ Len(spans) <= Len(spans') /\ last \in 1 .. Len(spans') /\ spans'[last] = new
               /\ \A b \in 1 .. Len(spans) : spans'[b] = spans[b]
    BY <1>1, <2>4
  <2>5. CASE spans' = spans /\ NoStart(k)
    <3>1. \A i \in (1 .. sent') \ damaged' : ~(start'[i] > front /\ start'[i] <= front')
      BY <1>1, <2>1, <2>2, <2>3, <2>5 DEF NoStart
    <3> QED  BY <1>1, <2>5, <3>1, ClaimKept
  <2>6. ASSUME NEW at \in 1 .. k, NEW i \in 1 .. sent,
               NoStart(at - 1), start[i] = front + at, End(i) = front + k,
               spans' = Append(spans, [at |-> start[i], len |-> Size(i), verdict |-> "received"])
        PROVE  Claimed'
    <3> DEFINE new == [at |-> start[i], len |-> Size(i), verdict |-> "received"]
    <3>1. /\ Len(spans) <= Len(spans') /\ last \in 1 .. Len(spans') /\ spans'[last] = new
          /\ \A b \in 1 .. Len(spans) : spans'[b] = spans[b]
      BY <2>4, <2>6
    <3>2. spans'[last].verdict = "received" /\ spans'[last].at = start[i]
      BY <3>1
    <3> HIDE DEF last, new
    <3>3. ASSUME NEW j \in (1 .. sent) \ damaged, Fresh(j)
          PROVE  start[j] = start[i]
      <4>1. start[j] \in Nat /\ start[j] >= front + at /\ start[j] <= front + k
        BY <1>1, <2>2, <2>3, <2>6, <3>3 DEF NoStart
      <4>2. i < j => End(i) < start[j]
        BY DEF Laid, Placed
      <4>3. j < i => End(j) < start[i]
        BY DEF Laid, Placed
      <4>4. start[j] <= End(j) /\ End(j) \in Nat
        BY EndsMove
      <4>5. ~(i < j) /\ ~(j < i)
        BY <1>1, <2>6, <4>1, <4>2, <4>3, <4>4
      <4>6. i = j
        BY <4>5
      <4> QED  BY <4>6
    <3>4. \A j \in (1 .. sent') \ damaged' :
              start'[j] > front /\ start'[j] <= front' =>
                  \E b \in 1 .. Len(spans') : ReceivedAt(j, b)' \/ SwallowedBy(j, b)'
      BY <2>1, <3>1, <3>2, <3>3 DEF ReceivedAt
    <3> QED  BY <1>1, <3>1, <3>4, ClaimKept
  <2>7. ASSUME NEW at \in 1 .. k, NoStart(at),
               spans' = Append(spans, [at |-> front + at, len |-> k - at + 1,
                                       verdict |-> "crc_errors"])
        PROVE  Claimed'
    <3> DEFINE new == [at |-> front + at, len |-> k - at + 1, verdict |-> "crc_errors"]
    <3>1. /\ Len(spans) <= Len(spans') /\ last \in 1 .. Len(spans') /\ spans'[last] = new
          /\ \A b \in 1 .. Len(spans) : spans'[b] = spans[b]
      BY <2>4, <2>7
    <3>2. /\ spans'[last].verdict = "crc_errors" /\ spans'[last].at = front + at
          /\ spans'[last].len = k - at + 1
      BY <3>1
    <3> HIDE DEF last, new
    <3>3. ASSUME NEW j \in (1 .. sent) \ damaged, Fresh(j)
          PROVE  front + at < start[j] /\ start[j] < (front + at) + (k - at + 1)
      <4>1. start[j] \notin front + 1 .. front + at
        BY <2>7 DEF NoStart
      <4>2. start[j] \in Nat /\ start[j] > front /\ start[j] <= front + k
        BY <2>2, <2>3, <3>3
      <4> QED  BY <1>1, <4>1, <4>2
    <3>4. \A j \in (1 .. sent') \ damaged' :
              start'[j] > front /\ start'[j] <= front' =>
                  \E b \in 1 .. Len(spans') : ReceivedAt(j, b)' \/ SwallowedBy(j, b)'
      BY <2>1, <3>1, <3>2, <3>3 DEF SwallowedBy
    <3> QED  BY <1>1, <3>1, <3>4, ClaimKept
  <2> QED  BY <2>3, <2>5, <2>6, <2>7
<1>4. CASE \E burst \in Bursts \union {<<>>}, flips \in Flips : Send(burst, flips)
  BY <1>2, <1>4 DEF Send, receiverVars
<1>5. CASE \E n \in 0 .. Len(wire) : Poll(n)
  BY <1>2, <1>5 DEF Poll, Fill
<1> QED  BY <1>3, <1>4, <1>5 DEF Next

\* The buffer that waits from a sync word on.
LEMMA WaitsFrom ==
    ASSUME IInv, NEW at \in FirstSync,
           ~HasHeader(at) \/ (Plausible(Rest(at)) /\ ~HasFrame(at)),
           buf' = SubSeq(buf, at - 1 + 1, Len(buf))
    PROVE  Stalled'
<1>1. buf \in Seq(Cell) /\ Len(buf) \in Nat
  BY DEF IInv, TypeOK, ReceiverTypeOK
<1>2. at \in 1 .. Len(buf) - 1 /\ at \in 1 .. Len(buf) /\ at \in Nat
      /\ SubSeq(buf, at, at + 1) = Magic
  BY <1>1 DEF FirstSync, SyncAt
<1>3. /\ Rest(at) \in Seq(Cell) /\ Len(Rest(at)) = Len(buf) - at + 1
      /\ \A k \in 1 .. Len(buf) - at + 1 : Rest(at)[k] = buf[at + k - 1]
  BY <1>1, <1>2, RestCells
<1>4. buf' = Rest(at)
  <2>1. at - 1 + 1 = at
    BY <1>2
  <2> QED  BY <2>1 DEF Rest
<1> DEFINE r == Rest(at)
<1>5. ~(Len(r) >= HeaderSize) \/ (Plausible(r) /\ ~(Len(r) >= ImpliedLength(r)))
  BY DEF HasHeader, HasFrame
<1>6. r[1] = buf[at] /\ r[2] = buf[at + 1] /\ 1 \in 1 .. Len(r) - 1
  <2>1. 1 \in 1 .. Len(buf) - at + 1 /\ 2 \in 1 .. Len(buf) - at + 1
        /\ at + 1 - 1 = at /\ at + 2 - 1 = at + 1
    BY <1>1, <1>2
  <2>2. r[1] = buf[at + 1 - 1] /\ r[2] = buf[at + 2 - 1]
    BY <1>3, <2>1
  <2> QED  BY <1>3, <2>1, <2>2
<1> HIDE DEF r
<1>7. SubSeq(r, 1, 2) = Magic
  <2>1. buf[at] = Magic[1] /\ buf[at + 1] = Magic[2]
    BY <1>1, <1>2, SyncWord
  <2>2. r \in Seq(Cell)
    BY <1>3 DEF r
  <2>3. SubSeq(r, 1, 1 + 1) = Magic <=> r[1] = Magic[1] /\ r[1 + 1] = Magic[2]
    BY <1>6, <2>2, SyncWord
  <2>4. 1 + 1 = 2
    OBVIOUS
  <2> QED  BY <1>6, <2>1, <2>3, <2>4
<1>8. Len(r) < HeaderSize \/ (Plausible(r) /\ ImpliedLength(r) > Len(r))
  <2>1. Len(r) \in Nat
    BY <1>1, <1>2, <1>3 DEF r
  <2>2. Plausible(r) => ImpliedLength(r) \in Nat
    BY MaxPacketAssumption DEF Plausible
  <2> QED  BY <1>5, <2>1, <2>2 DEF HeaderSize
<1>9. /\ SubSeq(buf', 1, 2) = Magic
      /\ Len(buf') < HeaderSize \/ (Plausible(buf') /\ ImpliedLength(buf') > Len(buf'))
  BY <1>4, <1>7, <1>8 DEF r
<1> QED  BY <1>9 DEF Stalled, Plausible, ImpliedLength, FrameLength

LEMMA StallStep ==
    ASSUME IInv, Stalled, [Next]_vars, IInv'
    PROVE  Stalled'
<1>1. buf \in Seq(Cell) /\ Len(buf) \in Nat
  BY DEF IInv, TypeOK, ReceiverTypeOK
<1>2. CASE UNCHANGED <<buf, scanning>>
  BY <1>2 DEF Stalled, Plausible, ImpliedLength, FrameLength
<1>3. CASE scanning' = TRUE
  BY <1>3 DEF Stalled
<1>4. CASE Turn
  <2>1. CASE NoSync
    <3> DEFINE kept == IF buf # <<>> /\ Last(buf) = Magic[1] THEN 1 ELSE 0
               k == Len(buf) - kept
    <3>1. k \in 0 .. Len(buf) /\ Len(buf) - k <= 1
      BY <1>1
    <3>2. Consume(k, k, {}) /\ UNCHANGED <<yielded, spans, lineVars>> /\ scanning' = FALSE
      BY <1>4, <2>1 DEF NoSync, Discard, Turn
    <3> HIDE DEF kept, k
    <3>3. Len(buf') = Len(buf) - k
      BY <3>1, <3>2, DiscardKeeps
    <3>4. Len(buf') <= 1
      BY <3>1, <3>3
    <3> QED  BY <3>4 DEF Stalled
  <2>2. ASSUME NEW at \in FirstSync, AwaitHeader(at) \/ AwaitFrame(at)
        PROVE  Stalled'
    <3>1. ~HasHeader(at) \/ (Plausible(Rest(at)) /\ ~HasFrame(at))
      BY <2>2 DEF AwaitHeader, AwaitFrame
    <3>2. buf' = SubSeq(buf, at - 1 + 1, Len(buf))
      BY <2>2 DEF AwaitHeader, AwaitFrame, Discard, Consume
    <3> QED  BY <3>1, <3>2, WaitsFrom
  <2>3. scanning = TRUE
    BY <1>4 DEF Turn, Scan, IInv, TypeOK, ReceiverTypeOK
  <2>4. ASSUME NEW at \in FirstSync, FalseSync(at) \/ Reject(at) \/ Refuse(at) \/ Yield(at)
        PROVE  Stalled'
    BY <1>3, <2>3, <2>4 DEF FalseSync, Reject, Refuse, Yield
  <2> QED  BY <1>4, <2>1, <2>2, <2>4 DEF Turn, Scan
<1>5. CASE \E burst \in Bursts \union {<<>>}, flips \in Flips : Send(burst, flips)
  BY <1>2, <1>5 DEF Send, receiverVars
<1>6. CASE \E n \in 0 .. Len(wire) : Poll(n)
  BY <1>3, <1>6 DEF Poll, Fill
<1>7. CASE UNCHANGED vars
  BY <1>2, <1>7 DEF vars, receiverVars
<1> QED  BY <1>4, <1>5, <1>6, <1>7 DEF Next

\* An undamaged frame that was read in full is received, unless a false header in front of it
\* swallowed its start, or still waits for what it claims as its own: for all packets, noise,
\* damage and chunkings.
THEOREM IntactSurvive == Spec => []IntactLostOnlyToFalseHeader
<1> DEFINE Inv == IInv /\ Laid /\ Claimed /\ Stalled
<1>1. Init => Laid /\ Claimed /\ Stalled
  <2> SUFFICES ASSUME Init PROVE Laid /\ Claimed /\ Stalled
    OBVIOUS
  <2>1. buf = <<>> /\ sent = 0 /\ line = <<>>
    BY DEF Init, ReceiverInit
  <2>2. Laid
    BY <2>1 DEF Laid, Placed, Unharmed, SumsAtEnds
  <2>3. Claimed
    BY <2>1 DEF Claimed
  <2>4. Stalled
    BY <2>1 DEF Stalled
  <2> QED  BY <2>2, <2>3, <2>4
<1>2. IInv /\ IInv' /\ Laid /\ Claimed /\ Stalled /\ [Next]_vars => Laid' /\ Claimed' /\ Stalled'
  <2> SUFFICES ASSUME IInv, IInv', Laid, Claimed, Stalled, [Next]_vars
               PROVE  Laid' /\ Claimed' /\ Stalled'
    OBVIOUS
  <2>1. Laid' /\ Stalled'
    BY LaidStays, StallStep
  <2>2. CASE Next
    BY <2>1, <2>2, ClaimStep
  <2>3. CASE UNCHANGED vars
    <3>1. Claimed'
      BY <2>3 DEF Claimed, ReceivedAt, SwallowedBy, vars, receiverVars, lineVars
    <3> QED  BY <2>1, <3>1
  <2> QED  BY <2>2, <2>3
<1>3. IInv /\ Laid /\ Claimed /\ Stalled => IntactLostOnlyToFalseHeader
  <2> SUFFICES ASSUME IInv, Laid, Claimed, Stalled, ~scanning, NEW i \in (1 .. sent) \ damaged,
                      ~(start[i] + Len(Frames[i]) - 1 > Len(BytesRead))
               PROVE  \/ \E k \in SpansOf("received") : spans[k].at = start[i]
                      \/ \E k \in SpansOf("crc_errors") :
                             spans[k].at < start[i] /\ start[i] < spans[k].at + spans[k].len
                      \/ front + 1 < start[i] /\ SubSeq(buf, 1, 2) = Magic
    BY DEF IntactLostOnlyToFalseHeader
  <2>1. /\ buf \in Seq(Cell) /\ Len(buf) \in Nat /\ front \in Nat /\ spans \in Seq(Span) /\ TypeOK
        /\ line \in Seq(Cell) /\ Len(line) \in Nat /\ Len(wire) \in Nat
        /\ Len(line) = front + Len(buf) + Len(wire)
    BY DEF IInv, TypeOK, ReceiverTypeOK, InLine
  <2>2. Len(BytesRead) = front + Len(buf)
    <3>1. Len(line) - Len(wire) \in 0 .. Len(line)
      BY <2>1
    <3>2. Len(BytesRead) = Len(line) - Len(wire)
      BY <2>1, <3>1, Prefix DEF BytesRead
    <3> QED  BY <2>1, <3>2
  <2>3. start[i] \in Nat /\ Size(i) \in Nat /\ Size(i) >= 8 /\ start[i] + Size(i) - 1 <= front + Len(buf)
    <3>1. start[i] \in Nat
      BY DEF Laid, Placed
    <3>2. Size(i) \in Nat /\ Size(i) >= 8
      BY <2>1, SentAreFrames
    <3>3. ~(start[i] + Size(i) - 1 > front + Len(buf))
      BY <2>2 DEF Size
    <3> QED  BY <2>1, <3>1, <3>2, <3>3
  <2>4. CASE start[i] <= front
    <3>1. PICK k \in 1 .. Len(spans) : ReceivedAt(i, k) \/ SwallowedBy(i, k)
      BY <2>4 DEF Claimed
    <3>2. k \in DOMAIN spans
      BY <2>1
    <3> QED  BY <3>1, <3>2 DEF ReceivedAt, SwallowedBy, SpansOf
  <2>5. CASE start[i] > front
    <3>1. Len(buf) >= 8
      BY <2>1, <2>3, <2>5
    <3>2. SubSeq(buf, 1, 2) = Magic /\ ImpliedLength(buf) > Len(buf)
      BY <2>1, <3>1 DEF Stalled, HeaderSize
    <3>3. start[i] # front + 1
      <4> SUFFICES ASSUME start[i] = front + 1 PROVE FALSE
        OBVIOUS
      <4>1. 1 \in 1 .. Len(buf)
        BY <2>1, <3>1
      <4>2. HasHeader(1) => ImpliedLength(Rest(1)) = Size(i)
        BY <4>1, IntactSeen
      <4>3. Rest(1) = buf
        <5>1. /\ Rest(1) \in Seq(Cell) /\ Len(Rest(1)) = Len(buf)
              /\ \A k \in 1 .. Len(buf) : Rest(1)[k] = buf[k]
          <6>1. Len(buf) \in 0 .. Len(buf)
            BY <2>1
          <6> QED  BY <2>1, <6>1, Prefix DEF Rest
        <5> QED  BY <2>1, <5>1, SeqEqual
      <4>4. ImpliedLength(buf) = Size(i)
        BY <2>1, <3>1, <4>2, <4>3 DEF HasHeader, HeaderSize
      <4> QED  BY <2>1, <2>3, <3>2, <4>4
    <3> QED  BY SMTT(30), <2>1, <2>3, <2>5, <3>2, <3>3
  <2> QED  BY <2>1, <2>3, <2>4, <2>5
<1> QED  BY <1>1, <1>2, <1>3, Inductive, PTL DEF Spec

-----------------------------------------------------------------------------
(***************************************************************************)
(* What the liveness properties rest on: a turn of the loop consumes or    *)
(* waits, and on a line without noise the loop is always at the start of   *)
(* the next frame.                                                         *)
(***************************************************************************)

\* A turn of the framing loop takes bytes out of the buffer, or is the last until more is read.
TurnConsumes == Turn => Len(buf') < Len(buf) \/ ~scanning'

LEMMA TurnShrinks == IInv /\ Turn => TurnConsumes
<1> SUFFICES ASSUME IInv, Turn PROVE Len(buf') < Len(buf) \/ ~scanning'
  BY DEF TurnConsumes
<1>1. /\ buf \in Seq(Cell) /\ wire \in Seq(Cell) /\ Len(buf) \in Nat /\ front \in Nat /\ InLine
      /\ UNCHANGED lineVars
  BY DEF IInv, TypeOK, ReceiverTypeOK, Turn
<1>2. ASSUME NEW k \in 1 .. Len(buf), NEW discarded, NEW counters, Consume(k, discarded, counters)
      PROVE  Len(buf') < Len(buf)
  <2>1. k \in 0 .. Len(buf) /\ UNCHANGED <<line, wire>>
    BY <1>1 DEF lineVars
  <2>2. Len(buf') = Len(buf) - k
    BY <1>1, <1>2, <2>1, ConsumeInLine
  <2> QED  BY <1>1, <2>2
<1>3. ASSUME NEW at \in FirstSync PROVE at \in 1 .. Len(buf)
  BY <1>1 DEF FirstSync, SyncAt
<1>4. ASSUME NEW at \in FirstSync, FalseSync(at) \/ Refuse(at) PROVE Len(buf') < Len(buf)
  BY <1>2, <1>3, <1>4 DEF FalseSync, Refuse, Discard
<1>5. ASSUME NEW at \in FirstSync, Reject(at) \/ Yield(at) PROVE Len(buf') < Len(buf)
  <2> DEFINE n == ImpliedLength(Rest(at))
             k == at - 1 + n
  <2>1. PICK verdict : Consume(k, at - 1, {verdict})
    BY <1>5 DEF Reject, Yield, TakeFrame
  <2>2. HasFrame(at) /\ ~FramingError(Candidate(at))
    BY <1>5 DEF Reject, Yield, CrcError
  <2>3. at \in 1 .. Len(buf) /\ at \in Nat
    BY <1>3
  <2>4. n \in Nat /\ k \in 0 .. Len(buf) /\ Len(Candidate(at)) = n
    BY <1>1, <2>2, <2>3, CandidateOf, CandidateCells
  <2>5. n >= 8
    BY <2>2, <2>4 DEF FramingError, HeaderSize, CrcSize
  <2> HIDE DEF n
  <2>6. k \in 1 .. Len(buf)
    BY <1>1, <2>3, <2>4, <2>5
  <2> HIDE DEF k
  <2> QED  BY <1>2, <2>1, <2>6
<1>6. NoSync \/ (\E at \in FirstSync : AwaitHeader(at) \/ AwaitFrame(at)) => ~scanning'
  BY DEF NoSync, AwaitHeader, AwaitFrame
<1> QED  BY <1>4, <1>5, <1>6 DEF Turn, Scan

\* The framing loop cannot spin: every turn shortens the buffer or is the last before it waits.
\* With turns that are taken (fairness) this is why the loop ends.
THEOREM NeverSpins == Spec => [][TurnConsumes]_vars
<1>1. IInv /\ [Next]_vars => [TurnConsumes]_vars
  BY TurnShrinks DEF TurnConsumes
<1> QED  BY <1>1, Inductive, PTL DEF Spec

\* Where the first k frames of a line without noise end.
Behind(k) == IF k = 0 THEN 0 ELSE End(k)

\* The frames fill the line, and none is damaged.
Gapless ==
    /\ damaged = {}
    /\ \A i \in 1 .. sent : start[i] = Behind(i - 1) + 1
    /\ Len(line) = Behind(sent)

\* What has left the buffer are the first frames, all of them received.
InStep ==
    /\ Len(yielded) <= sent
    /\ \A k \in 1 .. Len(yielded) : yielded[k] = Packets[k]
    /\ front = Behind(Len(yielded))
    /\ stats.crc_errors = 0 /\ stats.framing_errors = 0 /\ stats.resync_bytes = 0

Clean == Quiet => Gapless /\ InStep

\* On a line without noise nothing is ever skipped, rejected or refused, and once the loop
\* waits with nothing left to read all that was sent has been handed over, in order.
CleanLineKept ==
    Quiet =>
        /\ Len(yielded) <= sent /\ yielded = SubSeq(Packets, 1, Len(yielded))
        /\ stats.crc_errors = 0 /\ stats.framing_errors = 0 /\ stats.resync_bytes = 0
        /\ wire = <<>> /\ ~scanning => yielded = SubSeq(Packets, 1, sent)

\* The next frame starts where the buffer does, if there is one.
LEMMA NextFrame ==
    ASSUME IInv, Laid, Gapless, InStep
    PROVE  /\ Len(yielded) \in Nat /\ sent \in Nat /\ Len(buf) \in Nat /\ Len(wire) \in Nat
           /\ Len(yielded) = sent => Len(buf) + Len(wire) = 0
           /\ Len(yielded) # sent =>
                 /\ Len(yielded) + 1 \in (1 .. sent) \ damaged
                 /\ start[Len(yielded) + 1] = front + 1
                 /\ End(Len(yielded) + 1) <= front + (Len(buf) + Len(wire))
<1> DEFINE n == Len(yielded)
<1>1. /\ n \in Nat /\ sent \in Nat /\ Len(buf) \in Nat /\ Len(wire) \in Nat /\ front \in Nat
      /\ Len(line) = front + Len(buf) + Len(wire)
  BY PacketsAssumption DEF IInv, TypeOK, ReceiverTypeOK, InLine
<1>2. n <= sent /\ front = Behind(n)
  BY DEF InStep
<1> HIDE DEF n
<1>3. ASSUME n = sent PROVE Len(buf) + Len(wire) = 0
  <2>1. Len(line) = Behind(sent)
    BY DEF Gapless
  <2> QED  BY <1>1, <1>2, <1>3, <2>1
<1>4. ASSUME n # sent
      PROVE  /\ n + 1 \in (1 .. sent) \ damaged /\ start[n + 1] = front + 1
             /\ End(n + 1) <= front + (Len(buf) + Len(wire))
  <2>1. n + 1 \in 1 .. sent /\ (n + 1) - 1 = n
    BY <1>1, <1>2, <1>4
  <2>2. start[n + 1] = front + 1 /\ n + 1 \notin damaged
    <3>1. start[n + 1] = Behind((n + 1) - 1) + 1 /\ damaged = {}
      BY <2>1 DEF Gapless
    <3> QED  BY <1>2, <2>1, <3>1
  <2>3. End(n + 1) <= Len(line)
    BY <2>1 DEF Laid, Placed
  <2>4. front + Len(buf) + Len(wire) = front + (Len(buf) + Len(wire))
    BY <1>1
  <2> QED  BY <1>1, <2>1, <2>2, <2>3, <2>4
<1> QED  BY <1>1, <1>3, <1>4 DEF n

\* So a turn skips nothing, and what it takes is the next frame.
LEMMA CleanTurn ==
    ASSUME IInv, Laid, Quiet, Gapless, InStep, Turn
    PROVE  InStep'
<1> DEFINE n == Len(yielded)
<1>1. /\ buf \in Seq(Cell) /\ Len(buf) \in Nat /\ front \in Nat /\ TypeOK
      /\ yielded \in Seq(Decoded) /\ n \in Nat /\ sent \in Nat
      /\ stats \in StreamReceiverStats /\ UNCHANGED lineVars
      /\ wire \in Seq(Cell) /\ InLine
  BY NextFrame DEF IInv, TypeOK, ReceiverTypeOK, Turn
<1>2. ASSUME NEW m \in 0 .. Len(buf), NoStart(m) PROVE m = 0
  <2> SUFFICES ASSUME m # 0 PROVE FALSE
    OBVIOUS
  <2>1. m \in Nat /\ m >= 1 /\ Len(buf) >= 1
    BY <1>1
  <2>2. n # sent
    BY <1>1, <2>1, NextFrame
  <2>3. n + 1 \in (1 .. sent) \ damaged /\ start[n + 1] = front + 1
    BY <2>2, NextFrame
  <2>4. front + 1 \in front + 1 .. front + m
    BY <1>1, <2>1
  <2> QED  BY <1>2, <2>3, <2>4 DEF NoStart
<1>3. \A k \in 0 .. sent : Behind(k)' = Behind(k)
  BY <1>1 DEF lineVars, Behind, End, Size, Frames, FrameIndex
<1>4. ASSUME NEW k \in 0 .. Len(buf), NoStart(k), Discard(k)
      PROVE  InStep'
  <2>1. k = 0 /\ k \in Nat /\ {} \in SUBSET {"received", "crc_errors", "framing_errors"}
    BY <1>2, <1>4
  <2>2. Consume(k, k, {}) /\ yielded' = yielded
    BY <1>4 DEF Discard
  <2>3. front' = front
    BY <1>1, <2>1, <2>2 DEF Consume
  <2>4. stats'.resync_bytes = 0 /\ stats'.crc_errors = 0 /\ stats'.framing_errors = 0
    <3>1. stats' = [c \in DOMAIN stats |-> stats[c] + 0 + 0]
      BY <2>1, <2>2 DEF Consume
    <3>2. DOMAIN stats = {"received", "crc_errors", "framing_errors", "resync_bytes"}
      BY <1>1 DEF StreamReceiverStats
    <3> QED  BY <3>1, <3>2 DEF InStep
  <2>5. Behind(n)' = Behind(n) /\ sent' = sent /\ n' = n
    BY <1>1, <1>3, <2>2 DEF InStep, lineVars
  <2> QED  BY <1>3, <2>2, <2>3, <2>4, <2>5 DEF InStep
<1>5. CASE NoSync
  <2> DEFINE kept == IF buf # <<>> /\ Last(buf) = Magic[1] THEN 1 ELSE 0
             k == Len(buf) - kept
  <2>1. k \in 0 .. Len(buf) /\ (k = Len(buf) => buf = <<>> \/ Last(buf) # Magic[1])
    BY <1>1
  <2>2. Discard(k) /\ SyncAt = {}
    BY <1>5 DEF NoSync
  <2> HIDE DEF kept, k
  <2>3. NoStart(k)
    BY <2>1, <2>2, NoneInNoise
  <2> QED  BY <1>4, <2>1, <2>2, <2>3
<1>6. ASSUME NEW at \in FirstSync
      PROVE  /\ at = 1 /\ at \in 1 .. Len(buf) /\ NoStart(0) /\ n + 1 \in (1 .. sent) \ damaged
             /\ start[n + 1] = front + 1 /\ 0 \in 0 .. Len(buf)
             /\ HasHeader(1) => Plausible(Rest(1)) /\ ImpliedLength(Rest(1)) = Size(n + 1)
             /\ HasFrame(1) => Candidate(1) = Frames[n + 1]
  <2>1. at \in 1 .. Len(buf) /\ NoStart(at - 1)
    BY NoneBefore
  <2>2. at - 1 \in 0 .. Len(buf)
    BY <1>1, <2>1
  <2>3. at - 1 = 0
    BY <1>2, <2>1, <2>2
  <2>4. at = 1 /\ 1 \in 1 .. Len(buf) /\ NoStart(0) /\ Len(buf) >= 1
    BY <1>1, <2>1, <2>3
  <2>5. n # sent
    BY <1>1, <2>4, NextFrame
  <2>6. n + 1 \in (1 .. sent) \ damaged /\ start[n + 1] = front + 1
    BY <2>5, NextFrame
  <2> HIDE DEF n
  <2>7. /\ HasHeader(1) => Plausible(Rest(1)) /\ ImpliedLength(Rest(1)) = Size(n + 1)
        /\ HasFrame(1) => Candidate(1) = Frames[n + 1]
    BY <2>4, <2>6, IntactSeen
  <2> QED  BY <1>1, <2>4, <2>6, <2>7
<1>7. ASSUME NEW at \in FirstSync, AwaitHeader(at) \/ AwaitFrame(at)
      PROVE  InStep'
  <2>1. at - 1 = 0 /\ NoStart(0) /\ 0 \in 0 .. Len(buf)
    BY <1>6
  <2>2. Discard(0)
    BY <1>7, <2>1 DEF AwaitHeader, AwaitFrame
  <2> QED  BY <1>4, <2>1, <2>2
<1>8. ASSUME NEW at \in FirstSync
      PROVE  ~FalseSync(at) /\ ~Refuse(at) /\ ~Reject(at)
  <2>1. /\ at = 1 /\ n + 1 \in 1 .. sent
        /\ HasHeader(1) => Plausible(Rest(1))
        /\ HasFrame(1) => Candidate(1) = Frames[n + 1]
    BY <1>6
  <2> HIDE DEF n
  <2>2. ~FramingError(Frames[n + 1]) /\ ~CrcError(Frames[n + 1])
    BY <1>1, <2>1, FrameDecodes, SentAreFrames
  <2> QED  BY <2>1, <2>2 DEF FalseSync, Refuse, Reject
<1>9. ASSUME NEW at \in FirstSync, Yield(at)
      PROVE  InStep'
  <2>1. /\ at = 1 /\ n + 1 \in 1 .. sent /\ start[n + 1] = front + 1
        /\ HasHeader(1) => ImpliedLength(Rest(1)) = Size(n + 1)
        /\ HasFrame(1) => Candidate(1) = Frames[n + 1]
    BY <1>6
  <2> DEFINE size == Size(n + 1)
  <2>2. HasFrame(1) /\ HasHeader(1)
    BY <1>9, <2>1 DEF Yield, HasFrame
  <2>3. /\ Consume(1 - 1 + size, 1 - 1, {"received"})
        /\ yielded' = Append(yielded, Decode(Frames[n + 1]))
    BY <1>9, <2>1, <2>2 DEF Yield, TakeFrame
  <2>4. size \in Nat /\ Decode(Frames[n + 1]) = Packets[n + 1]
    <3> HIDE DEF n
    <3> QED  BY <1>1, <2>1, SentAreFrames, FrameDecodes
  <2>5. front' = front + size
    BY <1>1, <2>3, <2>4 DEF Consume
  <2>6. End(n + 1) = front + size
    BY <1>1, <2>1, <2>4 DEF End
  <2>7. stats'.resync_bytes = 0 /\ stats'.crc_errors = 0 /\ stats'.framing_errors = 0
    <3>1. stats' = [c \in DOMAIN stats |->
                       stats[c] + (IF c = "resync_bytes" THEN 1 - 1 ELSE 0)
                                + (IF c \in {"received"} THEN 1 ELSE 0)]
      BY <2>3 DEF Consume
    <3>2. DOMAIN stats = {"received", "crc_errors", "framing_errors", "resync_bytes"}
      BY <1>1 DEF StreamReceiverStats
    <3> QED  BY <3>1, <3>2 DEF InStep
  <2>8. /\ Len(yielded') = n + 1 /\ yielded'[n + 1] = Packets[n + 1]
        /\ \A k \in 1 .. n : yielded'[k] = yielded[k]
    BY <1>1, <2>3, <2>4
  <2>9. sent' = sent /\ n + 1 <= sent
    BY <1>1, <2>1 DEF lineVars
  <2> HIDE DEF size
  <2>10. \A k \in 1 .. n + 1 : yielded'[k] = Packets[k]
    <3>1. \A k \in 1 .. n + 1 : k \in 1 .. n \/ k = n + 1
      BY <1>1
    <3> QED  BY <2>8, <3>1 DEF InStep
  <2>11. front' = (IF Len(yielded') = 0 THEN 0 ELSE start'[Len(yielded')] + Size(Len(yielded')) - 1)
    <3>1. n + 1 # 0 /\ start' = start
      BY <1>1 DEF lineVars
    <3> QED  BY <2>1, <2>5, <2>6, <2>8, <3>1 DEF End
  <2>12. front' = Behind(Len(yielded))'
    BY <2>11 DEF Behind, End, Size, Frames, FrameIndex
  <2> QED  BY <2>7, <2>8, <2>9, <2>10, <2>12 DEF InStep
<1> QED  BY <1>5, <1>7, <1>8, <1>9 DEF Turn, Scan

\* Ends of frames stay where they are.
LEMMA BehindStays ==
    ASSUME IInv, Laid, Next, NEW k \in 0 .. sent
    PROVE  (IF k = 0 THEN 0 ELSE start'[k] + Size(k) - 1) = Behind(k)
<1>1. k # 0 => k \in 1 .. sent
  BY PacketsAssumption DEF IInv, TypeOK
<1>2. k # 0 => start'[k] = start[k]
  BY <1>1, EndsMove
<1> QED  BY <1>2 DEF Behind, End

LEMMA CleanSend ==
    ASSUME IInv, Laid, Gapless, InStep,
           NEW burst \in Bursts \union {<<>>}, NEW flips \in Flips, Send(burst, flips), Quiet'
    PROVE  Gapless' /\ InStep'
<1> DEFINE n == Len(yielded)
           F == Frames[sent + 1]
<1>1. /\ n \in Nat /\ sent \in Nat /\ noise \in SerialNoiseStats /\ Len(line) \in Nat
      /\ UNCHANGED receiverVars /\ sent' = sent + 1
  BY NextFrame DEF IInv, TypeOK, Send
<1>2. burst = <<>> /\ DOMAIN flips = {}
  <2> DEFINE hit == DOMAIN flips
  <2>1. burst \in Seq(Bytes) /\ Len(burst) \in Nat
    <3>1. Bursts \subseteq Seq(Bytes) /\ <<>> \in Seq(Bytes)
      BY PacketsAssumption
    <3>2. burst \in Seq(Bytes)
      BY <3>1
    <3> QED  BY <3>2
  <2>2. IsFiniteSet(hit) /\ Cardinality(hit) \in Nat
    <3>1. hit \subseteq 1 .. MaxPacketBytes
      BY DEF Flips
    <3>2. IsFiniteSet(1 .. MaxPacketBytes)
      BY MaxPacketAssumption, FS_Interval
    <3> QED  BY <3>1, <3>2, FS_Subset, FS_CardinalityType
  <2>3. /\ noise.garbage_injected + Len(burst) = 0
        /\ noise.bytes_corrupted + Cardinality(hit) = 0
    BY DEF Send, Quiet
  <2>4. noise.garbage_injected \in Nat /\ noise.bytes_corrupted \in Nat
    BY <1>1 DEF SerialNoiseStats
  <2> HIDE DEF hit
  <2>5. Len(burst) = 0 /\ Cardinality(hit) = 0
    BY <2>1, <2>2, <2>3, <2>4
  <2>6. hit = {}
    BY <2>2, <2>5, FS_EmptySet
  <2> QED  BY <2>1, <2>5, <2>6 DEF hit
<1>3. Len(burst) = 0 /\ Len(line) + Len(burst) + 1 = Len(line) + 1 /\ sent + 1 \in FrameIndex
  <2>1. sent + 1 \in FrameIndex
    BY SendEffect
  <2>2. Len(burst) = 0
    BY <1>2
  <2> QED  BY <1>1, <2>1, <2>2
<1>4. /\ Len(line') = Len(line) + Len(F) /\ Len(F) \in Nat
      /\ start'[sent + 1] = Len(line) + 1
      /\ \A i \in 1 .. sent : start'[i] = start[i]
  <2>1. Len(F) \in Nat
    BY <1>3, FrameShape
  <2>2. Len(line') = Len(line) + Len(burst) + Len(F) /\ start'[sent + 1] = Len(line) + Len(burst) + 1
        /\ \A i \in 1 .. sent : start'[i] = start[i]
    BY SendEffect
  <2> QED  BY <1>1, <1>3, <2>1, <2>2
<1>5. Len(line) = Behind(sent) /\ damaged' = {}
  BY <1>2 DEF Gapless, Send
<1>6. ASSUME NEW k \in 0 .. sent
      PROVE  (IF k = 0 THEN 0 ELSE start'[k] + Size(k) - 1) = Behind(k)
  BY BehindStays DEF Next
<1>7. ASSUME NEW i \in 1 .. sent + 1, NEW k, k = i - 1
      PROVE  start'[i] = (IF k = 0 THEN 0 ELSE start'[k] + Size(k) - 1) + 1
  <2>1. k \in 0 .. sent
    BY <1>1, <1>7
  <2>2. start'[i] = Behind(k) + 1
    <3>1. CASE i = sent + 1
      <4>1. k = sent
        BY <1>1, <1>7, <3>1
      <4> QED  BY <1>4, <1>5, <3>1, <4>1
    <3>2. CASE i # sent + 1
      <4>1. i \in 1 .. sent
        BY <1>1, <3>2
      <4> QED  BY <1>4, <1>7, <4>1 DEF Gapless
    <3> QED  BY <3>1, <3>2
  <2> QED  BY <1>6, <2>1, <2>2
<1>8. Len(line') = (IF sent + 1 = 0 THEN 0 ELSE start'[sent + 1] + Size(sent + 1) - 1)
  <2>1. sent + 1 # 0 /\ Size(sent + 1) = Len(F)
    BY <1>1 DEF Size
  <2> QED  BY <1>1, <1>4, <2>1
<1>9. Gapless'
  <2>1. \A i \in 1 .. sent' : \A k : k = i - 1 =>
            start'[i] = (IF k = 0 THEN 0 ELSE start'[k] + Size(k) - 1) + 1
    BY <1>1, <1>7
  <2>2. \A i \in 1 .. sent' : start'[i] = (IF i - 1 = 0 THEN 0 ELSE start'[i - 1] + Size(i - 1) - 1) + 1
    BY <2>1
  <2> HIDE DEF F
  <2> QED  BY <1>1, <1>5, <1>8, <2>2 DEF Gapless, Behind, End, Size, Frames, FrameIndex
<1>10. InStep'
  <2>1. n <= sent + 1 /\ n \in 0 .. sent /\ front = Behind(n)
    BY <1>1 DEF InStep
  <2>2. front = (IF n = 0 THEN 0 ELSE start'[n] + Size(n) - 1)
    BY <1>6, <2>1
  <2> HIDE DEF F
  <2>3. yielded' = yielded /\ front' = front /\ stats' = stats
    BY <1>1 DEF receiverVars
  <2> QED  BY <1>1, <2>1, <2>2, <2>3 DEF InStep, Behind, End, Size, Frames, FrameIndex
<1> QED  BY <1>9, <1>10

LEMMA CleanStep ==
    ASSUME IInv, Laid, Clean, [Next]_vars
    PROVE  Clean'
<1>1. ASSUME NEW burst \in Bursts \union {<<>>}, NEW flips \in Flips, Send(burst, flips), Quiet'
      PROVE  Gapless' /\ InStep'
  <2> DEFINE hit == DOMAIN flips
  <2>1. noise \in SerialNoiseStats
    BY DEF IInv, TypeOK
  <2>2. /\ noise.garbage_injected + Len(burst) = 0
        /\ noise.bytes_corrupted + Cardinality(hit) = 0
    BY <1>1 DEF Send, Quiet
  <2>3. noise.garbage_injected \in Nat /\ noise.bytes_corrupted \in Nat
    BY <2>1 DEF SerialNoiseStats
  <2>4. Len(burst) \in Nat /\ Cardinality(hit) \in Nat
    <3>1. Bursts \subseteq Seq(Bytes) /\ <<>> \in Seq(Bytes) /\ hit \subseteq 1 .. MaxPacketBytes
      BY PacketsAssumption DEF Flips
    <3>2. burst \in Seq(Bytes)
      BY <3>1
    <3>3. IsFiniteSet(1 .. MaxPacketBytes)
      BY MaxPacketAssumption, FS_Interval
    <3> HIDE DEF hit
    <3>4. Cardinality(hit) \in Nat
      BY <3>1, <3>3, FS_Subset, FS_CardinalityType
    <3> QED  BY <3>2, <3>4
  <2> HIDE DEF hit
  <2>5. noise.garbage_injected = 0 /\ noise.bytes_corrupted = 0
    <3> DEFINE g == noise.garbage_injected
               c == noise.bytes_corrupted
               b == Len(burst)
               h == Cardinality(hit)
    <3>1. g \in Nat /\ c \in Nat /\ b \in Nat /\ h \in Nat /\ g + b = 0 /\ c + h = 0
      BY <2>2, <2>3, <2>4
    <3> HIDE DEF g, c, b, h
    <3>2. g = 0 /\ c = 0
      BY <3>1
    <3> QED  BY <3>2 DEF g, c
  <2>6. Quiet
    BY <2>5 DEF Quiet
  <2> QED  BY <1>1, <2>6, CleanSend DEF Clean
<1>2. CASE UNCHANGED <<sent, noise, line, start, damaged, stats, yielded, front>>
  BY <1>2 DEF Clean, Quiet, Gapless, InStep, Behind, End, Size, Frames, FrameIndex
<1>3. CASE Turn
  <2> SUFFICES ASSUME Quiet' PROVE Gapless' /\ InStep'
    BY DEF Clean
  <2>1. UNCHANGED <<sent, noise, line, start, damaged>>
    BY <1>3 DEF Turn, lineVars
  <2>2. Quiet /\ Gapless /\ InStep
    BY <2>1 DEF Clean, Quiet
  <2>3. InStep'
    BY <1>3, <2>2, CleanTurn
  <2>4. Gapless'
    BY <2>1, <2>2 DEF Gapless, Behind, End, Size, Frames, FrameIndex
  <2> QED  BY <2>3, <2>4
<1>4. CASE \E n \in 0 .. Len(wire) : Poll(n)
  BY <1>2, <1>4 DEF Poll, Fill
<1>5. CASE UNCHANGED vars
  BY <1>2, <1>5 DEF vars, receiverVars, lineVars
<1> QED  BY <1>1, <1>3, <1>4, <1>5 DEF Next, Clean

\* On a line without noise the loop never skips a byte or rejects a frame, whatever the samples
\* look like and however the reads cut the stream, and once it waits with nothing left to read
\* every packet sent has been handed over, unchanged and in order: what CleanLineDelivers says,
\* but for the polls and turns that fairness adds.
THEOREM CleanLine == Spec => []CleanLineKept
<1>1. Init => Laid /\ Stalled /\ Clean
  <2> SUFFICES ASSUME Init PROVE Laid /\ Stalled /\ Clean
    OBVIOUS
  <2>1. /\ buf = <<>> /\ sent = 0 /\ line = <<>> /\ yielded = <<>> /\ front = 0 /\ damaged = {}
        /\ stats.crc_errors = 0 /\ stats.framing_errors = 0 /\ stats.resync_bytes = 0
    BY DEF Init, ReceiverInit
  <2>2. Laid
    BY <2>1 DEF Laid, Placed, Unharmed, SumsAtEnds
  <2>3. Stalled
    BY <2>1 DEF Stalled
  <2>4. Clean
    BY <2>1 DEF Clean, Gapless, InStep, Behind
  <2> QED  BY <2>2, <2>3, <2>4
<1>2. IInv /\ IInv' /\ Laid /\ Stalled /\ Clean /\ [Next]_vars => Laid' /\ Stalled' /\ Clean'
  BY LaidStays, StallStep, CleanStep
<1>3. IInv /\ Laid /\ Stalled /\ Clean => CleanLineKept
  <2> SUFFICES ASSUME IInv, Laid, Stalled, Gapless, InStep
               PROVE  /\ Len(yielded) <= sent /\ yielded = SubSeq(Packets, 1, Len(yielded))
                      /\ stats.crc_errors = 0 /\ stats.framing_errors = 0 /\ stats.resync_bytes = 0
                      /\ wire = <<>> /\ ~scanning => yielded = SubSeq(Packets, 1, sent)
    BY DEF Clean, CleanLineKept
  <2> DEFINE n == Len(yielded)
  <2>1. /\ n \in Nat /\ sent \in Nat /\ n <= sent /\ sent <= Len(Packets) /\ Len(Packets) \in Nat
        /\ yielded \in Seq(Decoded) /\ Packets \in Seq(Packet) /\ TypeOK /\ front \in Nat
        /\ buf \in Seq(Cell) /\ Len(buf) \in Nat
    BY PacketsAssumption DEF IInv, TypeOK, ReceiverTypeOK, InStep
  <2>2. yielded = SubSeq(Packets, 1, n)
    <3>1. /\ SubSeq(Packets, 1, n) \in Seq(Packet) /\ Len(SubSeq(Packets, 1, n)) = n
          /\ \A k \in 1 .. n : SubSeq(Packets, 1, n)[k] = Packets[k]
      <4>1. n \in 0 .. Len(Packets)
        BY <2>1
      <4> QED  BY <2>1, <4>1, Prefix
    <3> QED  BY <2>1, <3>1, SeqEqual DEF InStep
  <2>3. ASSUME wire = <<>>, ~scanning, n # sent PROVE FALSE
    <3> DEFINE i == n + 1
    <3>1. /\ i \in (1 .. sent) \ damaged /\ start[i] = front + 1
          /\ End(i) <= front + (Len(buf) + Len(wire))
      BY <2>3, NextFrame
    <3> HIDE DEF i, n
    <3>2. Size(i) \in Nat /\ Size(i) >= 8 /\ Size(i) <= Len(buf) /\ Len(buf) >= 8
      <4>1. Size(i) \in Nat /\ Size(i) >= 8
        BY <2>1, <3>1, SentAreFrames
      <4>2. Len(wire) = 0 /\ End(i) = (front + 1) + Size(i) - 1
        BY <2>3, <3>1 DEF End
      <4> QED  BY <2>1, <3>1, <4>1, <4>2
    <3>3. ImpliedLength(buf) > Len(buf)
      BY <2>1, <2>3, <3>2 DEF Stalled, HeaderSize
    <3>4. HasHeader(1) => ImpliedLength(Rest(1)) = Size(i)
      <4>1. 1 \in 1 .. Len(buf) /\ front + 1 = start[i]
        BY <2>1, <3>1, <3>2
      <4> QED  BY <3>1, <4>1, IntactSeen
    <3>5. Rest(1) = buf
      <4>1. /\ Rest(1) \in Seq(Cell) /\ Len(Rest(1)) = Len(buf)
            /\ \A k \in 1 .. Len(buf) : Rest(1)[k] = buf[k]
        <5>1. Len(buf) \in 0 .. Len(buf)
          BY <2>1
        <5> QED  BY <2>1, <5>1, Prefix DEF Rest
      <4> QED  BY <2>1, <4>1, SeqEqual
    <3>6. ImpliedLength(buf) = Size(i)
      BY <2>1, <3>2, <3>4, <3>5 DEF HasHeader, HeaderSize
    <3> QED  BY <2>1, <3>2, <3>3, <3>6
  <2>4. wire = <<>> /\ ~scanning => yielded = SubSeq(Packets, 1, sent)
    BY <2>2, <2>3
  <2>5. stats.crc_errors = 0 /\ stats.framing_errors = 0 /\ stats.resync_bytes = 0
    BY DEF InStep
  <2> QED  BY <2>1, <2>2, <2>4, <2>5
<1> QED  BY <1>1, <1>2, <1>3, Inductive, PTL DEF Spec

-----------------------------------------------------------------------------
(***************************************************************************)
(* How the reads cut the stream does not matter.  First, what a receiver   *)
(* takes out of a stream it has at hand: a position after the last header  *)
(* gives nothing, every other one is looked up at the header ahead of it.  *)
(***************************************************************************)

LEMMA StreamCells ==
    ASSUME NEW t \in Seq(Cell), NEW q \in 1 .. Len(t)
    PROVE  /\ RestFrom(t, q) \in Seq(Cell) /\ Len(RestFrom(t, q)) = Len(t) - q + 1
           /\ \A k \in 1 .. Len(t) - q + 1 : RestFrom(t, q)[k] = t[q + k - 1]
<1> DEFINE n == Len(t)
<1>1. q \in Nat \ {0} /\ n \in Nat /\ n <= Len(t) /\ q <= n + 1
  OBVIOUS
<1>2. RestFrom(t, q) = SubSeq(t, q, n)
  BY DEF RestFrom
<1> HIDE DEF n
<1>3. /\ SubSeq(t, q, n) \in Seq(Cell) /\ Len(SubSeq(t, q, n)) = n - q + 1
      /\ \A k \in 1 .. n - q + 1 : SubSeq(t, q, n)[k] = t[q + k - 1]
  BY <1>1, Slice
<1> QED  BY <1>2, <1>3 DEF n

LEMMA FrameFits ==
    ASSUME NEW t \in Seq(Cell), NEW q \in Headers(t), ~Stops(t, q)
    PROVE  LET n == ImpliedLength(RestFrom(t, q))
           IN  /\ q \in 1 .. Len(t) - 1 /\ n \in Nat /\ q + n - 1 <= Len(t)
               /\ FrameFrom(t, q) \in Seq(Cell) /\ Len(FrameFrom(t, q)) = n
               /\ \A k \in 1 .. n : FrameFrom(t, q)[k] = t[q + k - 1]
               /\ ~FramingError(FrameFrom(t, q)) => n >= 8
<1> DEFINE n == ImpliedLength(RestFrom(t, q))
           r == RestFrom(t, q)
<1>1. q \in 1 .. Len(t) - 1 /\ Len(t) \in Nat /\ q \in 1 .. Len(t)
      /\ (Len(r) >= HeaderSize => Plausible(r))
  BY DEF Headers
<1>2. /\ r \in Seq(Cell) /\ Len(r) = Len(t) - q + 1
      /\ \A k \in 1 .. Len(t) - q + 1 : r[k] = t[q + k - 1]
  BY <1>1, StreamCells
<1>3. ~(Len(r) < HeaderSize) /\ ~(n > Len(r))
  BY DEF Stops
<1>4. Len(r) \in Nat
  BY <1>1, <1>2
<1>5. Plausible(r)
  BY <1>1, <1>3, <1>4 DEF HeaderSize
<1>6. n \in Nat
  BY <1>5, MaxPacketAssumption DEF Plausible
<1>7. FrameFrom(t, q) = SubSeq(r, 1, n)
  BY DEF FrameFrom
<1> HIDE DEF n, r
<1>8. n \in 0 .. Len(r)
  BY <1>3, <1>4, <1>6
<1>9. /\ FrameFrom(t, q) \in Seq(Cell) /\ Len(FrameFrom(t, q)) = n
      /\ \A k \in 1 .. n : FrameFrom(t, q)[k] = r[k]
  BY <1>2, <1>7, <1>8, Prefix
<1>10. q + n - 1 <= Len(t)
  BY <1>1, <1>2, <1>8
<1>11. \A k \in 1 .. n : FrameFrom(t, q)[k] = t[q + k - 1]
  <2> TAKE k \in 1 .. n
  <2>1. k \in 1 .. Len(t) - q + 1
    BY <1>1, <1>6, <1>10
  <2> QED  BY <1>2, <1>9, <2>1
<1>12. ~FramingError(FrameFrom(t, q)) => n >= 8
  BY <1>6, <1>9 DEF FramingError, HeaderSize, CrcSize
<1> QED  BY <1>1, <1>6, <1>9, <1>10, <1>11, <1>12 DEF n

\* The header ahead of p is at q.
AheadIs(t, p, q) == q \in Headers(t) /\ q >= p /\ \A r \in Headers(t) : r >= p => q <= r

NoneAhead(t, p) == \A q \in Headers(t) : q < p

\* What f says of p, going by what it says of later positions.
Look(t, f, p) ==
    LET ahead == {q \in Headers(t) : q >= p}
        q == Min(ahead)
    IN  IF ahead = {} \/ Stops(t, q) THEN <<>>
        ELSE IF FramingError(FrameFrom(t, q)) THEN f[q + 1]
        ELSE <<SpanFrom(t, q)>> \o f[q + Len(FrameFrom(t, q))]

LookAt(t, f, q) ==
    IF Stops(t, q) THEN <<>>
    ELSE IF FramingError(FrameFrom(t, q)) THEN f[q + 1]
    ELSE <<SpanFrom(t, q)>> \o f[q + Len(FrameFrom(t, q))]

LEMMA LookIs ==
    ASSUME NEW t \in Seq(Cell), NEW p \in Nat, NEW f
    PROVE  /\ NoneAhead(t, p) => Look(t, f, p) = <<>>
           /\ \A q : AheadIs(t, p, q) => Look(t, f, p) = LookAt(t, f, q)
           /\ NoneAhead(t, p) \/ \E q : AheadIs(t, p, q)
<1> DEFINE ahead == {q \in Headers(t) : q >= p}
<1>1. \A q \in Headers(t) : q \in Nat
  BY DEF Headers
<1>2. NoneAhead(t, p) <=> ahead = {}
  BY <1>1 DEF NoneAhead
<1>3. ASSUME NEW q, AheadIs(t, p, q)
      PROVE  q \in ahead /\ Min(ahead) = q
  <2>1. q \in ahead /\ \A r \in ahead : q <= r
    BY <1>3 DEF AheadIs
  <2>2. \A r \in ahead : r \in Nat
    BY <1>1
  <2> HIDE DEF ahead
  <2>3. Min(ahead) \in ahead /\ \A r \in ahead : Min(ahead) <= r
    BY <2>1 DEF Min
  <2> QED  BY <2>1, <2>2, <2>3
<1>4. ASSUME ahead # {} PROVE \E q : AheadIs(t, p, q)
  <2>1. ahead \in SUBSET Nat
    BY <1>1
  <2>2. PICK q \in ahead : \A r \in ahead : q <= r
    <3> HIDE DEF ahead
    <3> QED  BY <1>4, <2>1, SmallestNumber
  <2>3. AheadIs(t, p, q)
    BY <2>2 DEF AheadIs
  <2> QED  BY <2>3
<1>5. NoneAhead(t, p) => Look(t, f, p) = <<>>
  BY <1>2 DEF Look
<1>6. ASSUME NEW q, AheadIs(t, p, q) PROVE Look(t, f, p) = LookAt(t, f, q)
  <2>1. ahead # {} /\ Min(ahead) = q
    BY <1>3, <1>6
  <2>2. Look(t, f, p) = IF ahead = {} \/ Stops(t, Min(ahead)) THEN <<>>
                        ELSE IF FramingError(FrameFrom(t, Min(ahead))) THEN f[Min(ahead) + 1]
                        ELSE <<SpanFrom(t, Min(ahead))>>
                                \o f[Min(ahead) + Len(FrameFrom(t, Min(ahead)))]
    BY DEF Look
  <2> HIDE DEF ahead
  <2> QED  BY <2>1, <2>2 DEF LookAt
<1> QED  BY <1>2, <1>4, <1>5, <1>6

\* Only later positions count, and frames are found there.
LEMMA LookLater ==
    ASSUME NEW t \in Seq(Cell), NEW p \in 1 .. Len(t) + 1, NEW f,
           \A r \in p + 1 .. Len(t) + 1 : f[r] \in Seq(Span)
    PROVE  /\ Look(t, f, p) \in Seq(Span)
           /\ \A g : (\A r \in p + 1 .. Len(t) + 1 : g[r] = f[r]) => Look(t, g, p) = Look(t, f, p)
<1>1. p \in Nat /\ Len(t) \in Nat
  OBVIOUS
<1>2. CASE NoneAhead(t, p)
  <2>1. \A g : Look(t, g, p) = <<>>
    BY <1>1, <1>2, LookIs
  <2>2. <<>> \in Seq(Span)
    OBVIOUS
  <2> QED  BY <2>1, <2>2
<1>3. ASSUME NEW q, AheadIs(t, p, q)
      PROVE  /\ Look(t, f, p) \in Seq(Span)
             /\ \A g : (\A r \in p + 1 .. Len(t) + 1 : g[r] = f[r]) => Look(t, g, p) = Look(t, f, p)
  <2>1. \A g : Look(t, g, p) = LookAt(t, g, q)
    BY <1>1, <1>3, LookIs
  <2>2. q \in Headers(t) /\ q >= p
    BY <1>3 DEF AheadIs
  <2>3. CASE Stops(t, q)
    <3>1. \A g : LookAt(t, g, q) = <<>>
      BY <2>3 DEF LookAt
    <3>2. <<>> \in Seq(Span)
      OBVIOUS
    <3>3. \A g : Look(t, g, p) = <<>>
      BY <2>1, <3>1
    <3> QED  BY <3>2, <3>3
  <2>4. CASE ~Stops(t, q)
    <3> DEFINE n == Len(FrameFrom(t, q))
    <3>1. /\ q \in 1 .. Len(t) - 1 /\ n \in Nat /\ q + n - 1 <= Len(t)
          /\ ~FramingError(FrameFrom(t, q)) => n >= 8
      BY <2>2, <2>4, FrameFits
    <3>2. CASE FramingError(FrameFrom(t, q))
      <4>1. \A g : LookAt(t, g, q) = g[q + 1]
        BY <2>4, <3>2 DEF LookAt
      <4>2. q + 1 \in p + 1 .. Len(t) + 1
        BY <1>1, <2>2, <3>1
      <4> QED  BY <2>1, <4>1, <4>2
    <3>3. CASE ~FramingError(FrameFrom(t, q))
      <4>1. \A g : LookAt(t, g, q) = <<SpanFrom(t, q)>> \o g[q + n]
        BY <2>4, <3>3 DEF LookAt
      <4>2. SpanFrom(t, q) \in Span
        <5>1. q \in Nat /\ n \in Nat
          BY <3>1
        <5> QED  BY <5>1 DEF SpanFrom, Span
      <4> HIDE DEF n
      <4>3. q + n \in p + 1 .. Len(t) + 1
        BY <1>1, <2>2, <3>1, <3>3
      <4>4. <<SpanFrom(t, q)>> \in Seq(Span) /\ f[q + n] \in Seq(Span)
        BY <4>2, <4>3
      <4>5. <<SpanFrom(t, q)>> \o f[q + n] \in Seq(Span)
        BY <4>4, Joined
      <4> QED  BY <2>1, <4>1, <4>3, <4>5
    <3> QED  BY <3>2, <3>3
  <2> QED  BY <2>3, <2>4
<1> QED  BY <1>1, <1>2, <1>3, LookIs

\* The recursive definition has a solution: from the end of the stream backwards.
LEMMA LookExists ==
    ASSUME NEW t \in Seq(Cell)
    PROVE  \E f \in [1 .. Len(t) + 1 -> Seq(Span)] : \A p \in 1 .. Len(t) + 1 : f[p] = Look(t, f, p)
<1> DEFINE N == Len(t) + 1
           Solves(f, m) == /\ f \in [N + 1 - m .. N -> Seq(Span)]
                           /\ \A p \in N + 1 - m .. N : f[p] = Look(t, f, p)
           T == {m \in 0 .. N : ~ \E f : Solves(f, m)}
<1>1. N \in Nat /\ N >= 1 /\ N = Len(t) + 1
  OBVIOUS
<1> HIDE DEF N
<1>2. T = {}
  <2> SUFFICES ASSUME T # {} PROVE FALSE
    OBVIOUS
  <2>1. PICK m \in T : \A k \in T : m <= k
    <3>1. T \in SUBSET Nat
      BY <1>1
    <3> HIDE DEF T
    <3> QED  BY <3>1, SmallestNumber
  <2>2. m \in 0 .. N /\ ~ \E f : Solves(f, m)
    BY <2>1
  <2>3. CASE m = 0
    <3>1. N + 1 - m .. N = {}
      BY <1>1, <2>3
    <3>2. Solves([p \in {} |-> <<>>], m)
      BY <3>1
    <3> QED  BY <2>2, <3>2
  <2>4. CASE m # 0
    <3> DEFINE p == N + 1 - m
    <3>1. p \in 1 .. N /\ m - 1 \in 0 .. N /\ N + 1 - (m - 1) = p + 1 /\ p \in Nat
      BY <1>1, <2>2, <2>4
    <3>2. PICK g : Solves(g, m - 1)
      <4>1. m - 1 \notin T
        BY <2>1, <2>2
      <4> QED  BY <3>1, <4>1
    <3>3. g \in [p + 1 .. N -> Seq(Span)] /\ \A r \in p + 1 .. N : g[r] = Look(t, g, r)
      BY <3>1, <3>2
    <3> HIDE DEF p, T
    <3> DEFINE f == [r \in p .. N |-> IF r = p THEN Look(t, g, p) ELSE g[r]]
    <3>4. \A r \in p + 1 .. N : f[r] = g[r] /\ g[r] \in Seq(Span)
      BY <3>1, <3>3
    <3>5. f[p] = Look(t, g, p)
      BY <1>1, <3>1
    <3>6. f \in [p .. N -> Seq(Span)]
      <4>1. Look(t, g, p) \in Seq(Span)
        BY <1>1, <3>1, <3>4, LookLater
      <4>2. \A r \in p .. N : r = p \/ r \in p + 1 .. N
        BY <1>1, <3>1
      <4>3. \A r \in p .. N : (IF r = p THEN Look(t, g, p) ELSE g[r]) \in Seq(Span)
        BY <3>4, <4>1, <4>2
      <4> QED  BY <4>3
    <3> HIDE DEF f
    <3>7. \A r \in p .. N : f[r] = Look(t, f, r)
      <4> TAKE r \in p .. N
      <4>1. r \in 1 .. Len(t) + 1 /\ \A b \in r + 1 .. Len(t) + 1 : b \in p + 1 .. N
        BY <1>1, <3>1
      <4>2. \A b \in r + 1 .. Len(t) + 1 : f[b] = g[b] /\ g[b] \in Seq(Span)
        BY <3>4, <4>1
      <4>3. Look(t, f, r) = Look(t, g, r)
        BY <4>1, <4>2, LookLater
      <4>4. CASE r = p
        BY <3>5, <4>3, <4>4
      <4>5. CASE r # p
        <5>1. r \in p + 1 .. N
          BY <1>1, <3>1, <4>5
        <5> QED  BY <3>3, <3>4, <4>3, <5>1
      <4> QED  BY <4>4, <4>5
    <3>8. Solves(f, m)
      BY <3>6, <3>7 DEF p
    <3> QED  BY <2>2, <3>8
  <2> QED  BY <2>3, <2>4
<1>3. N \in 0 .. N /\ N \notin T
  <2> HIDE DEF T
  <2> QED  BY <1>1, <1>2
<1>4. PICK f : Solves(f, N)
  BY <1>3
<1>5. N + 1 - N = 1
  BY <1>1
<1>6. f \in [1 .. N -> Seq(Span)] /\ \A p \in 1 .. N : f[p] = Look(t, f, p)
  BY <1>4, <1>5
<1> QED  BY <1>6 DEF N

LEMMA SpansFromIs ==
    ASSUME NEW t \in Seq(Cell), NEW p \in 1 .. Len(t) + 1
    PROVE  /\ SpansFrom(t)[p] = Look(t, SpansFrom(t), p)
           /\ SpansFrom(t)[p] \in Seq(Span)
<1> DEFINE N == Len(t) + 1
           F == SpansFrom(t)
           Table(f) == [r \in 1 .. N |-> Look(t, f, r)]
<1>1. F = CHOOSE f : f = Table(f)
  BY DEF SpansFrom, Look
<1>2. PICK f \in [1 .. N -> Seq(Span)] : \A r \in 1 .. N : f[r] = Look(t, f, r)
  BY LookExists
<1>3. f = Table(f)
  BY <1>2
<1>4. F = Table(F)
  <2> HIDE DEF Table, F
  <2> QED  BY <1>1, <1>3
<1> HIDE DEF F
<1>5. \A r \in 1 .. N : F[r] = Look(t, F, r)
  BY <1>4
<1>6. N \in Nat /\ N = Len(t) + 1
  OBVIOUS
<1> HIDE DEF N, Table
<1> DEFINE T == {m \in 0 .. N - 1 : F[N - m] \notin Seq(Span)}
<1>7. T = {}
  <2> SUFFICES ASSUME T # {} PROVE FALSE
    OBVIOUS
  <2>1. PICK m \in T : \A k \in T : m <= k
    <3>1. T \in SUBSET Nat
      BY <1>6
    <3> HIDE DEF T
    <3> QED  BY <3>1, SmallestNumber
  <2>2. m \in 0 .. N - 1 /\ F[N - m] \notin Seq(Span)
    BY <2>1
  <2> DEFINE b == N - m
  <2>3. b \in 1 .. Len(t) + 1
    BY <1>6, <2>2
  <2>4. ASSUME NEW r \in b + 1 .. Len(t) + 1 PROVE F[r] \in Seq(Span)
    <3>1. N - r \in 0 .. N - 1 /\ N - (N - r) = r /\ ~(m <= N - r)
      BY <1>6, <2>2, <2>4
    <3>2. N - r \notin T
      BY <2>1, <3>1
    <3> QED  BY <3>1, <3>2
  <2> HIDE DEF b, T
  <2>5. Look(t, F, b) \in Seq(Span)
    BY <2>3, <2>4, LookLater
  <2> QED  BY <1>5, <1>6, <2>2, <2>3, <2>5 DEF b
<1>8. N - p \in 0 .. N - 1 /\ N - (N - p) = p /\ p \in 1 .. N
  BY <1>6
<1>9. N - p \notin T
  <2> HIDE DEF T
  <2> QED  BY <1>7
<1>10. F[p] \in Seq(Span)
  BY <1>8, <1>9
<1> QED  BY <1>5, <1>8, <1>10 DEF F

\* Nothing is found between two positions without a header.
LEMMA NothingBetween ==
    ASSUME NEW t \in Seq(Cell), NEW p \in 1 .. Len(t) + 1, NEW r \in p .. Len(t) + 1,
           \A q \in Headers(t) : q >= p => q >= r
    PROVE  SpansFrom(t)[p] = SpansFrom(t)[r]
<1> DEFINE F == SpansFrom(t)
<1>1. p \in Nat /\ r \in Nat /\ r >= p /\ r \in 1 .. Len(t) + 1 /\ p \in 1 .. Len(t) + 1
  OBVIOUS
<1>2. \A q \in Headers(t) : q \in Nat
  BY DEF Headers
<1>3. F[p] = Look(t, F, p) /\ F[r] = Look(t, F, r)
  BY <1>1, SpansFromIs
<1> HIDE DEF F
<1>4. CASE NoneAhead(t, r)
  <2>1. NoneAhead(t, p)
    BY <1>1, <1>2, <1>4 DEF NoneAhead
  <2> QED  BY <1>1, <1>3, <1>4, <2>1, LookIs DEF F
<1>5. ASSUME NEW q, AheadIs(t, r, q) PROVE F[p] = F[r]
  <2>1. AheadIs(t, p, q)
    BY <1>1, <1>2, <1>5 DEF AheadIs
  <2> QED  BY <1>1, <1>3, <1>5, <2>1, LookIs
<1> QED  BY <1>1, <1>4, <1>5, LookIs DEF F


-----------------------------------------------------------------------------
(***************************************************************************)
(* Then, what the loop sees in its buffer is what such a receiver sees in  *)
(* any stream that continues the bytes read.                               *)
(***************************************************************************)

Continues(t) ==
    /\ Len(t) >= Len(line) - Len(wire)
    /\ \A b \in 1 .. Len(line) - Len(wire) : t[b] = line[b]

\* What was taken is what is found in front, for every stream the bytes read may become.
Chunked ==
    \A t \in Seq(Cell) : Continues(t) => Whole(t) = spans \o SpansFrom(t)[front + 1]

LEMMA StreamBuffer ==
    ASSUME IInv, NEW t \in Seq(Cell), Continues(t)
    PROVE  /\ front + Len(buf) <= Len(t) /\ front \in Nat /\ Len(buf) \in Nat /\ Len(t) \in Nat
           /\ buf \in Seq(Cell) /\ front + 1 \in 1 .. Len(t) + 1
           /\ \A k \in 1 .. Len(buf) : t[front + k] = buf[k]
<1>1. /\ buf \in Seq(Cell) /\ Len(buf) \in Nat /\ front \in Nat /\ Len(t) \in Nat
      /\ Len(wire) \in Nat /\ Len(line) \in Nat /\ Len(line) = front + Len(buf) + Len(wire)
  BY DEF IInv, TypeOK, ReceiverTypeOK, InLine
<1>2. Len(line) - Len(wire) = front + Len(buf)
  BY <1>1
<1>3. front + Len(buf) <= Len(t) /\ front + 1 \in 1 .. Len(t) + 1
  BY <1>1, <1>2 DEF Continues
<1>4. \A k \in 1 .. Len(buf) : t[front + k] = buf[k]
  <2> TAKE k \in 1 .. Len(buf)
  <2>1. front + k \in 1 .. Len(line) - Len(wire)
    BY <1>1, <1>2
  <2>2. t[front + k] = line[front + k]
    BY <2>1 DEF Continues
  <2>3. buf[k] = line[front + k]
    BY DEF IInv, InLine
  <2> QED  BY <2>2, <2>3
<1> QED  BY <1>1, <1>3, <1>4

\* A cell of the buffer and of what follows it.
LEMMA StreamSeen ==
    ASSUME IInv, NEW t \in Seq(Cell), Continues(t), NEW at \in 1 .. Len(buf)
    PROVE  /\ front + at \in 1 .. Len(t) /\ Len(Rest(at)) = Len(buf) - at + 1
           /\ Len(RestFrom(t, front + at)) = Len(t) - (front + at) + 1
           /\ Len(Rest(at)) <= Len(RestFrom(t, front + at))
           /\ \A k \in 1 .. Len(Rest(at)) : RestFrom(t, front + at)[k] = Rest(at)[k]
<1> DEFINE q == front + at
<1>1. /\ front + Len(buf) <= Len(t) /\ front \in Nat /\ Len(buf) \in Nat /\ Len(t) \in Nat
      /\ buf \in Seq(Cell) /\ \A k \in 1 .. Len(buf) : t[front + k] = buf[k]
  BY StreamBuffer
<1>2. at \in Nat /\ at >= 1 /\ at <= Len(buf) /\ q \in 1 .. Len(t)
  BY <1>1
<1>3. /\ Len(Rest(at)) = Len(buf) - at + 1
      /\ \A k \in 1 .. Len(buf) - at + 1 : Rest(at)[k] = buf[at + k - 1]
  BY <1>1, RestCells
<1>4. /\ Len(RestFrom(t, q)) = Len(t) - q + 1
      /\ \A k \in 1 .. Len(t) - q + 1 : RestFrom(t, q)[k] = t[q + k - 1]
  BY <1>2, StreamCells
<1>5. Len(Rest(at)) <= Len(RestFrom(t, q))
  BY <1>1, <1>2, <1>3, <1>4
<1>6. ASSUME NEW k \in 1 .. Len(Rest(at)) PROVE RestFrom(t, q)[k] = Rest(at)[k]
  <2>1. k \in 1 .. Len(buf) - at + 1 /\ k \in Nat
    BY <1>3, <1>6
  <2>2. k \in 1 .. Len(t) - q + 1 /\ at + k - 1 \in 1 .. Len(buf)
    BY <1>1, <1>2, <2>1
  <2>3. q + k - 1 = front + (at + k - 1)
    BY <1>1, <1>2, <2>1
  <2>4. RestFrom(t, q)[k] = t[front + (at + k - 1)]
    BY <1>4, <2>2, <2>3
  <2> QED  BY <1>1, <1>3, <2>1, <2>2, <2>4
<1> QED  BY <1>2, <1>3, <1>4, <1>5, <1>6

\* A whole header there is the same header.
LEMMA HeaderSeen ==
    ASSUME IInv, NEW t \in Seq(Cell), Continues(t), NEW at \in 1 .. Len(buf), HasHeader(at)
    PROVE  /\ Len(RestFrom(t, front + at)) >= HeaderSize
           /\ Plausible(RestFrom(t, front + at)) <=> Plausible(Rest(at))
           /\ ImpliedLength(RestFrom(t, front + at)) = ImpliedLength(Rest(at))
<1> DEFINE q == front + at
           r == RestFrom(t, q)
           s == Rest(at)
<1>1. /\ Len(s) \in Nat /\ Len(r) \in Nat /\ Len(s) <= Len(r) /\ Len(s) >= 7
      /\ \A k \in 1 .. Len(s) : r[k] = s[k]
  <2>1. Len(buf) \in Nat /\ front \in Nat /\ Len(t) \in Nat
    BY StreamBuffer
  <2>2. Len(s) = Len(buf) - at + 1 /\ Len(r) = Len(t) - q + 1 /\ q \in 1 .. Len(t)
        /\ Len(s) <= Len(r)
    BY StreamSeen
  <2>3. \A k \in 1 .. Len(s) : r[k] = s[k]
    BY StreamSeen
  <2>4. Len(s) >= 7
    BY DEF HasHeader, HeaderSize
  <2> HIDE DEF q, r, s
  <2>5. Len(s) \in Nat /\ Len(r) \in Nat
    BY <2>1, <2>2
  <2> QED  BY <2>2, <2>3, <2>4, <2>5
<1> HIDE DEF r, s
<1>2. /\ Len(r) >= 7 /\ 3 \in 1 .. Len(s) /\ 4 \in 1 .. Len(s)
      /\ 6 \in 1 .. Len(s) /\ 7 \in 1 .. Len(s)
  BY <1>1
<1>3. r[3] = s[3] /\ r[4] = s[4] /\ r[6] = s[6] /\ r[7] = s[7]
  BY <1>1, <1>2
<1>4. ImpliedLength(r) = ImpliedLength(s)
  BY <1>3 DEF ImpliedLength, ChannelCountAt, SampleCountAt
<1>5. Plausible(r) <=> Plausible(s)
  BY <1>3, <1>4 DEF Plausible, VersionAt, MsgTypeAt
<1> QED  BY <1>2, <1>4, <1>5 DEF r, s, HeaderSize

\* A sync word of the buffer is one of the stream, and the stream has no other there.
LEMMA SyncSeen ==
    ASSUME IInv, NEW t \in Seq(Cell), Continues(t), NEW at \in 1 .. Len(buf) - 1
    PROVE  /\ at \in 1 .. Len(buf) /\ front + at \in 1 .. Len(t) - 1
           /\ at \in SyncAt <=> SubSeq(t, front + at, front + at + 1) = Magic
<1>1. /\ front + Len(buf) <= Len(t) /\ front \in Nat /\ Len(buf) \in Nat /\ Len(t) \in Nat
      /\ buf \in Seq(Cell) /\ \A k \in 1 .. Len(buf) : t[front + k] = buf[k]
  BY StreamBuffer
<1>2. /\ at \in 1 .. Len(buf) /\ at + 1 \in 1 .. Len(buf) /\ front + at \in 1 .. Len(t) - 1
      /\ front + at + 1 = front + (at + 1)
  BY <1>1
<1>3. SubSeq(t, front + at, front + at + 1) = Magic
         <=> t[front + at] = Magic[1] /\ t[front + at + 1] = Magic[2]
  BY <1>2, SyncWord
<1>4. SubSeq(buf, at, at + 1) = Magic <=> buf[at] = Magic[1] /\ buf[at + 1] = Magic[2]
  BY <1>1, SyncWord
<1>5. t[front + at] = buf[at] /\ t[front + at + 1] = buf[at + 1]
  BY <1>1, <1>2
<1>6. at \in SyncAt <=> SubSeq(buf, at, at + 1) = Magic
  BY DEF SyncAt
<1> QED  BY <1>2, <1>3, <1>4, <1>5, <1>6

\* The first sync word of the buffer: no header of the stream lies before it, and it is one
\* itself, unless a whole header in the buffer says otherwise.
LEMMA FirstSeen ==
    ASSUME IInv, NEW t \in Seq(Cell), Continues(t), NEW at \in FirstSync
    PROVE  /\ at \in 1 .. Len(buf) /\ front + at \in 1 .. Len(t) - 1
           /\ \A q \in Headers(t) : q >= front + 1 => q >= front + at
           /\ HasHeader(at) => (front + at \in Headers(t) <=> Plausible(Rest(at)))
<1>1. /\ front \in Nat /\ Len(buf) \in Nat /\ Len(t) \in Nat
  BY StreamBuffer
<1>2. at \in SyncAt /\ at \in 1 .. Len(buf) - 1 /\ \A j \in SyncAt : at <= j
  BY DEF FirstSync, SyncAt
<1>3. /\ at \in 1 .. Len(buf) /\ front + at \in 1 .. Len(t) - 1
      /\ SubSeq(t, front + at, front + at + 1) = Magic
  BY <1>2, SyncSeen
<1>4. ASSUME NEW q \in Headers(t), q >= front + 1, ~(q >= front + at) PROVE FALSE
  <2> DEFINE j == q - front
  <2>1. q \in 1 .. Len(t) - 1 /\ SubSeq(t, q, q + 1) = Magic
    BY DEF Headers
  <2>2. j \in 1 .. Len(buf) - 1 /\ front + j = q /\ ~(at <= j)
    BY <1>1, <1>2, <1>4, <2>1
  <2> HIDE DEF j
  <2>3. j \in SyncAt
    BY <2>1, <2>2, SyncSeen
  <2> QED  BY <1>2, <2>2, <2>3
<1>5. ASSUME HasHeader(at)
      PROVE  front + at \in Headers(t) <=> Plausible(Rest(at))
  <2>1. /\ Len(RestFrom(t, front + at)) >= HeaderSize
        /\ Plausible(RestFrom(t, front + at)) <=> Plausible(Rest(at))
    BY <1>3, <1>5, HeaderSeen
  <2> QED  BY <1>3, <2>1 DEF Headers
<1> QED  BY <1>3, <1>4, <1>5

\* A whole frame at hand in the buffer is the frame a receiver of the stream finds there.
LEMMA FrameSeen ==
    ASSUME IInv, NEW t \in Seq(Cell), Continues(t), NEW at \in FirstSync, HasFrame(at)
    PROVE  /\ AheadIs(t, front + 1, front + at) /\ ~Stops(t, front + at)
           /\ FrameFrom(t, front + at) = Candidate(at)
           /\ ImpliedLength(Rest(at)) \in Nat /\ Len(Candidate(at)) = ImpliedLength(Rest(at))
           /\ front + at + ImpliedLength(Rest(at)) \in 1 .. Len(t) + 1
<1> DEFINE q == front + at
           n == ImpliedLength(Rest(at))
<1>1. /\ front + Len(buf) <= Len(t) /\ front \in Nat /\ Len(buf) \in Nat /\ Len(t) \in Nat
      /\ buf \in Seq(Cell) /\ \A k \in 1 .. Len(buf) : t[front + k] = buf[k]
  BY StreamBuffer
<1>2. HasHeader(at) /\ Plausible(Rest(at)) /\ Len(Rest(at)) >= n
  BY DEF HasFrame
<1>3. /\ at \in 1 .. Len(buf) /\ q \in 1 .. Len(t) - 1 /\ q \in Headers(t)
      /\ \A r \in Headers(t) : r >= front + 1 => r >= q
  BY <1>2, FirstSeen
<1>4. /\ Len(RestFrom(t, q)) >= HeaderSize /\ ImpliedLength(RestFrom(t, q)) = n
  BY <1>2, <1>3, HeaderSeen
<1>5. /\ Len(RestFrom(t, q)) \in Nat /\ Len(Rest(at)) <= Len(RestFrom(t, q))
      /\ Len(Rest(at)) \in Nat
  <2>1. /\ Len(Rest(at)) = Len(buf) - at + 1 /\ Len(RestFrom(t, q)) = Len(t) - q + 1
        /\ Len(Rest(at)) <= Len(RestFrom(t, q))
    BY <1>3, StreamSeen
  <2> QED  BY <1>1, <1>3, <2>1
<1>6. /\ n \in Nat /\ at + n - 1 <= Len(buf)
      /\ Candidate(at) \in Seq(Cell) /\ Len(Candidate(at)) = n
      /\ \A k \in 1 .. n : Candidate(at)[k] = buf[at + k - 1]
  BY <1>1, <1>3, CandidateCells
<1> HIDE DEF n
<1>7. ~Stops(t, q)
  <2>1. ~(Len(RestFrom(t, q)) < HeaderSize)
    BY <1>4, <1>5 DEF HeaderSize
  <2>2. ~(n > Len(RestFrom(t, q)))
    BY <1>2, <1>5, <1>6
  <2> QED  BY <1>4, <2>1, <2>2 DEF Stops
<1>8. /\ FrameFrom(t, q) \in Seq(Cell) /\ Len(FrameFrom(t, q)) = n
      /\ \A k \in 1 .. n : FrameFrom(t, q)[k] = t[q + k - 1]
  BY <1>3, <1>4, <1>7, FrameFits
<1>9. ASSUME NEW k \in 1 .. n PROVE FrameFrom(t, q)[k] = Candidate(at)[k]
  <2>1. at + k - 1 \in 1 .. Len(buf) /\ q + k - 1 = front + (at + k - 1)
    BY <1>1, <1>3, <1>6
  <2>2. FrameFrom(t, q)[k] = t[front + (at + k - 1)]
    BY <1>8, <2>1
  <2> QED  BY <1>1, <1>6, <2>1, <2>2
<1>10. FrameFrom(t, q) = Candidate(at)
  BY <1>6, <1>8, <1>9, SeqEqual
<1>11. q + n \in 1 .. Len(t) + 1
  BY <1>1, <1>3, <1>6
<1>12. AheadIs(t, front + 1, q)
  BY <1>1, <1>3 DEF AheadIs
<1> QED  BY <1>6, <1>7, <1>10, <1>11, <1>12 DEF n

LEMMA AppendFirst ==
    ASSUME NEW S, NEW s \in Seq(S), NEW u \in Seq(S), NEW x \in S
    PROVE  Append(s, x) \o u = s \o (<<x>> \o u)
<1>1. Append(s, x) = s \o <<x>> /\ <<x>> \in Seq(S)
  BY AppendIsConcat
<1> QED  BY <1>1, ConcatAssociative

\* A turn of the loop takes what is found ahead, and leaves what is found behind it.
LEMMA TurnReads ==
    ASSUME IInv, Turn, NEW t \in Seq(Cell), Continues(t)
    PROVE  spans' \o SpansFrom(t)[front' + 1] = spans \o SpansFrom(t)[front + 1]
<1> DEFINE F == SpansFrom(t)
<1>1. /\ front + Len(buf) <= Len(t) /\ front \in Nat /\ Len(buf) \in Nat /\ Len(t) \in Nat
      /\ buf \in Seq(Cell) /\ front + 1 \in 1 .. Len(t) + 1
      /\ \A k \in 1 .. Len(buf) : t[front + k] = buf[k]
  BY StreamBuffer
<1>2. spans \in Seq(Span)
  BY DEF IInv, TypeOK, ReceiverTypeOK
<1>3. \A q \in Headers(t) : q \in 1 .. Len(t) - 1 /\ SubSeq(t, q, q + 1) = Magic
  BY DEF Headers
<1>4. ASSUME NEW k \in 0 .. Len(buf), front' = front + k, spans' = spans,
             \A q \in Headers(t) : q >= front + 1 => q >= front + k + 1
      PROVE  spans' \o F[front' + 1] = spans \o F[front + 1]
  <2>1. front + k + 1 \in front + 1 .. Len(t) + 1
    BY <1>1
  <2>2. F[front + 1] = F[front + k + 1]
    BY <1>1, <1>4, <2>1, NothingBetween
  <2> QED  BY <1>4, <2>2
<1>5. CASE NoSync
  <2> DEFINE kept == IF buf # <<>> /\ Last(buf) = Magic[1] THEN 1 ELSE 0
             k == Len(buf) - kept
  <2>1. /\ k \in 0 .. Len(buf) /\ (k = Len(buf) => buf = <<>> \/ Last(buf) # Magic[1])
    BY <1>1
  <2>2. front' = front + k /\ spans' = spans /\ SyncAt = {}
    BY <1>5 DEF NoSync, Discard, Consume
  <2> HIDE DEF kept, k
  <2>3. ASSUME NEW q \in Headers(t), q >= front + 1, ~(q >= front + k + 1) PROVE FALSE
    <3> DEFINE j == q - front
    <3>1. q \in 1 .. Len(t) - 1 /\ SubSeq(t, q, q + 1) = Magic
      BY <1>3
    <3>2. j \in 1 .. k /\ front + j = q /\ j \in 1 .. Len(buf) /\ j \in Nat
      BY <1>1, <2>1, <2>3, <3>1
    <3> HIDE DEF j
    <3>3. CASE j \in 1 .. Len(buf) - 1
      <4>1. j \in SyncAt
        BY <3>1, <3>2, <3>3, SyncSeen
      <4> QED  BY <2>2, <4>1
    <3>4. CASE j = Len(buf)
      <4>1. k = Len(buf) /\ buf # <<>> /\ Last(buf) = buf[j]
        BY <1>1, <2>1, <3>2, <3>4 DEF Last
      <4>2. t[q] = Magic[1]
        BY <3>1, SyncWord
      <4>3. t[q] = buf[j]
        BY <1>1, <3>2
      <4> QED  BY <2>1, <4>1, <4>2, <4>3
    <3> QED  BY <1>1, <3>2, <3>3, <3>4
  <2> QED  BY <1>4, <2>1, <2>2, <2>3
<1>6. ASSUME NEW at \in FirstSync, AwaitHeader(at) \/ AwaitFrame(at)
      PROVE  spans' \o F[front' + 1] = spans \o F[front + 1]
  <2>1. at \in 1 .. Len(buf) /\ \A q \in Headers(t) : q >= front + 1 => q >= front + at
    BY FirstSeen
  <2>2. front' = front + (at - 1) /\ spans' = spans
    BY <1>6 DEF AwaitHeader, AwaitFrame, Discard, Consume
  <2>3. at - 1 \in 0 .. Len(buf) /\ front + (at - 1) + 1 = front + at
    BY <1>1, <2>1
  <2> QED  BY <1>4, <2>1, <2>2, <2>3
<1>7. ASSUME NEW at \in FirstSync, FalseSync(at)
      PROVE  spans' \o F[front' + 1] = spans \o F[front + 1]
  <2>1. HasHeader(at) /\ ~Plausible(Rest(at)) /\ front' = front + at /\ spans' = spans
    BY <1>7 DEF FalseSync, Discard, Consume
  <2>2. /\ at \in 1 .. Len(buf) /\ \A q \in Headers(t) : q >= front + 1 => q >= front + at
        /\ front + at \notin Headers(t)
    BY <2>1, FirstSeen
  <2>3. \A q \in Headers(t) : q >= front + 1 => q >= front + at + 1
    BY <1>1, <1>3, <2>2
  <2>4. at \in 0 .. Len(buf)
    BY <1>1, <2>2
  <2> QED  BY <1>4, <2>1, <2>3, <2>4
<1>8. ASSUME NEW at \in FirstSync, HasFrame(at)
      PROVE  /\ F[front + 1] = LookAt(t, F, front + at) /\ ~Stops(t, front + at)
             /\ FrameFrom(t, front + at) = Candidate(at)
  <2>1. AheadIs(t, front + 1, front + at) /\ ~Stops(t, front + at)
        /\ FrameFrom(t, front + at) = Candidate(at)
    BY <1>8, FrameSeen
  <2>2. F[front + 1] = Look(t, F, front + 1)
    BY <1>1, SpansFromIs
  <2> HIDE DEF F
  <2>3. front + 1 \in Nat
    BY <1>1
  <2>4. Look(t, F, front + 1) = LookAt(t, F, front + at)
    BY <2>1, <2>3, LookIs
  <2> QED  BY <2>1, <2>2, <2>4
<1>9. ASSUME NEW at \in FirstSync, Refuse(at)
      PROVE  spans' \o F[front' + 1] = spans \o F[front + 1]
  <2>1. /\ HasFrame(at) /\ FramingError(Candidate(at))
        /\ front' = front + at /\ spans' = spans
    BY <1>9 DEF Refuse, Consume
  <2>2. F[front + 1] = F[front + at + 1]
    BY <1>8, <2>1 DEF LookAt
  <2> QED  BY <2>1, <2>2
<1>10. ASSUME NEW at \in FirstSync, HasFrame(at), ~FramingError(Candidate(at)),
              NEW verdict, TakeFrame(at, verdict),
              verdict = IF CrcError(Candidate(at)) THEN "crc_errors" ELSE "received"
       PROVE  spans' \o F[front' + 1] = spans \o F[front + 1]
  <2> DEFINE n == ImpliedLength(Rest(at))
             q == front + at
             span == [at |-> q, len |-> n, verdict |-> verdict]
  <2>1. /\ n \in Nat /\ Len(Candidate(at)) = n /\ q + n \in 1 .. Len(t) + 1
    BY <1>10, FrameSeen
  <2>2. at \in 1 .. Len(buf) /\ q \in 1 .. Len(t) - 1
    BY FirstSeen
  <2>3. front' = front + (at - 1 + n) /\ spans' = Append(spans, span)
    BY <1>10 DEF TakeFrame, Consume
  <2>4. span \in Span
    BY <1>1, <1>10, <2>1, <2>2 DEF Span
  <2>5. SpanFrom(t, q) = span
    <3>1. FrameFrom(t, q) = Candidate(at)
      BY <1>8, <1>10
    <3> QED  BY <1>10, <2>1, <3>1 DEF SpanFrom
  <2>6. F[front + 1] = <<SpanFrom(t, q)>> \o F[q + Len(FrameFrom(t, q))]
    <3>1. /\ F[front + 1] = LookAt(t, F, q) /\ ~Stops(t, q)
          /\ FrameFrom(t, q) = Candidate(at)
      BY <1>8, <1>10
    <3> HIDE DEF F, q
    <3> QED  BY <1>10, <3>1 DEF LookAt
  <2>7. Len(FrameFrom(t, q)) = n
    BY <1>8, <1>10, <2>1
  <2>8. F[q + n] \in Seq(Span)
    BY <2>1, SpansFromIs
  <2> HIDE DEF F, n, span
  <2>9. front' + 1 = q + n
    BY SMTT(30), <1>1, <2>1, <2>2, <2>3
  <2>10. F[front + 1] = <<span>> \o F[q + n]
    BY <2>5, <2>6, <2>7
  <2> HIDE DEF q
  <2>11. Append(spans, span) \o F[q + n] = spans \o (<<span>> \o F[q + n])
    BY ZenonT(60), <1>2, <2>4, <2>8, AppendFirst
  <2> QED  BY <2>3, <2>9, <2>10, <2>11
<1>11. ASSUME NEW at \in FirstSync, Reject(at)
       PROVE  spans' \o F[front' + 1] = spans \o F[front + 1]
  BY <1>10, <1>11 DEF Reject, CrcError
<1>12. ASSUME NEW at \in FirstSync, Yield(at)
       PROVE  spans' \o F[front' + 1] = spans \o F[front + 1]
  BY <1>10, <1>12 DEF Yield
<1>13. \/ NoSync
       \/ \E at \in FirstSync :
             \/ AwaitHeader(at) \/ FalseSync(at) \/ AwaitFrame(at)
             \/ Reject(at) \/ Refuse(at) \/ Yield(at)
  BY DEF Turn, Scan
<1>14. ASSUME NEW at \in FirstSync,
              \/ AwaitHeader(at) \/ FalseSync(at) \/ AwaitFrame(at)
              \/ Reject(at) \/ Refuse(at) \/ Yield(at)
       PROVE  spans' \o F[front' + 1] = spans \o F[front + 1]
  <2>1. CASE AwaitHeader(at) \/ AwaitFrame(at)
    BY <1>6, <2>1
  <2>2. CASE FalseSync(at)
    BY <1>7, <2>2
  <2>3. CASE Refuse(at)
    BY <1>9, <2>3
  <2>4. CASE Reject(at)
    BY <1>11, <2>4
  <2>5. CASE Yield(at)
    BY <1>12, <2>5
  <2> QED  BY <1>14, <2>1, <2>2, <2>3, <2>4, <2>5
<1> QED  BY <1>5, <1>13, <1>14

LEMMA ChunkStep ==
    ASSUME IInv, Chunked, [Next]_vars
    PROVE  Chunked'
<1> SUFFICES ASSUME NEW t \in Seq(Cell), Continues(t)'
             PROVE  Whole(t) = spans' \o SpansFrom(t)[front' + 1]
  BY DEF Chunked
<1>1. /\ Len(line) \in Nat /\ Len(wire) \in Nat /\ Len(t) \in Nat /\ TypeOK
      /\ line \in Seq(Cell) /\ wire \in Seq(Cell)
      /\ Len(wire) <= Len(line)
  <2>1. Len(line) = front + Len(buf) + Len(wire) /\ front \in Nat
    BY DEF IInv, InLine, TypeOK, ReceiverTypeOK
  <2> QED  BY <2>1 DEF IInv, TypeOK, ReceiverTypeOK
<1>2. ASSUME NEW n \in 0 .. Len(wire), Poll(n)
      PROVE  Continues(t) /\ UNCHANGED <<spans, front>>
  <2>1. line' = line /\ wire' = SubSeq(wire, n + 1, Len(wire)) /\ UNCHANGED <<spans, front>>
    BY <1>2 DEF Poll, Fill
  <2>2. Len(wire') = Len(wire) - n
    BY <1>1, <2>1
  <2>3. Len(line') - Len(wire') = (Len(line) - Len(wire)) + n
    <3>1. Len(line') = Len(line) /\ n \in Nat
      BY <2>1
    <3> QED  BY <1>1, <2>2, <3>1
  <2> DEFINE m == Len(line) - Len(wire)
  <2>4. /\ m \in Nat /\ Len(t) >= m + n
        /\ \A b \in 1 .. m + n : t[b] = line[b]
    BY <1>1, <2>1, <2>3 DEF Continues
  <2> HIDE DEF m
  <2>5. Len(t) >= m /\ \A b \in 1 .. m : t[b] = line[b]
    BY <1>1, <2>4
  <2> QED  BY <2>1, <2>5 DEF Continues, m
<1>3. ASSUME NEW burst \in Bursts \union {<<>>}, NEW flips \in Flips, Send(burst, flips)
      PROVE  Continues(t) /\ UNCHANGED <<spans, front>>
  <2> DEFINE onWire == burst \o [i \in DOMAIN Frames[sent + 1] |->
                                    IF i \in DOMAIN flips THEN flips[i] ELSE Frames[sent + 1][i]]
  <2>1. line' = line \o onWire /\ wire' = wire \o onWire /\ UNCHANGED <<spans, front>>
    BY <1>3 DEF Send, receiverVars
  <2>2. onWire \in Seq(Cell)
    <3>1. line' \in Seq(Cell)
      <4>1. IInv'
        BY <1>3, SendStep
      <4> QED  BY <4>1 DEF IInv, TypeOK
    <3> QED  BY <1>1, <2>1, <3>1
  <2> HIDE DEF onWire
  <2>3. /\ Len(line') = Len(line) + Len(onWire) /\ Len(wire') = Len(wire) + Len(onWire)
        /\ Len(onWire) \in Nat /\ \A b \in 1 .. Len(line) : line'[b] = line[b]
    BY <1>1, <2>1, <2>2, Joined
  <2>4. Len(line') - Len(wire') = Len(line) - Len(wire)
    BY <1>1, <2>3
  <2>5. \A b \in 1 .. Len(line) - Len(wire) : b \in 1 .. Len(line)
    BY <1>1
  <2> QED  BY <2>1, <2>3, <2>4, <2>5 DEF Continues
<1>4. CASE Turn
  <2>1. Continues(t)
    BY <1>4 DEF Turn, lineVars, Continues
  <2>2. Whole(t) = spans \o SpansFrom(t)[front + 1]
    BY <2>1 DEF Chunked
  <2>3. spans' \o SpansFrom(t)[front' + 1] = spans \o SpansFrom(t)[front + 1]
    BY <1>4, <2>1, TurnReads
  <2> QED  BY <2>2, <2>3
<1>5. CASE UNCHANGED vars
  <2>1. Continues(t) /\ UNCHANGED <<spans, front>>
    BY <1>5 DEF vars, receiverVars, lineVars, Continues
  <2> QED  BY <2>1 DEF Chunked
<1>6. CASE \E n \in 0 .. Len(wire) : Poll(n)
  BY <1>2, <1>6 DEF Chunked
<1>7. CASE \E burst \in Bursts \union {<<>>}, flips \in Flips : Send(burst, flips)
  BY <1>3, <1>7 DEF Chunked
<1> QED  BY <1>4, <1>5, <1>6, <1>7 DEF Next

\* When the loop waits, nothing is left to find in what was read.
LEMMA NothingWaits ==
    ASSUME IInv, Stalled, ~scanning
    PROVE  /\ BytesRead \in Seq(Cell) /\ Continues(BytesRead)
           /\ SpansFrom(BytesRead)[front + 1] = <<>>
<1> DEFINE m == Len(line) - Len(wire)
<1>1. /\ line \in Seq(Cell) /\ wire \in Seq(Cell) /\ buf \in Seq(Cell) /\ front \in Nat
      /\ Len(line) = front + Len(buf) + Len(wire)
  BY DEF IInv, InLine, TypeOK, ReceiverTypeOK
<1>2. m \in 0 .. Len(line) /\ m = front + Len(buf) /\ Len(buf) \in Nat
  BY <1>1
<1>3. BytesRead = SubSeq(line, 1, m)
  BY DEF BytesRead
<1> HIDE DEF m
<1>4. /\ BytesRead \in Seq(Cell) /\ Len(BytesRead) = m
      /\ \A b \in 1 .. m : BytesRead[b] = line[b]
  BY <1>1, <1>2, <1>3, Prefix
<1>5. Continues(BytesRead)
  <2>1. Len(BytesRead) >= m
    BY <1>1, <1>2, <1>4
  <2> QED  BY <1>4, <2>1 DEF Continues, m
<1> DEFINE t == BytesRead
           F == SpansFrom(t)
<1>6. t \in Seq(Cell) /\ Continues(t) /\ Len(t) = front + Len(buf)
  BY <1>2, <1>4, <1>5
<1> HIDE DEF t
<1>7. front + 1 \in 1 .. Len(t) + 1 /\ front + 1 \in Nat
  BY <1>1, <1>2, <1>6
<1>8. F[front + 1] = Look(t, F, front + 1)
  BY <1>6, <1>7, SpansFromIs
<1> HIDE DEF F
<1>9. CASE Len(buf) <= 1
  <2>1. \A q \in Headers(t) : q \in Nat /\ q <= Len(t) - 1
    BY DEF Headers
  <2>2. NoneAhead(t, front + 1)
    BY <1>1, <1>2, <1>6, <1>9, <2>1 DEF NoneAhead
  <2> QED  BY <1>4, <1>5, <1>6, <1>7, <1>8, <2>2, LookIs DEF F, t
<1>10. CASE /\ Len(buf) > 1 /\ SubSeq(buf, 1, 2) = Magic
            /\ Len(buf) < HeaderSize \/ (Plausible(buf) /\ ImpliedLength(buf) > Len(buf))
  <2> DEFINE q == front + 1
  <2>1. 1 \in 1 .. Len(buf) - 1 /\ 1 \in 1 .. Len(buf) /\ Len(buf) - 1 + 1 = Len(buf)
        /\ 1 + 1 = 2
    BY <1>2, <1>10
  <2>2. Rest(1) = buf
    <3>1. /\ Rest(1) \in Seq(Cell) /\ Len(Rest(1)) = Len(buf)
          /\ \A k \in 1 .. Len(buf) : Rest(1)[k] = buf[k]
      <4>1. Len(buf) \in 0 .. Len(buf)
        BY <1>2
      <4> QED  BY <1>1, <4>1, Prefix DEF Rest
    <3> QED  BY <1>1, <3>1, SeqEqual
  <2>3. 1 \in SyncAt
    BY <1>10, <2>1 DEF SyncAt
  <2>4. q \in 1 .. Len(t) - 1 /\ SubSeq(t, q, q + 1) = Magic
    BY <1>6, <2>1, <2>3, SyncSeen
  <2>5. Len(RestFrom(t, q)) = Len(buf)
    <3>1. Len(RestFrom(t, q)) = Len(t) - q + 1
      BY <1>6, <2>1, StreamSeen
    <3> QED  BY <1>1, <1>2, <1>6, <3>1
  <2>6. ASSUME Len(buf) < HeaderSize
        PROVE  q \in Headers(t) /\ Stops(t, q)
    <3>1. q \in Headers(t)
      <4>1. ~(Len(RestFrom(t, q)) >= HeaderSize)
        BY <1>2, <2>5, <2>6 DEF HeaderSize
      <4> QED  BY <2>4, <4>1 DEF Headers
    <3>2. Stops(t, q)
      BY <2>5, <2>6 DEF Stops
    <3> QED  BY <3>1, <3>2
  <2>7. ASSUME Len(buf) >= HeaderSize, Plausible(buf), ImpliedLength(buf) > Len(buf)
        PROVE  q \in Headers(t) /\ Stops(t, q)
    <3>1. HasHeader(1)
      BY <2>2, <2>7 DEF HasHeader
    <3>2. /\ Plausible(RestFrom(t, q)) <=> Plausible(buf)
          /\ ImpliedLength(RestFrom(t, q)) = ImpliedLength(buf)
      BY <1>6, <2>1, <2>2, <3>1, HeaderSeen
    <3>3. q \in Headers(t)
      BY <2>4, <2>7, <3>2 DEF Headers
    <3>4. Stops(t, q)
      BY <2>5, <2>7, <3>2 DEF Stops
    <3> QED  BY <3>3, <3>4
  <2>8. q \in Headers(t) /\ Stops(t, q)
    <3>1. Len(buf) < HeaderSize \/ Len(buf) >= HeaderSize
      BY <1>2 DEF HeaderSize
    <3> QED  BY <1>10, <2>6, <2>7, <3>1
  <2>9. AheadIs(t, front + 1, q)
    <3>1. q >= front + 1
      BY <1>7
    <3> QED  BY <2>8, <3>1 DEF AheadIs
  <2>10. Look(t, F, front + 1) = LookAt(t, F, q)
    <3> HIDE DEF q
    <3> QED  BY <1>6, <1>7, <2>9, LookIs
  <2>11. LookAt(t, F, q) = <<>>
    BY <2>8 DEF LookAt
  <2> QED  BY <1>4, <1>5, <1>8, <2>10, <2>11 DEF F, t
<1> QED  BY <1>2, <1>9, <1>10 DEF Stalled

\* However the reads cut the stream, once the loop waits it has taken the frames a receiver
\* takes that has the whole stream at hand: for all packets, noise, damage and chunkings.
THEOREM ChunksDoNotMatter == Spec => []ChunkingIrrelevant
<1>1. Init => Stalled /\ Chunked
  <2> SUFFICES ASSUME Init PROVE Stalled /\ Chunked
    OBVIOUS
  <2>1. buf = <<>> /\ front = 0 /\ spans = <<>>
    BY DEF Init, ReceiverInit
  <2>2. Stalled
    BY <2>1 DEF Stalled
  <2>3. ASSUME NEW t \in Seq(Cell) PROVE Whole(t) = spans \o SpansFrom(t)[front + 1]
    <3>1. 1 \in 1 .. Len(t) + 1
      OBVIOUS
    <3>2. SpansFrom(t)[1] \in Seq(Span)
      BY <3>1, SpansFromIs
    <3>3. <<>> \o SpansFrom(t)[1] = SpansFrom(t)[1]
      BY <3>2, ConcatEmptySeq
    <3>4. front + 1 = 1
      BY <2>1
    <3> QED  BY <2>1, <3>3, <3>4 DEF Whole
  <2> QED  BY <2>2, <2>3 DEF Chunked
<1>2. IInv /\ IInv' /\ Stalled /\ Chunked /\ [Next]_vars => Stalled' /\ Chunked'
  BY StallStep, ChunkStep
<1>3. IInv /\ Stalled /\ Chunked => ChunkingIrrelevant
  <2> SUFFICES ASSUME IInv, Stalled, Chunked, ~scanning PROVE spans = Whole(BytesRead)
    BY DEF ChunkingIrrelevant
  <2>1. /\ BytesRead \in Seq(Cell) /\ Continues(BytesRead)
        /\ SpansFrom(BytesRead)[front + 1] = <<>>
    BY NothingWaits
  <2>2. Whole(BytesRead) = spans \o <<>>
    BY <2>1 DEF Chunked
  <2>3. spans \in Seq(Span)
    BY DEF IInv, TypeOK, ReceiverTypeOK
  <2> QED  BY <2>2, <2>3, ConcatEmptySeq
<1> QED  BY <1>1, <1>2, <1>3, Inductive, PTL DEF Spec
=============================================================================
