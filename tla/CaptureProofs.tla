---------------------------- MODULE CaptureProofs ----------------------------
(***************************************************************************)
(* Proofs about Capture, for every script of rounds, every buffer, count   *)
(* and deadline, and any number of deaths and restarts.                    *)
(*                                                                         *)
(* First what the codec, the reader of the file and the collector compute, *)
(* without a state: a frame decodes to its packet, a file of records reads *)
(* back, also when it is cut, and a record is that of the packets heard.   *)
(* Then two invariants: of the send loop and the last drain, and of the    *)
(* file, the records and the replay.                                       *)
(***************************************************************************)
EXTENDS Capture, NumberProofs

(***************************************************************************)
(* The frame of a packet: it is decoded to what was encoded.               *)
(***************************************************************************)

LEMMA CrcType ==
    ASSUME NEW content \in Seq(Nat)
    PROVE  Crc(content) \in Nat
<1> DEFINE N == Len(content)
           Sum(g) == [n \in 0 .. N |-> IF n = 0 THEN 0 ELSE 7 * g[n - 1] + Digit(content[n]) + 1]
           sum == CHOOSE g : g = Sum(g)
           step == [n \in 1 .. N |-> [x \in Nat |-> 7 * x + Digit(content[n]) + 1]]
<1>1. N \in Nat /\ Crc(content) = sum[N]
  BY DEF Crc
<1>2. ASSUME NEW n \in 1 .. N PROVE Digit(content[n]) \in Nat
  <2>1. IsFiniteSet(Bytes)
    <3>1. 0 \in Int /\ 4 \in Int
      OBVIOUS
    <3>2. IsFiniteSet(0 .. 4)
      BY <3>1, FS_Interval, Zenon
    <3> QED  BY <3>2 DEF Bytes
  <2>2. Cardinality(Bytes) \in Nat
    BY <2>1, FS_CardinalityType
  <2> QED  BY <2>2 DEF Digit, Bytes
<1> HIDE DEF N
<1>3. step \in [1 .. N -> [Nat -> Nat]] /\ 0 \in Nat
  BY <1>2
<1>4. \A n \in 1 .. N, x \in Nat : step[n][x] = 7 * x + Digit(content[n]) + 1
  OBVIOUS
<1> HIDE DEF step
<1>5. PICK g : g \in [0 .. N -> Nat] /\ Recursion(g, 0, step, N)
  BY <1>1, <1>3, RecursionExists
<1>6. g = Sum(g)
  <2>1. g[0] = 0 /\ \A n \in 1 .. N : g[n] = step[n][g[n - 1]]
    BY <1>5 DEF Recursion
  <2>2. \A n \in 0 .. N : g[n] = Sum(g)[n]
    <3> TAKE n \in 0 .. N
    <3>1. CASE n = 0
      BY <2>1, <3>1
    <3>2. CASE n # 0
      <4>1. n \in 1 .. N /\ g[n - 1] \in Nat
        BY <1>1, <1>5, <3>2
      <4>2. g[n] = 7 * g[n - 1] + Digit(content[n]) + 1
        BY <1>4, <2>1, <4>1
      <4> QED  BY <3>2, <4>2
    <3> QED  BY <3>1, <3>2
  <2> QED  BY <1>5, <2>2
<1>7. sum = Sum(sum)
  <2> HIDE DEF Sum
  <2> QED  BY <1>6
<1> HIDE DEF sum
<1>8. sum[0] = 0 /\ \A n \in 1 .. N : sum[n - 1] \in Nat => sum[n] = step[n][sum[n - 1]]
  <2>1. \A n \in 0 .. N : sum[n] = IF n = 0 THEN 0 ELSE 7 * sum[n - 1] + Digit(content[n]) + 1
    BY <1>7
  <2>2. ASSUME NEW n \in 1 .. N, sum[n - 1] \in Nat PROVE sum[n] = step[n][sum[n - 1]]
    <3>1. n \in 0 .. N /\ n # 0
      BY <1>1
    <3>2. sum[n] = 7 * sum[n - 1] + Digit(content[n]) + 1
      BY <2>1, <3>1
    <3>3. step[n][sum[n - 1]] = 7 * sum[n - 1] + Digit(content[n]) + 1
      BY <1>4, <2>2
    <3> QED  BY <3>2, <3>3
  <2>3. 0 \in 0 .. N
    BY <1>1
  <2> QED  BY <2>1, <2>2, <2>3
<1>9. \A n \in 0 .. N : sum[n] = g[n]
  <2> DEFINE zero == 0
  <2>1. Follows(sum, g, Nat, zero, step, N)
    BY <1>1, <1>3, <1>5, <1>8 DEF Follows
  <2> HIDE DEF zero
  <2> QED  BY <2>1, RecursionFollowed
<1>10. N \in 0 .. N
  BY <1>1
<1> QED  BY <1>1, <1>5, <1>9, <1>10

\* What an encoder makes of a packet, the decoder finds no fault with and turns back into the
\* packet: encode_sample_block and encode_heartbeat against decode, for every packet they accept.
THEOREM RoundTrip ==
    ASSUME NEW p \in Packet, Encodable(p)
    PROVE  /\ Encode(p) \in Seq(Nat) /\ Len(Encode(p)) \in Nat
           /\ ~FramingError(Encode(p)) /\ ~CrcError(Encode(p))
           /\ Decode(Encode(p)) = p
<1> DEFINE F == Encode(p)
           fields == <<Version, p.msg_type, p.ident, p.channel_count, p.sample_count>>
           header == Magic \o fields
           content == header \o p.samples
<1>1. /\ p.msg_type \in {SampleBlock, Heartbeat} /\ p.ident \in Bytes
      /\ p.channel_count \in Bytes /\ p.sample_count \in Bytes /\ p.samples \in Seq(Bytes)
      /\ p = [msg_type |-> p.msg_type, ident |-> p.ident, channel_count |-> p.channel_count,
              sample_count |-> p.sample_count, samples |-> p.samples]
  BY DEF Packet
<1>2. F = Append(content, Crc(content))
  BY DEF Encode
<1>3. Bytes \subseteq Nat /\ p.samples \in Seq(Nat) /\ Len(p.samples) \in Nat
  BY <1>1 DEF Bytes
<1> HIDE DEF F
<1>4. Magic \in Seq(Nat) /\ Len(Magic) = 2
  BY DEF Magic
<1>5. /\ fields \in Seq(Nat) /\ Len(fields) = 5
      /\ fields[1] = Version /\ fields[2] = p.msg_type /\ fields[3] = p.ident
      /\ fields[4] = p.channel_count /\ fields[5] = p.sample_count
  <2>1. Version \in Nat /\ p.msg_type \in Nat /\ p.ident \in Nat
        /\ p.channel_count \in Nat /\ p.sample_count \in Nat
    BY <1>1, <1>3 DEF Version, SampleBlock, Heartbeat
  <2> QED  BY <2>1
<1> HIDE DEF fields
<1>6. /\ header \in Seq(Nat) /\ Len(header) = 7
      /\ \A k \in 1 .. 2 : header[k] = Magic[k]
      /\ \A k \in 1 .. 5 : header[2 + k] = fields[k]
  <2>1. Magic \in Seq(Nat) /\ fields \in Seq(Nat)
    BY <1>4, <1>5
  <2>2. /\ header \in Seq(Nat) /\ Len(header) = Len(Magic) + Len(fields)
        /\ \A k \in 1 .. Len(Magic) : header[k] = Magic[k]
        /\ \A k \in 1 .. Len(fields) : header[Len(Magic) + k] = fields[k]
    BY <2>1, Joined
  <2> HIDE DEF header
  <2> QED  BY <1>4, <1>5, <2>2
<1>7. /\ header[1] = Magic[1] /\ header[2] = Magic[2] /\ header[3] = Version
      /\ header[4] = p.msg_type /\ header[5] = p.ident
      /\ header[6] = p.channel_count /\ header[7] = p.sample_count
  <2>1. 1 \in 1 .. 2 /\ 2 \in 1 .. 2 /\ 1 \in 1 .. 5 /\ 2 + 1 = 3
        /\ 2 \in 1 .. 5 /\ 3 \in 1 .. 5 /\ 4 \in 1 .. 5 /\ 5 \in 1 .. 5
        /\ 2 + 2 = 4 /\ 2 + 3 = 5 /\ 2 + 4 = 6 /\ 2 + 5 = 7
    OBVIOUS
  <2>2. /\ header[1] = Magic[1] /\ header[2] = Magic[2] /\ header[3] = fields[1]
        /\ header[4] = fields[2] /\ header[5] = fields[3]
        /\ header[6] = fields[4] /\ header[7] = fields[5]
    BY <1>6, <2>1, Zenon
  <2> QED  BY <1>5, <2>2, Zenon
<1> HIDE DEF header
<1> DEFINE area == Len(p.samples)
<1>8. /\ content \in Seq(Nat) /\ Len(content) = 7 + area /\ area \in Nat
      /\ \A k \in 1 .. 7 : content[k] = header[k]
      /\ \A k \in 1 .. area : content[7 + k] = p.samples[k]
  <2> DEFINE samples == p.samples
  <2>1. header \in Seq(Nat) /\ samples \in Seq(Nat) /\ content = header \o samples
    BY <1>3, <1>6
  <2> HIDE DEF content, samples
  <2>2. content \in Seq(Nat) /\ Len(content) = Len(header) + Len(samples)
    BY <2>1, Joined
  <2>3. \A k \in 1 .. Len(header) : content[k] = header[k]
    BY <2>1, Joined
  <2>4. \A k \in 1 .. Len(samples) : content[Len(header) + k] = samples[k]
    BY <2>1, Joined
  <2> QED  BY <1>3, <1>6, <2>2, <2>3, <2>4 DEF samples
<1>9. Crc(content) \in Nat
  BY <1>8, CrcType
<1> HIDE DEF content, area
<1>10. /\ F \in Seq(Nat) /\ Len(F) = 8 + area
       /\ \A k \in 1 .. 7 + area : F[k] = content[k]
       /\ F[Len(F)] = Crc(content)
  <2>1. /\ Append(content, Crc(content)) \in Seq(Nat)
        /\ Len(Append(content, Crc(content))) = Len(content) + 1
        /\ \A k \in 1 .. Len(content) : Append(content, Crc(content))[k] = content[k]
        /\ Append(content, Crc(content))[Len(content) + 1] = Crc(content)
    BY <1>8, <1>9, AppendProperties, SMTT(30)
  <2> QED  BY <1>2, <1>8, <2>1, SMTT(30)
<1>11. /\ F[1] = Magic[1] /\ F[2] = Magic[2] /\ F[3] = Version
       /\ F[4] = p.msg_type /\ F[5] = p.ident /\ F[6] = p.channel_count /\ F[7] = p.sample_count
  <2>1. \A k \in 1 .. 7 : F[k] = header[k]
    BY <1>8, <1>10, SMTT(30)
  <2> QED  BY <1>7, <2>1
<1>12. SubSeq(F, HeaderSize + 1, Len(F) - CrcSize) = p.samples
  <2> DEFINE m == 8
             n == 7 + area
             w == SubSeq(F, m, n)
  <2>1. m \in Nat \ {0} /\ n \in Nat /\ n <= Len(F) /\ m <= n + 1
    BY <1>8, <1>10, SMTT(30)
  <2>2. n - m + 1 = area /\ \A k \in 1 .. area : m + k - 1 = 7 + k /\ 7 + k \in 1 .. 7 + area
    BY <1>8
  <2>3. HeaderSize + 1 = m /\ Len(F) - CrcSize = n
    BY <1>8, <1>10 DEF HeaderSize, CrcSize
  <2> HIDE DEF m, n
  <2>4. w \in Seq(Nat) /\ Len(w) = n - m + 1 /\ \A k \in 1 .. n - m + 1 : w[k] = F[m + k - 1]
    BY <1>10, <2>1, Slice, SMTT(30)
  <2> HIDE DEF w
  <2>5. \A k \in 1 .. area : w[k] = p.samples[k]
    <3> TAKE k \in 1 .. area
    <3>1. m + k - 1 = 7 + k /\ 7 + k \in 1 .. 7 + area /\ k \in 1 .. n - m + 1
      BY <2>2
    <3>2. w[k] = F[7 + k]
      BY <2>4, <3>1
    <3>3. F[7 + k] = content[7 + k] /\ content[7 + k] = p.samples[k]
      BY <1>8, <1>10, <3>1
    <3> QED  BY <3>2, <3>3
  <2>6. Len(p.samples) = area
    BY DEF area
  <2>7. w = p.samples
    <3> DEFINE samples == p.samples
    <3>1. samples \in Seq(Nat) /\ Len(samples) = area /\ \A k \in 1 .. area : w[k] = samples[k]
      BY <1>3, <2>5, <2>6
    <3>2. w \in Seq(Nat) /\ Len(w) = area
      BY <2>2, <2>4
    <3> HIDE DEF samples
    <3>3. w = samples
      BY <3>1, <3>2, SeqEqual
    <3> QED  BY <3>3 DEF samples
  <2> QED  BY <2>3, <2>7 DEF w
<1>13. Decode(F) = [msg_type |-> p.msg_type, ident |-> p.ident, channel_count |-> p.channel_count,
                    sample_count |-> p.sample_count, samples |-> p.samples]
  BY <1>11, <1>12 DEF Decode, MsgTypeAt, IdentAt, ChannelCountAt, SampleCountAt
<1>14. Len(F) \in Nat
  BY <1>8, <1>10
<1>15. Decode(F) = p
  BY <1>1, <1>13
<1>16. SubSeq(F, 1, 2) = Magic
  <2>1. 2 \in 0 .. Len(F)
    BY <1>8, <1>10
  <2>2. /\ SubSeq(F, 1, 2) \in Seq(Nat) /\ Len(SubSeq(F, 1, 2)) = 2
        /\ \A k \in 1 .. 2 : SubSeq(F, 1, 2)[k] = F[k]
    BY <1>10, <2>1, Prefix
  <2> DEFINE sync == SubSeq(F, 1, 2)
             magic == Magic
  <2> HIDE DEF sync, magic
  <2>3. sync \in Seq(Nat) /\ Len(sync) = 2 /\ \A k \in 1 .. 2 : sync[k] = magic[k]
    <3>1. \A k \in 1 .. 2 : k = 1 \/ k = 2
      OBVIOUS
    <3> QED  BY <1>11, <2>2, <3>1 DEF sync, magic
  <2>4. magic \in Seq(Nat) /\ Len(magic) = 2
    BY <1>4 DEF magic
  <2>5. sync = magic
    BY <2>3, <2>4, SeqEqual
  <2> QED  BY <2>5 DEF sync, magic
<1>17. SubSeq(F, 1, Len(F) - CrcSize) = content
  <2> DEFINE n == Len(F) - CrcSize
             w == SubSeq(F, 1, n)
  <2>1. n = 7 + area /\ n \in 0 .. Len(F)
    BY <1>8, <1>10 DEF CrcSize
  <2> HIDE DEF n
  <2>2. w \in Seq(Nat) /\ Len(w) = n /\ \A k \in 1 .. n : w[k] = F[k]
    BY <1>10, <2>1, Prefix
  <2> HIDE DEF w
  <2>3. \A k \in 1 .. n : w[k] = content[k]
    BY <1>10, <2>1, <2>2
  <2>4. w = content
    BY <1>8, <2>1, <2>2, <2>3, SeqEqual
  <2> QED  BY <2>4 DEF w, n
<1>18. ~CrcError(F)
  BY <1>10, <1>17 DEF CrcError
<1>19. Len(F) = FrameLength(p.channel_count, p.sample_count) /\ Len(F) <= MaxPacketBytes
  <2> DEFINE grid == p.channel_count * p.sample_count
  <2>1. area = grid
    BY DEF Encodable, area
  <2>2. FrameLength(p.channel_count, p.sample_count) = 7 + grid + 1
    BY DEF FrameLength, HeaderSize, CrcSize
  <2> HIDE DEF grid
  <2>3. FrameLength(p.channel_count, p.sample_count) <= MaxPacketBytes
    BY DEF Encodable
  <2> QED  BY <1>8, <1>10, <2>1, <2>2, <2>3
<1>20. ~FramingError(F)
  <2>1. ~(Len(F) < HeaderSize + CrcSize) /\ ~(Len(F) > MaxPacketBytes)
    BY <1>8, <1>10, <1>19, MaxPacketAssumption DEF HeaderSize, CrcSize
  <2>2. p.msg_type = Heartbeat => p.channel_count = 0 /\ p.sample_count = 0
    BY DEF Encodable
  <2> QED
    BY <1>1, <1>11, <1>16, <1>19, <2>1, <2>2
       DEF FramingError, VersionAt, MsgTypeAt, ChannelCountAt, SampleCountAt
<1> QED  BY <1>10, <1>14, <1>15, <1>18, <1>20 DEF F

\* What the logger makes of a packet is the packet's frame, whatever its type.
LEMMA ReencodeIsEncode ==
    ASSUME NEW p \in Packet, Encodable(p)
    PROVE  Reencode(p) = Encode(p)
<1>1. /\ p = [msg_type |-> p.msg_type, ident |-> p.ident, channel_count |-> p.channel_count,
              sample_count |-> p.sample_count, samples |-> p.samples]
      /\ p.msg_type \in {SampleBlock, Heartbeat} /\ p.samples \in Seq(Bytes)
      /\ p.channel_count \in Nat /\ p.sample_count \in Nat
  BY DEF Packet, Bytes
<1>2. CASE p.msg_type = Heartbeat
  <2>1. p.channel_count = 0 /\ p.sample_count = 0
    BY <1>2 DEF Encodable
  <2>2. Len(p.samples) = 0
    BY <2>1 DEF Encodable
  <2>3. p.samples = <<>>
    BY <1>1, <2>2
  <2>4. p = [msg_type |-> Heartbeat, ident |-> p.ident, channel_count |-> 0,
             sample_count |-> 0, samples |-> <<>>]
    BY <1>1, <1>2, <2>1, <2>3
  <2> QED  BY <1>2, <2>4 DEF Reencode
<1>3. CASE p.msg_type # Heartbeat
  <2>1. p.msg_type = SampleBlock
    BY <1>1, <1>3
  <2>2. [p EXCEPT !.msg_type = SampleBlock] = p
    BY <2>1 DEF Packet
  <2> QED  BY <1>3, <2>2 DEF Reencode
<1> QED  BY <1>2, <1>3

-----------------------------------------------------------------------------
(***************************************************************************)
(* read_raw_log: a recursive function on the positions of a file, which    *)
(* looks at later positions only and so has its values from the end of the *)
(* file backwards.                                                         *)
(***************************************************************************)

NextRecord(data, pos) == pos + LenSize + Unpack(data, pos)

\* What is read from pos on, going by what f says of later positions.
Look(data, f, pos) ==
    IF pos + LenSize > Len(data)
    THEN [frames |-> <<>>, torn |-> pos # Len(data)]
    ELSE IF NextRecord(data, pos) > Len(data)
         THEN [frames |-> <<>>, torn |-> TRUE]
         ELSE [frames |-> <<SubSeq(data, pos + LenSize + 1, NextRecord(data, pos))>>
                              \o f[NextRecord(data, pos)].frames,
               torn |-> f[NextRecord(data, pos)].torn]

Entries(data) == CHOOSE f : f = [pos \in 0 .. Len(data) |-> Look(data, f, pos)]

LEMMA ReadIsEntries ==
    ASSUME NEW data
    PROVE  ReadRawLog(data) = Entries(data)[0]
BY DEF ReadRawLog, Entries, Look, NextRecord

LEMMA LookLater ==
    ASSUME NEW data \in Seq(Nat), NEW pos \in 0 .. Len(data), NEW f, NEW g,
           \A r \in pos + 1 .. Len(data) : f[r] = g[r]
    PROVE  Look(data, f, pos) = Look(data, g, pos)
<1>1. Len(data) \in Nat /\ pos \in Nat
  OBVIOUS
<1>2. CASE pos + LenSize > Len(data)
  BY <1>2 DEF Look
<1>3. CASE ~(pos + LenSize > Len(data))
  <2>1. pos + 1 \in 1 .. Len(data) /\ pos + 2 \in 1 .. Len(data)
    BY <1>1, <1>3 DEF LenSize
  <2>2. data[pos + 1] \in Nat /\ data[pos + 2] \in Nat
    BY <2>1
  <2>3. NextRecord(data, pos) \in Nat /\ NextRecord(data, pos) >= pos + 2
    <3> DEFINE low == data[pos + 1]
               high == data[pos + 2]
    <3>1. NextRecord(data, pos) = pos + 2 + (low + 256 * high)
      BY DEF NextRecord, Unpack, LenSize
    <3>2. low \in Nat /\ high \in Nat
      BY <2>2
    <3> HIDE DEF low, high
    <3> QED  BY <1>1, <3>1, <3>2
  <2> DEFINE next == NextRecord(data, pos)
  <2>4. CASE next > Len(data)
    BY <1>3, <2>4 DEF Look
  <2>5. CASE ~(next > Len(data))
    <3>1. next \in pos + 1 .. Len(data)
      BY <1>1, <2>3, <2>5
    <3>2. f[next] = g[next]
      BY <3>1
    <3> QED  BY <1>3, <2>5, <3>2 DEF Look
  <2> QED  BY <2>4, <2>5
<1> QED  BY <1>2, <1>3

LEMMA EntriesExist ==
    ASSUME NEW data \in Seq(Nat)
    PROVE  \E f : f = [pos \in 0 .. Len(data) |-> Look(data, f, pos)]
<1> DEFINE N == Len(data)
           Solves(f, m) == f = [pos \in N - m .. N |-> Look(data, f, pos)]
           T == {m \in 0 .. N : ~ \E f : Solves(f, m)}
<1>1. N \in Nat /\ N = Len(data)
  OBVIOUS
<1> HIDE DEF N
<1>2. T = {}
  <2> SUFFICES ASSUME T # {} PROVE FALSE
    OBVIOUS
  <2>1. PICK m \in T : \A k \in T : m <= k
    <3>1. T \in SUBSET Nat
      BY <1>1
    <3> HIDE DEF T
    <3> QED  BY <3>1, SmallestNumber
  <2>2. m \in 0 .. N /\ ~ \E f : Solves(f, m)
    BY <2>1
  <2> DEFINE p == N - m
  <2>3. p \in 0 .. N /\ p \in Nat
    BY <1>1, <2>2
  <2>4. \E g : \A r \in p + 1 .. N : g[r] = Look(data, g, r)
    <3>1. CASE m = 0
      <4>1. p + 1 .. N = {}
        BY <1>1, <3>1
      <4> QED  BY <4>1
    <3>2. CASE m # 0
      <4>1. m - 1 \in 0 .. N /\ N - (m - 1) = p + 1 /\ m - 1 \notin T
        <5>1. m - 1 \in 0 .. N /\ N - (m - 1) = p + 1 /\ ~(m <= m - 1)
          BY <1>1, <2>2, <3>2
        <5> HIDE DEF T
        <5> QED  BY <2>1, <5>1
      <4>2. PICK g : Solves(g, m - 1)
        BY <4>1
      <4>3. g = [pos \in p + 1 .. N |-> Look(data, g, pos)]
        BY <4>1, <4>2
      <4> HIDE DEF p, T
      <4> QED  BY <4>3
    <3> QED  BY <3>1, <3>2
  <2>5. PICK g : \A r \in p + 1 .. N : g[r] = Look(data, g, r)
    BY <2>4
  <2> HIDE DEF T
  <2> DEFINE f == [r \in p .. N |-> Look(data, g, r)]
  <2>6. \A r \in p + 1 .. N : f[r] = g[r]
    BY <2>3, <2>5
  <2>7. \A r \in p .. N : Look(data, g, r) = Look(data, f, r)
    <3> TAKE r \in p .. N
    <3>1. r \in 0 .. Len(data) /\ \A b \in r + 1 .. Len(data) : b \in p + 1 .. N
      BY <1>1, <2>3
    <3>2. \A b \in r + 1 .. Len(data) : g[b] = f[b]
      BY <2>6, <3>1
    <3> HIDE DEF f
    <3> QED  BY <3>1, <3>2, LookLater
  <2>8. f = [r \in p .. N |-> Look(data, f, r)]
    <3> DEFINE h == [r \in p .. N |-> Look(data, f, r)]
    <3>1. \A r \in p .. N : f[r] = h[r]
      BY <2>7
    <3> QED  BY <3>1
  <2>9. Solves(f, m)
    BY <2>8
  <2> QED  BY <2>2, <2>9
<1>3. N \in 0 .. N /\ N \notin T
  <2> HIDE DEF T
  <2> QED  BY <1>1, <1>2
<1>4. PICK f : Solves(f, N)
  BY <1>3
<1>5. N - N = 0
  BY <1>1
<1> QED  BY <1>4, <1>5 DEF N

LEMMA EntriesAre ==
    ASSUME NEW data \in Seq(Nat), NEW pos \in 0 .. Len(data)
    PROVE  Entries(data)[pos] = Look(data, Entries(data), pos)
<1> DEFINE Table(f) == [r \in 0 .. Len(data) |-> Look(data, f, r)]
           E == Entries(data)
<1>1. E = CHOOSE f : f = Table(f)
  BY DEF Entries
<1>2. \E f : f = Table(f)
  BY EntriesExist
<1>3. E = Table(E)
  <2> HIDE DEF Table, E
  <2> QED  BY <1>1, <1>2
<1> HIDE DEF E
<1>4. E[pos] = Look(data, E, pos)
  BY <1>3
<1> QED  BY <1>4 DEF E

\* The file has the records of the frames R, each after the one before, and ends with them or in
\* the middle of one more.
Holds(data, R, at) ==
    /\ at \in [0 .. Len(R) -> Nat] /\ at[0] = 0 /\ at[Len(R)] <= Len(data)
    /\ \A i \in 1 .. Len(R) :
          /\ at[i - 1] + LenSize <= Len(data) /\ at[i] <= Len(data)
          /\ NextRecord(data, at[i - 1]) = at[i]
          /\ SubSeq(data, at[i - 1] + LenSize + 1, at[i]) = R[i]

EndsAt(data, pos) ==
    pos + LenSize > Len(data) \/ (pos # Len(data) /\ NextRecord(data, pos) > Len(data))

LEMMA FirstAndRest ==
    ASSUME NEW S, NEW R \in Seq(S), NEW i \in 1 .. Len(R)
    PROVE  <<R[i]>> \o SubSeq(R, i + 1, Len(R)) = SubSeq(R, i, Len(R))
<1> DEFINE n == Len(R)
           m == i + 1
           a == <<R[i]>>
           b == SubSeq(R, m, n)
           c == SubSeq(R, i, n)
<1>1. n \in Nat /\ i \in Nat \ {0} /\ m \in Nat \ {0} /\ m = i + 1 /\ i <= n /\ n <= Len(R)
      /\ m <= n + 1 /\ i <= n + 1 /\ R[i] \in S
  OBVIOUS
<1> HIDE DEF m, n
<1>2. b \in Seq(S) /\ Len(b) = n - m + 1 /\ \A k \in 1 .. n - m + 1 : b[k] = R[m + k - 1]
  BY <1>1, Slice
<1>3. c \in Seq(S) /\ Len(c) = n - i + 1 /\ \A k \in 1 .. n - i + 1 : c[k] = R[i + k - 1]
  BY <1>1, Slice
<1>4. a \in Seq(S) /\ Len(a) = 1 /\ a[1] = R[i]
  BY <1>1
<1> HIDE DEF a, b, c
<1>5. /\ a \o b \in Seq(S) /\ Len(a \o b) = Len(a) + Len(b)
      /\ \A k \in 1 .. Len(a) : (a \o b)[k] = a[k]
      /\ \A k \in 1 .. Len(b) : (a \o b)[Len(a) + k] = b[k]
  <2>1. a \in Seq(S) /\ b \in Seq(S)
    BY <1>2, <1>4
  <2> QED  BY <2>1, Joined
<1>6. Len(a \o b) = Len(c)
  BY <1>1, <1>2, <1>3, <1>4, <1>5
<1>7. \A k \in 1 .. Len(c) : (a \o b)[k] = c[k]
  <2> TAKE k \in 1 .. Len(c)
  <2>1. CASE k = 1
    <3>1. (a \o b)[1] = R[i]
      BY <1>4, <1>5
    <3>2. c[1] = R[i + 1 - 1] /\ i + 1 - 1 = i
      BY <1>1, <1>3
    <3> QED  BY <2>1, <3>1, <3>2
  <2>2. CASE k # 1
    <3> DEFINE l == k - 1
    <3>1. l \in 1 .. Len(b) /\ l \in 1 .. n - m + 1 /\ 1 + l = k /\ k \in 1 .. n - i + 1
      BY <1>1, <1>2, <1>3, <2>2
    <3>2. m + l - 1 = i + k - 1
      BY <1>1, <1>3
    <3> HIDE DEF l
    <3>3. (a \o b)[k] = b[l] /\ b[l] = R[m + l - 1] /\ c[k] = R[i + k - 1]
      BY <1>2, <1>3, <1>4, <1>5, <3>1
    <3> QED  BY <3>2, <3>3
  <2> QED  BY <2>1, <2>2
<1>8. a \o b = c
  BY <1>3, <1>5, <1>6, <1>7, SeqEqual
<1> QED  BY <1>1, <1>8 DEF a, b, c, m, n

LEMMA ReadsBack ==
    ASSUME NEW data \in Seq(Nat), NEW R \in Seq(Seq(Nat)), NEW at, Holds(data, R, at),
           EndsAt(data, at[Len(R)])
    PROVE  ReadRawLog(data) = [frames |-> R, torn |-> at[Len(R)] # Len(data)]
<1> DEFINE n == Len(R)
           E == Entries(data)
           torn == at[n] # Len(data)
           Read(i) == [frames |-> SubSeq(R, i + 1, n), torn |-> torn]
           T == {k \in 0 .. n : E[at[n - k]] # Read(n - k)}
<1>1. /\ n \in Nat /\ at \in [0 .. n -> Nat] /\ at[0] = 0 /\ at[n] <= Len(data) /\ at[n] \in Nat
      /\ Len(data) \in Nat
  BY DEF Holds
<1>2. \A i \in 1 .. n : /\ at[i - 1] + LenSize <= Len(data) /\ at[i] <= Len(data)
                        /\ NextRecord(data, at[i - 1]) = at[i]
                        /\ SubSeq(data, at[i - 1] + LenSize + 1, at[i]) = R[i]
  BY DEF Holds
<1>3. \A pos \in 0 .. Len(data) : E[pos] = Look(data, E, pos)
  BY EntriesAre
<1>4. \A i \in 1 .. n : <<R[i]>> \o SubSeq(R, i + 1, n) = SubSeq(R, i, n)
  BY FirstAndRest
<1>5. SubSeq(R, n + 1, n) = <<>> /\ SubSeq(R, 1, n) = R
  <2>1. SubSeq(R, n + 1, n) = <<>>
    BY <1>1
  <2> DEFINE w == SubSeq(R, 1, n)
  <2>2. w \in Seq(Seq(Nat)) /\ Len(w) = n /\ \A i \in 1 .. n : w[i] = R[i]
    BY <1>1, Prefix
  <2> HIDE DEF w
  <2>3. w = R
    BY <2>2, SeqEqual
  <2> QED  BY <2>1, <2>3 DEF w
<1> HIDE DEF E, n, torn
<1>6. T = {}
  <2> SUFFICES ASSUME T # {} PROVE FALSE
    OBVIOUS
  <2>1. PICK k \in T : \A m \in T : k <= m
    <3>1. T \in SUBSET Nat
      BY <1>1
    <3> HIDE DEF T
    <3> QED  BY <3>1, SmallestNumber
  <2> DEFINE i == n - k
             pos == at[i]
  <2>2. k \in 0 .. n /\ i \in 0 .. n /\ E[pos] # Read(i)
    BY <1>1, <2>1
  <2>3. CASE k = 0
    <3>1. i = n /\ pos = at[n] /\ pos \in 0 .. Len(data)
      BY <1>1, <2>3
    <3>2. Look(data, E, pos) = [frames |-> <<>>, torn |-> torn]
      <4>1. CASE pos + LenSize > Len(data)
        BY <3>1, <4>1 DEF Look, torn
      <4>2. CASE ~(pos + LenSize > Len(data))
        <5>1. pos # Len(data) /\ NextRecord(data, pos) > Len(data)
          BY <3>1, <4>2 DEF EndsAt, n
        <5> QED  BY <3>1, <4>2, <5>1 DEF Look, torn
      <4> QED  BY <4>1, <4>2
    <3>3. Read(i) = [frames |-> <<>>, torn |-> torn]
      BY <1>5, <3>1
    <3> QED  BY <1>3, <2>2, <3>1, <3>2, <3>3
  <2>4. CASE k # 0
    <3> DEFINE j == i + 1
               next == at[j]
    <3>1. /\ j \in 1 .. n /\ j - 1 = i /\ k - 1 \in 0 .. n /\ n - (k - 1) = j
          /\ i + 1 = j /\ j \in 0 .. n /\ ~(k <= k - 1)
      BY <1>1, <2>2, <2>4
    <3>0. k - 1 \notin T
      <4> HIDE DEF T
      <4> QED  BY <2>1, <3>1
    <3>2. E[next] = Read(j)
      BY <3>0, <3>1
    <3>3. /\ pos \in Nat /\ next \in Nat /\ pos + LenSize <= Len(data) /\ next <= Len(data)
          /\ NextRecord(data, pos) = next /\ SubSeq(data, pos + LenSize + 1, next) = R[j]
      BY <1>1, <1>2, <2>2, <3>1
    <3> HIDE DEF T
    <3> HIDE DEF pos, next
    <3>4. pos \in 0 .. Len(data) /\ ~(pos + LenSize > Len(data)) /\ ~(next > Len(data))
      BY <1>1, <3>3 DEF LenSize
    <3>5. E[pos] = [frames |-> <<R[j]>> \o E[next].frames, torn |-> E[next].torn]
      BY <1>3, <3>3, <3>4 DEF Look
    <3>6. E[next].frames = SubSeq(R, j + 1, n) /\ E[next].torn = torn
      <4> DEFINE frames == SubSeq(R, j + 1, n)
      <4>1. E[next] = [frames |-> frames, torn |-> torn]
        BY <3>2
      <4> HIDE DEF frames, torn
      <4>2. E[next].frames = frames /\ E[next].torn = torn
        BY <4>1
      <4> QED  BY <4>2 DEF frames
    <3>7. <<R[j]>> \o SubSeq(R, j + 1, n) = SubSeq(R, j, n)
      BY <1>4, <3>1
    <3>8. E[pos] = [frames |-> SubSeq(R, j, n), torn |-> torn]
      BY <3>5, <3>6, <3>7
    <3> QED  BY <2>2, <3>1, <3>8 DEF pos
  <2> QED  BY <2>3, <2>4
<1>7. n \in 0 .. n /\ n \notin T /\ n - n = 0
  <2> HIDE DEF T
  <2> QED  BY <1>1, <1>6
<1>8. E[at[0]] = Read(0)
  BY <1>7
<1>9. E[0] = [frames |-> R, torn |-> torn]
  <2>1. 0 + 1 = 1
    OBVIOUS
  <2> QED  BY <1>1, <1>5, <1>8, <2>1
<1> QED  BY <1>9, ReadIsEntries DEF E, n, torn

-----------------------------------------------------------------------------
(***************************************************************************)
(* The file of a session: the records of the frames of the packets the     *)
(* logger took, one after the other.                                       *)
(***************************************************************************)

Coded(arch) == [i \in 1 .. Len(arch) |-> Encode(arch[i])]
Offset(arch, count) == SumFunction([i \in 1 .. count |-> LenSize + Len(Coded(arch)[i])])

\* Packets the encoders accept.
Good == {p \in Packet : Encodable(p)}

LEMMA CodedShape ==
    ASSUME NEW arch \in Seq(Good)
    PROVE  /\ Len(arch) \in Nat /\ Coded(arch) \in Seq(Seq(Nat)) /\ Len(Coded(arch)) = Len(arch)
           /\ \A i \in 1 .. Len(arch) :
                 /\ Coded(arch)[i] = Encode(arch[i]) /\ Coded(arch)[i] \in Seq(Nat)
                 /\ Len(Coded(arch)[i]) \in Nat /\ arch[i] \in Good
<1> DEFINE n == Len(arch)
<1>1. n \in Nat /\ \A i \in 1 .. n : arch[i] \in Good
  OBVIOUS
<1> HIDE DEF n
<1>2. \A i \in 1 .. n : Encode(arch[i]) \in Seq(Nat) /\ Len(Encode(arch[i])) \in Nat
  <2> TAKE i \in 1 .. n
  <2>1. arch[i] \in Packet /\ Encodable(arch[i])
    BY <1>1 DEF Good
  <2> QED  BY <2>1, RoundTrip
<1>3. Coded(arch) = [i \in 1 .. n |-> Encode(arch[i])]
  BY DEF Coded, n
<1>4. Coded(arch) \in Seq(Seq(Nat)) /\ Len(Coded(arch)) = n
  BY <1>1, <1>2, <1>3
<1>5. \A i \in 1 .. n : Coded(arch)[i] = Encode(arch[i])
  BY <1>3
<1> QED  BY <1>1, <1>2, <1>4, <1>5 DEF n

LEMMA Offsets ==
    ASSUME NEW arch \in Seq(Good)
    PROVE  /\ Offset(arch, 0) = 0
           /\ \A k \in 0 .. Len(arch) : Offset(arch, k) \in Nat
           /\ \A k \in 1 .. Len(arch) :
                 Offset(arch, k) = Offset(arch, k - 1) + LenSize + Len(Coded(arch)[k])
           /\ \A m, k \in 0 .. Len(arch) : m <= k => Offset(arch, m) <= Offset(arch, k)
<1> DEFINE n == Len(arch)
           size(i) == LenSize + Len(Coded(arch)[i])
           sizes(k) == [i \in 1 .. k |-> size(i)]
           at == [k \in 0 .. n |-> Offset(arch, k)]
<1>1. n \in Nat /\ \A i \in 1 .. n : size(i) \in Nat
  BY CodedShape DEF LenSize
<1>2. \A k : Offset(arch, k) = SumFunction(sizes(k))
  BY DEF Offset
<1> HIDE DEF n, size
<1>3. \A k \in 0 .. n : Offset(arch, k) \in Nat /\ (k = 0 => Offset(arch, k) = 0)
  <2> TAKE k \in 0 .. n
  <2>1. IsFiniteSet(1 .. k) /\ sizes(k) \in [1 .. k -> Nat] /\ k \in Nat
    <3>1. k \in Nat /\ 1 \in Int /\ k \in Int
      BY <1>1
    <3>2. IsFiniteSet(1 .. k)
      BY <3>1, FS_Interval
    <3>3. \A i \in 1 .. k : size(i) \in Nat
      BY <1>1
    <3> QED  BY <3>1, <3>2, <3>3
  <2>2. k = 0 => \A i \in 1 .. k : sizes(k)[i] = 0
    OBVIOUS
  <2> DEFINE f == sizes(k)
             S == 1 .. k
  <2>3. IsFiniteSet(S) /\ f \in [S -> Nat] /\ (k = 0 => \A i \in S : f[i] = 0)
    BY <2>1, <2>2
  <2> HIDE DEF f, S
  <2>4. SumFunction(f) \in Nat /\ (k = 0 => SumFunction(f) = 0)
    BY <2>3, SumType
  <2> QED  BY <1>2, <2>4 DEF f
<1>4. \A k \in 1 .. n : Offset(arch, k) = Offset(arch, k - 1) + size(k)
  <2> TAKE k \in 1 .. n
  <2> DEFINE j == k - 1
             f == sizes(j)
             g == sizes(j + 1)
  <2>1. j \in Nat /\ j + 1 = k /\ j + 1 <= n
    BY <1>1
  <2> HIDE DEF j
  <2>2. f \in [1 .. j -> Nat] /\ g \in [1 .. j + 1 -> Nat] /\ \A i \in 1 .. j : g[i] = f[i]
    BY <1>1, <2>1
  <2>3. g[j + 1] = size(k)
    BY <2>1
  <2> HIDE DEF f, g
  <2>4. SumFunction(g) = SumFunction(f) + g[j + 1]
    BY <2>1, <2>2, SumAppend
  <2>5. Offset(arch, k) = Offset(arch, j) + size(k)
    BY <1>2, <2>1, <2>3, <2>4 DEF f, g
  <2> QED  BY <2>5 DEF j
<1>5. \A m, k \in 0 .. n : m <= k => at[m] <= at[k]
  <2>1. at \in [0 .. n -> Nat]
    BY <1>3
  <2>2. \A k \in 1 .. n : at[k - 1] <= at[k]
    <3> TAKE k \in 1 .. n
    <3>1. k \in 0 .. n /\ k - 1 \in 0 .. n
      BY <1>1
    <3>2. Offset(arch, k) = Offset(arch, k - 1) + size(k) /\ size(k) \in Nat
          /\ Offset(arch, k - 1) \in Nat
      BY <1>1, <1>3, <1>4, <3>1
    <3>3. at[k] = Offset(arch, k) /\ at[k - 1] = Offset(arch, k - 1)
      BY <3>1
    <3> HIDE DEF at
    <3> QED  BY <3>2, <3>3
  <2> HIDE DEF at
  <2> QED  BY <1>1, <2>1, <2>2, Rises
<1>6. \A k \in 0 .. n : at[k] = Offset(arch, k)
  OBVIOUS
<1>7. \A m, k \in 0 .. n : m <= k => Offset(arch, m) <= Offset(arch, k)
  <2> HIDE DEF at
  <2> QED  BY <1>5, <1>6
<1>8. Offset(arch, 0) = 0
  <2>1. 0 \in 0 .. n
    BY <1>1
  <2> QED  BY <1>3, <2>1
<1>9. \A k \in 1 .. n : Offset(arch, k) = Offset(arch, k - 1) + LenSize + Len(Coded(arch)[k])
  <2> TAKE k \in 1 .. n
  <2>1. k \in 0 .. n /\ k - 1 \in 0 .. n
    BY <1>1
  <2>2. Len(Coded(arch)[k]) \in Nat
    BY CodedShape DEF n
  <2>3. Offset(arch, k) = Offset(arch, k - 1) + size(k) /\ Offset(arch, k - 1) \in Nat
    BY <1>3, <1>4, <2>1
  <2>4. size(k) = LenSize + Len(Coded(arch)[k])
    BY DEF size
  <2> DEFINE length == Len(Coded(arch)[k])
             before == Offset(arch, k - 1)
  <2>5. length \in Nat /\ before \in Nat /\ Offset(arch, k) = before + (LenSize + length)
    BY <2>2, <2>3, <2>4
  <2> HIDE DEF length, before
  <2>6. Offset(arch, k) = before + LenSize + length
    BY <2>5 DEF LenSize
  <2> QED  BY <2>6 DEF length, before
<1>10. \A k \in 0 .. n : Offset(arch, k) \in Nat
  BY <1>3
<1> QED  BY <1>7, <1>8, <1>9, <1>10 DEF n

\* One packet more: the frames and the offsets of those before are what they were.
LEMMA OneMorePacket ==
    ASSUME NEW arch \in Seq(Good), NEW p \in Good
    PROVE  /\ Append(arch, p) \in Seq(Good) /\ Len(Append(arch, p)) = Len(arch) + 1
           /\ \A i \in 1 .. Len(arch) : Coded(Append(arch, p))[i] = Coded(arch)[i]
           /\ Coded(Append(arch, p))[Len(arch) + 1] = Encode(p)
           /\ \A k \in 0 .. Len(arch) : Offset(Append(arch, p), k) = Offset(arch, k)
           /\ \A i \in 1 .. Len(arch) : Append(arch, p)[i] = arch[i]
           /\ Append(arch, p)[Len(arch) + 1] = p
<1> DEFINE n == Len(arch)
           more == Append(arch, p)
<1>1. /\ n \in Nat /\ more \in Seq(Good) /\ Len(more) = n + 1
      /\ \A i \in 1 .. n : more[i] = arch[i]
      /\ more[n + 1] = p
  BY AppendProperties
<1> HIDE DEF more
<1>2. \A i \in 1 .. n + 1 : Coded(more)[i] = Encode(more[i])
  BY <1>1, CodedShape
<1>3. \A i \in 1 .. n : Coded(arch)[i] = Encode(arch[i])
  BY CodedShape
<1> HIDE DEF n
<1>4. \A i \in 1 .. n : Coded(more)[i] = Coded(arch)[i]
  <2> TAKE i \in 1 .. n
  <2>1. i \in 1 .. n + 1
    BY <1>1
  <2> QED  BY <1>1, <1>2, <1>3, <2>1
<1>5. n + 1 \in 1 .. n + 1
  BY <1>1
<1>6. Coded(more)[n + 1] = Encode(p)
  BY <1>1, <1>2, <1>5
<1>7. \A k \in 0 .. n : Offset(more, k) = Offset(arch, k)
  <2> TAKE k \in 0 .. n
  <2>1. \A i \in 1 .. k : Coded(more)[i] = Coded(arch)[i]
    BY <1>1, <1>4
  <2>2. [i \in 1 .. k |-> LenSize + Len(Coded(more)[i])]
           = [i \in 1 .. k |-> LenSize + Len(Coded(arch)[i])]
    BY <2>1
  <2> QED  BY <2>2 DEF Offset
<1> QED  BY <1>1, <1>4, <1>6, <1>7 DEF n, more

LEMMA RecordShape ==
    ASSUME NEW frame \in Seq(Nat)
    PROVE  /\ Record(frame) \in Seq(Nat) /\ Len(Record(frame)) = LenSize + Len(frame)
           /\ Len(frame) \in Nat
           /\ Record(frame)[1] + 256 * Record(frame)[2] = Len(frame)
           /\ \A k \in 1 .. Len(frame) : Record(frame)[LenSize + k] = frame[k]
<1> DEFINE n == Len(frame)
           pack == Pack(n)
           record == Record(frame)
<1>1. n \in Nat /\ n \in Int /\ 256 \in Nat \ {0}
  OBVIOUS
<1> HIDE DEF n
<1>2. n \div 256 \in Int /\ n % 256 \in 0 .. 255 /\ n = (n \div 256) * 256 + (n % 256)
  <2>1. 256 - 1 = 255
    OBVIOUS
  <2> QED  BY <1>1, <2>1, Divide
<1>3. n \div 256 \in Nat /\ n % 256 \in Nat
  <2> DEFINE high == n \div 256
             low == n % 256
  <2>1. high \in Int /\ low \in 0 .. 255 /\ n = high * 256 + low
    BY <1>2
  <2> HIDE DEF high, low
  <2>2. high \in Nat /\ low \in Nat
    BY <1>1, <2>1
  <2> QED  BY <2>2 DEF high, low
<1>4. /\ pack \in Seq(Nat) /\ Len(pack) = 2
      /\ pack[1] = n % 256 /\ pack[2] = n \div 256
  <2> DEFINE high == n \div 256
             low == n % 256
  <2>1. high \in Nat /\ low \in Nat /\ pack = <<low, high>>
    BY <1>3 DEF Pack
  <2> HIDE DEF high, low, pack
  <2>2. pack \in Seq(Nat) /\ Len(pack) = 2 /\ pack[1] = low /\ pack[2] = high
    BY <2>1
  <2> QED  BY <2>2 DEF high, low
<1>5. record = pack \o frame
  BY DEF Record, n
<1> HIDE DEF pack, record
<1>6. pack \in Seq(Nat) /\ frame \in Seq(Nat)
  BY <1>4
<1>7. record \in Seq(Nat) /\ Len(record) = Len(pack) + Len(frame)
  BY <1>5, <1>6, Joined
<1>8. \A k \in 1 .. Len(pack) : record[k] = pack[k]
  BY <1>5, <1>6, Joined
<1>9. \A k \in 1 .. Len(frame) : record[Len(pack) + k] = frame[k]
  BY <1>5, <1>6, Joined
<1>10. record[1] = n % 256 /\ record[2] = n \div 256
  <2>1. 1 \in 1 .. Len(pack) /\ 2 \in 1 .. Len(pack)
    BY <1>4
  <2> QED  BY <1>4, <1>8, <2>1
<1>11. record[1] + 256 * record[2] = n
  <2> DEFINE high == n \div 256
             low == n % 256
  <2>1. n = high * 256 + low /\ high \in Nat /\ low \in Nat
    BY <1>2, <1>3
  <2>2. record[1] = low /\ record[2] = high
    BY <1>10
  <2> HIDE DEF high, low
  <2> QED  BY <2>1, <2>2
<1> QED  BY <1>1, <1>4, <1>7, <1>9, <1>11 DEF record, n, LenSize

\* The file holds the record of each packet's frame at its offset, and nothing else.
Filed(file, arch) ==
    /\ file \in Seq(Nat) /\ Len(file) = Offset(arch, Len(arch))
    /\ \A i \in 1 .. Len(arch) : \A k \in 1 .. LenSize + Len(Coded(arch)[i]) :
          file[Offset(arch, i - 1) + k] = Record(Coded(arch)[i])[k]

LEMMA FiledAppend ==
    ASSUME NEW arch \in Seq(Good), NEW file, Filed(file, arch), NEW p \in Good
    PROVE  Filed(file \o Record(Encode(p)), Append(arch, p))
<1> DEFINE n == Len(arch)
           more == Append(arch, p)
           frame == Encode(p)
           record == Record(frame)
           longer == file \o record
           size(i) == LenSize + Len(Coded(arch)[i])
<1>1. /\ n \in Nat /\ more \in Seq(Good) /\ Len(more) = n + 1
      /\ \A i \in 1 .. n : Coded(more)[i] = Coded(arch)[i]
      /\ Coded(more)[n + 1] = frame
      /\ \A k \in 0 .. n : Offset(more, k) = Offset(arch, k)
  BY OneMorePacket, CodedShape
<1>2. frame \in Seq(Nat)
  BY RoundTrip DEF Good
<1> HIDE DEF more, frame
<1>3. record \in Seq(Nat) /\ Len(record) = LenSize + Len(frame) /\ Len(frame) \in Nat
  BY <1>2, RecordShape
<1> HIDE DEF record
<1>4. /\ file \in Seq(Nat) /\ Len(file) = Offset(arch, n) /\ Len(file) \in Nat
      /\ \A i \in 1 .. n : \A k \in 1 .. size(i) :
            file[Offset(arch, i - 1) + k] = Record(Coded(arch)[i])[k]
  BY DEF Filed
<1>5. longer \in Seq(Nat) /\ Len(longer) = Len(file) + Len(record)
  BY <1>3, <1>4, Joined
<1>6. \A k \in 1 .. Len(file) : longer[k] = file[k]
  BY <1>3, <1>4, Joined
<1>7. \A k \in 1 .. Len(record) : longer[Len(file) + k] = record[k]
  BY <1>3, <1>4, Joined
<1> HIDE DEF n, longer, size
<1>8. Offset(more, n + 1) = Offset(arch, n) + LenSize + Len(frame)
  <2>1. n + 1 \in 1 .. Len(more) /\ n + 1 - 1 = n /\ n \in 0 .. n
    BY <1>1
  <2>2. Offset(more, n + 1) = Offset(more, n + 1 - 1) + LenSize + Len(Coded(more)[n + 1])
    BY <1>1, <2>1, Offsets
  <2> QED  BY <1>1, <2>1, <2>2
<1>9. Len(longer) = Offset(more, Len(more))
  <2> DEFINE before == Len(file)
             length == Len(frame)
  <2>1. before \in Nat /\ length \in Nat /\ Len(longer) = before + (LenSize + length)
        /\ Offset(more, n + 1) = before + LenSize + length
    BY <1>3, <1>4, <1>5, <1>8
  <2> HIDE DEF before, length
  <2> QED  BY <1>1, <2>1 DEF LenSize
<1>10. ASSUME NEW i \in 1 .. n + 1, NEW k \in 1 .. LenSize + Len(Coded(more)[i])
       PROVE  longer[Offset(more, i - 1) + k] = Record(Coded(more)[i])[k]
  <2>1. CASE i = n + 1
    <3>1. i - 1 = n /\ n \in 0 .. n
      BY <1>1, <2>1
    <3>2. Offset(more, i - 1) = Len(file)
      BY <1>1, <1>4, <3>1
    <3>3. Coded(more)[i] = frame
      BY <1>1, <2>1
    <3>4. k \in 1 .. Len(record)
      BY <1>3, <3>3
    <3> QED  BY <1>7, <3>2, <3>3, <3>4 DEF record
  <2>2. CASE i # n + 1
    <3>1. i \in 1 .. n /\ i - 1 \in 0 .. n /\ i \in 0 .. n /\ n \in 0 .. n /\ i <= n
      BY <1>1, <2>2
    <3>2. Coded(more)[i] = Coded(arch)[i] /\ Offset(more, i - 1) = Offset(arch, i - 1)
      BY <1>1, <3>1
    <3> DEFINE before == Offset(arch, i - 1)
               length == Len(Coded(arch)[i])
    <3>3. k \in 1 .. LenSize + length
      BY <3>2
    <3>4. /\ before \in Nat /\ length \in Nat /\ Offset(arch, i) = before + LenSize + length
          /\ Offset(arch, i) <= Len(file) /\ Offset(arch, i) \in Nat
      <4>1. before \in Nat /\ Offset(arch, i) \in Nat
        BY <3>1, Offsets DEF n
      <4>2. Offset(arch, i) <= Offset(arch, n)
        BY <3>1, Offsets DEF n
      <4>3. Offset(arch, i) = before + LenSize + length
        BY <3>1, Offsets DEF n
      <4>4. length \in Nat
        BY <3>1, CodedShape DEF n
      <4> QED  BY <1>4, <4>1, <4>2, <4>3, <4>4
    <3>5. file[before + k] = Record(Coded(arch)[i])[k]
      BY <1>4, <3>1, <3>3 DEF size
    <3> HIDE DEF before, length
    <3>6. before + k \in 1 .. Len(file)
      BY <1>4, <3>3, <3>4 DEF LenSize
    <3>7. longer[before + k] = file[before + k]
      BY <1>6, <3>6
    <3> QED  BY <3>2, <3>5, <3>7 DEF before
  <2> QED  BY <2>1, <2>2
<1>11. Filed(longer, more)
  BY <1>1, <1>5, <1>9, <1>10 DEF Filed
<1> QED  BY <1>11 DEF longer, more, record, frame

\* What reading the beginning of a file finds at the offset of a packet.
LEMMA RecordRead ==
    ASSUME NEW arch \in Seq(Good), NEW file, Filed(file, arch), NEW kept \in 0 .. Len(file),
           NEW i \in 1 .. Len(arch), Offset(arch, i - 1) + LenSize <= kept
    PROVE  /\ NextRecord(SubSeq(file, 1, kept), Offset(arch, i - 1)) = Offset(arch, i)
           /\ Offset(arch, i) <= kept =>
                 SubSeq(SubSeq(file, 1, kept), Offset(arch, i - 1) + LenSize + 1, Offset(arch, i))
                    = Coded(arch)[i]
<1> DEFINE data == SubSeq(file, 1, kept)
           frame == Coded(arch)[i]
           from == Offset(arch, i - 1)
           to == Offset(arch, i)
           length == Len(frame)
           record == Record(frame)
<1>1. /\ file \in Seq(Nat) /\ Len(file) \in Nat /\ kept \in Nat
      /\ \A k \in 1 .. LenSize + length : file[from + k] = record[k]
  BY DEF Filed
<1>2. i \in 0 .. Len(arch) /\ i - 1 \in 0 .. Len(arch)
  BY CodedShape
<1>3. from \in Nat /\ to \in Nat /\ to = from + LenSize + length
  BY <1>2, Offsets
<1>4. frame \in Seq(Nat) /\ length \in Nat
  BY CodedShape
<1>5. data \in Seq(Nat) /\ Len(data) = kept /\ \A k \in 1 .. kept : data[k] = file[k]
  BY <1>1, Prefix
<1> HIDE DEF data, frame, from, to
<1>6. /\ record[1] + 256 * record[2] = length
      /\ \A k \in 1 .. length : record[LenSize + k] = frame[k]
  BY <1>4, RecordShape
<1> HIDE DEF record
<1>7. data[from + 1] = record[1] /\ data[from + 2] = record[2]
  <2>1. from + LenSize <= kept
    BY DEF from
  <2> HIDE DEF length
  <2>2. /\ from + 1 \in 1 .. kept /\ from + 2 \in 1 .. kept
        /\ 1 \in 1 .. LenSize + length /\ 2 \in 1 .. LenSize + length
    BY <1>1, <1>3, <1>4, <2>1 DEF LenSize
  <2>3. data[from + 1] = file[from + 1] /\ data[from + 2] = file[from + 2]
    BY <1>5, <2>2
  <2>4. file[from + 1] = record[1] /\ file[from + 2] = record[2]
    BY <1>1, <2>2
  <2> QED  BY <2>3, <2>4
<1>8. NextRecord(data, from) = to
  <2>1. NextRecord(data, from) = from + LenSize + length
    BY <1>6, <1>7 DEF NextRecord, Unpack
  <2> QED  BY <1>3, <2>1
<1>9. ASSUME to <= kept PROVE SubSeq(data, from + LenSize + 1, to) = frame
  <2> DEFINE m == from + LenSize + 1
             w == SubSeq(data, m, to)
  <2>1. /\ m \in Nat \ {0} /\ m <= to + 1 /\ to - m + 1 = length
        /\ \A k \in 1 .. length : /\ m + k - 1 = from + (LenSize + k)
                                  /\ m + k - 1 \in 1 .. kept
                                  /\ LenSize + k \in 1 .. LenSize + length
    <3> HIDE DEF length
    <3> QED  BY <1>1, <1>3, <1>4, <1>9 DEF LenSize
  <2> HIDE DEF m
  <2>2. w \in Seq(Nat) /\ Len(w) = to - m + 1 /\ \A k \in 1 .. to - m + 1 : w[k] = data[m + k - 1]
    <3>1. /\ data \in Seq(Nat) /\ m \in Nat \ {0} /\ to \in Nat /\ to <= Len(data)
          /\ m <= to + 1
      BY <1>3, <1>5, <1>9, <2>1
    <3> QED  BY <3>1, Slice, SMTT(30)
  <2> HIDE DEF w
  <2>3. \A k \in 1 .. length : w[k] = frame[k]
    <3> TAKE k \in 1 .. length
    <3> DEFINE l == m + k - 1
               j == LenSize + k
    <3>1. l = from + j /\ l \in 1 .. kept /\ j \in 1 .. LenSize + length
      BY <2>1
    <3>2. w[k] = data[l]
      BY <2>1, <2>2
    <3>3. record[j] = frame[k]
      BY <1>6
    <3> HIDE DEF l, j
    <3>4. data[l] = file[l] /\ file[from + j] = record[j]
      BY <1>1, <1>5, <3>1
    <3> QED  BY <3>1, <3>2, <3>3, <3>4
  <2>4. w = frame
    BY <1>4, <2>1, <2>2, <2>3, SeqEqual
  <2> QED  BY <2>4 DEF w, m
<1> QED  BY <1>8, <1>9 DEF data, from, to, frame

\* Whatever beginning of the file is left: the frames whose records are whole are read, in their
\* order, and an error says that one is cut.
LEMMA CutReads ==
    ASSUME NEW arch \in Seq(Good), NEW file, Filed(file, arch), NEW kept \in 0 .. Len(file)
    PROVE  \E count \in 0 .. Len(arch) :
              /\ ReadRawLog(SubSeq(file, 1, kept))
                    = [frames |-> SubSeq(Coded(arch), 1, count),
                       torn |-> Offset(arch, count) # kept]
              /\ Offset(arch, count) <= kept
              /\ count < Len(arch) => Offset(arch, count + 1) > kept
<1> DEFINE n == Len(arch)
           data == SubSeq(file, 1, kept)
           T == {k \in 0 .. n : k = n \/ Offset(arch, k + 1) > kept}
<1>1. /\ n \in Nat /\ kept \in Nat /\ file \in Seq(Nat) /\ Len(file) = Offset(arch, n)
      /\ kept <= Offset(arch, n)
  BY CodedShape DEF Filed
<1>2. data \in Seq(Nat) /\ Len(data) = kept
  BY <1>1, Prefix
<1>3. \A k \in 0 .. n : Offset(arch, k) \in Nat
  BY Offsets
<1>4. \A m, k \in 0 .. n : m <= k => Offset(arch, m) <= Offset(arch, k)
  BY Offsets
<1>5. Offset(arch, 0) = 0
  BY Offsets
<1>6. \A k \in 1 .. n : Offset(arch, k) = Offset(arch, k - 1) + LenSize + Len(Coded(arch)[k])
  BY Offsets
<1>7. \A k \in 1 .. n : Coded(arch)[k] \in Seq(Nat) /\ Len(Coded(arch)[k]) \in Nat
  BY CodedShape
<1>8. Coded(arch) \in Seq(Seq(Nat)) /\ Len(Coded(arch)) = n
  BY CodedShape
<1>9. \A k \in 1 .. n : Offset(arch, k - 1) + LenSize <= kept =>
         /\ NextRecord(data, Offset(arch, k - 1)) = Offset(arch, k)
         /\ Offset(arch, k) <= kept =>
               SubSeq(data, Offset(arch, k - 1) + LenSize + 1, Offset(arch, k)) = Coded(arch)[k]
  BY RecordRead
<1> HIDE DEF n, data
<1>10. PICK c \in T : \A k \in T : c <= k
  <2>1. T \in SUBSET Nat
    BY <1>1
  <2>2. n \in T
    BY <1>1
  <2> HIDE DEF T
  <2> QED  BY <2>1, <2>2, SmallestNumber
<1>11. c \in 0 .. n /\ c \in Nat /\ (c < n => Offset(arch, c + 1) > kept)
  BY <1>1, <1>10
<1>12. Offset(arch, c) <= kept
  <2>1. CASE c = 0
    BY <1>1, <1>5, <2>1
  <2>2. CASE c # 0
    <3>1. c - 1 \in 0 .. n /\ ~(c <= c - 1) /\ c - 1 + 1 = c /\ c - 1 # n
      BY <1>1, <1>11, <2>2
    <3>2. c - 1 \notin T
      <4> HIDE DEF T
      <4> QED  BY <1>10, <3>1
    <3>3. ~(Offset(arch, c) > kept)
      BY <3>1, <3>2
    <3> QED  BY <1>1, <1>3, <1>11, <3>3
  <2> QED  BY <2>1, <2>2
<1> HIDE DEF T
<1> DEFINE R == SubSeq(Coded(arch), 1, c)
           at == [k \in 0 .. c |-> Offset(arch, k)]
<1>13. R \in Seq(Seq(Nat)) /\ Len(R) = c /\ \A i \in 1 .. c : R[i] = Coded(arch)[i]
  BY <1>8, <1>11, Prefix
<1> HIDE DEF R
<1>14. \A k \in 0 .. c : at[k] = Offset(arch, k) /\ at[k] \in Nat /\ at[k] <= kept
  <2> TAKE k \in 0 .. c
  <2>1. k \in 0 .. n /\ c \in 0 .. n /\ k <= c
    BY <1>1, <1>11
  <2>2. Offset(arch, k) \in Nat /\ Offset(arch, c) \in Nat /\ Offset(arch, k) <= Offset(arch, c)
    BY <1>3, <1>4, <2>1
  <2> QED  BY <1>1, <1>12, <2>2
<1>15. at \in [0 .. c -> Nat]
  BY <1>3, <1>14
<1> HIDE DEF at
<1>16. Holds(data, R, at)
  <2>1. at[0] = 0 /\ at[c] <= kept
    <3>1. 0 \in 0 .. c /\ c \in 0 .. c
      BY <1>11
    <3> QED  BY <1>5, <1>14, <3>1
  <2>2. ASSUME NEW i \in 1 .. c
        PROVE  /\ at[i - 1] + LenSize <= kept /\ at[i] <= kept
               /\ NextRecord(data, at[i - 1]) = at[i]
               /\ SubSeq(data, at[i - 1] + LenSize + 1, at[i]) = R[i]
    <3>1. i \in 1 .. n /\ i \in 0 .. c /\ i - 1 \in 0 .. c
      BY <1>1, <1>11
    <3>2. at[i] = Offset(arch, i) /\ at[i - 1] = Offset(arch, i - 1)
          /\ at[i] \in Nat /\ at[i - 1] \in Nat /\ at[i] <= kept
      BY <1>14, <3>1
    <3> DEFINE length == Len(Coded(arch)[i])
               before == Offset(arch, i - 1)
               to == Offset(arch, i)
    <3>3. length \in Nat /\ to = before + LenSize + length
      BY <1>6, <1>7, <3>1
    <3> HIDE DEF length, before, to
    <3>4. before + LenSize <= to
      BY <3>2, <3>3 DEF LenSize, before
    <3>5. before + LenSize <= kept /\ to <= kept
      BY <1>1, <3>2, <3>4 DEF LenSize, before, to
    <3>6. NextRecord(data, before) = to /\ SubSeq(data, before + LenSize + 1, to) = Coded(arch)[i]
      BY <1>9, <3>1, <3>5 DEF before, to
    <3> QED  BY <1>13, <3>2, <3>5, <3>6 DEF before, to
  <2> QED  BY <1>2, <1>13, <1>15, <2>1, <2>2 DEF Holds
<1>17. EndsAt(data, at[Len(R)])
  <2>1. at[Len(R)] = Offset(arch, c) /\ Offset(arch, c) \in Nat
    <3>1. c \in 0 .. c
      BY <1>11
    <3> QED  BY <1>3, <1>11, <1>13, <1>14, <3>1
  <2>2. CASE c = n
    <3>1. Offset(arch, c) = kept
      BY <1>1, <1>12, <2>1, <2>2
    <3> QED  BY <1>1, <1>2, <2>1, <3>1 DEF EndsAt, LenSize
  <2>3. CASE c # n /\ Offset(arch, c) + LenSize <= kept
    <3> DEFINE d == c + 1
    <3>1. d \in 1 .. n /\ d - 1 = c /\ Offset(arch, d) > kept
      BY <1>1, <1>11, <2>3
    <3> HIDE DEF d
    <3>2. NextRecord(data, Offset(arch, c)) = Offset(arch, d)
      BY <1>9, <2>3, <3>1
    <3>3. Offset(arch, c) # kept
      BY <1>1, <2>1, <2>3 DEF LenSize
    <3> QED  BY <1>2, <2>1, <3>1, <3>2, <3>3 DEF EndsAt
  <2>4. CASE Offset(arch, c) + LenSize > kept
    BY <1>2, <2>1, <2>4 DEF EndsAt
  <2>5. Offset(arch, c) + LenSize <= kept \/ Offset(arch, c) + LenSize > kept
    BY <1>1, <2>1 DEF LenSize
  <2> QED  BY <2>2, <2>3, <2>4, <2>5
<1>18. ReadRawLog(data) = [frames |-> R, torn |-> at[Len(R)] # Len(data)]
  BY <1>2, <1>13, <1>16, <1>17, ReadsBack
<1>19. at[Len(R)] = Offset(arch, c)
  <2>1. c \in 0 .. c
    BY <1>11
  <2> QED  BY <1>13, <1>14, <2>1
<1>20. ReadRawLog(data) = [frames |-> R, torn |-> Offset(arch, c) # kept]
  BY <1>2, <1>18, <1>19
<1> QED  BY <1>11, <1>12, <1>20 DEF n, data, R

\* The whole file is read as all its frames.
LEMMA AllReads ==
    ASSUME NEW arch \in Seq(Good), NEW file, Filed(file, arch)
    PROVE  ReadRawLog(file) = [frames |-> Coded(arch), torn |-> FALSE]
<1> DEFINE n == Len(arch)
           kept == Len(file)
<1>1. n \in Nat /\ file \in Seq(Nat) /\ kept = Offset(arch, n) /\ kept \in Nat
  BY CodedShape DEF Filed
<1>2. kept \in 0 .. Len(file) /\ n \in 0 .. n
  BY <1>1
<1> HIDE DEF kept
<1>3. SubSeq(file, 1, kept) = file
  <2> DEFINE w == SubSeq(file, 1, kept)
  <2>1. w \in Seq(Nat) /\ Len(w) = kept /\ \A k \in 1 .. kept : w[k] = file[k]
    BY <1>1, <1>2, Prefix
  <2> HIDE DEF w
  <2>2. Len(file) = kept
    BY DEF kept
  <2>3. w = file
    BY <1>1, <2>1, <2>2, SeqEqual
  <2> QED  BY <2>3 DEF w
<1>4. PICK c \in 0 .. n :
         /\ ReadRawLog(SubSeq(file, 1, kept))
               = [frames |-> SubSeq(Coded(arch), 1, c), torn |-> Offset(arch, c) # kept]
         /\ c < n => Offset(arch, c + 1) > kept
  BY <1>2, CutReads
<1>5. \A k \in 0 .. n : Offset(arch, k) \in Nat /\ Offset(arch, k) <= Offset(arch, n)
  <2>1. \A k \in 0 .. n : k <= n
    BY <1>1
  <2> QED  BY <1>2, <2>1, Offsets
<1>6. c = n
  <2> SUFFICES ASSUME c # n PROVE FALSE
    OBVIOUS
  <2>1. c + 1 \in 0 .. n /\ c < n
    BY <1>1
  <2>2. Offset(arch, c + 1) \in Nat /\ Offset(arch, c + 1) <= kept /\ Offset(arch, c + 1) > kept
    BY <1>1, <1>4, <1>5, <2>1
  <2> QED  BY <1>1, <2>2
<1>7. SubSeq(Coded(arch), 1, n) = Coded(arch)
  <2> DEFINE C == Coded(arch)
             w == SubSeq(C, 1, n)
  <2>1. C \in Seq(Seq(Nat)) /\ Len(C) = n
    BY CodedShape
  <2> HIDE DEF C
  <2>2. w \in Seq(Seq(Nat)) /\ Len(w) = n /\ \A k \in 1 .. n : w[k] = C[k]
    BY <1>2, <2>1, Prefix
  <2> HIDE DEF w
  <2>3. w = C
    BY <2>1, <2>2, SeqEqual
  <2> QED  BY <2>3 DEF w, C
<1>8. (Offset(arch, c) # kept) = FALSE
  BY <1>1, <1>6
<1> QED  BY <1>3, <1>4, <1>6, <1>7, <1>8

-----------------------------------------------------------------------------
(***************************************************************************)
(* The records of a session and of its replay: _track reads neither the    *)
(* clock nor the time a node was last seen.                                *)
(***************************************************************************)

LEMMA RememberType ==
    ASSUME NEW q \in Seq(Seqs), NEW s \in Seqs
    PROVE  Remember(q, s) \in Seq(Seqs)
<1> DEFINE longer == Append(q, s)
<1>1. longer \in Seq(Seqs) /\ Len(longer) = Len(q) + 1 /\ Len(q) \in Nat
  BY AppendProperties
<1>2. Remember(q, s) = longer \/ Remember(q, s) = Tail(longer)
  BY DEF Remember
<1> HIDE DEF longer
<1>3. Tail(longer) \in Seq(Seqs)
  <2>1. longer # <<>>
    BY <1>1
  <2> QED  BY <1>1, <2>1, HeadTailProperties
<1> QED  BY <1>1, <1>2, <1>3

LEMMA DeltaType ==
    ASSUME NEW a \in Seqs, NEW b \in Seqs
    PROVE  SeqDelta(a, b) \in Int
<1> DEFINE half == SeqHalf
           x == a - b + half
<1>1. SeqMod \in Nat \ {0} /\ half \in Int
  BY SeqModAssumption DEF SeqHalf
<1>2. x \in Int
  <2> HIDE DEF half
  <2> QED  BY <1>1 DEF Seqs
<1> HIDE DEF x, half
<1>3. x % SeqMod \in 0 .. SeqMod - 1
  BY <1>1, <1>2, Divide
<1>4. SeqDelta(a, b) = (x % SeqMod) - half
  BY DEF SeqDelta, x, half
<1> DEFINE r == x % SeqMod
<1>5. r \in Int
  BY <1>1, <1>3
<1> HIDE DEF r
<1> QED  BY <1>1, <1>4, <1>5 DEF r

LEMMA HearIs ==
    ASSUME NEW ns \in NodeStats, NEW p, p.samples \in Nat, NEW t \in Nat
    PROVE  /\ Hear(ns, p, t) \in NodeStats /\ Hear(ns, p, t).last_seen = t
           /\ Hear(ns, p, t).last_seq = ns.last_seq /\ Hear(ns, p, t).seen_q = ns.seen_q
<1> DEFINE beats == IF p.heartbeat THEN ns.heartbeats + 1 ELSE ns.heartbeats
           count == ns.packets + 1
           sum == ns.samples + p.samples
<1>1. count \in Nat /\ sum \in Nat /\ beats \in Nat
  BY DEF NodeStats
<1>2. Hear(ns, p, t) = [ns EXCEPT !.packets = count, !.samples = sum, !.heartbeats = beats,
                                  !.last_seen = t]
  BY DEF Hear
<1> HIDE DEF beats, count, sum
<1>3. Hear(ns, p, t) \in NodeStats
  BY <1>1, <1>2 DEF NodeStats
<1> QED  BY <1>2, <1>3 DEF NodeStats

LEMMA TrackType ==
    ASSUME NEW ns \in NodeStats, NEW p, p.seq \in Seqs, p.samples \in Nat, NEW t \in Nat
    PROVE  Track(ns, p, t) \in NodeStats
<1> DEFINE h == Hear(ns, p, t)
           s == p.seq
           d == SeqDelta(s, ns.last_seq)
           w == Remember(h.seen_q, s)
<1>1. h \in NodeStats /\ h.last_seq = ns.last_seq
  BY HearIs
<1>2. Track(ns, p, t) = IF IsFirst(ns) THEN TrackFirst(h, p)
                        ELSE IF IsDuplicate(ns, p) THEN TrackDuplicate(h)
                        ELSE IF IsForward(ns, p) THEN TrackForward(h, p)
                        ELSE TrackLate(h, p)
  BY DEF Track
<1> HIDE DEF h
<1>3. s \in Seqs /\ h.seen_q \in Seq(Seqs) /\ h.lost \in Nat /\ h.duplicated \in Nat
      /\ h.reordered \in Nat
  BY <1>1 DEF NodeStats
<1>4. w \in Seq(Seqs)
  <2> HIDE DEF s
  <2> QED  BY <1>3, RememberType
<1>5. TrackFirst(h, p) \in NodeStats
  <2>1. TrackFirst(h, p) = [h EXCEPT !.first_seq = s, !.last_seq = s, !.seen_q = w]
    BY DEF TrackFirst
  <2> HIDE DEF s, w
  <2> QED  BY <1>1, <1>3, <1>4, <2>1 DEF NodeStats
<1>6. TrackDuplicate(h) \in NodeStats
  <2> DEFINE more == h.duplicated + 1
  <2>1. TrackDuplicate(h) = [h EXCEPT !.duplicated = more] /\ more \in Nat
    BY <1>3 DEF TrackDuplicate
  <2> HIDE DEF more
  <2> QED  BY <1>1, <2>1 DEF NodeStats
<1>7. ASSUME ~IsFirst(ns), IsForward(ns, p) PROVE TrackForward(h, p) \in NodeStats
  <2> DEFINE more == h.lost + d - 1
  <2>1. TrackForward(h, p) = [h EXCEPT !.lost = more, !.last_seq = s, !.seen_q = w]
    BY <1>1 DEF TrackForward
  <2>2. d \in Int /\ d > 0
    <3>1. d > 0
      BY <1>7 DEF IsForward
    <3>2. ns.last_seq \in Seqs
      <4>1. ns.last_seq \in Seqs \union {Never} /\ ~(ns.last_seq < 0)
        BY <1>7 DEF NodeStats, IsFirst
      <4> QED  BY <4>1 DEF Never
    <3>3. d \in Int
      <4> HIDE DEF s
      <4> QED  BY <1>3, <3>2, DeltaType
    <3> QED  BY <3>1, <3>3
  <2> HIDE DEF d
  <2>3. more \in Nat
    BY <1>3, <2>2
  <2> HIDE DEF s, w, more
  <2> QED  BY <1>1, <1>3, <1>4, <2>1, <2>3 DEF NodeStats
<1>8. TrackLate(h, p) \in NodeStats
  <2> DEFINE less == IF h.lost > 0 THEN h.lost - 1 ELSE h.lost
             late == h.reordered + 1
  <2>1. TrackLate(h, p) = [h EXCEPT !.reordered = late, !.lost = less, !.seen_q = w]
    BY DEF TrackLate
  <2>2. less \in Nat /\ late \in Nat
    BY <1>3
  <2> HIDE DEF w, less, late
  <2> QED  BY <1>1, <1>4, <2>1, <2>2 DEF NodeStats
<1> HIDE DEF s, d, w
<1> QED  BY <1>2, <1>5, <1>6, <1>7, <1>8

\* The same record, last heard at t.
At(ns, t) == [ns EXCEPT !.last_seen = t]

LEMMA AtIs ==
    ASSUME NEW ns \in NodeStats, NEW t \in Nat \union {Never}
    PROVE  /\ At(ns, t) \in NodeStats /\ At(ns, t).last_seen = t
           /\ At(ns, t).packets = ns.packets /\ At(ns, t).samples = ns.samples
           /\ At(ns, t).lost = ns.lost /\ At(ns, t).reordered = ns.reordered
           /\ At(ns, t).duplicated = ns.duplicated /\ At(ns, t).heartbeats = ns.heartbeats
           /\ At(ns, t).first_seq = ns.first_seq /\ At(ns, t).last_seq = ns.last_seq
           /\ At(ns, t).seen_q = ns.seen_q
BY DEF At, NodeStats

\* Records with the same fields are the same.
LEMMA SameRecord ==
    ASSUME NEW x \in NodeStats, NEW y \in NodeStats,
           x.packets = y.packets, x.samples = y.samples, x.lost = y.lost,
           x.reordered = y.reordered, x.duplicated = y.duplicated, x.heartbeats = y.heartbeats,
           x.first_seq = y.first_seq, x.last_seq = y.last_seq, x.last_seen = y.last_seen,
           x.seen_q = y.seen_q
    PROVE  x = y
BY DEF NodeStats

LEMMA TrackBlind ==
    ASSUME NEW y \in NodeStats, NEW s \in Nat \union {Never}, NEW p,
           p.seq \in Seqs, p.samples \in Nat, NEW t \in Nat, NEW u \in Nat
    PROVE  Track(At(y, s), p, t) = At(Track(y, p, u), t)
<1> DEFINE x == At(y, s)
           g == Hear(x, p, t)
           h == Hear(y, p, u)
<1>1. /\ x \in NodeStats /\ x.last_seq = y.last_seq /\ x.seen_q = y.seen_q
      /\ x.packets = y.packets /\ x.samples = y.samples /\ x.lost = y.lost
      /\ x.reordered = y.reordered /\ x.duplicated = y.duplicated /\ x.heartbeats = y.heartbeats
      /\ x.first_seq = y.first_seq
  BY AtIs
<1> HIDE DEF x
<1>2. h \in NodeStats /\ g \in NodeStats
  BY <1>1, HearIs
<1>3. g = At(h, t)
  <2>1. /\ At(h, t) \in NodeStats /\ At(h, t).last_seen = t
        /\ At(h, t).packets = h.packets /\ At(h, t).samples = h.samples
        /\ At(h, t).lost = h.lost /\ At(h, t).reordered = h.reordered
        /\ At(h, t).duplicated = h.duplicated /\ At(h, t).heartbeats = h.heartbeats
        /\ At(h, t).first_seq = h.first_seq /\ At(h, t).last_seq = h.last_seq
        /\ At(h, t).seen_q = h.seen_q
    <3> HIDE DEF h
    <3> QED  BY <1>2, AtIs
  <2>2. /\ g.packets = y.packets + 1 /\ g.samples = y.samples + p.samples
        /\ g.heartbeats = (IF p.heartbeat THEN y.heartbeats + 1 ELSE y.heartbeats)
        /\ g.last_seen = t /\ g.lost = y.lost /\ g.reordered = y.reordered
        /\ g.duplicated = y.duplicated /\ g.first_seq = y.first_seq
        /\ g.last_seq = y.last_seq /\ g.seen_q = y.seen_q
    BY <1>1 DEF Hear, NodeStats
  <2>3. /\ h.packets = y.packets + 1 /\ h.samples = y.samples + p.samples
        /\ h.heartbeats = (IF p.heartbeat THEN y.heartbeats + 1 ELSE y.heartbeats)
        /\ h.lost = y.lost /\ h.reordered = y.reordered
        /\ h.duplicated = y.duplicated /\ h.first_seq = y.first_seq
        /\ h.last_seq = y.last_seq /\ h.seen_q = y.seen_q
    BY DEF Hear, NodeStats
  <2> HIDE DEF g, h
  <2> DEFINE z == At(h, t)
  <2>4. z \in NodeStats /\ g.packets = z.packets /\ g.samples = z.samples /\ g.lost = z.lost
        /\ g.reordered = z.reordered /\ g.duplicated = z.duplicated
        /\ g.heartbeats = z.heartbeats /\ g.first_seq = z.first_seq /\ g.last_seq = z.last_seq
        /\ g.last_seen = z.last_seen /\ g.seen_q = z.seen_q
    BY <2>1, <2>2, <2>3
  <2> HIDE DEF z
  <2>5. g = z
    BY <1>2, <2>4, SameRecord
  <2> QED  BY <2>5 DEF z
<1>4. /\ IsFirst(x) <=> IsFirst(y)
      /\ IsDuplicate(x, p) <=> IsDuplicate(y, p)
      /\ IsForward(x, p) <=> IsForward(y, p)
  BY <1>1 DEF IsFirst, IsDuplicate, IsForward, Seen
<1>5. Track(x, p, t) = IF IsFirst(x) THEN TrackFirst(g, p)
                       ELSE IF IsDuplicate(x, p) THEN TrackDuplicate(g)
                       ELSE IF IsForward(x, p) THEN TrackForward(g, p)
                       ELSE TrackLate(g, p)
  BY DEF Track
<1>6. Track(y, p, u) = IF IsFirst(y) THEN TrackFirst(h, p)
                       ELSE IF IsDuplicate(y, p) THEN TrackDuplicate(h)
                       ELSE IF IsForward(y, p) THEN TrackForward(h, p)
                       ELSE TrackLate(h, p)
  BY DEF Track
<1> HIDE DEF g, h
<1>7. TrackFirst(At(h, t), p) = At(TrackFirst(h, p), t)
  BY <1>2 DEF TrackFirst, At, NodeStats
<1>8. TrackDuplicate(At(h, t)) = At(TrackDuplicate(h), t)
  BY <1>2 DEF TrackDuplicate, At, NodeStats
<1>9. TrackForward(At(h, t), p) = At(TrackForward(h, p), t)
  BY <1>2 DEF TrackForward, At, NodeStats
<1>10. TrackLate(At(h, t), p) = At(TrackLate(h, p), t)
  BY <1>2 DEF TrackLate, At, NodeStats
<1>11. Track(x, p, t) = At(Track(y, p, u), t)
  BY <1>3, <1>4, <1>5, <1>6, <1>7, <1>8, <1>9, <1>10
<1> QED  BY <1>11 DEF x

\* What a packet does to the record of node n, heard at no time in particular.
Heard(n, ns, p) ==
    LET q == TrackedPacket(p) IN IF q.node = n THEN Track(ns, q, 0) ELSE ns

\* The record of node n after the first `count` packets of arch.
After(arch, n, count) ==
    LET after[i \in 0 .. count] ==
            IF i = 0 THEN Unheard
            ELSE LET p == TrackedPacket(arch[i])
                 IN  IF p.node = n THEN Track(after[i - 1], p, 0) ELSE after[i - 1]
    IN  after[count]

LEMMA TrackedIs ==
    ASSUME NEW p \in Good
    PROVE  TrackedPacket(p).seq \in Seqs /\ TrackedPacket(p).samples \in Nat
<1>1. p.ident \in Bytes /\ p.sample_count \in Nat
  BY DEF Good, Packet, Bytes
<1>2. SeqNoOf(p.ident) \in Seqs
  BY <1>1, CaptureAssumption
<1> QED  BY <1>1, <1>2 DEF TrackedPacket

LEMMA HeardType ==
    ASSUME NEW n, NEW ns \in NodeStats, NEW p \in Good
    PROVE  Heard(n, ns, p) \in NodeStats
<1> DEFINE q == TrackedPacket(p)
<1>1. q.seq \in Seqs /\ q.samples \in Nat /\ 0 \in Nat
  BY TrackedIs
<1> HIDE DEF q
<1>2. Track(ns, q, 0) \in NodeStats
  BY <1>1, TrackType
<1> QED  BY <1>2 DEF Heard, q

LEMMA UnheardType == Unheard \in NodeStats
BY DEF Unheard, NodeStats

Recorded(g, arch, n) ==
    /\ g \in [0 .. Len(arch) -> NodeStats] /\ g[0] = Unheard
    /\ \A i \in 1 .. Len(arch) : g[i] = Heard(n, g[i - 1], arch[i])

LEMMA RecordedExists ==
    ASSUME NEW arch \in Seq(Good), NEW n
    PROVE  \E g : Recorded(g, arch, n)
<1> DEFINE N == Len(arch)
           step == [i \in 1 .. N |-> [ns \in NodeStats |-> Heard(n, ns, arch[i])]]
<1>1. N \in Nat /\ \A i \in 1 .. N : arch[i] \in Good
  OBVIOUS
<1> HIDE DEF N
<1>2. \A i \in 1 .. N, ns \in NodeStats : Heard(n, ns, arch[i]) \in NodeStats
  BY <1>1, HeardType
<1>3. step \in [1 .. N -> [NodeStats -> NodeStats]]
  BY <1>2
<1>4. \A i \in 1 .. N, ns \in NodeStats : step[i][ns] = Heard(n, ns, arch[i])
  OBVIOUS
<1> HIDE DEF step
<1>5. \E g \in [0 .. N -> NodeStats] : Recursion(g, Unheard, step, N)
  BY <1>1, <1>3, UnheardType, RecursionExists
<1>6. PICK g : g \in [0 .. N -> NodeStats] /\ Recursion(g, Unheard, step, N)
  BY <1>5
<1>7. g[0] = Unheard /\ \A i \in 1 .. N : g[i] = step[i][g[i - 1]]
  BY <1>6 DEF Recursion
<1>8. \A i \in 1 .. N : g[i] = Heard(n, g[i - 1], arch[i])
  <2> TAKE i \in 1 .. N
  <2>1. g[i - 1] \in NodeStats
    <3>1. i - 1 \in 0 .. N
      BY <1>1
    <3> QED  BY <1>6, <3>1
  <2> QED  BY <1>4, <1>7, <2>1
<1>9. Recorded(g, arch, n)
  BY <1>6, <1>7, <1>8 DEF Recorded, N
<1> QED  BY <1>9

LEMMA AfterValue ==
    ASSUME NEW arch \in Seq(Good), NEW n, NEW g, Recorded(g, arch, n), NEW c \in 0 .. Len(arch)
    PROVE  After(arch, n, c) = g[c]
<1> DEFINE N == Len(arch)
           Table(f) == [i \in 0 .. c |-> IF i = 0 THEN Unheard ELSE Heard(n, f[i - 1], arch[i])]
           after == CHOOSE f : f = Table(f)
           start == [i \in 0 .. c |-> g[i]]
           T == {i \in 0 .. c : after[i] # g[i]}
<1>1. N \in Nat /\ c \in Nat /\ c <= N
  OBVIOUS
<1>2. After(arch, n, c) = after[c]
  BY DEF After, Heard
<1>3. g[0] = Unheard /\ \A i \in 1 .. c : g[i] = Heard(n, g[i - 1], arch[i])
  <2>1. \A i \in 1 .. c : i \in 1 .. Len(arch)
    BY <1>1
  <2> QED  BY <2>1 DEF Recorded
<1> HIDE DEF N
<1>4. start = Table(start)
  <2>1. \A i \in 0 .. c : start[i] = Table(start)[i]
    <3> TAKE i \in 0 .. c
    <3>1. CASE i = 0
      BY <1>3, <3>1
    <3>2. CASE i # 0
      <4>1. i \in 1 .. c /\ i - 1 \in 0 .. c
        BY <1>1, <3>2
      <4>2. start[i] = g[i] /\ start[i - 1] = g[i - 1]
        BY <4>1
      <4>3. Table(start)[i] = Heard(n, start[i - 1], arch[i])
        BY <3>2
      <4> HIDE DEF start, Table
      <4> QED  BY <1>3, <4>1, <4>2, <4>3
    <3> QED  BY <3>1, <3>2
  <2> QED  BY <2>1
<1>5. after = Table(after)
  <2> HIDE DEF Table, start
  <2> QED  BY <1>4
<1> HIDE DEF after
<1>6. after[0] = Unheard /\ \A i \in 1 .. c : after[i] = Heard(n, after[i - 1], arch[i])
  <2>1. \A i \in 0 .. c : after[i] = IF i = 0 THEN Unheard ELSE Heard(n, after[i - 1], arch[i])
    BY <1>5
  <2>2. 0 \in 0 .. c /\ \A i \in 1 .. c : i \in 0 .. c /\ i # 0
    BY <1>1
  <2> QED  BY <2>1, <2>2
<1> HIDE DEF Table, start
<1>7. T = {}
  <2> SUFFICES ASSUME T # {} PROVE FALSE
    OBVIOUS
  <2>1. PICK i \in T : \A j \in T : i <= j
    <3>1. T \in SUBSET Nat
      BY <1>1
    <3> HIDE DEF T
    <3> QED  BY <3>1, SmallestNumber
  <2>2. i \in 1 .. c /\ i - 1 \in 0 .. c /\ ~(i <= i - 1)
    BY <1>1, <1>3, <1>6, <2>1
  <2>3. i - 1 \notin T
    <3> HIDE DEF T
    <3> QED  BY <2>1, <2>2
  <2>4. after[i - 1] = g[i - 1]
    BY <2>2, <2>3
  <2>5. after[i] = g[i]
    BY <1>3, <1>6, <2>2, <2>4
  <2> QED  BY <2>1, <2>5
<1>8. c \in 0 .. c
  BY <1>1
<1> QED  BY <1>2, <1>7, <1>8

LEMMA AfterIs ==
    ASSUME NEW arch \in Seq(Good), NEW n
    PROVE  /\ After(arch, n, 0) = Unheard
           /\ \A c \in 0 .. Len(arch) : After(arch, n, c) \in NodeStats
           /\ \A c \in 1 .. Len(arch) :
                 After(arch, n, c) = Heard(n, After(arch, n, c - 1), arch[c])
<1> DEFINE N == Len(arch)
<1>1. N \in Nat
  OBVIOUS
<1>2. PICK g : Recorded(g, arch, n)
  BY RecordedExists
<1>3. \A c \in 0 .. N : After(arch, n, c) = g[c]
  BY <1>2, AfterValue
<1>4. /\ g \in [0 .. N -> NodeStats] /\ g[0] = Unheard
      /\ \A i \in 1 .. N : g[i] = Heard(n, g[i - 1], arch[i])
  BY <1>2 DEF Recorded
<1> HIDE DEF N
<1>5. 0 \in 0 .. N /\ \A c \in 1 .. N : c \in 0 .. N /\ c - 1 \in 0 .. N
  BY <1>1
<1>6. \A c \in 0 .. N : g[c] \in NodeStats
  BY <1>4
<1>7. After(arch, n, 0) = Unheard
  BY <1>3, <1>4, <1>5
<1>8. \A c \in 0 .. N : After(arch, n, c) \in NodeStats
  BY <1>3, <1>6
<1>9. \A c \in 1 .. N : After(arch, n, c) = Heard(n, After(arch, n, c - 1), arch[c])
  BY <1>3, <1>4, <1>5
<1> QED  BY <1>7, <1>8, <1>9 DEF N

\* A packet more changes nothing before it.
LEMMA AfterMore ==
    ASSUME NEW arch \in Seq(Good), NEW p \in Good, NEW n
    PROVE  /\ \A c \in 0 .. Len(arch) : After(Append(arch, p), n, c) = After(arch, n, c)
           /\ After(Append(arch, p), n, Len(arch) + 1) = Heard(n, After(arch, n, Len(arch)), p)
<1> DEFINE N == Len(arch)
           more == Append(arch, p)
           T == {c \in 0 .. N : After(more, n, c) # After(arch, n, c)}
<1>1. /\ N \in Nat /\ more \in Seq(Good) /\ Len(more) = N + 1
      /\ \A i \in 1 .. N : more[i] = arch[i]
      /\ more[N + 1] = p
  BY AppendProperties
<1> HIDE DEF more
<1>2. /\ After(arch, n, 0) = Unheard
      /\ \A c \in 1 .. N : After(arch, n, c) = Heard(n, After(arch, n, c - 1), arch[c])
  BY AfterIs
<1>3. /\ After(more, n, 0) = Unheard
      /\ \A c \in 1 .. N + 1 : After(more, n, c) = Heard(n, After(more, n, c - 1), more[c])
  BY <1>1, AfterIs
<1> HIDE DEF N
<1>4. T = {}
  <2> SUFFICES ASSUME T # {} PROVE FALSE
    OBVIOUS
  <2>1. PICK c \in T : \A k \in T : c <= k
    <3>1. T \in SUBSET Nat
      BY <1>1
    <3> HIDE DEF T
    <3> QED  BY <3>1, SmallestNumber
  <2>2. c \in 1 .. N /\ c - 1 \in 0 .. N /\ ~(c <= c - 1) /\ c \in 1 .. N + 1
    BY <1>1, <1>2, <1>3, <2>1
  <2>3. c - 1 \notin T
    <3> HIDE DEF T
    <3> QED  BY <2>1, <2>2
  <2>4. After(more, n, c - 1) = After(arch, n, c - 1)
    BY <2>2, <2>3
  <2>5. After(more, n, c) = After(arch, n, c)
    BY <1>1, <1>2, <1>3, <2>2, <2>4
  <2> QED  BY <2>1, <2>5
<1>5. After(more, n, N) = After(arch, n, N)
  <2>1. N \in 0 .. N
    BY <1>1
  <2> QED  BY <1>4, <2>1
<1>6. After(more, n, N + 1) = Heard(n, After(arch, n, N), p)
  <2> DEFINE c == N + 1
  <2>1. c \in 1 .. N + 1 /\ c - 1 = N /\ more[c] = p
    BY <1>1
  <2> HIDE DEF c
  <2>2. After(more, n, c) = Heard(n, After(more, n, c - 1), more[c])
    BY <1>3, <2>1
  <2>3. After(more, n, c) = Heard(n, After(arch, n, N), p)
    BY <1>5, <2>1, <2>2
  <2> QED  BY <2>3 DEF c
<1>7. \A c \in 0 .. N : After(more, n, c) = After(arch, n, c)
  BY <1>4
<1> QED  BY <1>6, <1>7 DEF N, more

-----------------------------------------------------------------------------
\* What the session's own variables are; the file and the records are not needed.
Typed ==
    /\ pc \in Places /\ run \in RunType /\ past \in PastType
    /\ flight \in Seq(Datagram) /\ rcvbuf \in Seq(Datagram)
    /\ Len(rcvbuf) <= Capacity /\ overflowed \in Nat
    /\ totals \in [packets : Nat, samples : Nat]

\* Where the loop of run() is.
Placed ==
    /\ pc \in {"send", "collect"} => run.round <= Len(Rounds)
    /\ pc = "send" => run.turn <= Len(Rounds[run.round])
    /\ pc = "collect" => run.turn = 1
    /\ pc = "poll" => run.idle < IdleRounds

\* Of the first n rounds of the drain, the last `idle` were quiet.
CountsQuiet(rounds, n, idle) == idle <= n /\ \A i \in n - idle + 1 .. n : Quiet(rounds[i])

\* The drain counts the quiet rounds that are over; a round that began with a datagram in the
\* buffer will have read it when it ends, and the totals tell whether it brought a packet.
Waits ==
    /\ Running /\ pc # "poll" => CountsQuiet(past.rounds, Len(past.rounds), run.idle)
    /\ pc = "poll" =>
          LET n == Len(past.rounds)
          IN  /\ n > 0 /\ CountsQuiet(past.rounds, n - 1, run.idle)
              /\ run.before <= totals.packets
              /\ past.rounds[n].decoded => run.before < totals.packets
              /\ past.rounds[n].waited \/ past.rounds[n].decoded \/ past.rounds[n].spoiled
                    \/ rcvbuf # <<>>

Fits == \A r \in 1 .. Len(Rounds) : Len(Rounds[r]) <= Capacity
Pending == Len(flight) + Len(rcvbuf)

\* As long as no round left a datagram under way, those pending are of this round.
KeepsUp ==
    Fits /\ ~past.lagged =>
        /\ overflowed = 0
        /\ pc = "send" => Pending < run.turn
        /\ pc = "collect" => Pending <= Len(Rounds[run.round])
        /\ pc \notin {"send", "collect"} => Pending = 0

IInv == Typed /\ Placed /\ Waits /\ LeftBehindWasLate /\ KeepsUp

USE CaptureAssumption, CapacityAssumption

LEMMA Started ==
    ASSUME NEW r \in Nat \ {0}
    PROVE  /\ RoundStart(r) \in {"send", "collect", "select"}
           /\ RoundStart(r) \in {"send", "collect"} => r <= Len(Rounds)
           /\ RoundStart(r) = "send" => 1 <= Len(Rounds[r])
<1>1. CASE r > Len(Rounds)
  BY <1>1 DEF RoundStart
<1>2. CASE r <= Len(Rounds) /\ Rounds[r] = <<>>
  BY <1>2 DEF RoundStart
<1>3. CASE r <= Len(Rounds) /\ Rounds[r] # <<>>
  <2>1. Rounds[r] \in Seq(Packet)
    BY <1>3
  <2>2. Len(Rounds[r]) \in Nat /\ Len(Rounds[r]) # 0
    BY <1>3, <2>1
  <2> QED  BY <1>3, <2>2 DEF RoundStart
<1> QED  BY <1>1, <1>2, <1>3

LEMMA Queue ==
    ASSUME NEW S, NEW q \in Seq(S)
    PROVE  /\ Len(q) \in Nat /\ (q = <<>> <=> Len(q) = 0)
           /\ \A x \in S : Append(q, x) \in Seq(S) /\ Len(Append(q, x)) = Len(q) + 1
           /\ q # <<>> => /\ Head(q) \in S /\ Head(q) = q[1]
                           /\ Tail(q) \in Seq(S) /\ Len(Tail(q)) = Len(q) - 1
BY SMT

LEMMA Started0 ==
    /\ 0 \in Nat
    /\ NewRun \in RunType /\ NewPast \in PastType
    /\ <<>> \in Seq(Datagram) /\ Len(<<>>) = 0
<1>1. <<>> \in Seq(DrainRound) /\ <<>> \in Seq(Datagram) /\ Len(<<>>) = 0
  OBVIOUS
<1>2. NewRun \in RunType
  BY DEF NewRun, RunType
<1> QED  BY <1>1, <1>2 DEF NewPast, PastType

\* A run begins, or is about to: nothing is pending and nothing is counted.
IsFresh ==
    /\ pc \in {RoundStart(1), "died"} /\ run = NewRun /\ past = NewPast
    /\ flight = <<>> /\ rcvbuf = <<>> /\ overflowed = 0
    /\ totals = [packets |-> 0, samples |-> 0]

LEMMA Fresh == IsFresh => IInv
<1> SUFFICES ASSUME IsFresh PROVE IInv
  OBVIOUS
<1> USE DEF IsFresh
<1> DEFINE begun == RoundStart(1)
<1>1. /\ begun \in {"send", "collect", "select"}
      /\ begun \in {"send", "collect"} => 1 <= Len(Rounds)
      /\ begun = "send" => 1 <= Len(Rounds[1])
  BY Started
<1>2. pc \in {begun, "died"}
  OBVIOUS
<1> HIDE DEF begun
<1>3. Len(Rounds) \in Nat /\ (pc = "collect" => Len(Rounds[1]) \in Nat)
  BY <1>1, <1>2
<1>4. Typed
  BY <1>1, <1>2, Started0 DEF Typed, Places
<1>5. Placed
  BY <1>1, <1>2 DEF Placed, NewRun
<1>6. Waits
  <2>1. past.rounds = <<>> /\ run.idle = 0 /\ pc # "poll"
    BY <1>1, <1>2 DEF NewRun, NewPast
  <2>2. CountsQuiet(<<>>, Len(<<>>), 0)
    BY DEF CountsQuiet
  <2> QED  BY <2>1, <2>2 DEF Waits
<1>7. LeftBehindWasLate
  BY <1>1, <1>2 DEF LeftBehindWasLate
<1>8. KeepsUp
  BY <1>1, <1>2, <1>3 DEF KeepsUp, Pending, NewRun
<1> QED  BY <1>4, <1>5, <1>6, <1>7, <1>8 DEF IInv

LEMMA Field ==
    ASSUME NEW r \in RunType
    PROVE  /\ r.round \in 1 .. Len(Rounds) + 1 /\ r.turn \in Nat \ {0}
           /\ r.idle \in 0 .. IdleRounds /\ r.clock \in 0 .. Deadline /\ r.before \in Nat
           /\ r.received \in Nat /\ r.crc_errors \in Nat
BY DEF RunType

LEMMA SetTurn ==
    ASSUME NEW r \in RunType, NEW t \in Nat \ {0}
    PROVE  /\ [r EXCEPT !.turn = t] \in RunType
           /\ [r EXCEPT !.turn = t].turn = t /\ [r EXCEPT !.turn = t].round = r.round
           /\ [r EXCEPT !.turn = t].idle = r.idle
BY DEF RunType

LEMMA SetCounter ==
    ASSUME NEW r \in RunType, NEW k \in Nat
    PROVE  /\ [r EXCEPT !.received = k] \in RunType
           /\ [r EXCEPT !.crc_errors = k] \in RunType
BY DEF RunType

\* A frame of that kind is noted for the current round of the drain, no other round changes.
LEMMA Noted ==
    ASSUME IInv, NEW kind \in {"decoded", "spoiled"},
           past' = [past EXCEPT !.rounds = RoundsWith(kind)]
    PROVE  /\ past' \in PastType /\ past'.lagged = past.lagged
           /\ Len(past'.rounds) = Len(past.rounds)
           /\ pc # "poll" => past'.rounds = past.rounds
           /\ pc = "poll" =>
                 LET n == Len(past.rounds)
                 IN  /\ n \in Nat /\ n > 0
                     /\ \A i \in 1 .. n - 1 : past'.rounds[i] = past.rounds[i]
                     /\ past'.rounds[n] = [past.rounds[n] EXCEPT ![kind] = TRUE]
                     /\ past.rounds[n] \in DrainRound
<1> DEFINE q == past.rounds
           m == RoundsWith(kind)
<1>1. /\ past \in PastType /\ q \in Seq(DrainRound) /\ Len(q) \in Nat
      /\ pc = "poll" => Len(q) > 0
  <2>1. past \in PastType
    BY DEF IInv, Typed
  <2>2. q \in Seq(DrainRound)
    BY <2>1 DEF PastType
  <2> QED  BY <2>1, <2>2, LenProperties DEF IInv, Waits
<1>2. pc # "poll" => m = q
  BY DEF RoundsWith
<1>3. ASSUME pc = "poll"
      PROVE  /\ m \in Seq(DrainRound) /\ Len(m) = Len(q) /\ q[Len(q)] \in DrainRound
             /\ \A i \in 1 .. Len(q) - 1 : m[i] = q[i]
             /\ m[Len(q)] = [q[Len(q)] EXCEPT ![kind] = TRUE]
  <2> DEFINE n == Len(q)
             e == [q[n] EXCEPT ![kind] = TRUE]
  <2>1. n \in Nat /\ n > 0 /\ n \in 1 .. n
    BY <1>1, <1>3
  <2>2. q[n] \in DrainRound
    BY <1>1, <2>1, ElementOfSeq
  <2>3. e \in DrainRound
    BY <2>2 DEF DrainRound
  <2>4. m = [q EXCEPT ![n] = e]
    BY <1>3 DEF RoundsWith
  <2>5. Len(q) = n
    OBVIOUS
  <2> HIDE DEF e, m, n
  <2>6. m \in Seq(DrainRound) /\ Len(m) = Len(q) /\ m[n] = e
        /\ \A i \in 1 .. Len(q) : i # n => m[i] = q[i]
    BY <1>1, <2>1, <2>3, <2>4, <2>5, ExceptSeq
  <2>7. \A i \in 1 .. n - 1 : i \in 1 .. n /\ i # n
    BY <2>1
  <2> QED  BY <2>2, <2>5, <2>6, <2>7 DEF e, n
<1> HIDE DEF m
<1>4. m \in Seq(DrainRound) /\ Len(m) = Len(q)
  BY <1>1, <1>2, <1>3
<1>5. past' \in PastType /\ past'.lagged = past.lagged /\ past'.rounds = m
  BY <1>1, <1>4 DEF PastType, m
<1> QED  BY <1>1, <1>2, <1>3, <1>4, <1>5

\* Noting it keeps the count of the rounds that are over.
LEMMA NotedCounts ==
    ASSUME NEW q, NEW m, NEW n \in Nat, NEW idle \in Nat, n > 0,
           \A i \in 1 .. n - 1 : m[i] = q[i], CountsQuiet(q, n - 1, idle)
    PROVE  CountsQuiet(m, n - 1, idle)
<1>1. idle <= n - 1 /\ \A i \in (n - 1) - idle + 1 .. n - 1 : Quiet(q[i])
  BY DEF CountsQuiet
<1>2. \A i \in (n - 1) - idle + 1 .. n - 1 : i \in 1 .. n - 1
  BY <1>1
<1> QED  BY <1>1, <1>2 DEF CountsQuiet

-----------------------------------------------------------------------------
(* One lemma per action. *)

LEMMA SendStep == IInv /\ Send => IInv'
<1> SUFFICES ASSUME IInv, Send PROVE IInv'
  OBVIOUS
<1> DEFINE frames == Rounds[run.round]
<1>1. /\ run \in RunType /\ past \in PastType /\ flight \in Seq(Datagram)
      /\ rcvbuf \in Seq(Datagram) /\ pc = "send"
  BY DEF IInv, Typed, Send
<1>2. run.round \in 1 .. Len(Rounds) /\ run.turn \in 1 .. Len(frames)
  BY <1>1 DEF IInv, Placed, RunType
<1>3. frames \in Seq(Packet) /\ frames[run.turn] \in Packet /\ Len(frames) \in Nat
  BY <1>2
<1>4. PICK d \in Datagram : flight' = Append(flight, d)
  BY <1>3 DEF Send, UdpSend, Datagram
<1>5. /\ flight' \in Seq(Datagram) /\ Len(flight') = Len(flight) + 1
      /\ Len(flight) \in Nat /\ Len(rcvbuf) \in Nat
  BY <1>1, <1>4, Queue
<1>6. /\ UNCHANGED <<rcvbuf, overflowed, totals, past>>
      /\ IF run.turn < Len(frames)
         THEN pc' = "send" /\ run' = [run EXCEPT !.turn = run.turn + 1]
         ELSE pc' = "collect" /\ run' = [run EXCEPT !.turn = 1]
  BY <1>1 DEF Send, UdpSend, collectorVars
<1>7. /\ run' \in RunType /\ run'.round = run.round
      /\ run'.idle = run.idle
      /\ pc' = "send" => run'.turn = run.turn + 1 /\ run'.turn <= Len(frames)
      /\ pc' = "collect" => run.turn = Len(frames) /\ run'.turn = 1
      /\ pc' \in {"send", "collect"}
  <2>1. CASE run.turn < Len(frames)
    <3>1. run.turn + 1 \in Nat \ {0} /\ run.turn + 1 <= Len(frames)
      BY <1>2, <1>3, <2>1
    <3>2. pc' = "send" /\ run' = [run EXCEPT !.turn = run.turn + 1]
      BY <1>6, <2>1
    <3>3. /\ run' \in RunType /\ run'.turn = run.turn + 1 /\ run'.round = run.round
          /\ run'.idle = run.idle
      BY <1>1, <3>1, <3>2, SetTurn
    <3> QED  BY <3>1, <3>2, <3>3
  <2>2. CASE ~(run.turn < Len(frames))
    <3>1. run.turn = Len(frames) /\ 1 \in Nat \ {0}
      BY <1>2, <1>3, <2>2
    <3>2. pc' = "collect" /\ run' = [run EXCEPT !.turn = 1]
      BY <1>6, <2>2
    <3>3. /\ run' \in RunType /\ run'.turn = 1 /\ run'.round = run.round
          /\ run'.idle = run.idle
      BY <1>1, <3>1, <3>2, SetTurn
    <3> QED  BY <3>1, <3>2, <3>3
  <2> QED  BY <2>1, <2>2
<1> HIDE DEF frames
<1>8. Typed'
  BY <1>5, <1>6, <1>7 DEF IInv, Typed, Places
<1>9. Placed'
  BY <1>2, <1>7 DEF Placed, frames
<1>10. Waits'
  BY <1>1, <1>6, <1>7 DEF IInv, Waits, Running
<1>11. LeftBehindWasLate'
  BY <1>7 DEF LeftBehindWasLate
<1>12. KeepsUp'
  <2> SUFFICES ASSUME Fits, ~past.lagged
               PROVE  /\ overflowed = 0
                      /\ pc' = "send" => Pending' < run'.turn
                      /\ pc' = "collect" => Pending' <= Len(frames)
    BY <1>6, <1>7 DEF KeepsUp, frames
  <2>1. overflowed = 0 /\ Pending < run.turn
    BY <1>1 DEF IInv, KeepsUp
  <2>2. Pending' = Pending + 1 /\ Pending \in Nat
    BY <1>5, <1>6 DEF Pending
  <2> QED  BY <2>1, <2>2, <1>2, <1>3, <1>7
<1> QED  BY <1>8, <1>9, <1>10, <1>11, <1>12 DEF IInv

\* A datagram is read: those pending become one less.
LEMMA ReadOne ==
    ASSUME IInv, NEW d, UdpRecv(d)
    PROVE  /\ rcvbuf' \in Seq(Datagram) /\ Len(rcvbuf') <= Capacity
           /\ d \in Datagram
           /\ UNCHANGED <<flight, overflowed>>
           /\ Pending \in Nat /\ Pending > 0 /\ Pending' = Pending - 1
<1>1. rcvbuf \in Seq(Datagram) /\ flight \in Seq(Datagram) /\ Len(rcvbuf) <= Capacity
  BY DEF IInv, Typed
<1>2. rcvbuf # <<>> /\ d = Head(rcvbuf) /\ rcvbuf' = Tail(rcvbuf) /\ UNCHANGED <<flight, overflowed>>
  BY DEF UdpRecv
<1>3. /\ Len(rcvbuf) \in Nat /\ Len(rcvbuf) # 0 /\ Len(flight) \in Nat
      /\ Head(rcvbuf) \in Datagram /\ Tail(rcvbuf) \in Seq(Datagram)
      /\ Len(Tail(rcvbuf)) = Len(rcvbuf) - 1
  BY <1>1, <1>2, Queue
<1>4. Len(rcvbuf') = Len(rcvbuf) - 1 /\ Len(flight') = Len(flight)
  BY <1>2, <1>3
<1>5. Pending \in Nat /\ Pending > 0 /\ Pending' = Pending - 1
  BY <1>3, <1>4 DEF Pending
<1> QED  BY <1>1, <1>2, <1>3, <1>5

LEMMA ReceiveStep == IInv /\ Receive => IInv'
<1> SUFFICES ASSUME IInv, Receive PROVE IInv'
  OBVIOUS
<1>1. PICK d : /\ UdpRecv(d) /\ Process(TrackedPacket(d.packet), run.round, SinkCount)
  BY DEF Receive
<1>2. /\ rcvbuf' \in Seq(Datagram) /\ Len(rcvbuf') <= Capacity /\ d \in Datagram
      /\ UNCHANGED <<flight, overflowed>>
      /\ Pending \in Nat /\ Pending > 0 /\ Pending' = Pending - 1
  BY <1>1, ReadOne
<1>3. /\ pc \in {"collect", "poll"} /\ UNCHANGED pc
      /\ run' = [run EXCEPT !.received = run.received + 1]
      /\ past' = [past EXCEPT !.rounds = RoundsWith("decoded")]
  BY DEF Receive, Collecting
<1>4. /\ run \in RunType /\ past \in PastType /\ totals \in [packets : Nat, samples : Nat]
  BY DEF IInv, Typed
<1>5. /\ run' \in RunType /\ run'.round = run.round /\ run'.turn = run.turn
      /\ run'.idle = run.idle /\ run'.before = run.before
  <2>1. run.received + 1 \in Nat
    BY <1>4, Field
  <2>2. run' \in RunType
    BY <1>3, <1>4, <2>1, SetCounter
  <2> QED  BY <1>3, <1>4, <2>2 DEF RunType
<1>6. TrackedPacket(d.packet).samples \in Nat
  <2>1. d.packet \in Packet
    BY <1>2 DEF Datagram
  <2>2. d.packet.sample_count \in Nat
    BY <2>1 DEF Packet, Bytes
  <2> QED  BY <2>2 DEF TrackedPacket
<1>7. /\ totals' \in [packets : Nat, samples : Nat]
      /\ totals'.packets = totals.packets + 1
  BY <1>1, <1>4, <1>6 DEF Process
<1> DEFINE n == Len(past.rounds)
           last == past.rounds[n]
           noted == past'.rounds[n]
<1>8. /\ past' \in PastType /\ past'.lagged = past.lagged
      /\ Len(past'.rounds) = n
      /\ pc # "poll" => past'.rounds = past.rounds
      /\ pc = "poll" =>
            /\ n \in Nat /\ n > 0 /\ noted = [last EXCEPT !["decoded"] = TRUE]
            /\ \A i \in 1 .. n - 1 : past'.rounds[i] = past.rounds[i]
            /\ last \in DrainRound
  BY <1>3, Noted
<1>9. Typed'
  BY <1>2, <1>3, <1>5, <1>7, <1>8 DEF IInv, Typed
<1>10. Placed'
  BY <1>3, <1>5 DEF IInv, Placed
<1>11. Waits'
  <2>1. run.before \in Nat /\ totals.packets \in Nat /\ run.idle \in Nat
    BY <1>4, Field
  <2>2. CASE pc # "poll"
    BY <1>3, <1>5, <1>8, <2>2 DEF IInv, Waits, Running
  <2>3. CASE pc = "poll"
    <3>1. CountsQuiet(past.rounds, n - 1, run.idle) /\ run.before <= totals.packets
      BY <2>3 DEF IInv, Waits
    <3>2. CountsQuiet(past'.rounds, n - 1, run.idle)
      BY <1>8, <2>1, <2>3, <3>1, NotedCounts
    <3>3. noted.decoded
      BY <1>8, <2>3 DEF DrainRound
    <3>4. /\ pc' = "poll" /\ Len(past'.rounds) = n /\ n > 0
          /\ run'.idle = run.idle /\ run'.before = run.before
      BY <1>3, <1>5, <1>8, <2>3
    <3>5. run.before <= totals'.packets /\ run.before < totals'.packets
      BY <1>7, <2>1, <3>1
    <3> HIDE DEF n
    <3> QED  BY <3>2, <3>3, <3>4, <3>5 DEF Waits
  <2> QED  BY <2>2, <2>3
<1> HIDE DEF n, last, noted
<1>12. LeftBehindWasLate'
  BY <1>3 DEF LeftBehindWasLate
<1>13. KeepsUp'
  <2>1. run.round \in 1 .. Len(Rounds) => Len(Rounds[run.round]) \in Nat
    OBVIOUS
  <2>2. pc = "collect" => run.round \in 1 .. Len(Rounds)
    BY <1>4 DEF IInv, Placed, RunType
  <2> QED  BY <1>2, <1>3, <1>5, <1>8, <2>1, <2>2 DEF IInv, KeepsUp
<1> QED  BY <1>9, <1>10, <1>11, <1>12, <1>13 DEF IInv

LEMMA RejectStep == IInv /\ Reject => IInv'
<1> SUFFICES ASSUME IInv, Reject PROVE IInv'
  OBVIOUS
<1>1. PICK d : UdpRecv(d)
  BY DEF Reject
<1>2. /\ rcvbuf' \in Seq(Datagram) /\ Len(rcvbuf') <= Capacity /\ d \in Datagram
      /\ UNCHANGED <<flight, overflowed>>
      /\ Pending \in Nat /\ Pending > 0 /\ Pending' = Pending - 1
  BY <1>1, ReadOne
<1>3. /\ pc \in {"collect", "poll"} /\ UNCHANGED <<pc, totals>>
      /\ run' = [run EXCEPT !.crc_errors = run.crc_errors + 1]
      /\ past' = [past EXCEPT !.rounds = RoundsWith("spoiled")]
  BY DEF Reject, Collecting, collectorVars
<1>4. run \in RunType /\ past \in PastType
  BY DEF IInv, Typed
<1>5. /\ run' \in RunType /\ run'.round = run.round /\ run'.turn = run.turn
      /\ run'.idle = run.idle /\ run'.before = run.before
  <2>1. run.crc_errors + 1 \in Nat
    BY <1>4, Field
  <2>2. run' \in RunType
    BY <1>3, <1>4, <2>1, SetCounter
  <2>3. /\ run'.round = run.round /\ run'.turn = run.turn
        /\ run'.idle = run.idle /\ run'.before = run.before
    BY <1>3, <1>4, <2>2 DEF RunType
  <2> QED  BY <2>2, <2>3
<1> DEFINE n == Len(past.rounds)
           last == past.rounds[n]
           noted == past'.rounds[n]
<1>6. /\ past' \in PastType /\ past'.lagged = past.lagged
      /\ Len(past'.rounds) = n
      /\ pc # "poll" => past'.rounds = past.rounds
      /\ pc = "poll" =>
            /\ n \in Nat /\ n > 0 /\ noted = [last EXCEPT !["spoiled"] = TRUE]
            /\ \A i \in 1 .. n - 1 : past'.rounds[i] = past.rounds[i]
            /\ last \in DrainRound
  BY <1>3, Noted
<1>7. Typed'
  BY <1>2, <1>3, <1>5, <1>6 DEF IInv, Typed
<1>8. Placed'
  BY <1>3, <1>5 DEF IInv, Placed
<1>9. Waits'
  <2>1. run.idle \in Nat
    BY <1>4, Field
  <2>2. CASE pc # "poll"
    BY <1>3, <1>5, <1>6, <2>2 DEF IInv, Waits, Running
  <2>3. CASE pc = "poll"
    <3>1. /\ CountsQuiet(past.rounds, n - 1, run.idle) /\ run.before <= totals.packets
          /\ last.decoded => run.before < totals.packets
      BY <2>3 DEF IInv, Waits
    <3>2. CountsQuiet(past'.rounds, n - 1, run.idle)
      BY <1>6, <2>1, <2>3, <3>1, NotedCounts
    <3>3. noted.spoiled /\ noted.decoded = last.decoded
      BY <1>6, <2>3 DEF DrainRound
    <3>4. /\ pc' = "poll" /\ Len(past'.rounds) = n /\ n > 0 /\ totals' = totals
          /\ run'.idle = run.idle /\ run'.before = run.before
      BY <1>3, <1>5, <1>6, <2>3
    <3>5. noted.decoded => run.before < totals.packets
      BY <3>1, <3>3
    <3> HIDE DEF n, last
    <3> QED  BY <3>1, <3>2, <3>3, <3>4, <3>5 DEF Waits
  <2> QED  BY <2>2, <2>3
<1> HIDE DEF n, last, noted
<1>10. LeftBehindWasLate'
  BY <1>3 DEF LeftBehindWasLate
<1>11. KeepsUp'
  <2>1. run.round \in 1 .. Len(Rounds) => Len(Rounds[run.round]) \in Nat
    OBVIOUS
  <2>2. pc = "collect" => run.round \in 1 .. Len(Rounds)
    BY <1>4 DEF IInv, Placed, RunType
  <2> QED  BY <1>2, <1>3, <1>5, <1>6, <2>1, <2>2 DEF IInv, KeepsUp
<1> QED  BY <1>7, <1>8, <1>9, <1>10, <1>11 DEF IInv

LEMMA EndRoundStep == IInv /\ EndRound => IInv'
<1> SUFFICES ASSUME IInv, EndRound PROVE IInv'
  OBVIOUS
<1> DEFINE next == run.round + 1
           start == RoundStart(next)
<1>1. /\ run \in RunType /\ past \in PastType /\ pc = "collect" /\ rcvbuf = <<>>
      /\ flight \in Seq(Datagram)
  BY DEF IInv, Typed, EndRound, Drained
<1>2. /\ run' = [run EXCEPT !.round = next] /\ pc' = start
      /\ past' = [past EXCEPT !.lagged = past.lagged \/ flight # <<>>]
      /\ UNCHANGED <<flight, rcvbuf, overflowed, totals>>
  BY DEF EndRound, collectorVars, udpVars
<1>3. run.round \in 1 .. Len(Rounds) /\ run.turn = 1
  BY <1>1 DEF IInv, Placed, RunType
<1>4. next \in Nat \ {0} /\ next \in 1 .. Len(Rounds) + 1
  BY <1>3
<1>5. /\ start \in {"send", "collect", "select"}
      /\ start \in {"send", "collect"} => next <= Len(Rounds)
      /\ start = "send" => 1 <= Len(Rounds[next])
  BY <1>4, Started
<1> HIDE DEF start, next
<1>6. /\ run' \in RunType /\ run'.round = next /\ run'.turn = run.turn
      /\ run'.idle = run.idle
  BY <1>1, <1>2, <1>4 DEF RunType
<1>7. /\ past' \in PastType /\ past'.rounds = past.rounds
      /\ past'.lagged <=> past.lagged \/ flight # <<>>
  BY <1>1, <1>2 DEF PastType
<1>8. Typed'
  BY <1>2, <1>5, <1>6, <1>7 DEF IInv, Typed, Places
<1>9. Placed'
  BY <1>2, <1>3, <1>5, <1>6 DEF Placed
<1>10. Waits'
  BY <1>1, <1>2, <1>5, <1>6, <1>7 DEF IInv, Waits, Running
<1>11. LeftBehindWasLate'
  BY <1>2, <1>5 DEF LeftBehindWasLate
<1>12. KeepsUp'
  <2> SUFFICES ASSUME Fits, ~past'.lagged
               PROVE  /\ overflowed = 0 /\ Pending' = 0
                      /\ pc' = "send" => Pending' < run'.turn
                      /\ pc' = "collect" => Pending' <= Len(Rounds[next])
    BY <1>2, <1>6 DEF KeepsUp
  <2>1. overflowed = 0
    BY <1>7 DEF IInv, KeepsUp
  <2>2. Pending' = 0
    BY <1>1, <1>2, <1>7 DEF Pending
  <2>3. pc' = "collect" => Len(Rounds[next]) \in Nat
    BY <1>2, <1>4, <1>5
  <2> QED  BY <1>3, <1>6, <2>1, <2>2, <2>3
<1> QED  BY <1>8, <1>9, <1>10, <1>11, <1>12 DEF IInv

\* A round of the last drain begins: a datagram is there, or select waited out its timeout.
LEMMA SelectStep == IInv /\ (SelectReady \/ SelectTimeout) => IInv'
<1> SUFFICES ASSUME IInv, SelectReady \/ SelectTimeout PROVE IInv'
  OBVIOUS
<1>1. /\ run \in RunType /\ past \in PastType /\ totals \in [packets : Nat, samples : Nat]
      /\ pc = "select" /\ pc' = "poll" /\ GoesOn
      /\ UNCHANGED <<flight, rcvbuf, overflowed, totals>>
  BY DEF IInv, Typed, SelectReady, SelectTimeout, collectorVars, udpVars
<1>2. /\ run.idle \in Nat /\ run.clock \in Nat
      /\ run.idle < IdleRounds /\ run.clock < Deadline
  BY <1>1, Field DEF GoesOn
<1>3. PICK c \in {run.clock, run.clock + 1}, waited \in BOOLEAN :
          /\ run' = [run EXCEPT !.before = totals.packets, !.clock = c]
          /\ BeginRound(waited)
          /\ rcvbuf # <<>> \/ waited
  <2>1. CASE SelectReady
    <3>1. [run EXCEPT !.before = totals.packets]
             = [run EXCEPT !.before = totals.packets, !.clock = run.clock]
      BY <1>1 DEF RunType
    <3> QED  BY <2>1, <3>1 DEF SelectReady
  <2>2. CASE SelectTimeout
    BY <2>2 DEF SelectTimeout
  <2> QED  BY <2>1, <2>2
<1>4. c \in 0 .. Deadline
  BY <1>2, <1>3
<1>5. /\ run' \in RunType /\ run'.idle = run.idle /\ run'.before = totals.packets
  BY <1>1, <1>3, <1>4 DEF RunType
<1> DEFINE round == [waited |-> waited, decoded |-> FALSE, spoiled |-> FALSE]
           n == Len(past.rounds)
<1>6. /\ past'.rounds = Append(past.rounds, round) /\ past'.lagged = past.lagged
      /\ past' \in PastType
  <2>1. round \in DrainRound
    BY DEF DrainRound
  <2>2. past' = [past EXCEPT !.rounds = Append(past.rounds, round)]
    BY <1>3 DEF BeginRound
  <2> HIDE DEF round
  <2>3. past.rounds \in Seq(DrainRound)
    BY <1>1 DEF PastType
  <2>4. Append(past.rounds, round) \in Seq(DrainRound)
    BY <2>1, <2>3, AppendProperties
  <2> QED  BY <1>1, <2>2, <2>4 DEF PastType
<1>7. /\ n \in Nat /\ Len(past'.rounds) = n + 1 /\ past'.rounds[n + 1] = round
      /\ \A i \in 1 .. n : past'.rounds[i] = past.rounds[i]
  <2>1. round \in DrainRound /\ past.rounds \in Seq(DrainRound)
    BY <1>1 DEF DrainRound, PastType
  <2> HIDE DEF round
  <2> QED  BY <1>6, <2>1, AppendProperties, LenProperties
<1>8. Typed'
  BY <1>1, <1>5, <1>6 DEF IInv, Typed, Places
<1>9. Placed'
  BY <1>1, <1>2, <1>5 DEF Placed
<1>10. Waits'
  <2>1. CountsQuiet(past.rounds, n, run.idle)
    BY <1>1 DEF IInv, Waits, Running
  <2> DEFINE m == n + 1
  <2>2. m \in Nat /\ m > 0 /\ m - 1 = n
    BY <1>7
  <2>3. CountsQuiet(past'.rounds, m - 1, run.idle)
    <3> HIDE DEF n, m
    <3> QED  BY <1>2, <1>7, <2>1, <2>2, NotedCounts
  <2>4. /\ pc' = "poll" /\ rcvbuf' = rcvbuf /\ totals' = totals /\ totals.packets \in Nat
        /\ Len(past'.rounds) = m /\ ~round.decoded /\ round.waited = waited
        /\ past'.rounds[m] = round
    BY <1>1, <1>7
  <2>5. totals.packets <= totals.packets
    BY <2>4
  <2> HIDE DEF n, m, round
  <2> QED  BY <1>3, <1>5, <2>2, <2>3, <2>4, <2>5 DEF Waits
<1>11. LeftBehindWasLate'
  BY <1>1 DEF LeftBehindWasLate
<1>12. KeepsUp'
  BY <1>1, <1>6 DEF IInv, KeepsUp, Pending
<1> QED  BY <1>8, <1>9, <1>10, <1>11, <1>12 DEF IInv

LEMMA EndPollStep == IInv /\ EndPoll => IInv'
<1> SUFFICES ASSUME IInv, EndPoll PROVE IInv'
  OBVIOUS
<1> DEFINE idle == IF totals.packets = run.before THEN run.idle + 1 ELSE 0
           n == Len(past.rounds)
<1>1. /\ run \in RunType /\ past \in PastType /\ pc = "poll" /\ pc' = "select"
      /\ rcvbuf = <<>> /\ UNCHANGED <<flight, rcvbuf, overflowed, totals, past>>
  BY DEF IInv, Typed, EndPoll, collectorVars, udpVars
<1>2. PICK c \in run.clock .. Deadline : run' = [run EXCEPT !.idle = idle, !.clock = c]
  BY DEF EndPoll
<1>3. /\ run.idle \in Nat /\ run.clock \in Nat /\ run.idle < IdleRounds
      /\ n \in Nat /\ n > 0 /\ CountsQuiet(past.rounds, n - 1, run.idle)
  <2>1. past.rounds \in Seq(DrainRound)
    BY <1>1 DEF PastType
  <2> QED  BY <1>1, <2>1, Field, LenProperties DEF IInv, Waits, Placed
<1>4. idle \in 0 .. IdleRounds /\ c \in 0 .. Deadline
  BY <1>2, <1>3
<1>5. CountsQuiet(past.rounds, n, idle)
  <2>1. CASE totals.packets # run.before
    BY <1>3, <2>1 DEF CountsQuiet
  <2>2. CASE totals.packets = run.before
    <3>1. Quiet(past.rounds[n])
      <4>1. /\ past.rounds[n].decoded => run.before < totals.packets
            /\ past.rounds[n].waited \/ past.rounds[n].decoded \/ past.rounds[n].spoiled
        BY <1>1 DEF IInv, Waits
      <4>2. ~(run.before < totals.packets)
        BY <1>1, <2>2, Field
      <4> QED  BY <4>1, <4>2 DEF Quiet
    <3>2. run.idle <= n - 1 /\ \A i \in (n - 1) - run.idle + 1 .. n - 1 : Quiet(past.rounds[i])
      BY <1>3 DEF CountsQuiet
    <3>3. idle = run.idle + 1
      BY <2>2
    <3> HIDE DEF idle, n
    <3>4. \A i \in n - idle + 1 .. n : i = n \/ i \in (n - 1) - run.idle + 1 .. n - 1
      BY <1>3, <3>3
    <3>5. idle <= n
      BY <1>3, <3>2, <3>3
    <3> QED  BY <3>1, <3>2, <3>4, <3>5 DEF CountsQuiet
  <2> QED  BY <2>1, <2>2
<1> HIDE DEF idle, n
<1>6. run' \in RunType /\ run'.idle = idle
  BY <1>1, <1>2, <1>4 DEF RunType
<1>7. Typed'
  BY <1>1, <1>6 DEF IInv, Typed, Places
<1>8. Placed'
  BY <1>1 DEF Placed
<1>9. Waits'
  BY <1>1, <1>5, <1>6 DEF Waits, Running, n
<1>10. LeftBehindWasLate'
  BY <1>1 DEF LeftBehindWasLate
<1>11. KeepsUp'
  BY <1>1 DEF IInv, KeepsUp, Pending
<1> QED  BY <1>7, <1>8, <1>9, <1>10, <1>11 DEF IInv

\* The drain ends by its deadline or by its count: then its last rounds were quiet.
LEMMA CloseStep == IInv /\ Close => IInv'
<1> SUFFICES ASSUME IInv, Close PROVE IInv'
  OBVIOUS
<1>1. /\ run \in RunType /\ past \in PastType /\ Pending \in Nat
      /\ pc = "select" /\ ~GoesOn /\ pc' = "closed" /\ run' = run /\ totals' = totals
      /\ flight' = <<>> /\ rcvbuf' = <<>> /\ overflowed' = overflowed
      /\ past' = [past EXCEPT !.abandoned = Pending]
  BY DEF IInv, Typed, Close, UdpClose, Pending, collectorVars
<1>2. /\ past' \in PastType /\ past'.lagged = past.lagged /\ past'.rounds = past.rounds
  BY <1>1 DEF PastType
<1>3. run.idle = IdleRounds \/ run.clock >= Deadline
  BY <1>1, Field DEF GoesOn
<1>4. CountsQuiet(past.rounds, Len(past.rounds), run.idle)
  BY <1>1 DEF IInv, Waits, Running
<1>5. Typed'
  BY <1>1, <1>2, Started0 DEF IInv, Typed, Places
<1>6. Placed'
  BY <1>1 DEF Placed
<1>7. Waits'
  BY <1>1 DEF Waits, Running
<1>8. LeftBehindWasLate'
  <2>1. CASE run.clock >= Deadline
    BY <1>1, <2>1 DEF LeftBehindWasLate
  <2>2. CASE run.idle = IdleRounds
    <3>1. Len(past.rounds) \in Nat
      BY <1>1, LenProperties DEF PastType
    <3>2. /\ Len(past.rounds) >= IdleRounds
          /\ \A i \in Len(past.rounds) - IdleRounds + 1 .. Len(past.rounds) :
                Quiet(past.rounds[i])
      BY <1>4, <2>2, <3>1 DEF CountsQuiet
    <3> QED  BY <1>1, <1>2, <3>2 DEF LeftBehindWasLate
  <2> QED  BY <1>3, <2>1, <2>2
<1>9. KeepsUp'
  BY <1>1, <1>2 DEF IInv, KeepsUp, Pending
<1> QED  BY <1>5, <1>6, <1>7, <1>8, <1>9 DEF IInv

LEMMA Reset == Forget /\ pc' \in {RoundStart(1), "died"} => IInv'
<1>1. Forget /\ pc' \in {RoundStart(1), "died"} => IsFresh'
  BY DEF Forget, IsFresh, RoundStart
<1>2. IsFresh' => IInv'
  BY Fresh, PTL
<1> QED  BY <1>1, <1>2

LEMMA ReplayStep == IInv /\ (LoadCapture \/ ReplayFrame \/ ReplayOver) => IInv'
<1> SUFFICES ASSUME IInv, LoadCapture \/ ReplayFrame \/ ReplayOver PROVE IInv'
  OBVIOUS
<1>1. /\ pc \in {"closed", "died", "replay"} /\ pc' \in {"refused", "replay", "done"}
      /\ UNCHANGED <<flight, rcvbuf, overflowed, totals, run, past>>
  BY DEF LoadCapture, ReplayFrame, ReplayOver, collectorVars, udpVars
<1>2. Typed'
  BY <1>1 DEF IInv, Typed, Places
<1>3. Placed'
  BY <1>1 DEF Placed
<1>4. Waits'
  BY <1>1 DEF Waits, Running
<1>5. LeftBehindWasLate'
  BY <1>1 DEF LeftBehindWasLate
<1>6. KeepsUp'
  BY <1>1 DEF IInv, KeepsUp, Pending
<1> QED  BY <1>2, <1>3, <1>4, <1>5, <1>6 DEF IInv

\* The kernel drops a datagram only if more than a buffer's worth are pending.
LEMMA KernelStep == IInv /\ Kernel => IInv'
<1> SUFFICES ASSUME IInv, Kernel PROVE IInv'
  OBVIOUS
<1> DEFINE fits == Len(rcvbuf) < Capacity
<1>1. /\ flight \in Seq(Datagram) /\ rcvbuf \in Seq(Datagram) /\ overflowed \in Nat
      /\ Len(rcvbuf) <= Capacity /\ flight # <<>>
      /\ UNCHANGED <<totals, pc, run, past>>
  BY DEF IInv, Typed, Kernel, Arrive, collectorVars
<1>2. /\ flight' = Tail(flight)
      /\ IF fits
         THEN rcvbuf' = Append(rcvbuf, Head(flight)) /\ overflowed' = overflowed
         ELSE overflowed' = overflowed + 1 /\ rcvbuf' = rcvbuf
  BY DEF Kernel, Arrive
<1> HIDE DEF fits
<1>3. /\ Len(flight) \in Nat /\ Len(flight) # 0 /\ Len(rcvbuf) \in Nat
      /\ flight' \in Seq(Datagram) /\ Len(flight') = Len(flight) - 1
      /\ Head(flight) \in Datagram
  BY <1>1, <1>2, Queue
<1>4. /\ rcvbuf' \in Seq(Datagram) /\ (rcvbuf # <<>> => rcvbuf' # <<>>)
      /\ Len(rcvbuf') = IF fits THEN Len(rcvbuf) + 1 ELSE Len(rcvbuf)
  <2>1. CASE fits
    <3> DEFINE head == Head(flight)
    <3>0. rcvbuf' = Append(rcvbuf, head) /\ head \in Datagram
      BY <1>2, <1>3, <2>1
    <3> HIDE DEF head
    <3>1. rcvbuf' \in Seq(Datagram) /\ Len(rcvbuf') = Len(rcvbuf) + 1
      BY <1>1, <3>0, Queue
    <3>2. rcvbuf' # <<>>
      BY <1>3, <3>1, Queue
    <3> QED  BY <2>1, <3>1, <3>2
  <2>2. CASE ~fits
    BY <1>1, <1>2, <2>2
  <2> QED  BY <2>1, <2>2
<1>5. Typed'
  <2>1. Len(rcvbuf') <= Capacity
    BY <1>1, <1>3, <1>4 DEF fits
  <2>2. overflowed' \in Nat
    BY <1>1, <1>2
  <2> QED  BY <1>1, <1>3, <1>4, <2>1, <2>2 DEF IInv, Typed
<1>6. Placed'
  BY <1>1 DEF IInv, Placed
<1>7. Waits'
  BY <1>1, <1>4 DEF IInv, Waits, Running
<1>8. LeftBehindWasLate'
  BY <1>1 DEF IInv, LeftBehindWasLate
<1>9. KeepsUp'
  <2> SUFFICES ASSUME Fits, ~past.lagged
               PROVE  /\ overflowed' = 0
                      /\ pc = "send" => Pending' < run.turn
                      /\ pc = "collect" => Pending' <= Len(Rounds[run.round])
                      /\ pc \notin {"send", "collect"} => Pending' = 0
    BY <1>1 DEF KeepsUp
  <2>1. /\ overflowed = 0
        /\ pc = "send" => Pending < run.turn
        /\ pc = "collect" => Pending <= Len(Rounds[run.round])
        /\ pc \notin {"send", "collect"} => Pending = 0
    BY DEF IInv, KeepsUp
  <2>2. Pending \in Nat /\ Pending > 0 /\ Len(rcvbuf) < Pending
    BY <1>3 DEF Pending
  <2>3. pc \in {"send", "collect"}
    BY <2>1, <2>2
  <2>4. /\ run.round \in 1 .. Len(Rounds) /\ run.turn \in Nat
        /\ pc = "send" => run.turn <= Len(Rounds[run.round])
    BY <2>3 DEF IInv, Typed, Placed, RunType
  <2>5. Len(Rounds[run.round]) \in Nat /\ Len(Rounds[run.round]) <= Capacity
    BY <2>4 DEF Fits
  <2>6. fits
    BY <1>3, <2>1, <2>2, <2>3, <2>4, <2>5 DEF fits
  <2>7. Pending' = Pending /\ overflowed' = overflowed
    BY <1>2, <1>3, <1>4, <2>6 DEF Pending
  <2> QED  BY <2>1, <2>7
<1> QED  BY <1>5, <1>6, <1>7, <1>8, <1>9 DEF IInv

-----------------------------------------------------------------------------
LEMMA Inductive == Spec => []IInv
<1>1. Init => IInv
  <2> SUFFICES ASSUME Init PROVE IInv
    OBVIOUS
  <2> QED  BY Fresh DEF Init, CollectorInit, UdpInit, IsFresh
<1>2. IInv /\ [Next]_vars => IInv'
  <2> SUFFICES ASSUME IInv, [Next]_vars PROVE IInv'
    OBVIOUS
  <2>1. CASE Send
    BY <2>1, SendStep
  <2>2. CASE Receive
    BY <2>2, ReceiveStep
  <2>3. CASE Reject
    BY <2>3, RejectStep
  <2>4. CASE EndRound
    BY <2>4, EndRoundStep
  <2>5. CASE SelectReady \/ SelectTimeout
    BY <2>5, SelectStep
  <2>6. CASE EndPoll
    BY <2>6, EndPollStep
  <2>7. CASE Close
    BY <2>7, CloseStep
  <2>8. CASE LoadCapture \/ ReplayFrame \/ ReplayOver
    BY <2>8, ReplayStep
  <2>9. CASE Die
    BY <2>9, Reset DEF Die
  <2>10. CASE Restart
    BY <2>10, Reset DEF Restart
  <2>11. CASE Kernel
    BY <2>11, KernelStep
  <2>12. CASE UNCHANGED vars
    BY <2>12 DEF vars, collectorVars, udpVars, IInv, Typed, Placed, Waits, Running,
                 LeftBehindWasLate, KeepsUp, Pending
  <2> QED  BY <2>1, <2>2, <2>3, <2>4, <2>5, <2>6, <2>7, <2>8, <2>9, <2>10, <2>11, <2>12
           DEF Next, Step
<1> QED  BY <1>1, <1>2, PTL DEF Spec

\* The last drain over UDP leaves a datagram behind only when the wall clock has passed its
\* deadline, or when as many rounds in succession as it was told to poll idly brought no packet
\* and were each waited out or cut short by a damaged frame: for every script of rounds, buffer,
\* count and deadline, whatever arrives when and however long a round takes.
THEOREM DrainWaits == Spec => []LeftBehindWasLate
<1>1. IInv => LeftBehindWasLate
  BY DEF IInv
<1> QED  BY <1>1, Inductive, PTL

\* A receive buffer that holds a round's frames overflows only after a datagram was still under
\* way when the drain of its round ended: draining as it goes, the send loop keeps up.
THEOREM DrainKeepsUp == Spec => []OverflowNeedsLag
<1>1. IInv => OverflowNeedsLag
  BY DEF IInv, Typed, PastType, KeepsUp, Fits, OverflowNeedsLag
<1> QED  BY <1>1, Inductive, PTL
-----------------------------------------------------------------------------
(***************************************************************************)
(* The second invariant: the file, the records and the replay.             *)
(***************************************************************************)

GoodDatagram == {d \in Datagram : d.packet \in Good}

\* What is under way, in the buffer and in the file is encodable, and the records are typed.
Stored ==
    /\ CollectorTypeOK /\ LogTypeOK
    /\ flight \in Seq(GoodDatagram) /\ rcvbuf \in Seq(GoodDatagram)
    /\ archived \in Seq(Good)

\* The file as written is the packets'; a session that is over left it whole, or, if it died,
\* some beginning of it.
Filing ==
    /\ Filed(written, archived)
    /\ Running \/ pc = "closed" =>
          logger.frames_written = Len(archived) /\ logger.bytes_written = Len(written)
    /\ pc = "closed" => disk = written
    /\ pc = "died" =>
          /\ run = NewRun
          /\ \E kept \in 0 .. Len(written) : disk = SubSeq(written, 1, kept)

\* The nodes' records are those of the packets archived, but for the times they were heard.
Live == Running \/ pc = "closed" \/ run # NewRun
RecordsAre ==
    Live => \A n \in Nodes :
               nodes[n] = At(After(archived, n, Len(archived)), nodes[n].last_seen)

\* The replay plays the first frames of the file, all of them if the session was closed.
Plays(m) ==
    /\ node = [frames |-> SubSeq(Coded(archived), 1, m), index |-> node.index]
    /\ run # NewRun => m = Len(archived)
    /\ node.index \in 0 .. m
    /\ again \in [Nodes -> NodeStats]
    /\ \A n \in Nodes : again[n] = After(archived, n, node.index)
    /\ pc = "done" => node.index = m
Replaying ==
    IF pc \in {"replay", "done"} THEN \E m \in 0 .. Len(archived) : Plays(m)
    ELSE node = NewNode /\ again = NoRecords

JInv == Stored /\ Filing /\ RecordsAre /\ Replaying

LEMMA GoodQueue ==
    ASSUME NEW S, NEW q \in Seq(S)
    PROVE  /\ q # <<>> => q[1] \in S /\ Head(q) = q[1] /\ Tail(q) \in Seq(S)
           /\ \A x \in S : Append(q, x) \in Seq(S)
BY SMT

\* A run begins.
IsBegun ==
    /\ pc = RoundStart(1) /\ run = NewRun /\ CollectorInit /\ LogInit
    /\ flight = <<>> /\ rcvbuf = <<>>
    /\ node = NewNode /\ again = NoRecords /\ archived = <<>>

LEMMA StartPlace == RoundStart(1) \in {"send", "collect", "select"}
<1>1. 1 \in Nat \ {0}
  OBVIOUS
<1> QED  BY <1>1, Started, CaptureAssumption

LEMMA Begun == IsBegun => JInv
<1> SUFFICES ASSUME IsBegun PROVE JInv
  OBVIOUS
<1>1. /\ pc \in {"send", "collect", "select"} /\ Running /\ run = NewRun
      /\ nodes = [n \in Nodes |-> Unheard] /\ archived = <<>> /\ written = <<>> /\ disk = <<>>
      /\ logger = [frames_written |-> 0, bytes_written |-> 0, open |-> TRUE]
      /\ totals = [packets |-> 0, samples |-> 0] /\ consumed = [s \in 1 .. SinkCount |-> 0]
      /\ flight = <<>> /\ rcvbuf = <<>> /\ node = NewNode /\ again = NoRecords
  BY StartPlace DEF IsBegun, CollectorInit, LogInit, ClosedLogger, Running
<1>2. Stored
  <2>1. CollectorTypeOK
    BY <1>1, UnheardType DEF CollectorTypeOK
  <2>2. LogTypeOK
    BY <1>1 DEF LogTypeOK
  <2>3. flight \in Seq(GoodDatagram) /\ rcvbuf \in Seq(GoodDatagram) /\ archived \in Seq(Good)
    BY <1>1
  <2> QED  BY <2>1, <2>2, <2>3 DEF Stored
<1>3. Len(archived) = 0 /\ Len(written) = 0
  BY <1>1
<1>4. Filing
  <2>1. written \in Seq(Nat) /\ archived \in Seq(Good)
    BY <1>1
  <2>2. Offset(archived, 0) = 0
    BY <2>1, Offsets
  <2>3. Filed(written, archived)
    BY <1>3, <2>1, <2>2 DEF Filed
  <2> QED  BY <1>1, <1>3, <2>3 DEF Filing
<1>5. RecordsAre
  <2> SUFFICES ASSUME NEW n \in Nodes
               PROVE  nodes[n] = At(After(archived, n, Len(archived)), nodes[n].last_seen)
    BY DEF RecordsAre
  <2>1. nodes[n] = Unheard
    BY <1>1
  <2>2. archived \in Seq(Good)
    BY <1>1
  <2>3. After(archived, n, 0) = Unheard
    BY <2>2, AfterIs
  <2>4. At(Unheard, Unheard.last_seen) = Unheard
    BY DEF At, Unheard
  <2> QED  BY <1>3, <2>1, <2>3, <2>4
<1>6. Replaying
  BY <1>1 DEF Replaying
<1> QED  BY <1>2, <1>4, <1>5, <1>6 DEF JInv

LEMMA BegunNext == IsBegun' => JInv'
BY Begun, PTL

\* A step that touches neither the records nor the file nor the replay.
LEMMA FilesUntouched ==
    ASSUME JInv, UNCHANGED <<collectorVars, logVars, node, again, archived>>,
           flight' \in Seq(GoodDatagram), rcvbuf' \in Seq(GoodDatagram),
           (pc' = pc /\ run' = run) \/ (Running /\ Running')
    PROVE  JInv'
<1>1. UNCHANGED <<nodes, totals, consumed, logger, written, disk, node, again, archived>>
  BY DEF collectorVars, logVars
<1>2. Stored'
  BY <1>1 DEF JInv, Stored, CollectorTypeOK, LogTypeOK
<1>3. CASE pc' = pc /\ run' = run
  <2>1. Filing'
    BY <1>1, <1>3 DEF JInv, Filing, Running
  <2>2. RecordsAre'
    BY <1>1, <1>3 DEF JInv, RecordsAre, Live, Running
  <2>3. Replaying'
    BY <1>1, <1>3 DEF JInv, Replaying, Plays
  <2> QED  BY <1>2, <2>1, <2>2, <2>3 DEF JInv
<1>4. CASE Running /\ Running'
  <2>1. Filing'
    BY <1>1, <1>4 DEF JInv, Filing, Running
  <2>2. RecordsAre'
    BY <1>1, <1>4 DEF JInv, RecordsAre, Live, Running
  <2>3. Replaying'
    BY <1>1, <1>4 DEF JInv, Replaying, Running
  <2> QED  BY <1>2, <2>1, <2>2, <2>3 DEF JInv
<1> QED  BY <1>3, <1>4

LEMMA SendFiles == IInv /\ JInv /\ Send => JInv'
<1> SUFFICES ASSUME IInv, JInv, Send PROVE JInv'
  OBVIOUS
<1> DEFINE p == Rounds[run.round][run.turn]
<1>1. pc = "send" /\ flight \in Seq(GoodDatagram) /\ rcvbuf' = rcvbuf
      /\ rcvbuf \in Seq(GoodDatagram) /\ pc' \in {"send", "collect"}
      /\ UNCHANGED <<collectorVars, logVars, node, again, archived>>
  BY DEF Send, JInv, Stored, UdpSend
<1>2. p \in Good
  <2>1. run.round \in 1 .. Len(Rounds) /\ run.turn \in 1 .. Len(Rounds[run.round])
    <3>1. run \in RunType /\ run.round <= Len(Rounds) /\ run.turn <= Len(Rounds[run.round])
      BY <1>1 DEF IInv, Typed, Placed
    <3>2. run.round \in Nat /\ run.round >= 1 /\ run.turn \in Nat \ {0}
      BY <3>1, CaptureAssumption DEF RunType
    <3>3. Len(Rounds) \in Nat /\ run.round \in 1 .. Len(Rounds)
      BY <3>1, <3>2, CaptureAssumption
    <3>4. Len(Rounds[run.round]) \in Nat
      BY <3>3, CaptureAssumption
    <3> QED  BY <3>1, <3>2, <3>3, <3>4
  <2>2. Rounds[run.round] \in Seq(Packet)
    BY <2>1, CaptureAssumption
  <2>3. p \in Packet
    BY <2>1, <2>2
  <2>4. run.round \in DOMAIN Rounds /\ run.turn \in DOMAIN Rounds[run.round]
    BY <2>1, <2>2, CaptureAssumption
  <2>5. Encodable(p)
    BY <2>4, CaptureAssumption
  <2> QED  BY <2>3, <2>5 DEF Good
<1>3. PICK intact \in BOOLEAN : flight' = Append(flight, [packet |-> p, intact |-> intact])
  BY DEF Send, UdpSend
<1>4. [packet |-> p, intact |-> intact] \in GoodDatagram
  BY <1>2 DEF GoodDatagram, Datagram, Good
<1> HIDE DEF p
<1>5. flight' \in Seq(GoodDatagram)
  BY <1>1, <1>3, <1>4, GoodQueue
<1>6. Running /\ Running'
  BY <1>1 DEF Running
<1> QED  BY <1>1, <1>5, <1>6, FilesUntouched

LEMMA QuietFiles ==
    IInv /\ JInv /\ (Reject \/ EndRound \/ SelectReady \/ SelectTimeout \/ EndPoll \/ Kernel)
       => JInv'
<1> SUFFICES ASSUME IInv, JInv,
                    Reject \/ EndRound \/ SelectReady \/ SelectTimeout \/ EndPoll \/ Kernel
             PROVE  JInv'
  OBVIOUS
<1>1. flight \in Seq(GoodDatagram) /\ rcvbuf \in Seq(GoodDatagram) /\ pc \in Places
      /\ run \in RunType
  BY DEF JInv, Stored, IInv, Typed
<1>2. UNCHANGED <<collectorVars, logVars, node, again, archived>>
  BY DEF Reject, EndRound, SelectReady, SelectTimeout, EndPoll, Kernel
<1>3. CASE Reject
  <2>1. PICK d : UdpRecv(d)
    BY <1>3 DEF Reject
  <2>2. rcvbuf' = Tail(rcvbuf) /\ rcvbuf # <<>> /\ flight' = flight
    BY <2>1 DEF UdpRecv
  <2>3. rcvbuf' \in Seq(GoodDatagram)
    BY <1>1, <2>2, GoodQueue
  <2>4. Running /\ Running'
    BY <1>3 DEF Reject, Collecting, Running
  <2> QED  BY <1>1, <1>2, <2>2, <2>3, <2>4, FilesUntouched
<1>4. CASE EndRound
  <2>1. flight' = flight /\ rcvbuf' = rcvbuf /\ pc = "collect" /\ pc' = RoundStart(run.round + 1)
    BY <1>4 DEF EndRound, udpVars
  <2>2. run.round + 1 \in Nat \ {0}
    <3>1. run.round \in Nat
      BY <1>1, CaptureAssumption DEF RunType
    <3> QED  BY <3>1
  <2>3. RoundStart(run.round + 1) \in {"send", "collect", "select"}
    BY <2>2, Started, CaptureAssumption
  <2>4. Running /\ Running'
    BY <2>1, <2>3 DEF Running
  <2> QED  BY <1>1, <1>2, <2>1, <2>4, FilesUntouched
<1>5. CASE SelectReady \/ SelectTimeout \/ EndPoll
  <2>1. flight' = flight /\ rcvbuf' = rcvbuf /\ Running /\ Running'
    BY <1>5 DEF SelectReady, SelectTimeout, EndPoll, udpVars, Running
  <2> QED  BY <1>1, <1>2, <2>1, FilesUntouched
<1>6. CASE Kernel
  <2>1. pc' = pc /\ run' = run /\ flight # <<>> /\ flight' = Tail(flight)
    BY <1>6 DEF Kernel, Arrive
  <2>2. rcvbuf' = rcvbuf \/ rcvbuf' = Append(rcvbuf, Head(flight))
    BY <1>6 DEF Kernel, Arrive
  <2>3. flight' \in Seq(GoodDatagram) /\ Head(flight) \in GoodDatagram
    BY <1>1, <2>1, GoodQueue
  <2>4. rcvbuf' \in Seq(GoodDatagram)
    <3> DEFINE head == Head(flight)
    <3>1. head \in GoodDatagram /\ (rcvbuf' = rcvbuf \/ rcvbuf' = Append(rcvbuf, head))
      BY <2>2, <2>3
    <3> HIDE DEF head
    <3>2. rcvbuf \in Seq(GoodDatagram) /\ Append(rcvbuf, head) \in Seq(GoodDatagram)
      <4>1. rcvbuf \in Seq(GoodDatagram)
        BY <1>1
      <4> QED  BY <3>1, <4>1, GoodQueue
    <3> QED  BY <3>1, <3>2
  <2> QED  BY <1>2, <2>1, <2>3, <2>4, FilesUntouched
<1> QED  BY <1>3, <1>4, <1>5, <1>6

LEMMA CountOne ==
    ASSUME NEW l \in [frames_written : Nat, bytes_written : Nat, open : BOOLEAN],
           NEW size \in Nat,
           NEW m, m = [l EXCEPT !.frames_written = @ + 1, !.bytes_written = @ + size]
    PROVE  /\ m.frames_written = l.frames_written + 1
           /\ m.bytes_written = l.bytes_written + size
           /\ m \in [frames_written : Nat, bytes_written : Nat, open : BOOLEAN]
<1>1. /\ l.frames_written + 1 \in Nat /\ l.bytes_written + size \in Nat
      /\ l.open \in BOOLEAN
  OBVIOUS
<1>2. m = [frames_written |-> l.frames_written + 1, bytes_written |-> l.bytes_written + size,
           open |-> l.open]
  OBVIOUS
<1> QED  BY <1>1, <1>2

\* A packet taken is filed, and heard in the record of its node.
LEMMA ReceiveFiles == IInv /\ JInv /\ Receive => JInv'
<1> SUFFICES ASSUME IInv, JInv, Receive PROVE JInv'
  OBVIOUS
<1>1. PICK d : /\ d = rcvbuf[1] /\ d.intact /\ UdpRecv(d)
               /\ Process(TrackedPacket(d.packet), run.round, SinkCount)
               /\ Consume(d.packet) /\ archived' = Append(archived, d.packet)
  BY DEF Receive
<1> DEFINE p == d.packet
           q == TrackedPacket(p)
           now == run.round
           n == Len(archived)
           record == Record(Encode(p))
<1>2. /\ flight \in Seq(GoodDatagram) /\ rcvbuf \in Seq(GoodDatagram) /\ archived \in Seq(Good)
      /\ CollectorTypeOK /\ LogTypeOK /\ run \in RunType
  BY DEF JInv, Stored, IInv, Typed
<1>3. rcvbuf # <<>> /\ rcvbuf' = Tail(rcvbuf) /\ flight' = flight
  BY <1>1 DEF UdpRecv
<1>4. d \in GoodDatagram /\ rcvbuf' \in Seq(GoodDatagram)
  BY <1>1, <1>2, <1>3, GoodQueue
<1>5. p \in Good
  BY <1>4 DEF GoodDatagram
<1>6. Reencode(p) = Encode(p)
  BY <1>5, ReencodeIsEncode DEF Good
<1>7. q.seq \in Seqs /\ q.samples \in Nat
  BY <1>5, TrackedIs
<1>8. now \in Nat /\ 0 \in Nat
  BY <1>2 DEF RunType
<1>9. /\ nodes' = [nodes EXCEPT ![q.node] = Track(@, q, now)]
      /\ totals' = [packets |-> totals.packets + 1, samples |-> totals.samples + q.samples]
      /\ consumed' = [s \in 1 .. SinkCount |-> IF s <= SinkCount THEN consumed[s] + 1
                                                               ELSE consumed[s]]
  BY <1>1 DEF Process
<1>10. /\ logger' = [logger EXCEPT !.frames_written = @ + 1, !.bytes_written = @ + Len(record)]
       /\ written' = written \o record /\ disk' = disk
  BY <1>1, <1>6 DEF Consume
<1>11. archived' = Append(archived, p)
  BY <1>1
<1>12. /\ pc \in {"collect", "poll"} /\ pc' = pc /\ run' = [run EXCEPT !.received = @ + 1]
       /\ node' = node /\ again' = again
  BY DEF Receive, Collecting
<1> HIDE DEF p, q, now
<1>13. Encode(p) \in Seq(Nat)
  BY <1>5, RoundTrip DEF Good
<1>14. record \in Seq(Nat) /\ Len(record) \in Nat
  <2>1. record \in Seq(Nat)
    BY <1>13, RecordShape
  <2> QED  BY <2>1
<1> HIDE DEF record
<1>15. archived' \in Seq(Good) /\ Len(archived') = n + 1 /\ n \in Nat
  BY <1>2, <1>5, <1>11, OneMorePacket
<1>16. CollectorTypeOK'
  <2>1. nodes' \in [Nodes -> NodeStats]
    <3>1. \A m \in Nodes : Track(nodes[m], q, now) \in NodeStats
      <4> TAKE m \in Nodes
      <4>1. nodes[m] \in NodeStats
        BY <1>2 DEF CollectorTypeOK
      <4> QED  BY <1>7, <1>8, <4>1, TrackType
    <3>2. nodes \in [Nodes -> NodeStats]
      BY <1>2 DEF CollectorTypeOK
    <3> QED  BY <1>9, <3>1, <3>2
  <2>2. totals' \in [packets : Nat, samples : Nat]
    BY <1>2, <1>7, <1>9, SMTT(30) DEF CollectorTypeOK
  <2>3. consumed' \in [1 .. SinkCount -> Nat]
    BY <1>2, <1>9 DEF CollectorTypeOK
  <2> QED  BY <2>1, <2>2, <2>3 DEF CollectorTypeOK
<1>17. /\ logger'.frames_written = logger.frames_written + 1
       /\ logger'.bytes_written = logger.bytes_written + Len(record)
       /\ logger' \in [frames_written : Nat, bytes_written : Nat, open : BOOLEAN]
  <2> DEFINE size == Len(record)
  <2>1. size \in Nat /\ logger \in [frames_written : Nat, bytes_written : Nat, open : BOOLEAN]
    BY <1>2, <1>14 DEF LogTypeOK
  <2>2. logger' = [logger EXCEPT !.frames_written = @ + 1, !.bytes_written = @ + size]
    BY <1>10
  <2> HIDE DEF size
  <2>3. /\ logger'.frames_written = logger.frames_written + 1
        /\ logger'.bytes_written = logger.bytes_written + size
        /\ logger' \in [frames_written : Nat, bytes_written : Nat, open : BOOLEAN]
    BY <2>1, <2>2, CountOne
  <2> QED  BY <2>3 DEF size
<1>18. /\ written \in Seq(Nat) /\ written' \in Seq(Nat)
       /\ Len(written') = Len(written) + Len(record)
  <2>1. written \in Seq(Nat)
    BY <1>2 DEF LogTypeOK
  <2> QED  BY <1>10, <1>14, <2>1, ConcatProperties
<1>19. Stored'
  <2>1. LogTypeOK'
    BY <1>2, <1>10, <1>17, <1>18 DEF LogTypeOK
  <2>2. flight' \in Seq(GoodDatagram)
    BY <1>2, <1>3
  <2> QED  BY <1>4, <1>15, <1>16, <2>1, <2>2 DEF Stored
<1>20. Running /\ Running' /\ pc' \notin {"closed", "died", "replay", "done"}
  BY <1>12 DEF Running
<1>21. Filing'
  <2>1. Filed(written, archived) /\ logger.frames_written = n
        /\ logger.bytes_written = Len(written)
    BY <1>20 DEF JInv, Filing
  <2>2. Filed(written', archived')
    BY <1>2, <1>5, <1>10, <1>11, <2>1, FiledAppend DEF record
  <2>3. logger'.frames_written = Len(archived') /\ logger'.bytes_written = Len(written')
    BY <1>15, <1>17, <1>18, <2>1
  <2> QED  BY <1>20, <2>2, <2>3 DEF Filing
<1>22. RecordsAre'
  <2> SUFFICES ASSUME NEW m \in Nodes
               PROVE  nodes'[m] = At(After(archived', m, Len(archived')), nodes'[m].last_seen)
    BY DEF RecordsAre
  <2> DEFINE y == After(archived, m, n)
             s == nodes[m].last_seen
  <2>1. nodes[m] = At(y, s)
    BY <1>20 DEF JInv, RecordsAre, Live
  <2>2. y \in NodeStats
    <3>1. n \in 0 .. n
      BY <1>15
    <3> QED  BY <1>2, <3>1, AfterIs
  <2>3. nodes[m] \in NodeStats
    BY <1>2 DEF CollectorTypeOK
  <2>4. s \in Nat \union {Never}
    BY <2>3 DEF NodeStats
  <2>5. After(archived', m, Len(archived')) = Heard(m, y, p)
    <3>1. After(Append(archived, p), m, n + 1) = Heard(m, y, p)
      BY <1>2, <1>5, AfterMore
    <3> QED  BY <1>11, <1>15, <3>1
  <2> HIDE DEF y, s, n
  <2>6. CASE q.node = m
    <3>1. nodes'[m] = Track(nodes[m], q, now)
      <4>1. nodes \in [Nodes -> NodeStats]
        BY <1>2 DEF CollectorTypeOK
      <4> QED  BY <1>9, <2>6, <4>1
    <3>2. Heard(m, y, p) = Track(y, q, 0)
      BY <2>6 DEF Heard, q
    <3>3. Track(At(y, s), q, now) = At(Track(y, q, 0), now)
      BY <1>7, <1>8, <2>2, <2>4, TrackBlind
    <3>4. nodes'[m] = At(Heard(m, y, p), now)
      BY <2>1, <3>1, <3>2, <3>3
    <3>5. Heard(m, y, p) \in NodeStats
      BY <1>5, <2>2, HeardType
    <3>6. nodes'[m].last_seen = now
      BY <1>8, <3>4, <3>5, AtIs
    <3> QED  BY <2>5, <3>4, <3>6
  <2>7. CASE q.node # m
    <3>1. nodes'[m] = nodes[m]
      <4>1. nodes \in [Nodes -> NodeStats]
        BY <1>2 DEF CollectorTypeOK
      <4> QED  BY <1>9, <2>7, <4>1
    <3>2. Heard(m, y, p) = y
      BY <2>7 DEF Heard, q
    <3> QED  BY <2>1, <2>5, <3>1, <3>2 DEF s
  <2> QED  BY <2>6, <2>7
<1>23. Replaying'
  BY <1>12, <1>20 DEF JInv, Replaying
<1> QED  BY <1>19, <1>21, <1>22, <1>23 DEF JInv

\* Closed, the file is what was written.
LEMMA CloseFiles == IInv /\ JInv /\ Close => JInv'
<1> SUFFICES ASSUME IInv, JInv, Close PROVE JInv'
  OBVIOUS
<1>1. /\ pc = "select" /\ pc' = "closed" /\ flight' = <<>> /\ rcvbuf' = <<>>
      /\ logger' = [logger EXCEPT !.open = FALSE] /\ disk' = written /\ written' = written
      /\ UNCHANGED <<nodes, totals, consumed, run, node, again, archived>>
  BY DEF Close, UdpClose, CloseLog, collectorVars
<1>2. logger \in [frames_written : Nat, bytes_written : Nat, open : BOOLEAN]
  BY DEF JInv, Stored, LogTypeOK
<1>3. /\ logger' \in [frames_written : Nat, bytes_written : Nat, open : BOOLEAN]
      /\ logger'.frames_written = logger.frames_written
      /\ logger'.bytes_written = logger.bytes_written
  BY <1>1, <1>2
<1>4. Stored'
  BY <1>1, <1>3 DEF JInv, Stored, LogTypeOK, CollectorTypeOK
<1>5. Filing'
  BY <1>1, <1>3 DEF JInv, Filing, Running
<1>6. RecordsAre'
  BY <1>1 DEF JInv, RecordsAre, Live, Running
<1>7. Replaying'
  BY <1>1 DEF JInv, Replaying
<1> QED  BY <1>4, <1>5, <1>6, <1>7 DEF JInv

\* Of a run that died a beginning of the file is left, and nothing else.
LEMMA DieFiles == IInv /\ JInv /\ Die => JInv'
<1> SUFFICES ASSUME IInv, JInv, Die PROVE JInv'
  OBVIOUS
<1>1. /\ Running /\ pc' = "died" /\ flight' = <<>> /\ rcvbuf' = <<>> /\ run' = NewRun
      /\ nodes' = [n \in Nodes |-> Unheard] /\ totals' = [packets |-> 0, samples |-> 0]
      /\ consumed' = [s \in 1 .. SinkCount |-> 0]
      /\ UNCHANGED <<node, again, archived>>
  BY DEF Die, Forget, NoRecords
<1>2. PICK kept \in 0 .. Len(written) :
          /\ logger' = ClosedLogger /\ disk' = SubSeq(written, 1, kept) /\ written' = written
  BY DEF Die, DieWith
<1>3. written \in Seq(Nat) /\ Len(written) \in Nat
  BY DEF JInv, Stored, LogTypeOK
<1>4. disk' \in Seq(Nat)
  BY <1>2, <1>3, Prefix
<1>5. Stored'
  <2>1. CollectorTypeOK'
    BY <1>1, UnheardType DEF CollectorTypeOK
  <2>2. LogTypeOK'
    BY <1>2, <1>3, <1>4 DEF LogTypeOK, ClosedLogger
  <2> QED  BY <1>1, <2>1, <2>2 DEF JInv, Stored
<1>6. Filing'
  <2>1. Filed(written', archived')
    BY <1>1, <1>2 DEF JInv, Filing
  <2>2. \E k \in 0 .. Len(written') : disk' = SubSeq(written', 1, k)
    BY <1>2
  <2> QED  BY <1>1, <2>1, <2>2 DEF Filing, Running
<1>7. RecordsAre'
  BY <1>1 DEF RecordsAre, Live, Running
<1>8. Replaying'
  BY <1>1 DEF JInv, Replaying, Running
<1> QED  BY <1>5, <1>6, <1>7, <1>8 DEF JInv

\* The replay begins with the frames of the file, if none is torn.
LEMMA LoadFiles == IInv /\ JInv /\ LoadCapture => JInv'
<1> SUFFICES ASSUME IInv, JInv, LoadCapture PROVE JInv'
  OBVIOUS
<1> DEFINE log == ReadRawLog(disk)
           n == Len(archived)
<1>1. /\ pc \in {"closed", "died"}
      /\ UNCHANGED <<nodes, totals, consumed, logger, written, disk, flight, rcvbuf, run>>
      /\ UNCHANGED <<again, archived>>
      /\ IF log.torn THEN pc' = "refused" /\ node' = node
         ELSE pc' = "replay" /\ node' = [frames |-> log.frames, index |-> 0]
  BY DEF LoadCapture, collectorVars, logVars, udpVars
<1>2. archived \in Seq(Good) /\ Filed(written, archived) /\ n \in Nat
  BY CodedShape DEF JInv, Stored, Filing
<1>3. node = NewNode /\ again = NoRecords
  BY <1>1 DEF JInv, Replaying
<1>4. Stored'
  BY <1>1 DEF JInv, Stored, CollectorTypeOK, LogTypeOK
<1>5. pc' \in {"refused", "replay"}
  BY <1>1
<1>6. Filing'
  BY <1>1, <1>5 DEF JInv, Filing, Running
<1>7. RecordsAre'
  <2>1. Live' => Live
    BY <1>1, <1>5 DEF Live, Running
  <2> QED  BY <1>1, <2>1 DEF JInv, RecordsAre
<1>8. Replaying'
  <2>1. CASE pc' = "refused"
    <3>1. node' = node
      BY <1>1, <2>1
    <3> QED  BY <1>1, <1>3, <2>1, <3>1 DEF Replaying
  <2>2. CASE pc' = "replay"
    <3>1. node' = [frames |-> log.frames, index |-> 0]
      BY <1>1, <2>2
    <3>2. again' \in [Nodes -> NodeStats] /\ \A m \in Nodes : again'[m] = After(archived, m, 0)
      <4>1. again' = [m \in Nodes |-> Unheard]
        BY <1>1, <1>3 DEF NoRecords
      <4>2. \A m : After(archived, m, 0) = Unheard
        BY <1>2, AfterIs
      <4> QED  BY <4>1, <4>2, UnheardType
    <3>3. \E m \in 0 .. n : /\ log.frames = SubSeq(Coded(archived), 1, m)
                            /\ run # NewRun => m = n
      <4>1. CASE pc = "closed"
        <5>1. log.frames = Coded(archived)
          <6>1. disk = written
            BY <4>1 DEF JInv, Filing
          <6> QED  BY <1>2, <6>1, AllReads
        <5>2. Coded(archived) \in Seq(Seq(Nat)) /\ Len(Coded(archived)) = n
          BY <1>2, CodedShape
        <5>3. SubSeq(Coded(archived), 1, n) = Coded(archived)
          <6> DEFINE c == Coded(archived)
          <6>1. c \in Seq(Seq(Nat)) /\ Len(c) = n
            BY <5>2
          <6> HIDE DEF c
          <6>2. SubSeq(c, 1, n) = c
            BY <1>2, <6>1, WholeSequence
          <6> QED  BY <6>2 DEF c
        <5>4. n \in 0 .. n
          BY <1>2
        <5> QED  BY <5>1, <5>3, <5>4
      <4>2. CASE pc = "died"
        <5>1. run = NewRun
          BY <4>2 DEF JInv, Filing
        <5>2. PICK kept \in 0 .. Len(written) : disk = SubSeq(written, 1, kept)
          BY <4>2 DEF JInv, Filing
        <5>3. \E count \in 0 .. n : log.frames = SubSeq(Coded(archived), 1, count)
          <6>1. \E count \in 0 .. Len(archived) :
                    ReadRawLog(SubSeq(written, 1, kept)).frames
                        = SubSeq(Coded(archived), 1, count)
            <7>1. PICK count \in 0 .. Len(archived) :
                      ReadRawLog(SubSeq(written, 1, kept))
                          = [frames |-> SubSeq(Coded(archived), 1, count),
                             torn |-> Offset(archived, count) # kept]
              BY <1>2, CutReads
            <7> DEFINE first == SubSeq(Coded(archived), 1, count)
                       cut == Offset(archived, count) # kept
                       read == ReadRawLog(SubSeq(written, 1, kept))
            <7>2. read = [frames |-> first, torn |-> cut]
              BY <7>1
            <7> HIDE DEF first, cut, read
            <7>3. read.frames = first
              BY <7>2
            <7> QED  BY <7>3 DEF read, first
          <6> QED  BY <5>2, <6>1
        <5> QED  BY <5>1, <5>3
      <4> QED  BY <1>1, <4>1, <4>2
    <3>4. PICK m \in 0 .. n : /\ log.frames = SubSeq(Coded(archived), 1, m)
                              /\ run # NewRun => m = n
      BY <3>3
    <3> HIDE DEF log, n
    <3>5. /\ node'.frames = log.frames /\ node'.index = 0 /\ 0 \in 0 .. m
      BY <1>2, <3>1, <3>4
    <3>6. Plays(m)'
      BY <1>1, <2>2, <3>2, <3>4, <3>5 DEF Plays, n
    <3>7. m \in 0 .. Len(archived')
      BY <1>1, <3>4 DEF n
    <3> QED  BY <2>2, <3>6, <3>7 DEF Replaying
  <2> QED  BY <1>5, <2>1, <2>2
<1> QED  BY <1>4, <1>6, <1>7, <1>8 DEF JInv

\* The next frame is that of the next packet archived, and is heard the way that was.
LEMMA ReplayFrameFiles == IInv /\ JInv /\ ReplayFrame => JInv'
<1> SUFFICES ASSUME IInv, JInv, ReplayFrame PROVE JInv'
  OBVIOUS
<1> DEFINE frame == node.frames[node.index + 1]
           q == TrackedPacket(Decode(frame))
           c == node.index + 1
<1>1. /\ pc = "replay" /\ pc' = pc /\ node.index < Len(node.frames)
      /\ UNCHANGED <<nodes, totals, consumed, logger, written, disk, flight, rcvbuf, run>>
      /\ archived' = archived /\ node' = [node EXCEPT !.index = @ + 1]
      /\ again' = [again EXCEPT ![q.node] = Track(@, q, 0)]
  BY DEF ReplayFrame, collectorVars, logVars, udpVars
<1>2. archived \in Seq(Good)
  BY DEF JInv, Stored
<1>3. PICK m : m \in 0 .. Len(archived) /\ Plays(m)
  BY <1>1 DEF JInv, Replaying
<1> HIDE DEF q
<1>4. /\ node.frames = SubSeq(Coded(archived), 1, m)
      /\ node.index \in 0 .. m
      /\ again \in [Nodes -> NodeStats]
      /\ \A n \in Nodes : again[n] = After(archived, n, node.index)
      /\ run # NewRun => m = Len(archived)
  BY <1>3 DEF Plays
<1>5. /\ Len(archived) \in Nat /\ Len(Coded(archived)) = Len(archived)
      /\ Coded(archived) \in Seq(Seq(Nat)) /\ m \in 0 .. Len(Coded(archived)) /\ m \in Nat
  BY <1>2, <1>3, CodedShape
<1>6. Len(node.frames) = m /\ \A k \in 1 .. m : node.frames[k] = Coded(archived)[k]
  <2> DEFINE coded == Coded(archived)
  <2>1. coded \in Seq(Seq(Nat)) /\ m \in 0 .. Len(coded)
    BY <1>5
  <2> HIDE DEF coded
  <2>2. /\ Len(SubSeq(coded, 1, m)) = m
        /\ \A k \in 1 .. m : SubSeq(coded, 1, m)[k] = coded[k]
    BY <2>1, Prefix
  <2> QED  BY <1>4, <2>2 DEF coded
<1>7. c \in 1 .. m /\ c - 1 = node.index /\ c \in 1 .. Len(archived) /\ c \in 0 .. m
  <2> DEFINE k == node.index
  <2>1. k \in 0 .. m /\ k < m /\ m \in Nat /\ m <= Len(archived) /\ Len(archived) \in Nat
    <3>1. k \in 0 .. m /\ m \in 0 .. Len(archived)
      BY <1>3, <1>4
    <3>2. k < m
      BY <1>1, <1>6
    <3> HIDE DEF k
    <3> QED  BY <1>5, <3>1, <3>2
  <2> HIDE DEF k
  <2>2. /\ k + 1 \in 1 .. m /\ (k + 1) - 1 = k /\ k + 1 \in 1 .. Len(archived)
        /\ k + 1 \in 0 .. m
    BY <2>1
  <2> QED  BY <2>2 DEF k
<1> DEFINE p == archived[c]
<1>8. p \in Good /\ frame = Encode(p)
  BY <1>2, <1>6, <1>7, CodedShape
<1>9. Decode(frame) = p
  BY <1>8, RoundTrip DEF Good
<1>10. q = TrackedPacket(p)
  BY <1>9 DEF q
<1>11. /\ node' = [node EXCEPT !.index = c] /\ \A n \in Nodes : again[n] = After(archived, n, c - 1)
  BY <1>1, <1>4, <1>7
<1> HIDE DEF c
<1>12. \A n \in Nodes : again'[n] = After(archived, n, c)
  <2> TAKE n \in Nodes
  <2>1. After(archived, n, c) = Heard(n, again[n], p)
    <3>1. \A i \in 1 .. Len(archived) :
             After(archived, n, i) = Heard(n, After(archived, n, i - 1), archived[i])
      BY <1>2, AfterIs
    <3>2. After(archived, n, c) = Heard(n, After(archived, n, c - 1), p)
      BY <1>7, <3>1
    <3> QED  BY <1>11, <3>2
  <2>2. again'[n] = IF q.node = n THEN Track(again[n], q, 0) ELSE again[n]
    BY <1>1, <1>4
  <2> QED  BY <1>10, <2>1, <2>2 DEF Heard
<1>13. again' \in [Nodes -> NodeStats]
  <2>1. \A n \in Nodes : After(archived, n, c) \in NodeStats
    <3>1. c \in 0 .. Len(archived)
      BY <1>5, <1>7
    <3> QED  BY <1>2, <3>1, AfterIs
  <2>2. DOMAIN again' = Nodes /\ again' = [n \in Nodes |-> again'[n]]
    BY <1>1, <1>4
  <2>3. \A n \in Nodes : again'[n] \in NodeStats
    BY <1>12, <2>1
  <2> QED  BY <2>2, <2>3
<1>14. Stored'
  BY <1>1 DEF JInv, Stored, CollectorTypeOK, LogTypeOK
<1>15. Filing'
  BY <1>1 DEF JInv, Filing, Running
<1>16. RecordsAre'
  BY <1>1 DEF JInv, RecordsAre, Live, Running
<1>17. Replaying'
  <2>1. node'.frames = node.frames /\ node'.index = c
    <3> DEFINE f == SubSeq(Coded(archived), 1, m)
               k == node.index
    <3>1. node = [frames |-> f, index |-> k]
      BY <1>3 DEF Plays
    <3> HIDE DEF f, k
    <3> QED  BY <1>11, <3>1
  <2>2. node' = [frames |-> SubSeq(Coded(archived), 1, m), index |-> node'.index]
    <3> DEFINE f == SubSeq(Coded(archived), 1, m)
               k == node.index
    <3>1. node = [frames |-> f, index |-> k]
      BY <1>3 DEF Plays
    <3> HIDE DEF f, k
    <3>2. node' = [frames |-> f, index |-> c]
      BY <1>11, <3>1
    <3> QED  BY <2>1, <3>2 DEF f
  <2>3. Plays(m)'
    BY <1>1, <1>4, <1>7, <1>12, <1>13, <2>1, <2>2 DEF Plays
  <2> QED  BY <1>1, <1>3, <2>3 DEF Replaying
<1> QED  BY <1>14, <1>15, <1>16, <1>17 DEF JInv

LEMMA ReplayOverFiles == IInv /\ JInv /\ ReplayOver => JInv'
<1> SUFFICES ASSUME IInv, JInv, ReplayOver PROVE JInv'
  OBVIOUS
<1>1. /\ pc = "replay" /\ pc' = "done" /\ node.index = Len(node.frames)
      /\ UNCHANGED <<nodes, totals, consumed, logger, written, disk, flight, rcvbuf, run>>
      /\ UNCHANGED <<node, again, archived>>
  BY DEF ReplayOver, collectorVars, logVars, udpVars
<1>2. Stored'
  BY <1>1 DEF JInv, Stored, CollectorTypeOK, LogTypeOK
<1>3. Filing'
  BY <1>1 DEF JInv, Filing, Running
<1>4. RecordsAre'
  BY <1>1 DEF JInv, RecordsAre, Live, Running
<1>5. Replaying'
  <2>1. PICK m : m \in 0 .. Len(archived) /\ Plays(m)
    BY <1>1 DEF JInv, Replaying
  <2>2. Len(node.frames) = m
    <3> DEFINE coded == Coded(archived)
    <3>1. coded \in Seq(Seq(Nat)) /\ m \in 0 .. Len(coded)
      BY <2>1, CodedShape DEF JInv, Stored
    <3>2. node.frames = SubSeq(coded, 1, m)
      BY <2>1 DEF Plays
    <3> HIDE DEF coded
    <3> QED  BY <3>1, <3>2, Prefix
  <2>3. Plays(m)'
    BY <1>1, <2>1, <2>2 DEF Plays
  <2> QED  BY <1>1, <2>1, <2>3 DEF Replaying
<1> QED  BY <1>2, <1>3, <1>4, <1>5 DEF JInv

LEMMA FilesInductive == Spec => [](IInv /\ JInv)
<1>1. Init => IInv /\ JInv
  <2> SUFFICES ASSUME Init PROVE IInv /\ JInv
    OBVIOUS
  <2>1. IInv
    BY Fresh DEF Init, CollectorInit, UdpInit, IsFresh
  <2>2. IsBegun
    BY DEF Init, UdpInit, IsBegun
  <2> QED  BY <2>1, <2>2, Begun
<1>2. IInv /\ JInv /\ [Next]_vars => JInv'
  <2> SUFFICES ASSUME IInv, JInv, [Next]_vars PROVE JInv'
    OBVIOUS
  <2>1. CASE Send
    BY <2>1, SendFiles
  <2>2. CASE Receive
    BY <2>2, ReceiveFiles
  <2>3. CASE Reject \/ EndRound \/ SelectReady \/ SelectTimeout \/ EndPoll \/ Kernel
    BY <2>3, QuietFiles
  <2>4. CASE Close
    BY <2>4, CloseFiles
  <2>5. CASE Die
    BY <2>5, DieFiles
  <2>6. CASE LoadCapture
    BY <2>6, LoadFiles
  <2>7. CASE ReplayFrame
    BY <2>7, ReplayFrameFiles
  <2>8. CASE ReplayOver
    BY <2>8, ReplayOverFiles
  <2>9. CASE Restart
    <3>1. IsBegun'
      BY <2>9 DEF Restart, Open, Forget, NoRecords, IsBegun, CollectorInit, LogInit
    <3> QED  BY <3>1, BegunNext
  <2>10. CASE UNCHANGED vars
    <3>1. UNCHANGED <<collectorVars, logVars, node, again, archived>> /\ pc' = pc /\ run' = run
          /\ flight' = flight /\ rcvbuf' = rcvbuf
      BY <2>10 DEF vars, udpVars
    <3>2. flight \in Seq(GoodDatagram) /\ rcvbuf \in Seq(GoodDatagram)
      BY DEF JInv, Stored
    <3> QED  BY <3>1, <3>2, FilesUntouched
  <2> QED  BY <2>1, <2>2, <2>3, <2>4, <2>5, <2>6, <2>7, <2>8, <2>9, <2>10 DEF Next, Step
<1> QED  BY <1>1, <1>2, Inductive, PTL DEF Spec

-----------------------------------------------------------------------------
\* Everything has its type, the records of every node, the file and the replay included.
THEOREM TypeCorrect == Spec => []TypeOK
<1>1. IInv /\ JInv => TypeOK
  <2> SUFFICES ASSUME IInv, JInv PROVE TypeOK
    OBVIOUS
  <2>1. archived \in Seq(Packet)
    <3>1. archived \in Seq(Good)
      BY DEF JInv, Stored
    <3>2. Good \subseteq Packet
      BY DEF Good
    <3> QED  BY <3>1, <3>2
  <2>2. node.index \in 0 .. Len(node.frames)
    <3>1. CASE pc \in {"replay", "done"}
      <4>1. PICK m : m \in 0 .. Len(archived) /\ Plays(m)
        BY <3>1 DEF JInv, Replaying
      <4> DEFINE coded == Coded(archived)
      <4>2. coded \in Seq(Seq(Nat)) /\ m \in 0 .. Len(coded)
        BY <4>1, CodedShape DEF JInv, Stored
      <4>3. node.frames = SubSeq(coded, 1, m) /\ node.index \in 0 .. m
        BY <4>1 DEF Plays
      <4> HIDE DEF coded
      <4> QED  BY <4>2, <4>3, Prefix
    <3>2. CASE pc \notin {"replay", "done"}
      <4>1. node = NewNode
        BY <3>2 DEF JInv, Replaying
      <4> QED  BY <4>1 DEF NewNode
    <3> QED  BY <3>1, <3>2
  <2> QED  BY <2>1, <2>2 DEF IInv, Typed, JInv, Stored, TypeOK
<1> QED  BY <1>1, FilesInductive, PTL

\* The capture reads back, at every moment of a run, as the frames of the packets taken, and
\* the logger's counters tell its size: for every script of encodable packets.
THEOREM ArchiveFaithful == Spec => []ArchiveIdentical
<1>1. JInv => ArchiveIdentical
  <2> SUFFICES ASSUME JInv, Running \/ pc = "closed"
               PROVE  /\ ReadRawLog(written) = [frames |-> Archived, torn |-> FALSE]
                      /\ logger.frames_written = Len(archived)
                      /\ logger.bytes_written = Len(written)
    BY DEF ArchiveIdentical
  <2>1. Archived = Coded(archived)
    BY DEF Archived, Coded
  <2>2. ReadRawLog(written) = [frames |-> Coded(archived), torn |-> FALSE]
    BY AllReads DEF JInv, Stored, Filing
  <2> QED  BY <2>1, <2>2 DEF JInv, Filing
<1> QED  BY <1>1, FilesInductive, PTL

\* A death leaves some beginning of the file: whichever it is, every frame whose record is
\* whole is read, in order, and the read ends in an error exactly if a record is cut.
THEOREM RecoversWhole == Spec => []WholeRecordsRecovered
<1>1. JInv => WholeRecordsRecovered
  <2> SUFFICES ASSUME JInv, pc = "died" PROVE WholeRecordsRecovered
    BY DEF WholeRecordsRecovered
  <2> DEFINE n == Len(archived)
             coded == Coded(archived)
             data == disk
             log == ReadRawLog(data)
  <2>1. archived \in Seq(Good) /\ Filed(written, archived) /\ written \in Seq(Nat)
    BY DEF JInv, Stored, Filing, Filed
  <2>2. PICK kept \in 0 .. Len(written) : data = SubSeq(written, 1, kept)
    BY DEF JInv, Filing
  <2>3. Len(data) = kept
    BY <2>1, <2>2, Prefix
  <2>4. Archived = coded /\ \A k : BytesOf(k) = Offset(archived, k)
    BY DEF Archived, Coded, BytesOf, Offset
  <2>5. \E count \in 0 .. n :
            /\ ReadRawLog(SubSeq(written, 1, kept))
                  = [frames |-> SubSeq(coded, 1, count), torn |-> Offset(archived, count) # kept]
            /\ Offset(archived, count) <= kept
            /\ count < n => Offset(archived, count + 1) > kept
    BY <2>1, CutReads
  <2>6. PICK count \in 0 .. n :
            /\ log = [frames |-> SubSeq(coded, 1, count), torn |-> Offset(archived, count) # kept]
            /\ Offset(archived, count) <= kept
            /\ count < n => Offset(archived, count + 1) > kept
    BY <2>2, <2>5
  <2>7. coded \in Seq(Seq(Nat)) /\ count \in 0 .. Len(coded)
    BY <2>1, CodedShape
  <2> DEFINE first == SubSeq(coded, 1, count)
             cut == Offset(archived, count) # kept
  <2> HIDE DEF log, coded, data
  <2>8. Len(first) = count
    BY <2>7, Prefix
  <2>9. log.frames = first /\ log.torn = cut
    <3>1. log = [frames |-> first, torn |-> cut]
      BY <2>6
    <3> HIDE DEF first, cut
    <3> QED  BY <3>1
  <2>10. /\ log.frames = SubSeq(Archived, 1, Len(log.frames))
         /\ BytesOf(Len(log.frames)) <= Len(data)
         /\ Len(log.frames) < n => BytesOf(Len(log.frames) + 1) > Len(data)
         /\ log.torn <=> BytesOf(Len(log.frames)) # Len(data)
    BY <2>3, <2>4, <2>6, <2>8, <2>9
  <2> QED  BY <2>10 DEF WholeRecordsRecovered, log, data
<1> QED  BY <1>1, FilesInductive, PTL

\* The replay ends in the record the packets played made of every node, which after a session
\* that was closed is the record the session ended in: for every script, whatever was lost,
\* late or damaged on the way and however often the program died before.
THEOREM ReplayExact == Spec => []ReplayReproduces
<1>1. JInv => ReplayReproduces
  <2> SUFFICES ASSUME JInv, pc = "done" PROVE ReplayReproduces
    BY DEF ReplayReproduces
  <2>1. PICK m : m \in 0 .. Len(archived) /\ Plays(m)
    BY DEF JInv, Replaying
  <2> DEFINE coded == Coded(archived)
  <2>2. archived \in Seq(Good) /\ coded \in Seq(Seq(Nat)) /\ m \in 0 .. Len(coded)
        /\ Len(archived) \in Nat
    BY <2>1, CodedShape DEF JInv, Stored
  <2>3. /\ node.frames = SubSeq(coded, 1, m) /\ node.index = m
        /\ \A n \in Nodes : again[n] = After(archived, n, m)
        /\ run # NewRun => m = Len(archived)
    BY <2>1 DEF Plays
  <2> HIDE DEF coded
  <2>4. Len(node.frames) = m
    BY <2>2, <2>3, Prefix
  <2>5. \A n, k : RecordOf(n, k) = After(archived, n, k)
    BY DEF RecordOf, After
  <2>6. ASSUME run # NewRun, NEW n \in Nodes
        PROVE  again[n] = [nodes[n] EXCEPT !.last_seen = again[n].last_seen]
    <3> DEFINE a == again[n]
               x == nodes[n]
    <3>1. a = After(archived, n, Len(archived)) /\ a \in NodeStats
      <4>1. a = After(archived, n, m) /\ m = Len(archived)
        BY <2>3, <2>6
      <4>2. \A c \in 0 .. Len(archived) : After(archived, n, c) \in NodeStats
        BY <2>2, AfterIs
      <4>3. After(archived, n, m) \in NodeStats
        BY <2>1, <4>2
      <4> QED  BY <4>1, <4>3
    <3>2. x = At(a, x.last_seen) /\ x \in NodeStats
      BY <2>6, <3>1 DEF JInv, RecordsAre, Live, Stored, CollectorTypeOK
    <3>3. x.last_seen \in Nat \union {Never} /\ a.last_seen \in Nat \union {Never}
      BY <3>1, <3>2 DEF NodeStats
    <3> DEFINE t == x.last_seen
               u == a.last_seen
    <3> HIDE DEF a, x
    <3>4. /\ x.packets = a.packets /\ x.samples = a.samples /\ x.lost = a.lost
          /\ x.reordered = a.reordered /\ x.duplicated = a.duplicated
          /\ x.heartbeats = a.heartbeats /\ x.first_seq = a.first_seq
          /\ x.last_seq = a.last_seq /\ x.seen_q = a.seen_q
      <4> DEFINE z == At(a, t)
      <4>1. /\ z.packets = a.packets /\ z.samples = a.samples /\ z.lost = a.lost
            /\ z.reordered = a.reordered /\ z.duplicated = a.duplicated
            /\ z.heartbeats = a.heartbeats /\ z.first_seq = a.first_seq
            /\ z.last_seq = a.last_seq /\ z.seen_q = a.seen_q
        <5>1. a \in NodeStats /\ t \in Nat \union {Never}
          BY <3>1, <3>3
        <5> HIDE DEF t
        <5> QED  BY <5>1, AtIs
      <4>2. x = z
        BY <3>2
      <4> HIDE DEF z
      <4> QED  BY <4>1, <4>2
    <3> DEFINE y == At(x, u)
    <3>5. /\ y \in NodeStats /\ y.last_seen = u
          /\ y.packets = x.packets /\ y.samples = x.samples /\ y.lost = x.lost
          /\ y.reordered = x.reordered /\ y.duplicated = x.duplicated
          /\ y.heartbeats = x.heartbeats /\ y.first_seq = x.first_seq
          /\ y.last_seq = x.last_seq /\ y.seen_q = x.seen_q
      <4>1. x \in NodeStats /\ u \in Nat \union {Never}
        BY <3>2, <3>3
      <4> HIDE DEF u
      <4> QED  BY <4>1, AtIs
    <3> HIDE DEF y
    <3>6. a = y
      BY <3>1, <3>4, <3>5, SameRecord
    <3> QED  BY <3>6 DEF a, x, y, At
  <2>7. /\ Len(node.frames) <= Len(archived)
        /\ \A n \in Nodes : again[n] = RecordOf(n, Len(node.frames))
    BY <2>1, <2>2, <2>3, <2>4, <2>5
  <2> QED  BY <2>6, <2>7 DEF ReplayReproduces
<1> QED  BY <1>1, FilesInductive, PTL

\* No frame of a capture is refused by the receiver it is replayed through.
Replayable ==
    pc = "replay" /\ node.index < Len(node.frames) =>
        LET frame == node.frames[node.index + 1]
        IN  ~FramingError(frame) /\ ~CrcError(frame)

\* The receiver of a replay counts no error (frame_receiver.py:51-56), for every script and also
\* on a file a death cut short: the guard of ReplayFrame leaves no case of the code out.
THEOREM ReplayGoesOn == Spec => []Replayable
<1>1. JInv => Replayable
  <2> SUFFICES ASSUME JInv, pc = "replay", node.index < Len(node.frames)
               PROVE  LET frame == node.frames[node.index + 1]
                      IN  ~FramingError(frame) /\ ~CrcError(frame)
    BY DEF Replayable
  <2>1. PICK m : m \in 0 .. Len(archived) /\ Plays(m)
    BY DEF JInv, Replaying
  <2> DEFINE coded == Coded(archived)
             k == node.index
             c == k + 1
  <2>2. /\ archived \in Seq(Good) /\ coded \in Seq(Seq(Nat)) /\ Len(archived) \in Nat
        /\ m \in 0 .. Len(coded) /\ m <= Len(archived) /\ m \in Nat
    BY <2>1, CodedShape DEF JInv, Stored
  <2>3. node.frames = SubSeq(coded, 1, m) /\ k \in 0 .. m
    BY <2>1 DEF Plays
  <2>4. k < Len(node.frames)
    OBVIOUS
  <2> HIDE DEF coded, k
  <2>5. Len(node.frames) = m /\ \A i \in 1 .. m : node.frames[i] = coded[i]
    BY <2>2, <2>3, Prefix
  <2>6. c \in 1 .. m /\ c \in 1 .. Len(archived)
    BY <2>2, <2>3, <2>4, <2>5
  <2> HIDE DEF c
  <2>7. node.frames[c] = Encode(archived[c]) /\ archived[c] \in Good
    BY <2>2, <2>5, <2>6, CodedShape DEF coded
  <2>8. ~FramingError(node.frames[c]) /\ ~CrcError(node.frames[c])
    BY <2>7, RoundTrip DEF Good
  <2> QED  BY <2>8 DEF c, k
<1> QED  BY <1>1, FilesInductive, PTL
=============================================================================
