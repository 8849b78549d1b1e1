----------------------------- MODULE WireFormat -----------------------------
(***************************************************************************)
(* The frame: sync word, header, samples, check sum (wiredaq_codec.py).    *)
(*                                                                         *)
(* A header keeps a cell for each field the receivers branch on; node_id,  *)
(* seq, t_node_us and sample_rate_hz are one cell, `ident`.  A sample and  *)
(* the check sum take one cell each.  The check sum is ideal: contents     *)
(* that differ have different sums (CRC-16 misses 1 in 65536).             *)
(***************************************************************************)
EXTENDS Integers, Sequences, FiniteSets

CONSTANT MaxPacketBytes     \* no frame is longer

Magic == <<4, 3>>
Version == 1
SampleBlock == 1
Heartbeat == 2
Bytes == 0 .. 4             \* the sync word, the other values a header can have, and one more

HeaderSize == 7
CrcSize == 1
VersionAt == 3
MsgTypeAt == 4
IdentAt == 5
ChannelCountAt == 6
SampleCountAt == 7

\* An empty frame is short enough.
ASSUME MaxPacketAssumption == MaxPacketBytes \in Nat /\ MaxPacketBytes >= HeaderSize + CrcSize

FrameLength(channelCount, sampleCount) == HeaderSize + channelCount * sampleCount + CrcSize

\* The sum of a content; a check sum found inside it counts as one more kind of byte.
Digit(cell) == IF cell \in Bytes THEN cell ELSE Cardinality(Bytes)
Crc(content) ==
    LET sum[n \in 0 .. Len(content)] ==
            IF n = 0 THEN 0 ELSE 7 * sum[n - 1] + Digit(content[n]) + 1
    IN  sum[Len(content)]

Packet == [msg_type : {SampleBlock, Heartbeat}, ident : Bytes,
           channel_count : Bytes, sample_count : Bytes, samples : Seq(Bytes)]

\* What the encoders accept: rows of channel_count values each, and a frame short enough;
\* a heartbeat is header-only.
Encodable(p) ==
    /\ Len(p.samples) = p.channel_count * p.sample_count
    /\ FrameLength(p.channel_count, p.sample_count) <= MaxPacketBytes
    /\ p.msg_type = Heartbeat => p.channel_count = 0 /\ p.sample_count = 0

\* encode_sample_block and encode_heartbeat.
Encode(p) ==
    LET content == Magic \o <<Version, p.msg_type, p.ident, p.channel_count, p.sample_count>>
                         \o p.samples
    IN  Append(content, Crc(content))

\* decode, the checks of FramingError in their order, then CrcError.
FramingError(frame) ==
    \/ Len(frame) < HeaderSize + CrcSize
    \/ Len(frame) > MaxPacketBytes
    \/ SubSeq(frame, 1, 2) # Magic
    \/ frame[VersionAt] # Version
    \/ frame[MsgTypeAt] \notin {SampleBlock, Heartbeat}
    \/ /\ frame[MsgTypeAt] = Heartbeat
       /\ frame[ChannelCountAt] # 0 \/ frame[SampleCountAt] # 0
    \/ Len(frame) # FrameLength(frame[ChannelCountAt], frame[SampleCountAt])

\* Mutant: the check sum is not compared.
CrcErrorIgnored(frame) == FALSE

CrcError(frame) ==
    /\ ~FramingError(frame)
    /\ frame[Len(frame)] # Crc(SubSeq(frame, 1, Len(frame) - CrcSize))

Decode(frame) ==
    [msg_type |-> frame[MsgTypeAt], ident |-> frame[IdentAt],
     channel_count |-> frame[ChannelCountAt], sample_count |-> frame[SampleCountAt],
     samples |-> SubSeq(frame, HeaderSize + 1, Len(frame) - CrcSize)]
=============================================================================
