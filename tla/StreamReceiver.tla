--------------------------- MODULE StreamReceiver ---------------------------
(***************************************************************************)
(* Finding frames in a byte stream (stream_receiver.py).                   *)
(*                                                                         *)
(* packets() fills the buffer, then turns the framing loop until it must   *)
(* wait for more bytes: one action per way through an iteration.  A frame  *)
(* is yielded to the collector, which takes it before the loop goes on.    *)
(***************************************************************************)
EXTENDS WireFormat, FiniteSetsExt, SequencesExt

VARIABLES
    buf,            \* bytes read and not yet consumed
    scanning,       \* is the framing loop running
    stats,          \* StreamReceiverStats
    yielded,        \* packets handed to the collector
    front,          \* history: how many bytes have left the buffer
    spans           \* history: where in the stream whole frames were taken, and the verdict

receiverVars == <<buf, scanning, stats, yielded, front, spans>>

StreamReceiverStats ==
    [received : Nat, crc_errors : Nat, framing_errors : Nat, resync_bytes : Nat]

Span == [at : Nat, len : Nat, verdict : {"received", "crc_errors"}]

\* What a cell of the stream can be, and what decode makes of a candidate.
Cell == Nat
Decoded == {Decode(frame) : frame \in Seq(Cell)}

ReceiverTypeOK ==
    /\ buf \in Seq(Cell)
    /\ scanning \in BOOLEAN
    /\ stats \in StreamReceiverStats
    /\ yielded \in Seq(Decoded)
    /\ front \in Nat
    /\ spans \in Seq(Span)

ReceiverInit ==
    /\ buf = <<>>
    /\ scanning = FALSE
    /\ stats = [received |-> 0, crc_errors |-> 0, framing_errors |-> 0, resync_bytes |-> 0]
    /\ yielded = <<>>
    /\ front = 0
    /\ spans = <<>>

-----------------------------------------------------------------------------
\* buf.find(MAGIC): the first sync word, if there is one; the bytes before it are noise.
SyncAt == {i \in 1 .. Len(buf) - 1 : SubSeq(buf, i, i + 1) = Magic}
FirstSync == {i \in SyncAt : \A j \in SyncAt : i <= j}

Rest(at) == SubSeq(buf, at, Len(buf))

\* The length of the frame s starts with, if it starts with a header.
ImpliedLength(s) == FrameLength(s[ChannelCountAt], s[SampleCountAt])

\* Mutant: a header is believed whatever its length.
PlausibleAnyLength(s) == s[VersionAt] = Version /\ s[MsgTypeAt] \in {SampleBlock, Heartbeat}

Plausible(s) ==
    /\ s[VersionAt] = Version
    /\ s[MsgTypeAt] \in {SampleBlock, Heartbeat}
    /\ ImpliedLength(s) \in 0 .. MaxPacketBytes

HasHeader(at) == Len(Rest(at)) >= HeaderSize
\* Mutant: a frame counts as whole when one more byte is there.
HasFrameLate(at) ==
    HasHeader(at) /\ Plausible(Rest(at)) /\ Len(Rest(at)) > ImpliedLength(Rest(at))

HasFrame(at) ==
    HasHeader(at) /\ Plausible(Rest(at)) /\ Len(Rest(at)) >= ImpliedLength(Rest(at))
Candidate(at) == SubSeq(Rest(at), 1, ImpliedLength(Rest(at)))

\* k bytes leave the buffer; `discarded` of them are counted as noise.
Consume(k, discarded, counters) ==
    /\ buf' = SubSeq(buf, k + 1, Len(buf))
    /\ front' = front + k
    /\ stats' = [c \in DOMAIN stats |->
                    stats[c] + (IF c = "resync_bytes" THEN discarded ELSE 0)
                             + (IF c \in counters THEN 1 ELSE 0)]

Discard(k) == Consume(k, k, {}) /\ UNCHANGED <<yielded, spans>>

\* A whole frame is consumed, noise before it discarded.
TakeFrame(at, verdict) ==
    LET len == ImpliedLength(Rest(at))
    IN  /\ Consume(at - 1 + len, at - 1, {verdict})
        /\ spans' = Append(spans, [at |-> front + at, len |-> len, verdict |-> verdict])

-----------------------------------------------------------------------------
\* packets() is called: _fill reads all there is, then the loop starts.
Fill(chunk) ==
    /\ ~scanning
    /\ buf' = buf \o chunk
    /\ scanning' = TRUE
    /\ UNCHANGED <<stats, yielded, front, spans>>

\* Mutant: half a sync word is discarded.
NoSyncDropAll ==
    /\ SyncAt = {}
    /\ Discard(Len(buf))
    /\ scanning' = FALSE

\* No sync word: keep a last byte that may be half of one.
NoSync ==
    /\ SyncAt = {}
    /\ Discard(Len(buf) - (IF buf # <<>> /\ Last(buf) = Magic[1] THEN 1 ELSE 0))
    /\ scanning' = FALSE

AwaitHeader(at) ==
    /\ ~HasHeader(at)
    /\ Discard(at - 1)
    /\ scanning' = FALSE

\* Mutants: step over a whole header; step over nothing.
FalseSyncHeader(at) ==
    /\ HasHeader(at) /\ ~Plausible(Rest(at))
    /\ Discard(at - 1 + HeaderSize)
    /\ UNCHANGED scanning

FalseSyncStuck(at) ==
    /\ HasHeader(at) /\ ~Plausible(Rest(at))
    /\ Discard(at - 1)
    /\ UNCHANGED scanning

\* A sync word that is not the start of a header: step over its first byte.
FalseSync(at) ==
    /\ HasHeader(at) /\ ~Plausible(Rest(at))
    /\ Discard(at)
    /\ UNCHANGED scanning

AwaitFrame(at) ==
    /\ HasHeader(at) /\ Plausible(Rest(at)) /\ ~HasFrame(at)
    /\ Discard(at - 1)
    /\ scanning' = FALSE

\* The check sum fails: trust the header's length and step over the frame.
Reject(at) ==
    /\ HasFrame(at) /\ CrcError(Candidate(at))
    /\ TakeFrame(at, "crc_errors")
    /\ UNCHANGED <<scanning, yielded>>

\* Mutant: the byte stepped over is not counted.
RefuseUncounted(at) ==
    /\ HasFrame(at) /\ FramingError(Candidate(at))
    /\ Consume(at, at - 1, {"framing_errors"})
    /\ UNCHANGED <<scanning, yielded, spans>>

\* A shape the decoder refuses: step over one byte.
Refuse(at) ==
    /\ HasFrame(at) /\ FramingError(Candidate(at))
    /\ Consume(at, at, {"framing_errors"})
    /\ UNCHANGED <<scanning, yielded, spans>>

Yield(at) ==
    /\ HasFrame(at) /\ ~FramingError(Candidate(at)) /\ ~CrcError(Candidate(at))
    /\ TakeFrame(at, "received")
    /\ yielded' = Append(yielded, Decode(Candidate(at)))
    /\ UNCHANGED scanning

Scan ==
    /\ scanning
    /\ \/ NoSync
       \/ \E at \in FirstSync :
             \/ AwaitHeader(at) \/ FalseSync(at) \/ AwaitFrame(at)
             \/ Reject(at) \/ Refuse(at) \/ Yield(at)
=============================================================================
