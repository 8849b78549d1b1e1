----------------------------- MODULE SerialLine -----------------------------
(***************************************************************************)
(* Frames sent over a noisy serial line to a StreamReceiver                *)
(* (serial_transport.py, serial_port.py, cli/serial.py).                   *)
(*                                                                         *)
(* The line is a pipe of bytes: a burst of noise may precede a frame, and  *)
(* bytes of a frame may be damaged.  A read returns what has come across   *)
(* so far, any prefix of what is on the wire.                              *)
(***************************************************************************)
EXTENDS StreamReceiver

CONSTANTS
    Packets,        \* the packets sent, in order
    Bursts,         \* bursts of noise that may precede a frame
    MaxBursts, MaxDamage    \* bounds of the model: bursts, and bytes damaged

\* No two frames of a session are the same: each has a sequence number and a time of its own.
ASSUME PacketsAssumption ==
    /\ Packets \in Seq(Packet) /\ \A i \in DOMAIN Packets : Encodable(Packets[i])
    /\ \A i, j \in DOMAIN Packets : Packets[i] = Packets[j] => i = j
    /\ Bursts \subseteq Seq(Bytes)
ASSUME LineBounds == MaxBursts \in Nat /\ MaxDamage \in Nat

VARIABLES
    wire,           \* bytes sent and not yet read
    sent,           \* frames sent
    noise,          \* SerialNoiseStats
    bursts,         \* bursts sent
    line,           \* history: all bytes sent
    start,          \* history: where each frame starts in it
    damaged         \* history: the frames with damaged bytes

lineVars == <<wire, sent, noise, bursts, line, start, damaged>>
vars == <<receiverVars, lineVars>>

FrameIndex == 1 .. Len(Packets)
Frames == [i \in FrameIndex |-> Encode(Packets[i])]
Position == 0 .. Len(line)

SerialNoiseStats == [bytes_sent : Nat, garbage_injected : Nat, bytes_corrupted : Nat]

TypeOK ==
    /\ ReceiverTypeOK
    /\ wire \in Seq(Cell) /\ line \in Seq(Cell)
    /\ sent \in 0 .. Len(Packets)
    /\ noise \in SerialNoiseStats
    /\ bursts \in 0 .. MaxBursts
    /\ start \in [1 .. sent -> Position]
    /\ damaged \subseteq 1 .. sent

Init ==
    /\ ReceiverInit
    /\ wire = <<>> /\ line = <<>>
    /\ sent = 0
    /\ noise = [bytes_sent |-> 0, garbage_injected |-> 0, bytes_corrupted |-> 0]
    /\ bursts = 0
    /\ start = <<>>
    /\ damaged = {}

\* Bit flips: new values of a few bytes.
Flips == UNION {[hit -> Bytes] : hit \in {h \in SUBSET (1 .. MaxPacketBytes) : Cardinality(h) <= MaxDamage}}

\* send: noise before the frame, then the frame with flipped bytes.
Send(burst, flips) ==
    LET frame == Frames[sent + 1]
        hit == DOMAIN flips
        onWire == burst \o [i \in DOMAIN frame |-> IF i \in hit THEN flips[i] ELSE frame[i]]
    IN  /\ sent < Len(Packets)
        /\ burst # <<>> => bursts < MaxBursts
        /\ noise.bytes_corrupted + Cardinality(hit) <= MaxDamage
        /\ hit \subseteq DOMAIN frame /\ \A i \in hit : flips[i] # frame[i]
        /\ wire' = wire \o onWire
        /\ line' = line \o onWire
        /\ sent' = sent + 1
        /\ noise' = [bytes_sent |-> noise.bytes_sent + Len(frame),
                     garbage_injected |-> noise.garbage_injected + Len(burst),
                     bytes_corrupted |-> noise.bytes_corrupted + Cardinality(hit)]
        /\ bursts' = IF burst = <<>> THEN bursts ELSE bursts + 1
        /\ start' = Append(start, Len(line) + Len(burst) + 1)
        /\ damaged' = IF hit = {} THEN damaged ELSE damaged \union {sent + 1}
        /\ UNCHANGED receiverVars

\* packets() finds the first n bytes of the wire to read.
Poll(n) ==
    /\ Fill(SubSeq(wire, 1, n))
    /\ wire' = SubSeq(wire, n + 1, Len(wire))
    /\ UNCHANGED <<sent, noise, bursts, line, start, damaged>>

Turn == Scan /\ UNCHANGED lineVars

Next ==
    \/ \E burst \in Bursts \union {<<>>}, flips \in Flips : Send(burst, flips)
    \/ \E n \in 0 .. Len(wire) : Poll(n)
    \/ Turn

Spec == Init /\ [][Next]_vars

\* The framing loop runs on, and the line delivers to a program that keeps polling: now and
\* then a poll finds all that was sent.  Nothing makes a sender send.
Fairness ==
    /\ SF_vars(Poll(Len(wire)))
    /\ WF_vars(Turn)

FairSpec == Spec /\ Fairness
-----------------------------------------------------------------------------
(* What a receiver that has the whole stream at hand takes out of it. *)

BytesRead == SubSeq(line, 1, Len(line) - Len(wire))

RestFrom(s, p) == SubSeq(s, p, Len(s))

\* Where a frame may start: at a sync word, unless a whole header behind it says otherwise.
Headers(s) ==
    {p \in 1 .. Len(s) - 1 :
        /\ SubSeq(s, p, p + 1) = Magic
        /\ Len(RestFrom(s, p)) >= HeaderSize => Plausible(RestFrom(s, p))}

Stops(s, p) ==
    \/ Len(RestFrom(s, p)) < HeaderSize
    \/ ImpliedLength(RestFrom(s, p)) > Len(RestFrom(s, p))

FrameFrom(s, p) == SubSeq(RestFrom(s, p), 1, ImpliedLength(RestFrom(s, p)))

SpanFrom(s, p) ==
    [at |-> p, len |-> Len(FrameFrom(s, p)),
     verdict |-> IF CrcError(FrameFrom(s, p)) THEN "crc_errors" ELSE "received"]

\* The frames taken out of s from each of its positions on.
SpansFrom(s) ==
    LET headers == Headers(s)
        from[p \in 1 .. Len(s) + 1] ==
            LET ahead == {q \in headers : q >= p}
                q == Min(ahead)
            IN  IF ahead = {} \/ Stops(s, q) THEN <<>>
                ELSE IF FramingError(FrameFrom(s, q)) THEN from[q + 1]
                ELSE <<SpanFrom(s, q)>> \o from[q + Len(FrameFrom(s, q))]
    IN  from

Whole(s) == SpansFrom(s)[1]

SpansOf(verdict) == {k \in DOMAIN spans : spans[k].verdict = verdict}

\* The bytes of the k-th frame taken; those in none.
Taken(k) == spans[k].at .. spans[k].at + spans[k].len - 1
Skipped == {b \in 1 .. front : \A k \in DOMAIN spans : b \notin Taken(k)}

Quiet == noise.garbage_injected = 0 /\ noise.bytes_corrupted = 0

-----------------------------------------------------------------------------
(* Properties. *)

\* "feed it bytes in any chunking" (stream_receiver.py:24): however reads cut the stream,
\* between the two bytes of a sync word, in a header or a frame, once the loop waits it has
\* taken the frames a receiver would that had the whole stream at hand.
ChunkingIrrelevant == ~scanning => spans = Whole(BytesRead)

\* Every byte read is in exactly one frame received or rejected, or is one of those counted as
\* noise, or is still in the buffer, whose unread tail the loop never skips; what the counters
\* say was received and rejected are those frames.
BytesAccounted ==
    /\ BytesRead = SubSeq(line, 1, front) \o buf
    /\ \A j, k \in DOMAIN spans : j < k => spans[j].at + spans[j].len <= spans[k].at
    /\ \A k \in DOMAIN spans : Taken(k) \subseteq 1 .. front
    /\ stats.resync_bytes = Cardinality(Skipped)
    /\ stats.received = Cardinality(SpansOf("received")) /\ stats.received = Len(yielded)
    /\ stats.crc_errors = Cardinality(SpansOf("crc_errors"))

\* What waits in the buffer is less than one frame, whatever the noise and the damage.
BufferBounded == ~scanning => Len(buf) < MaxPacketBytes

\* An undamaged frame that was read in full is yielded, unless a false header before it
\* swallowed its start: noise or damage behind it, and resynchronisation itself, never cost
\* an intact frame.
IntactLostOnlyToFalseHeader ==
    ~scanning => \A i \in (1 .. sent) \ damaged :
        \/ start[i] + Len(Frames[i]) - 1 > Len(BytesRead)
        \/ \E k \in SpansOf("received") : spans[k].at = start[i]
        \/ \E k \in SpansOf("crc_errors") :
               spans[k].at < start[i] /\ start[i] < spans[k].at + spans[k].len
        \/ front + 1 < start[i] /\ SubSeq(buf, 1, 2) = Magic

\* The framing loop ends, every time (each turn consumes something or waits).
ScanEnds == scanning ~> ~scanning

\* On a line without noise every packet sent reaches the collector, unchanged and in order.
CleanLineDelivers == (Quiet /\ sent = Len(Packets)) ~> yielded = Packets

\* The line and its receiver together are an OrderedLink: only frames that were sent come
\* out, bit for bit, each at most once and in order.
IndexOf(p) == IF \E i \in FrameIndex : Packets[i] = p
              THEN CHOOSE i \in FrameIndex : Packets[i] = p ELSE 0

Ordered == INSTANCE OrderedLink WITH
    Count <- Len(Packets), offered <- sent,
    passed <- [k \in DOMAIN yielded |-> IndexOf(yielded[k])]

IsOrderedLink == Ordered!Spec
=============================================================================
