------------------------------- MODULE RawLog -------------------------------
(***************************************************************************)
(* The raw-frame archive (ground_station/logger/raw_logger.py) and the     *)
(* node that plays one back (daq_sim/nodes/replay_node.py).                *)
(*                                                                         *)
(* A record is the frame's length in two bytes, low byte first, and the    *)
(* frame.  What is written goes through the file's buffer: a process that  *)
(* dies leaves some prefix of it on the disk.                              *)
(***************************************************************************)
EXTENDS WireFormat

VARIABLES
    logger,      \* RawFrameLogger: frames_written, bytes_written, and whether it is open
    written,     \* what was handed to the open file, buffered or not
    disk         \* what the file holds once the process is gone

logVars == <<logger, written, disk>>

LenSize == 2
Pack(length) == <<length % 256, length \div 256>>
Unpack(data, pos) == data[pos + 1] + 256 * data[pos + 2]

ClosedLogger == [frames_written |-> 0, bytes_written |-> 0, open |-> FALSE]

LogTypeOK ==
    /\ logger \in [frames_written : Nat, bytes_written : Nat, open : BOOLEAN]
    /\ written \in Seq(Nat)
    /\ disk \in Seq(Nat)

LogInit == logger = [ClosedLogger EXCEPT !.open = TRUE] /\ written = <<>> /\ disk = <<>>

\* Mutant: the file is opened for appending.
OpenToAppend ==
    /\ logger' = [ClosedLogger EXCEPT !.open = TRUE]
    /\ written' = disk
    /\ disk' = <<>>

\* __init__: the file of an earlier session is emptied.
Open ==
    /\ logger' = [ClosedLogger EXCEPT !.open = TRUE]
    /\ written' = <<>>
    /\ disk' = <<>>

\* Mutant: a heartbeat is archived as a sample block.
ReencodeAsBlock(p) == Encode([p EXCEPT !.msg_type = SampleBlock])

\* The logger is given a packet, not bytes, and encodes it again by its type; of a heartbeat
\* only the fields of the header are passed on, of a block everything but the type.
Reencode(p) ==
    IF p.msg_type = Heartbeat
    THEN Encode([msg_type |-> Heartbeat, ident |-> p.ident, channel_count |-> 0,
                 sample_count |-> 0, samples |-> <<>>])
    ELSE Encode([p EXCEPT !.msg_type = SampleBlock])

Record(frame) == Pack(Len(frame)) \o frame

Consume(p) ==
    LET record == Record(Reencode(p))
    IN  /\ logger.open
        /\ logger' = [logger EXCEPT !.frames_written = @ + 1, !.bytes_written = @ + Len(record)]
        /\ written' = written \o record
        /\ UNCHANGED disk

CloseLog ==
    /\ logger' = [logger EXCEPT !.open = FALSE]
    /\ disk' = written
    /\ UNCHANGED written

\* The process dies with `kept` bytes of the file on the disk.
DieWith(kept) ==
    /\ logger' = ClosedLogger
    /\ disk' = SubSeq(written, 1, kept)
    /\ UNCHANGED written

\* Mutant: a single byte behind the last record goes unnoticed.
ReadRawLogLenient(data) ==
    LET from[pos \in 0 .. Len(data)] ==
            IF pos + LenSize > Len(data)
            THEN [frames |-> <<>>, torn |-> FALSE]
            ELSE LET next == pos + LenSize + Unpack(data, pos)
                 IN  IF next > Len(data)
                     THEN [frames |-> <<>>, torn |-> TRUE]
                     ELSE [frames |-> <<SubSeq(data, pos + LenSize + 1, next)>>
                                          \o from[next].frames,
                           torn |-> from[next].torn]
    IN  from[0]

\* read_raw_log: the frames it yields, and whether it raises ValueError behind them.
ReadRawLog(data) ==
    LET from[pos \in 0 .. Len(data)] ==
            IF pos + LenSize > Len(data)
            THEN [frames |-> <<>>, torn |-> pos # Len(data)]
            ELSE LET next == pos + LenSize + Unpack(data, pos)
                 IN  IF next > Len(data)
                     THEN [frames |-> <<>>, torn |-> TRUE]
                     ELSE [frames |-> <<SubSeq(data, pos + LenSize + 1, next)>>
                                          \o from[next].frames,
                           torn |-> from[next].torn]
    IN  from[0]
=============================================================================
