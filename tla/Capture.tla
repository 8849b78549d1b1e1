------------------------------ MODULE Capture ------------------------------
(***************************************************************************)
(* A recorded session and its replay: cli/slice.py with --transport udp,   *)
(* --csv and --raw-log, which may die at any moment and be started again   *)
(* on the same file; then the capture is played back through a receiver    *)
(* and a collector of its own.                                             *)
(*                                                                         *)
(* The nodes are the script of what they send in each round (SyntheticNode *)
(* is modelled in Pipeline); of the link in front of the socket only the   *)
(* knob for corruption is on.  The wall clock matters to the last drain    *)
(* only: it moves by a timeout of select where nothing comes, and by any   *)
(* amount while a round's packets are read and handled.                    *)
(***************************************************************************)
EXTENDS Collector, RawLog, UdpLink, Functions

CONSTANTS
    Rounds,             \* the packets sent in each round, in the last one, which finds every
                        \* node dry, none
    NodeOf(_), SeqNoOf(_),      \* the fields of a header that `ident` stands for
    IdleRounds,         \* the last drain ends after this many polls without a packet, 5,
    Deadline            \* or 1.5 s after it began, in timeouts of select (0.05 s)

ASSUME CaptureAssumption ==
    /\ SinkCount = 2
    /\ Rounds \in Seq(Seq(Packet))
    /\ \A r \in DOMAIN Rounds : \A t \in DOMAIN Rounds[r] : Encodable(Rounds[r][t])
    /\ \A ident \in Bytes : SeqNoOf(ident) \in Seqs
    /\ IdleRounds \in Nat \ {0} /\ Deadline \in Nat

VARIABLES
    pc,                 \* where run() is or how it ended, then where the replay is
    run,                \* the locals of run and _final_drain, and ReceiverStats
    node,               \* ReplayNode: its frames and its index
    again,              \* the records of the collector behind the replay
    archived,           \* history: the packets the logger took
    past                \* history: a datagram was still under way when a round's drain ended;
                        \* the rounds of the last drain; datagrams close left behind

vars == <<collectorVars, logVars, udpVars, pc, run, node, again, archived, past>>

NewRun == [round |-> 1, turn |-> 1, received |-> 0, crc_errors |-> 0,
           idle |-> 0, clock |-> 0, before |-> 0]
NewPast == [lagged |-> FALSE, rounds |-> <<>>, abandoned |-> 0]
NewNode == [frames |-> <<>>, index |-> 0]
Datagram == [packet : Packet, intact : BOOLEAN]
NoRecords == [n \in Nodes |-> Unheard]

Running == pc \in {"send", "collect", "select", "poll"}

Places == {"send", "collect", "select", "poll", "closed", "died", "replay", "refused", "done"}
RunType == [round : 1 .. Len(Rounds) + 1, turn : Nat \ {0}, received : Nat, crc_errors : Nat,
            idle : 0 .. IdleRounds, clock : 0 .. Deadline, before : Nat]

\* A round of the last drain: select timed out, a packet was decoded, a frame was damaged.
DrainRound == [waited : BOOLEAN, decoded : BOOLEAN, spoiled : BOOLEAN]
PastType == [lagged : BOOLEAN, rounds : Seq(DrainRound), abandoned : Nat]

TypeOK ==
    /\ CollectorTypeOK /\ LogTypeOK
    /\ pc \in Places /\ run \in RunType /\ past \in PastType
    /\ flight \in Seq(Datagram) /\ rcvbuf \in Seq(Datagram)
    /\ Len(rcvbuf) <= Capacity /\ overflowed \in Nat
    /\ node.index \in 0 .. Len(node.frames)
    /\ archived \in Seq(Packet)

\* Where round r of the loop begins.
RoundStart(r) ==
    IF r > Len(Rounds) THEN "select" ELSE IF Rounds[r] = <<>> THEN "collect" ELSE "send"

Init ==
    /\ CollectorInit /\ LogInit /\ UdpInit
    /\ pc = RoundStart(1) /\ run = NewRun
    /\ node = NewNode /\ again = NoRecords
    /\ archived = <<>> /\ past = NewPast

-----------------------------------------------------------------------------
(* run() *)

\* The send loop: the next frame of the round, corrupted or not.
Send ==
    /\ pc = "send"
    /\ \E intact \in BOOLEAN :
          UdpSend([packet |-> Rounds[run.round][run.turn], intact |-> intact])
    /\ IF run.turn < Len(Rounds[run.round])
       THEN run' = [run EXCEPT !.turn = @ + 1] /\ UNCHANGED pc
       ELSE run' = [run EXCEPT !.turn = 1] /\ pc' = "collect"
    /\ UNCHANGED <<collectorVars, logVars, node, again, archived, past>>

TrackedPacket(p) == [node |-> NodeOf(p.ident), seq |-> SeqNoOf(p.ident),
                    heartbeat |-> p.msg_type = Heartbeat, samples |-> p.sample_count]

Collecting == pc \in {"collect", "poll"}

\* The last drain's rounds, with a frame of that kind in the current one.
RoundsWith(kind) ==
    IF pc = "poll" THEN [past.rounds EXCEPT ![Len(past.rounds)][kind] = TRUE] ELSE past.rounds

\* A good frame goes to the collector, the CSV sink and the logger.
Receive ==
    /\ Collecting
    /\ \E d \in {rcvbuf[1] : i \in 1 .. Len(rcvbuf)} :
          /\ d.intact
          /\ UdpRecv(d)
          /\ Process(TrackedPacket(d.packet), run.round, SinkCount)
          /\ Consume(d.packet)
          /\ archived' = Append(archived, d.packet)
    /\ run' = [run EXCEPT !.received = @ + 1]
    /\ past' = [past EXCEPT !.rounds = RoundsWith("decoded")]
    /\ UNCHANGED <<pc, node, again>>

\* CrcError
Reject ==
    /\ Collecting
    /\ \E d \in {rcvbuf[1] : i \in 1 .. Len(rcvbuf)} : ~d.intact /\ UdpRecv(d)
    /\ run' = [run EXCEPT !.crc_errors = @ + 1]
    /\ past' = [past EXCEPT !.rounds = RoundsWith("spoiled")]
    /\ UNCHANGED <<collectorVars, logVars, pc, node, again, archived>>

\* Mutant: recv is called once a round.
DrainedOnce == TRUE

Drained == rcvbuf = <<>>

\* recv returned None: the round is over.
EndRound ==
    /\ pc = "collect" /\ Drained
    /\ run' = [run EXCEPT !.round = @ + 1]
    /\ pc' = RoundStart(run.round + 1)
    /\ past' = [past EXCEPT !.lagged = @ \/ flight # <<>>]
    /\ UNCHANGED <<collectorVars, logVars, udpVars, node, again, archived>>

-----------------------------------------------------------------------------
(* _final_drain *)

\* Mutant: the drain has no deadline.
GoesOnPatiently == run.idle < IdleRounds

GoesOn == run.idle < IdleRounds /\ run.clock < Deadline

BeginRound(waited) ==
    past' = [past EXCEPT !.rounds =
                Append(@, [waited |-> waited, decoded |-> FALSE, spoiled |-> FALSE])]

\* select returns when a datagram is there, at once or before its timeout, or else after it.
SelectReady ==
    /\ pc = "select" /\ GoesOn /\ rcvbuf # <<>>
    /\ run' = [run EXCEPT !.before = totals.packets]
    /\ BeginRound(FALSE)
    /\ pc' = "poll"
    /\ UNCHANGED <<collectorVars, logVars, udpVars, node, again, archived>>

\* Mutant: select has no timeout.
SelectTimeoutNever == FALSE /\ UNCHANGED vars

SelectTimeout ==
    /\ pc = "select" /\ GoesOn /\ rcvbuf = <<>>
    /\ run' = [run EXCEPT !.before = totals.packets, !.clock = @ + 1]
    /\ BeginRound(TRUE)
    /\ pc' = "poll"
    /\ UNCHANGED <<collectorVars, logVars, udpVars, node, again, archived>>

\* Mutant: a round that brought packets does not start the count again.
EndPollNoReset ==
    /\ pc = "poll" /\ rcvbuf = <<>>
    /\ \E clock \in run.clock .. Deadline :
          run' = [run EXCEPT !.idle = IF totals.packets = run.before THEN @ + 1 ELSE @,
                             !.clock = clock]
    /\ pc' = "select"
    /\ UNCHANGED <<collectorVars, logVars, udpVars, node, again, archived, past>>

\* collector.run is back; the round, its packets' way through the sinks included, took a while.
EndPoll ==
    /\ pc = "poll" /\ rcvbuf = <<>>
    /\ \E clock \in run.clock .. Deadline :
          run' = [run EXCEPT !.idle = IF totals.packets = run.before THEN @ + 1 ELSE 0,
                             !.clock = clock]
    /\ pc' = "select"
    /\ UNCHANGED <<collectorVars, logVars, udpVars, node, again, archived, past>>

\* transport.close, collector.close.
Close ==
    /\ pc = "select" /\ ~GoesOn
    /\ pc' = "closed"
    /\ past' = [past EXCEPT !.abandoned = Len(flight) + Len(rcvbuf)]
    /\ UdpClose /\ CloseLog
    /\ UNCHANGED <<collectorVars, run, node, again, archived>>

-----------------------------------------------------------------------------
(* The process dies, between two steps or inside one; what the file's buffer had passed on
   stays.  A packet the CSV sink raised on, or died in, was never archived. *)

\* What is gone with the process.
Forget ==
    /\ nodes' = NoRecords /\ totals' = [packets |-> 0, samples |-> 0]
    /\ consumed' = [s \in 1 .. SinkCount |-> 0]
    /\ flight' = <<>> /\ rcvbuf' = <<>> /\ overflowed' = 0
    /\ run' = NewRun /\ past' = NewPast

Die ==
    /\ Running
    /\ pc' = "died"
    /\ \E kept \in 0 .. Len(written) : DieWith(kept)
    /\ Forget
    /\ UNCHANGED <<node, again, archived>>

\* The program is started again, with the same file.
Restart ==
    /\ pc \in {"died", "refused", "done"}
    /\ Open
    /\ Forget
    /\ pc' = RoundStart(1) /\ archived' = <<>>
    /\ node' = NewNode /\ again' = NoRecords

-----------------------------------------------------------------------------
(* ReplayNode and the pipeline behind it, a perfect link. *)

\* The constructor reads the whole file and raises if any of it is torn.
LoadCapture ==
    /\ pc \in {"closed", "died"}
    /\ LET log == ReadRawLog(disk)
       IN  IF log.torn
           THEN pc' = "refused" /\ UNCHANGED node
           ELSE pc' = "replay" /\ node' = [frames |-> log.frames, index |-> 0]
    /\ UNCHANGED <<collectorVars, logVars, udpVars, run, again, archived, past>>

\* next_frame, the receiver and the collector.
ReplayFrame ==
    /\ pc = "replay" /\ node.index < Len(node.frames)
    /\ node' = [node EXCEPT !.index = @ + 1]
    /\ LET frame == node.frames[node.index + 1]
           p == TrackedPacket(Decode(frame))
       IN  /\ ~FramingError(frame) /\ ~CrcError(frame)
           /\ again' = [again EXCEPT ![p.node] = Track(@, p, 0)]
    /\ UNCHANGED <<collectorVars, logVars, udpVars, pc, run, archived, past>>

ReplayOver ==
    /\ pc = "replay" /\ node.index = Len(node.frames)
    /\ pc' = "done"
    /\ UNCHANGED <<collectorVars, logVars, udpVars, run, node, again, archived, past>>

Kernel == Arrive /\ UNCHANGED <<collectorVars, logVars, pc, run, node, again, archived, past>>

Step == \/ Send \/ Receive \/ Reject \/ EndRound
        \/ SelectReady \/ SelectTimeout \/ EndPoll \/ Close
        \/ LoadCapture \/ ReplayFrame \/ ReplayOver

Next == Step \/ Die \/ Restart \/ Kernel

\* One thread that never waits longer than select's timeout; the kernel, a death and a
\* restart happen or not.
Spec == Init /\ [][Next]_vars /\ WF_vars(Step)
-----------------------------------------------------------------------------
(* Properties. *)

Archived == [i \in 1 .. Len(archived) |-> Encode(archived[i])]

BytesOf(count) == SumFunction([i \in 1 .. count |-> LenSize + Len(Archived[i])])

\* The record of node n after the first `count` packets archived.
RecordOf(n, count) ==
    LET after[i \in 0 .. count] ==
            IF i = 0 THEN Unheard
            ELSE LET p == TrackedPacket(archived[i])
                 IN  IF p.node = n THEN Track(after[i - 1], p, 0) ELSE after[i - 1]
    IN  after[count]

\* "The archive is byte-identical to what was received" (raw_logger.py:14-17): at every
\* moment the file as written reads back as the frames of the packets taken, each as it came
\* off the link though the logger never saw its bytes, and the counters tell its size.
ArchiveIdentical ==
    Running \/ pc = "closed" =>
        /\ ReadRawLog(written) = [frames |-> Archived, torn |-> FALSE]
        /\ logger.frames_written = Len(archived) /\ logger.bytes_written = Len(written)

\* Whatever a death leaves of the file, reading it yields every frame whose record is whole,
\* in order and nothing else, and ends in an error exactly if a record is cut, be it between
\* the two bytes of its length.
WholeRecordsRecovered ==
    pc = "died" =>
        LET log == ReadRawLog(disk)
            count == Len(log.frames)
        IN  /\ log.frames = SubSeq(Archived, 1, count)
            /\ BytesOf(count) <= Len(disk)
            /\ count < Len(archived) => BytesOf(count + 1) > Len(disk)
            /\ log.torn <=> BytesOf(count) # Len(disk)

\* "Replay a real capture through the exact same receiver / collector / sinks to reproduce a
\* bug" (replay_node.py:7-10): the replay of a session's capture ends in the record the
\* session ended in, losses and heartbeats included, though an earlier session died on the
\* same file; a capture a death cut short between two records gives the record of the packets
\* before the cut.
ReplayReproduces ==
    pc = "done" =>
        /\ Len(node.frames) <= Len(archived)
        /\ \A n \in Nodes : again[n] = RecordOf(n, Len(node.frames))
        /\ run # NewRun =>            \* the session was closed
              \A n \in Nodes : again[n] = [nodes[n] EXCEPT !.last_seen = again[n].last_seen]

\* "Poll the socket briefly until it goes quiet" (slice.py:64-65): datagrams are left behind
\* only by a drain that ran into its deadline or whose last IdleRounds rounds, one after the
\* other, brought no packet and each waited out its timeout, if no damaged frame cut it short.
Quiet(round) == ~round.decoded /\ (round.waited \/ round.spoiled)
LeftBehindWasLate ==
    pc = "closed" /\ past.abandoned > 0 =>
        \/ run.clock >= Deadline
        \/ /\ Len(past.rounds) >= IdleRounds
           /\ \A i \in Len(past.rounds) - IdleRounds + 1 .. Len(past.rounds) :
                 Quiet(past.rounds[i])

\* "Draining as we go so a real socket buffer never overflows" (slice.py:130-131): true of a
\* buffer that holds a round's frames as long as none is still under way when the drain of
\* its round ends.
OverflowNeedsLag ==
    /\ overflowed > 0
    /\ \A r \in 1 .. Len(Rounds) : Len(Rounds[r]) <= Capacity
    => past.lagged

\* Whatever arrives when and however often the program was started again, it comes to an end
\* and so does the replay.
Ends == []<>(pc \in {"died", "refused", "done"})
=============================================================================
