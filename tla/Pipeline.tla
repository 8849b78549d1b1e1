------------------------------ MODULE Pipeline ------------------------------
(***************************************************************************)
(* The vertical slice (cli/slice.py, run): synthetic nodes take turns on   *)
(* one impaired link, the receiver checks every frame's CRC, the collector *)
(* counts it and fans it out; when the nodes have run dry the link is      *)
(* flushed, drained and closed.  One thread does it all: pc says where it  *)
(* is, and only the draws of the link's knobs are nondeterministic.        *)
(*                                                                         *)
(* The k-th frame handed to the link is sent[k].                           *)
(***************************************************************************)
EXTENDS Collector, FiniteSetsExt

CONSTANTS
    NodeCount,                         \* --nodes
    Packets,                           \* --packets: data frames per node
    HeartbeatEvery,                    \* --heartbeat-every
    BlockSamples,                      \* --block
    Configs                            \* the link's knobs; a tick is a round of the send loop

ASSUME PipelineAssumption ==
    /\ NodeCount \in Nat \ {0} /\ Nodes = 1 .. NodeCount
    /\ Packets \in Nat /\ HeartbeatEvery \in Nat /\ BlockSamples \in Nat

VARIABLES
    pc,          \* where run() is
    turn,        \* the node whose generator is asked next in this round
    active,      \* nodes whose generators have not run dry
    source,      \* each node's _seq, _emitted and _blocks_since_hb
    sent,        \* every frame handed to the link, in order
    config, link, now, arrived,   \* ImpairmentTransport and its clock
    receiver     \* ReceiverStats

vars == <<collectorVars, pc, turn, active, source, sent, config, link, now, arrived, receiver>>

\* The bounds of the link are what the nodes can send: every data frame and heartbeat.
FramesPerNode == Packets + (IF HeartbeatEvery = 0 \/ Packets = 0 THEN 0
                            ELSE (Packets - 1) \div HeartbeatEvery)
MaxFrames == NodeCount * FramesPerNode
MaxTime == FramesPerNode + 1

Wire == INSTANCE Impairment

ASSUME LinkAssumption ==
    Configs \subseteq [loss : Wire!Outcomes, duplicate : Wire!Outcomes, reorder : Wire!Outcomes,
                       corrupt : Wire!Outcomes, delay : Nat, jitter : Nat]

\* A session is below half the ring: 2^31 frames of a node in the code.
ASSUME SessionAssumption == FramesPerNode <= SeqHalf

Init ==
    /\ CollectorInit
    /\ pc = "send" /\ turn = 1 /\ active = Nodes
    /\ source = [n \in Nodes |-> [seq |-> 0, emitted |-> 0, since_hb |-> 0]]
    /\ sent = <<>>
    /\ Wire!Init
    /\ receiver = [received |-> 0, crc_errors |-> 0]

-----------------------------------------------------------------------------
(* SyntheticNode.next_frame *)

Exhausted(s) == s.emitted >= Packets

\* Mutant: the heartbeat comes one data frame late.
HeartbeatLate(s) == HeartbeatEvery > 0 /\ s.since_hb > HeartbeatEvery

HeartbeatDue(s) == HeartbeatEvery > 0 /\ s.since_hb >= HeartbeatEvery

\* Mutant: a heartbeat skips a sequence number.
AfterFrameSkipping(s) ==
    IF HeartbeatDue(s)
    THEN [s EXCEPT !.seq = NextSeq(NextSeq(@)), !.since_hb = 0]
    ELSE [s EXCEPT !.seq = NextSeq(@), !.since_hb = @ + 1, !.emitted = @ + 1]

\* Mutant: heartbeats are charged to the data budget.
AfterFrameCharged(s) ==
    IF HeartbeatDue(s)
    THEN [s EXCEPT !.seq = NextSeq(@), !.since_hb = 0, !.emitted = @ + 1]
    ELSE [s EXCEPT !.seq = NextSeq(@), !.since_hb = @ + 1, !.emitted = @ + 1]

\* A heartbeat takes a sequence number but nothing of the data budget.
AfterFrame(s) ==
    IF HeartbeatDue(s)
    THEN [s EXCEPT !.seq = NextSeq(@), !.since_hb = 0]
    ELSE [s EXCEPT !.seq = NextSeq(@), !.since_hb = @ + 1, !.emitted = @ + 1]

PacketFrom(n) ==
    LET s == source[n]
    IN  [node |-> n, seq |-> s.seq, heartbeat |-> HeartbeatDue(s),
         samples |-> IF HeartbeatDue(s) THEN 0 ELSE BlockSamples,
         at |-> now]                 \* history: when it was sent

-----------------------------------------------------------------------------
(* run() *)

NextTurn ==
    /\ turn' = turn + 1
    /\ pc' = IF turn = NodeCount THEN "collect" ELSE "send"

\* The node whose turn it is hands one frame to the link.
SendFrame ==
    /\ pc = "send" /\ turn \in active /\ ~Exhausted(source[turn])
    /\ Wire!Send
    /\ sent' = Append(sent, PacketFrom(turn))
    /\ source' = [source EXCEPT ![turn] = AfterFrame(@)]
    /\ NextTurn
    /\ UNCHANGED <<collectorVars, active, receiver>>

\* Its generator has run dry, or had done so in an earlier round.
SkipNode ==
    /\ pc = "send" /\ (turn \notin active \/ Exhausted(source[turn]))
    /\ active' = active \ {turn}
    /\ NextTurn
    /\ UNCHANGED <<collectorVars, source, sent, config, link, now, arrived, receiver>>

\* Collector.run over FrameReceiver.packets: one frame off the link, decoded and processed.
Collecting == pc \in {"collect", "drain"}

ReceivePacket ==
    /\ Collecting
    /\ Wire!Recv
    /\ LET copy == arrived'[Len(arrived')]
       IN  \/ /\ copy.intact
              /\ receiver' = [receiver EXCEPT !.received = @ + 1]
              /\ Process(sent[copy.frame], now, SinkCount)
           \/ /\ ~copy.intact          \* CrcError
              /\ receiver' = [receiver EXCEPT !.crc_errors = @ + 1]
              /\ UNCHANGED collectorVars
    /\ UNCHANGED <<pc, turn, active, source, sent>>

\* recv() returned None: the drain is over.
NothingToReceive == Wire!ReleaseDue(link).inner = <<>>

EndRound ==
    /\ pc = "collect" /\ NothingToReceive
    /\ now' = now + 1
    /\ turn' = 1
    /\ pc' = IF active = {} THEN "flush" ELSE "send"
    /\ UNCHANGED <<collectorVars, active, source, sent, config, link, arrived, receiver>>

\* Mutant: the run waits for something to flush.
FlushLinkWaiting ==
    /\ pc = "flush"
    /\ Wire!Flush
    /\ pc' = "drain"
    /\ UNCHANGED <<collectorVars, turn, active, source, sent, receiver>>

FlushLink ==
    /\ pc = "flush"
    /\ Wire!Flush \/ (~Wire!Backlog /\ UNCHANGED <<config, link, now, arrived>>)
    /\ pc' = "drain"
    /\ UNCHANGED <<collectorVars, turn, active, source, sent, receiver>>

\* Mutant: no final drain.
CloseUndrained ==
    /\ pc = "drain"
    /\ pc' = "closed"
    /\ UNCHANGED <<collectorVars, turn, active, source, sent, config, link, now, arrived, receiver>>

\* transport.close() flushes once more, with nothing left to flush; collector.close().
Close ==
    /\ pc = "drain" /\ NothingToReceive
    /\ pc' = "closed"
    /\ UNCHANGED <<collectorVars, turn, active, source, sent, config, link, now, arrived, receiver>>

Next == SendFrame \/ SkipNode \/ ReceivePacket \/ EndRound \/ FlushLink \/ Close

Spec == Init /\ [][Next]_vars

\* One thread that never waits: it always takes its next step.
FairSpec == Spec /\ WF_vars(Next)
-----------------------------------------------------------------------------
(* What really happened to the frames. *)

FramesOf(n) == {k \in 1 .. Len(sent) : sent[k].node = n}

\* Frame k under its own name: it is the IndexOf(k)-th frame of its node, from 0.
IndexOf(k) == Cardinality({j \in FramesOf(sent[k].node) : j < k})
Name(k) == <<sent[k].node, IndexOf(k)>>
Names == Nodes \X (0 .. FramesPerNode - 1)

\* The frame of that name, or 0 if it has not been sent yet.
FrameOf(f) ==
    IF \E k \in 1 .. Len(sent) : Name(k) = f
    THEN CHOOSE k \in 1 .. Len(sent) : Name(k) = f
    ELSE 0

Copies(k, intact) ==
    Cardinality({j \in 1 .. Len(arrived) : arrived[j] = [frame |-> k, intact |-> intact]})

\* The places in `arrived` of the frames of n that the collector has processed.
HeardAt(n) == {j \in 1 .. Len(arrived) : arrived[j].intact /\ sent[arrived[j].frame].node = n}

\* The places in `arrived` of the copies the receiver has rejected.
Rejected == {j \in 1 .. Len(arrived) : ~arrived[j].intact}

Waits == {k \in 1 .. Len(sent) : Wire!Waiting(k) > 0 /\ Wire!Received(k) = 0}

(***************************************************************************)
(* What Station sees of a state of the slice.  To it a damaged copy is one *)
(* that never arrives.                                                     *)
(***************************************************************************)
SentCount == [n \in Nodes |-> Cardinality(FramesOf(n))]
SentAt == [f \in Names |-> IF FrameOf(f) = 0 THEN 0 ELSE sent[FrameOf(f)].at]
OfferedNames == {Name(k) : k \in 1 .. Len(sent)}
LostNames == {Name(k) : k \in Wire!Vanished}
UnderWay == [f \in Names |-> IF FrameOf(f) = 0 THEN 0
                              ELSE Wire!Waiting(FrameOf(f)) + Copies(FrameOf(f), FALSE)]
Processed == [f \in Names |-> Copies(FrameOf(f), TRUE)]
FirstHeard == [n \in Nodes |-> IF HeardAt(n) = {} THEN Never
                                ELSE IndexOf(arrived[Min(HeardAt(n))].frame)]
NewestHeard == [n \in Nodes |-> IF HeardAt(n) = {} THEN Never
                                 ELSE Max({IndexOf(arrived[j].frame) : j \in HeardAt(n)})]
NoneRaised == [s \in 1 .. SinkCount |-> 0]

-----------------------------------------------------------------------------
(* Properties. *)

\* The slice is the Collector behind a lossy link: whatever holds of Station holds of the
\* program.
Abstract == INSTANCE Station WITH
    Start <- [n \in Nodes |-> 0],
    MaxLatency <- MaxTime, MaxEmit <- FramesPerNode,
    emitted <- SentCount, sentAt <- SentAt,
    offered <- OfferedNames, lost <- LostNames, inflight <- UnderWay, taken <- Processed,
    first <- FirstHeard, high <- NewestHeard, raised <- NoneRaised
ImplementsStation == Abstract!Spec

\* At the end nothing is left in the hold-back slot, the latency buffer or the queue, and
\* the receiver has accounted for every frame the link let through and every extra copy.
NothingLeftBehind ==
    pc = "closed" =>
        /\ ~Wire!Backlog /\ link.inner = <<>>
        /\ receiver.received + receiver.crc_errors = link.offered - link.dropped + link.duplicated
        /\ totals.packets = receiver.received

\* The losses all nodes' records show are losses the link inflicted, at every moment: frames
\* dropped, corrupted or still under way (tests/test_pipeline.py, at the end of a run:
\* "Detected loss can never exceed what was actually dropped").
LossIsReal ==
    SumFunction([n \in Nodes |-> nodes[n].lost])
        <= link.dropped + link.corrupted + Cardinality(Waits)

\* The faults the records show are the link's: never more duplicates than the link made, without
\* corruption all of them at the end, if the window of numbers holds a whole session; without
\* jitter never more reorders than the link counted, which on a link all nodes share may be more,
\* where the overtaking frame is another node's; and at the end the receiver has counted a CRC
\* error for each copy of each frame the link damaged, both copies where it doubled the frame,
\* and for no other (tests/test_pipeline.py, crc_errors == corrupted, where nothing is doubled).
LinkExplainsStats ==
    /\ SumFunction([n \in Nodes |-> nodes[n].duplicated]) <= link.duplicated
    /\ config.corrupt = {FALSE} /\ pc = "closed" /\ FramesPerNode <= SeenWindow =>
          SumFunction([n \in Nodes |-> nodes[n].duplicated]) = link.duplicated
    /\ config.jitter = 0 => SumFunction([n \in Nodes |-> nodes[n].reordered]) <= link.reordered
    /\ pc = "closed" =>
          /\ receiver.crc_errors = Cardinality(Rejected)
          /\ Cardinality({arrived[j].frame : j \in Rejected}) = link.corrupted
          /\ \A j \in Rejected, k \in 1 .. Len(arrived) :
                arrived[k].frame = arrived[j].frame => k \in Rejected
          /\ config.duplicate = {FALSE} => receiver.crc_errors = link.corrupted

\* With every knob but the fixed latency off, the run delivers each sample once, finds no
\* fault, and (heartbeats or not) reports no node stale: without latency each has been silent
\* for the two rounds that end the run.
PerfectLinkPerfectStats ==
    /\ pc = "closed"
    /\ \A knob \in {"loss", "duplicate", "reorder", "corrupt"} : config[knob] = {FALSE}
    /\ config.jitter = 0
    => /\ totals.samples = NodeCount * Packets * BlockSamples
       /\ \A n \in Nodes : nodes[n].lost = 0 /\ nodes[n].reordered = 0 /\ nodes[n].duplicated = 0
       /\ StaleAfter >= 2 => StaleNodes(now) = {}

\* The run ends, whatever the link does.
Terminates == <>(pc = "closed")
=============================================================================
