----------------------------- MODULE Impairment -----------------------------
(***************************************************************************)
(* ImpairmentTransport over an in-process FIFO link                        *)
(* (daq_sim/transports/impairment_transport.py, in_process.py).            *)
(*                                                                         *)
(* Frames are numbered 1, 2, ... in the order they are handed to send().   *)
(* A probability of the config is the set of outcomes of its random draw:  *)
(* {FALSE} for probability 0, {TRUE} for 1, BOOLEAN for anything between.  *)
(* The heap of (release_us, tiebreak, frame) is the sequence of its        *)
(* entries in the order heappop would return them.                         *)
(***************************************************************************)
EXTENDS Integers, Sequences, FiniteSets

CONSTANTS
    Configs,             \* the ImpairmentConfigs considered
    MaxFrames, MaxTime   \* bounds of the model

Outcomes == {{FALSE}, {TRUE}, BOOLEAN}

ASSUME ConfigAssumption ==
    Configs \subseteq [loss : Outcomes, duplicate : Outcomes, reorder : Outcomes,
                       corrupt : Outcomes, delay : Nat, jitter : Nat]
ASSUME BoundAssumption == MaxFrames \in Nat /\ MaxTime \in Nat

VARIABLES
    config,      \* the knobs, fixed when the transport is made
    link,        \* the transport: hold-back slot, latency buffer, inner queue, counters
    now,         \* the clock
    arrived      \* the copies recv() has returned, in order

vars == <<config, link, now, arrived>>

None == 0                                 \* _held is None
Frame == 1 .. MaxFrames
Copy == [frame : Frame, intact : BOOLEAN] \* a copy on the wire; damaged ones fail the CRC

Timed == config.delay > 0 \/ config.jitter > 0

LinkType == [held : Frame \union {None},
             scheduled : Seq([at : Nat, copy : Copy]),
             inner : Seq(Copy),
             offered : Nat, delivered : Nat, dropped : Nat, duplicated : Nat,
             reordered : Nat, corrupted : Nat, delayed : Nat, max_delay : Nat]

TypeOK ==
    /\ config \in Configs
    /\ link \in LinkType
    /\ link.offered <= MaxFrames
    /\ now \in 0 .. MaxTime
    /\ arrived \in Seq(Copy)

Init ==
    /\ config \in Configs
    /\ link = [held |-> None, scheduled |-> <<>>, inner |-> <<>>,
               offered |-> 0, delivered |-> 0, dropped |-> 0, duplicated |-> 0,
               reordered |-> 0, corrupted |-> 0, delayed |-> 0, max_delay |-> 0]
    /\ now = 0
    /\ arrived = <<>>

-----------------------------------------------------------------------------
(* The helpers of send() and recv(): each maps a transport to a transport. *)

PushInner(l, copies) ==
    [l EXCEPT !.inner = @ \o copies, !.delivered = @ + Len(copies)]

\* Mutant: no tiebreak, a new entry goes before its equals.
InsertBeforeEquals(queue, entry) ==
    LET k == Cardinality({i \in 1 .. Len(queue) : queue[i].at < entry.at})
    IN  SubSeq(queue, 1, k) \o <<entry>> \o SubSeq(queue, k + 1, Len(queue))

\* heappush: behind every entry released no later, so equal release times stay FIFO.
InsertByRelease(queue, entry) ==
    LET k == Cardinality({i \in 1 .. Len(queue) : queue[i].at <= entry.at})
    IN  SubSeq(queue, 1, k) \o <<entry>> \o SubSeq(queue, k + 1, Len(queue))

Delays == IF Timed THEN {IF config.delay + j > 0 THEN config.delay + j ELSE 0 :
                             j \in -config.jitter .. config.jitter}
          ELSE {0}

Schedule(l, copy, delay) ==
    IF Timed
    THEN [l EXCEPT !.scheduled = InsertByRelease(@, [at |-> now + delay, copy |-> copy]),
                   !.delayed = @ + 1,
                   !.max_delay = IF delay > @ THEN delay ELSE @]
    ELSE PushInner(l, <<copy>>)

\* The draws one frame takes: flip a bit or not, send a second copy or not, two latencies.
Draw == [corrupt : config.corrupt, twice : config.duplicate, delay : Delays, delay2 : Delays]

\* Mutant: the second copy is the frame as it was before the bit was flipped.
EmitSecondIntact(l, frame, d) ==
    LET out == [frame |-> frame, intact |-> ~d.corrupt]
        once == Schedule([l EXCEPT !.corrupted = IF d.corrupt THEN @ + 1 ELSE @], out, d.delay)
    IN  IF d.twice
        THEN Schedule([once EXCEPT !.duplicated = @ + 1], [out EXCEPT !.intact = TRUE], d.delay2)
        ELSE once

Emit(l, frame, d) ==
    LET out == [frame |-> frame, intact |-> ~d.corrupt]
        once == Schedule([l EXCEPT !.corrupted = IF d.corrupt THEN @ + 1 ELSE @], out, d.delay)
    IN  IF d.twice
        THEN Schedule([once EXCEPT !.duplicated = @ + 1], out, d.delay2)
        ELSE once

\* Mutant: frames leaving the latency buffer are not counted as delivered.
ReleaseUncounted(l, k) ==
    [l EXCEPT !.scheduled = SubSeq(@, k + 1, Len(@)),
              !.inner = @ \o [i \in 1 .. k |-> l.scheduled[i].copy]]

\* Move the first k entries of the latency buffer to the inner link.
Release(l, k) ==
    PushInner([l EXCEPT !.scheduled = SubSeq(@, k + 1, Len(@))],
              [i \in 1 .. k |-> l.scheduled[i].copy])

ReleaseDue(l) ==
    IF Timed THEN Release(l, Cardinality({i \in 1 .. Len(l.scheduled) : l.scheduled[i].at <= now}))
    ELSE l

ReleaseAll(l) == Release(l, Len(l.scheduled))

-----------------------------------------------------------------------------
(* send(): one action per outcome. *)

Offered(l) == [l EXCEPT !.offered = @ + 1]

SendLost ==
    /\ link.offered < MaxFrames
    /\ TRUE \in config.loss
    /\ link' = [Offered(link) EXCEPT !.dropped = @ + 1]
    /\ UNCHANGED <<config, now, arrived>>

\* Mutant: a frame is held though the slot is taken.
SendHeldAlways ==
    /\ link.offered < MaxFrames
    /\ FALSE \in config.loss
    /\ TRUE \in config.reorder
    /\ link' = [Offered(link) EXCEPT !.held = link.offered + 1]
    /\ UNCHANGED <<config, now, arrived>>

SendHeld ==
    /\ link.offered < MaxFrames
    /\ FALSE \in config.loss
    /\ link.held = None /\ TRUE \in config.reorder
    /\ link' = [Offered(link) EXCEPT !.held = link.offered + 1]
    /\ UNCHANGED <<config, now, arrived>>

SendPassed ==
    /\ link.offered < MaxFrames
    /\ FALSE \in config.loss
    /\ link.held = None /\ FALSE \in config.reorder
    /\ \E d \in Draw : link' = Emit(Offered(link), link.offered + 1, d)
    /\ UNCHANGED <<config, now, arrived>>

\* A held frame is released behind the frame that overtook it.
Overtaken(l) == [l EXCEPT !.held = None, !.reordered = @ + 1]

SendOvertaking ==
    /\ link.offered < MaxFrames
    /\ FALSE \in config.loss
    /\ link.held # None
    /\ \E d, h \in Draw :
          link' = Emit(Overtaken(Emit(Offered(link), link.offered + 1, d)), link.held, h)
    /\ UNCHANGED <<config, now, arrived>>

Send == SendLost \/ SendHeld \/ SendPassed \/ SendOvertaking

\* recv() that returns a frame; one that returns None changes nothing.
Recv ==
    LET ready == ReleaseDue(link)
    IN  /\ ready.inner # <<>>
        /\ link' = [ready EXCEPT !.inner = Tail(@)]
        /\ arrived' = Append(arrived, Head(ready.inner))
        /\ UNCHANGED <<config, now>>

Backlog == link.held # None \/ link.scheduled # <<>>

\* Mutant: flush() clears the hold-back slot without emitting the frame.
FlushDroppingHeld ==
    /\ Backlog
    /\ link' = ReleaseAll([link EXCEPT !.held = None])
    /\ UNCHANGED <<config, now, arrived>>

\* Mutant: flush() leaves the latency buffer to the clock.
FlushHoldOnly ==
    /\ Backlog
    /\ \E d \in Draw :
          link' = IF link.held = None THEN link
                  ELSE Emit([link EXCEPT !.held = None], link.held, d)
    /\ UNCHANGED <<config, now, arrived>>

\* flush(), which is also all that close() does to the state.
Flush ==
    /\ Backlog
    /\ \E d \in Draw :
          link' = ReleaseAll(IF link.held = None THEN link
                             ELSE Emit([link EXCEPT !.held = None], link.held, d))
    /\ UNCHANGED <<config, now, arrived>>

\* The clock moves between any two calls.
Tick ==
    /\ now < MaxTime
    /\ now' = now + 1
    /\ UNCHANGED <<config, link, arrived>>

Next == Send \/ Recv \/ Flush \/ Tick

Spec == Init /\ [][Next]_vars

(***************************************************************************)
(* The programs that own a transport send every frame, poll recv(), and    *)
(* flush once the nodes have run dry (cli/slice.py, run).                  *)
(***************************************************************************)
FlushAtEnd == link.offered = MaxFrames /\ Flush

FairSpec == Spec /\ WF_vars(Send) /\ WF_vars(Recv) /\ WF_vars(FlushAtEnd)
-----------------------------------------------------------------------------
(* Where the copies of a frame are. *)

InnerFrames == [i \in 1 .. Len(link.inner) |-> link.inner[i].frame]
ScheduledFrames == [i \in 1 .. Len(link.scheduled) |-> link.scheduled[i].copy.frame]
ArrivedFrames == [i \in 1 .. Len(arrived) |-> arrived[i].frame]

CountOf(f, frames) == Cardinality({i \in 1 .. Len(frames) : frames[i] = f})

Waiting(f) == CountOf(f, InnerFrames) + CountOf(f, ScheduledFrames)
              + (IF link.held = f THEN 1 ELSE 0)

Received(f) == CountOf(f, ArrivedFrames)

Vanished == {f \in 1 .. link.offered : Waiting(f) + Received(f) = 0}

\* The order in which the receiver gets everything already emitted (without jitter).
Line == ArrivedFrames \o InnerFrames \o ScheduledFrames

\* The frames whose first copy comes behind a frame sent later.
Displaced ==
    {f \in Frame : \E j \in 1 .. Len(Line) :
        /\ Line[j] = f
        /\ \A i \in 1 .. j - 1 : Line[i] # f
        /\ \E i \in 1 .. j - 1 : Line[i] > f}

-----------------------------------------------------------------------------
(* Properties. *)

\* The counters of ImpairmentStats balance at every moment: every frame offered and not
\* dropped, and every extra copy, is on the inner link, in the latency buffer or in the
\* one-deep hold; the inner link is loss-free.
Conservation ==
    /\ link.delivered + Len(link.scheduled) + (IF link.held = None THEN 0 ELSE 1)
         = link.offered - link.dropped + link.duplicated
    /\ Len(arrived) + Len(link.inner) = link.delivered

\* Nothing is silently swallowed: the frames of which no copy is left anywhere are as many
\* as `dropped` says, and the extra copies as many as `duplicated` says.
CountersTell ==
    /\ link.dropped = Cardinality(Vanished)
    /\ link.duplicated = Cardinality({f \in Frame : Waiting(f) + Received(f) = 2})

\* Without jitter, at any latency and across flush(), `reordered` is exactly the number of
\* frames that come out behind a frame sent after them: a held frame released alone by
\* flush(), or whose would-be overtakers were lost, is not counted.  With the knob off not
\* even a second copy is out of order: frames of equal latency come out in the order they
\* went in (the tiebreak of the heap).
ReorderedExact ==
    config.jitter = 0 =>
        /\ link.reordered = Cardinality(Displaced)
        /\ config.reorder = {FALSE} =>
              \A i, j \in 1 .. Len(Line) : i < j => Line[i] <= Line[j]

\* "Count the reorder only now that a later frame has actually overtaken it"
\* (impairment_transport.py:176): once all is out, every reorder counted was an overtaking.
ReorderedReal ==
    link.held = None /\ link.scheduled = <<>> => link.reordered <= Cardinality(Displaced)

\* The transport is a lossy link: each frame is lost when it is sent or kept, copies are
\* delivered at most twice, and no frame is lost, doubled late or invented on the way.
Abstract == INSTANCE LossyLink WITH
                offered <- 1 .. link.offered,
                lost <- Vanished,
                inflight <- [f \in Frame |-> Waiting(f)],
                taken <- [f \in Frame |-> Received(f)]
IsLossyLink == Abstract!Spec

\* Every frame the link kept reaches the receiver, though a frame may sit in the hold-back
\* slot until the end of the stream and the clock may stop before its latency has passed.
EveryKeptFrameArrives ==
    \A f \in Frame :
        f <= link.offered /\ f \notin Vanished ~> Received(f) > 0
=============================================================================
