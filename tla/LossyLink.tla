----------------------------- MODULE LossyLink -----------------------------
(***************************************************************************)
(* What a WireDAQ link promises, whatever its knobs: an offered frame is   *)
(* either lost at once or ends up in flight; a frame in flight may be      *)
(* doubled, once; copies come out in any order; nothing that was never     *)
(* offered comes out, and nothing in flight vanishes.                      *)
(***************************************************************************)
EXTENDS Integers, FiniteSets

CONSTANT Frame

VARIABLES
    offered,     \* frames handed to the link so far
    lost,        \* frames the link dropped
    inflight,    \* copies of each frame still inside the link
    taken        \* copies of each frame the link has handed to its reader

vars == <<offered, lost, inflight, taken>>

CopyCount == 0 .. 2

TypeOK ==
    /\ offered \subseteq Frame
    /\ lost \subseteq offered
    /\ inflight \in [Frame -> CopyCount]
    /\ taken \in [Frame -> CopyCount]

Single == {f \in Frame : inflight[f] = 1 /\ taken[f] = 0}

Init ==
    /\ offered = {}
    /\ lost = {}
    /\ inflight = [f \in Frame |-> 0]
    /\ taken = [f \in Frame |-> 0]

\* The link drops f.
Lose(f) ==
    /\ f \notin offered
    /\ offered' = offered \union {f}
    /\ lost' = lost \union {f}
    /\ UNCHANGED <<inflight, taken>>

\* The link accepts f in one or two copies; frames waiting inside it may be doubled too.
Accept(f, copies, doubled) ==
    /\ f \notin offered
    /\ offered' = offered \union {f}
    /\ inflight' = [g \in Frame |-> IF g = f THEN copies
                                    ELSE IF g \in doubled THEN 2 ELSE inflight[g]]
    /\ UNCHANGED <<lost, taken>>

\* Frames waiting inside the link are doubled.
Double(doubled) ==
    /\ inflight' = [g \in Frame |-> IF g \in doubled THEN 2 ELSE inflight[g]]
    /\ UNCHANGED <<offered, lost, taken>>

\* The link hands one copy of f to its reader.
Take(f) ==
    /\ inflight[f] > 0
    /\ inflight' = [inflight EXCEPT ![f] = @ - 1]
    /\ taken' = [taken EXCEPT ![f] = @ + 1]
    /\ UNCHANGED <<offered, lost>>

Next ==
    \/ \E f \in Frame : Lose(f) \/ Take(f)
    \/ \E f \in Frame, copies \in 1 .. 2, doubled \in SUBSET Single : Accept(f, copies, doubled)
    \/ \E doubled \in SUBSET Single : Double(doubled)

Spec == Init /\ [][Next]_vars
=============================================================================
