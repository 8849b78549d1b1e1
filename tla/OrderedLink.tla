---------------------------- MODULE OrderedLink ----------------------------
(***************************************************************************)
(* What a serial line and its receiver promise together: frames may be     *)
(* lost, but those that come out are frames that were sent, each at most   *)
(* once and in the order they were sent.                                   *)
(***************************************************************************)
EXTENDS Naturals, Sequences

CONSTANT Count              \* frames there are

VARIABLES
    offered,                \* how many of them were sent
    passed                  \* the ones that came out, in the order they did

vars == <<offered, passed>>

Init == offered = 0 /\ passed = <<>>

Offer ==
    /\ offered < Count
    /\ offered' = offered + 1
    /\ UNCHANGED passed

Pass(i) ==
    /\ \A k \in DOMAIN passed : passed[k] < i
    /\ passed' = Append(passed, i)
    /\ UNCHANGED offered

Next == Offer \/ \E i \in 1 .. offered : Pass(i)

Spec == Init /\ [][Next]_vars
=============================================================================
