----------------------------- MODULE MCStation -----------------------------
(* Values of the constants for the runs of Station. *)
EXTENDS Station, TLC

\* Every node is joined two frames before its sequence number wraps.
NearWrap == [n \in Nodes |-> SeqMod - 2]

\* Sound in these runs: the nodes start alike and no property tells them apart.
NodeSymmetry == Permutations(Nodes)
=============================================================================
