------------------------------ MODULE SeqRing ------------------------------
(***************************************************************************)
(* The 32-bit sequence ring of the WireDAQ frame header, scaled: the code  *)
(* computes modulo 2^32 (collector.py, _SEQ_MOD and _SEQ_HALF), the models *)
(* take any even modulus.                                                  *)
(***************************************************************************)
EXTENDS Integers

CONSTANT SeqMod        \* 2^32 in the code
ASSUME SeqModAssumption == SeqMod \in Nat /\ SeqMod >= 4 /\ SeqMod % 2 = 0

SeqHalf == SeqMod \div 2

Seqs == 0 .. SeqMod - 1

\* Mutant: plain difference, no ring.
PlainDelta(a, b) == a - b

\* The signed distance a - b on the ring, in -SeqHalf .. SeqHalf-1.
SeqDelta(a, b) == ((a - b + SeqHalf) % SeqMod) - SeqHalf

\* The sequence number after s: a node adds one and masks to the field width.
NextSeq(s) == (s + 1) % SeqMod
=============================================================================
