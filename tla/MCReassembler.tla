--------------------------- MODULE MCReassembler ---------------------------
(***************************************************************************)
(* Reassembler for TLC: three request ids as model values, which the       *)
(* reader only compares, so they are a symmetry set.                       *)
(***************************************************************************)
EXTENDS Reassembler, TLC

CONSTANTS r1, r2, r3

MCRequestIds == {r1, r2, r3}
Symmetry == Permutations(MCRequestIds)

=============================================================================
