------------------------- MODULE MCSymmetricChannel -------------------------
(* Small instances of SymmetricChannel for TLC. *)
EXTENDS SymmetricChannel, TLC

Symmetry == Permutations(Requests)
=============================================================================
