---------------------------- MODULE MCFileCache ----------------------------
(* Small instances of FileCache for TLC. *)
EXTENDS FileCache, TLC

Symmetry == Permutations(Threads)
=============================================================================
