---------------------------- MODULE MCBroadcast ----------------------------
(* Small instances of Broadcast for TLC. *)
EXTENDS Broadcast, TLC

Symmetry == Permutations(Threads) \cup Permutations(Slow) \cup Permutations(Clients \ Slow)
=============================================================================
