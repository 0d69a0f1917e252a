----------------------------- MODULE MCHttpApi -----------------------------
(* Small instances of HttpApi for TLC. *)
EXTENDS HttpApi, TLC

\* Every client at the same address.
OneAddress == [c \in Clients |-> CHOOSE a \in Addresses : TRUE]
Symmetry == Permutations(Threads) \cup Permutations(Clients)
=============================================================================
