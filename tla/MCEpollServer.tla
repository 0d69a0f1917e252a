--------------------------- MODULE MCEpollServer ---------------------------
(* Small instances of EpollServer for TLC. *)
EXTENDS EpollServer, TLC

\* Threads are interchangeable, and so are the descriptors other than 0.
Symmetry == Permutations(Threads) \cup Permutations(Fds \ {Stdin})
=============================================================================
