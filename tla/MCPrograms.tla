----------------------------- MODULE MCPrograms -----------------------------
(* The instances of Programs that TLC checks. *)
EXTENDS Programs

McConnections == {1, 2}
McGarbage == {-1, 0, 1}

\* The first run of com may send a second command to its shell.
McCommands == <<2, 1>>

\* Two users may give the same name.
McHandles == {<<"a">>, <<"b">>}

\* The node n1 knows the others; they know nobody.
McKnows == [n \in Nodes |-> IF n = "n1" THEN Nodes \ {n} ELSE {}]
=============================================================================
