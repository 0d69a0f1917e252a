------------------------------ MODULE Programs ------------------------------
(***************************************************************************)
(* The programs and client classes that stand on the servers, each by       *)
(* itself: an EventClient, comd with the runs of com, the tanks game, nodes *)
(* of DistributedNode, a TlsWebsocketServer and jph2.  They share nothing,  *)
(* so a behaviour is one of them running, and its states are the sum of     *)
(* theirs.                                                                  *)
(***************************************************************************)
EXTENDS EventClient, RemoteShell, Tanks, DistributedNode, TlsWebsocketServer, Jph2

VARIABLE program    \* the one that runs

vars == <<program, clientVars, remoteVars, gameVars, nodeVars, tlsVars, jph2Vars>>

ClientRuns == program = "EventClient"
ComdRuns == program = "comd"
NodesRun == program = "DistributedNode"

\* What a program may start with is chosen for the one that runs.
Init ==
    /\ program \in {"EventClient", "comd", "tanks", "DistributedNode", "TlsWebsocketServer", "jph2"}
    /\ ClientInit /\ RemoteInit /\ TanksInit /\ NodesInit /\ TlsInit /\ Jph2Init
    /\ ~ClientRuns => alive = Cardinality(Connections)
    /\ ~ComdRuns => \A n \in Sessions : ~identity[n]

Next ==
    /\ UNCHANGED program
    /\ \/ ClientRuns /\ ClientNext
          /\ UNCHANGED <<remoteVars, gameVars, nodeVars, tlsVars, jph2Vars>>
       \/ ComdRuns /\ RemoteNext
          /\ UNCHANGED <<clientVars, gameVars, nodeVars, tlsVars, jph2Vars>>
       \/ program = "tanks" /\ TanksNext
          /\ UNCHANGED <<clientVars, remoteVars, nodeVars, tlsVars, jph2Vars>>
       \/ NodesRun /\ NodesNext
          /\ UNCHANGED <<clientVars, remoteVars, gameVars, tlsVars, jph2Vars>>
       \/ program = "TlsWebsocketServer" /\ TlsNext
          /\ UNCHANGED <<clientVars, remoteVars, gameVars, nodeVars, jph2Vars>>
       \/ program = "jph2" /\ Jph2Next
          /\ UNCHANGED <<clientVars, remoteVars, gameVars, nodeVars, tlsVars>>

\* Every thread of the program that runs gets its turn.  A peer need not answer, a
\* user need not type, bash need not exit, a node that ends need not come back; and
\* sleep(5) leaves clients_mutex free long enough for an add_client that waits.
Fairness ==
    /\ WF_clientVars(ClientRuns /\ ClientStep)
    /\ WF_remoteVars(ComdRuns /\ ServerThread)
    /\ WF_remoteVars(ComdRuns /\ MainThread)
    /\ \A n \in Nodes : WF_nodeVars(NodesRun /\ NodeThread(n))
    /\ \A l \in Links : /\ WF_nodeVars(NodesRun /\ (Answers(l) \/ EndsByQuestion(l)))
                        /\ SF_nodeVars(NodesRun /\ AddClient(l[1], l[2]))

Spec == Init /\ [][Next]_vars /\ Fairness

\* Every variable of every program holds a value of its type; alive_connections has
\* followed the connections, an SSL lives exactly as long as client_ssl names it, a
\* request is on its way only while its connection is open and every row belongs to
\* a user.
ProgramsTypeOK ==
    /\ ClientTypeOK /\ RemoteTypeOK /\ TanksTypeOK /\ NodesTypeOK /\ TlsTypeOK /\ Jph2TypeOK
=============================================================================
