---------------------------- MODULE EventClient ----------------------------
(***************************************************************************)
(* EventClient::run (tcp-event-client.cpp): one thread polls every          *)
(* connection once a round, until a round has found nothing to do, nothing  *)
(* is alive, or on_event_loop asks it to stop.  The other ends, the         *)
(* resolver and the descriptor table are the environment.                   *)
(***************************************************************************)
EXTENDS Integers, FiniteSets

CONSTANTS
    Connections,   \* 1 .. n, in the order they were added
    Garbage        \* what alive_connections, never initialized, may hold at first

ASSUME ConnectionsAssumption ==
    IsFiniteSet(Connections) /\ Connections = 1 .. Cardinality(Connections) /\ Garbage \subseteq Int

VARIABLES
    state,     \* of each connection: "DISCONNECTED", "CONNECTING", "CONNECTED" or "DEAD"
    peer,      \* its other end: "none", "pending", "up", "data", "refused" or "closed"
    alive,     \* alive_connections
    running,   \* the local: something may still happen
    turn,      \* the connection polled next; 0 before a round, n + 1 after it
    returned   \* run has returned

clientVars == <<state, peer, alive, running, turn, returned>>

Rounds == Cardinality(Connections) + 1

\* add, for each connection, before run.
ClientInit ==
    /\ state = [c \in Connections |-> "DISCONNECTED"]
    /\ peer = [c \in Connections |-> "none"]
    /\ \E g \in Garbage : alive = g + Cardinality(Connections)
    /\ running = TRUE /\ turn = 0 /\ returned = FALSE

\* The connection at turn ends up in state s.
Becomes(c, s) == state' = [state EXCEPT ![c] = s]

\* close_client.
CloseConnection(c) == Becomes(c, "DEAD") /\ alive' = alive - 1

Polling(c, s) == ~returned /\ turn = c /\ state[c] = s
NextTurn == turn' = turn + 1 /\ UNCHANGED returned

\* The start of a round: on_event_loop may end the loop.
StartRound ==
    /\ ~returned /\ turn = 0
    /\ \/ returned' = TRUE /\ UNCHANGED <<running, turn>>
       \/ running' = FALSE /\ turn' = 1 /\ UNCHANGED returned
    /\ UNCHANGED <<state, peer, alive>>

\* case DISCONNECTED: a socket and the address.  Out of descriptors the
\* connection waits for another round; any other failure ends it.
PollDisconnected(c) ==
    /\ Polling(c, "DISCONNECTED") /\ NextTurn
    /\ \/ UNCHANGED <<state, peer, alive, running>>
       \/ CloseConnection(c) /\ UNCHANGED <<peer, running>>
       \/ /\ Becomes(c, "CONNECTING") /\ running' = TRUE
          /\ peer' = [peer EXCEPT ![c] = "pending"] /\ UNCHANGED alive

\* case CONNECTING: connect again, until it succeeds; on_connect may refuse.
PollConnecting(c) ==
    /\ Polling(c, "CONNECTING") /\ NextTurn /\ UNCHANGED peer
    /\ \/ peer[c] = "pending" /\ running' = TRUE /\ UNCHANGED <<state, alive>>
       \/ peer[c] = "refused" /\ CloseConnection(c) /\ UNCHANGED running
       \/ /\ peer[c] \notin {"pending", "refused"} /\ running' = TRUE
          /\ (Becomes(c, "CONNECTED") /\ UNCHANGED alive) \/ CloseConnection(c)

\* recv, and on_read of what it has: not negative when there is nothing to read or
\* on_read is content; negative for an error or the end of the stream, or if
\* on_read says so.
RecvSucceeds(c) == peer[c] \in {"up", "data"} /\ peer' = [peer EXCEPT ![c] = "up"]
RecvNegative(c) == peer[c] \in {"data", "closed"}
                /\ peer' = [peer EXCEPT ![c] = IF @ = "data" THEN "up" ELSE @]

\* case CONNECTED: a negative result closes the connection.
PollConnected(c) ==
    /\ Polling(c, "CONNECTED") /\ NextTurn /\ running' = TRUE
    /\ \/ RecvSucceeds(c) /\ UNCHANGED <<state, alive>>
       \/ RecvNegative(c) /\ CloseConnection(c)

PollDead(c) ==
    /\ Polling(c, "DEAD") /\ NextTurn
    /\ UNCHANGED <<state, peer, alive, running>>

\* Mutant: a round that has found nothing goes on while the counter says so.
EndRoundByCount ==
    /\ ~returned /\ turn = Rounds
    /\ turn' = 0 /\ returned' = (alive <= 0)
    /\ UNCHANGED <<state, peer, alive, running>>

\* The end of a round.
EndRound ==
    /\ ~returned /\ turn = Rounds
    /\ turn' = 0 /\ returned' = (alive <= 0 \/ ~running)
    /\ UNCHANGED <<state, peer, alive, running>>

ClientStep == StartRound \/ EndRound
              \/ \E c \in Connections : PollDisconnected(c) \/ PollConnecting(c)
                                        \/ PollConnected(c) \/ PollDead(c)

\* The other end accepts or refuses, sends, or closes.
PeerStep ==
    \E c \in Connections :
        /\ \/ peer[c] = "pending" /\ peer' \in {[peer EXCEPT ![c] = p] : p \in {"up", "refused"}}
           \/ peer[c] = "up" /\ peer' \in {[peer EXCEPT ![c] = p] : p \in {"data", "closed"}}
        /\ UNCHANGED <<state, alive, running, turn, returned>>

ClientNext == ClientStep \/ PeerStep

\* Every variable holds a value of its type, and alive_connections has followed
\* the connections from wherever it started: none is closed twice.
ClientTypeOK ==
    /\ state \in [Connections -> {"DISCONNECTED", "CONNECTING", "CONNECTED", "DEAD"}]
    /\ peer \in [Connections -> {"none", "pending", "up", "data", "refused", "closed"}]
    /\ alive - Cardinality({c \in Connections : state[c] # "DEAD"}) \in Garbage
    /\ running \in BOOLEAN /\ turn \in 0 .. Rounds /\ returned \in BOOLEAN

\* run returns once all its connections are dead, whatever alive_connections
\* held before it was first incremented.
ClientReturns == (\A c \in Connections : state[c] = "DEAD") ~> returned
=============================================================================
