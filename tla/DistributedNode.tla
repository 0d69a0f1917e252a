-------------------------- MODULE DistributedNode --------------------------
(***************************************************************************)
(* Processes with a DistributedNode each (distributed-node.cpp): its server *)
(* answers what the others send, and its own thread sends its status to     *)
(* every node it knows in turn, by a communicate each.  A request and its   *)
(* answer are a message each, as SymmetricChannel shows; of a connection,   *)
(* the server's end may be closed while the client has not noticed; none    *)
(* stays idle until its timeout.                                            *)
(***************************************************************************)
EXTENDS Naturals, FiniteSets

CONSTANTS
    Nodes,         \* strings
    Knows,         \* the nodes each application adds with add_client
    MaxCrashes,    \* bound on the processes that end by themselves
    MaxData        \* bound on the values of set_ddata; 0 is none yet

ASSUME NodesAssumption == Knows \in [Nodes -> SUBSET Nodes] /\ MaxData \in Nat

Links == {l \in Nodes \X Nodes : l[2] \in Knows[l[1]]}
Nothing == "nothing"

VARIABLES
    up,          \* of each node: its process runs
    hash,        \* status.hash, 0 before set_ddata
    clients,     \* the nodes its thread knows
    thread,      \* its thread: "sleep", "call" or the node it waits for; it holds clients_mutex
                 \* unless it sleeps
    todo,        \* nodes the round has still to call
    connected,   \* of each link: the client's connected
    serverEnd,   \* of each link: the server's end of its connection is open
    asked,       \* of each link: the hash on its way to the server, or MaxData + 1
    reply,       \* of each link: the answer on its way back, or Nothing
    told,        \* of each link: what communicate returned last
    crashes

processVars == <<up, crashes>>
loopVars == <<thread, todo>>
linkVars == <<connected, serverEnd, asked, reply, told>>
nodeVars == <<processVars, hash, clients, loopVars, linkVars>>

NoHash == MaxData + 1

NodesInit ==
    /\ up = [n \in Nodes |-> TRUE] /\ crashes = 0
    /\ hash = [n \in Nodes |-> 0] /\ clients = [n \in Nodes |-> {}]
    /\ thread = [n \in Nodes |-> "sleep"] /\ todo = [n \in Nodes |-> {}]
    /\ connected = [l \in Links |-> FALSE] /\ serverEnd = [l \in Links |-> FALSE]
    /\ asked = [l \in Links |-> NoHash]
    /\ reply = [l \in Links |-> Nothing] /\ told = [l \in Links |-> Nothing]

---------------------------------------------------------------------------
(* The application *)

\* add_client, which waits for clients_mutex.
AddClient(n, m) ==
    /\ up[n] /\ thread[n] = "sleep" /\ m \in Knows[n] \ clients[n]
    /\ clients' = [clients EXCEPT ![n] = @ \cup {m}]
    /\ UNCHANGED <<processVars, hash, loopVars, linkVars>>

\* set_ddata.
SetData(n) ==
    /\ up[n] /\ hash[n] < MaxData
    /\ hash' = [hash EXCEPT ![n] = @ + 1]
    /\ UNCHANGED <<processVars, clients, loopVars, linkVars>>

\* A process ends, and the kernel closes its connections.
Ends(n) ==
    /\ up' = [up EXCEPT ![n] = FALSE]
    /\ hash' = [hash EXCEPT ![n] = 0] /\ clients' = [clients EXCEPT ![n] = {}]
    /\ thread' = [thread EXCEPT ![n] = "sleep"] /\ todo' = [todo EXCEPT ![n] = {}]
    /\ connected' = [l \in Links |-> connected[l] /\ l[1] # n]
    /\ serverEnd' = [l \in Links |-> serverEnd[l] /\ n \notin {l[1], l[2]}]
    /\ asked' = [l \in Links |-> IF n \in {l[1], l[2]} THEN NoHash ELSE asked[l]]
    /\ reply' = [l \in Links |-> IF l[1] = n THEN Nothing ELSE reply[l]]
    /\ told' = [l \in Links |-> IF l[1] = n THEN Nothing ELSE told[l]]

NodeEnds(n) == up[n] /\ crashes < MaxCrashes /\ crashes' = crashes + 1 /\ Ends(n)

NodeStarts(n) ==
    /\ ~up[n] /\ up' = [up EXCEPT ![n] = TRUE]
    /\ UNCHANGED <<crashes, hash, clients, loopVars, linkVars>>

---------------------------------------------------------------------------
(* A node's thread: start *)

ThreadAt(n, place) == up[n] /\ thread[n] = place
ThreadTo(n, place) == thread' = [thread EXCEPT ![n] = place]
Called(n, m) == todo' = [todo EXCEPT ![n] = @ \ {m}] /\ ThreadTo(n, "call")

\* sleep(5) ends, and the mutex is taken.
BeginRound(n) ==
    /\ ThreadAt(n, "sleep") /\ ThreadTo(n, "call")
    /\ todo' = [todo EXCEPT ![n] = clients[n]]
    /\ UNCHANGED <<processVars, hash, clients, linkVars>>

FinishRound(n) ==
    /\ ThreadAt(n, "call") /\ todo[n] = {} /\ ThreadTo(n, "sleep")
    /\ UNCHANGED <<processVars, hash, clients, todo, linkVars>>

\* communicate, without a connection: reconnect, which fails unless the other runs.
Connects(n, m) ==
    /\ ThreadAt(n, "call") /\ m \in todo[n] /\ ~connected[<<n, m>>]
    /\ \/ /\ up[m]
          /\ connected' = [connected EXCEPT ![<<n, m>>] = TRUE]
          /\ serverEnd' = [serverEnd EXCEPT ![<<n, m>>] = TRUE]
          /\ UNCHANGED <<told, loopVars>>
       \/ /\ ~up[m]
          /\ told' = [told EXCEPT ![<<n, m>>] = ""] /\ Called(n, m)
          /\ UNCHANGED <<connected, serverEnd>>
    /\ UNCHANGED <<processVars, hash, clients, asked, reply>>

\* Mutant: the connection that has failed is kept.
KeepsConnection(l) == UNCHANGED connected

\* close_client.
Closes(l) == connected' = [connected EXCEPT ![l] = FALSE]

\* The status is sent; to an end that was closed the write may seem to succeed, or
\* fail: then communicate starts over.
SendsStatus(n, m) ==
    LET l == <<n, m>>
    IN /\ ThreadAt(n, "call") /\ m \in todo[n] /\ connected[l]
       /\ \/ /\ asked' = [asked EXCEPT ![l] = IF serverEnd[l] THEN hash[n] ELSE @]
             /\ thread' = [thread EXCEPT ![n] = m] /\ UNCHANGED connected
          \/ ~serverEnd[l] /\ Closes(l) /\ UNCHANGED <<asked, thread>>
       /\ UNCHANGED <<processVars, hash, clients, todo, serverEnd, reply, told>>

GetsReply(n, m) ==
    LET l == <<n, m>>
    IN /\ ThreadAt(n, m) /\ reply[l] # Nothing
       /\ told' = [told EXCEPT ![l] = reply[l]] /\ reply' = [reply EXCEPT ![l] = Nothing]
       /\ Called(n, m)
       /\ UNCHANGED <<processVars, hash, clients, connected, serverEnd, asked>>

\* recv sees the end of the stream: communicate returns an empty string.
GetsNothing(n, m) ==
    LET l == <<n, m>>
    IN /\ ThreadAt(n, m) /\ reply[l] = Nothing /\ ~serverEnd[l]
       /\ told' = [told EXCEPT ![l] = ""] /\ Closes(l)
       /\ Called(n, m)
       /\ UNCHANGED <<processVars, hash, clients, serverEnd, asked, reply>>

NodeThread(n) ==
    BeginRound(n) \/ FinishRound(n)
    \/ \E m \in Knows[n] : Connects(n, m) \/ SendsStatus(n, m) \/ GetsReply(n, m) \/ GetsNothing(n, m)

---------------------------------------------------------------------------
(* A node's server *)

Asked(l) == up[l[2]] /\ serverEnd[l] /\ asked[l] # NoHash

Verdict(theirs, mine) ==
    IF theirs = 0 THEN "hash" ELSE IF theirs = mine THEN "Up to date." ELSE "Out of date."

\* on_read answers, and takes the length that send returns for a failure: -1, and
\* the connection is closed after every answer.
Answers(l) ==
    /\ Asked(l) /\ hash[l[2]] # 0
    /\ reply' = [reply EXCEPT ![l] = Verdict(asked[l], hash[l[2]])]
    /\ asked' = [asked EXCEPT ![l] = NoHash]
    /\ serverEnd' = [serverEnd EXCEPT ![l] = FALSE]
    /\ UNCHANGED <<processVars, hash, clients, loopVars, connected, told>>

\* Before its own set_ddata, GetStr("hash") throws what nothing catches.
EndsByQuestion(l) == Asked(l) /\ hash[l[2]] = 0 /\ Ends(l[2]) /\ UNCHANGED crashes

NodesNext ==
    \/ \E n \in Nodes : SetData(n) \/ NodeEnds(n) \/ NodeStarts(n) \/ NodeThread(n)
    \/ \E n, m \in Nodes : AddClient(n, m)
    \/ \E l \in Links : Answers(l) \/ EndsByQuestion(l)

---------------------------------------------------------------------------

\* Every variable holds a value of its type, and a request is on its way only while
\* its connection is open.
NodesTypeOK ==
    /\ up \in [Nodes -> BOOLEAN] /\ hash \in [Nodes -> 0 .. MaxData]
    /\ \A n \in Nodes : todo[n] \subseteq clients[n] /\ clients[n] \subseteq Knows[n]
    /\ thread \in [Nodes -> {"sleep", "call"} \cup Nodes]
    /\ connected \in [Links -> BOOLEAN] /\ asked \in [Links -> 0 .. NoHash]
    /\ \A l \in Links : asked[l] # NoHash => serverEnd[l] /\ connected[l]
    /\ {reply[l] : l \in Links} \cup {told[l] : l \in Links}
         \subseteq {Nothing, "", "hash", "Up to date.", "Out of date."}

\* Two nodes that both run on with the same data are told so again and again,
\* whichever other nodes end, although every connection serves one answer only.
NodesHear ==
    \A l \in Links :
        <>[](up[l[1]] /\ up[l[2]] /\ hash[l[1]] = hash[l[2]] /\ hash[l[1]] # 0)
            => []<>(told[l] = "Up to date.")
=============================================================================
