-------------------------- MODULE SymmetricChannel --------------------------
(***************************************************************************)
(* Request and response over the encrypted framing of SymmetricEncryptor:   *)
(* SymmetricTcpClient::communicate on one side, a SymmetricEpollServer with *)
(* one thread whose on_read answers on the other.                           *)
(*                                                                         *)
(* A message is two encrypted blocks, a size block and a data block, and    *)
(* both carry the sender's transaction number modulo 255; the receiver      *)
(* closes the connection when it is not the one it expects.  The numbers    *)
(* are kept per connection and side, and restart at 0 with each connection. *)
(***************************************************************************)
EXTENDS Naturals, Sequences

CONSTANTS
    Requests,      \* requests communicate is called with, one at a time
    NoAnswer,      \* no request
    MaxConns,      \* bound on connections; later attempts to connect fail
    MaxRestarts,   \* bound on server restarts
    Modulus        \* 255 in the code

ASSUME ChannelAssumption ==
    /\ NoAnswer \notin Requests
    /\ MaxConns \in Nat /\ MaxRestarts \in Nat
    /\ Modulus \in Nat \ {0, 1}

Conns == 1 .. MaxConns

VARIABLES
    \* The network: the blocks in flight on each connection, and its two ends
    c2s, s2c, clientEnd, serverEnd,
    \* SymmetricTcpClient
    pc, request, conn, connected, writes, reads,
    \* SymmetricEpollServer
    read_counter, write_counter,
    busy,       \* connection whose data block recv is waiting for, or 0
    restarts,
    \* What callers and the server's on_read have seen
    status, executed, answer

network == <<c2s, s2c, clientEnd, serverEnd>>
client == <<pc, request, conn, connected, writes, reads>>
server == <<read_counter, write_counter, busy>>
history == <<status, executed, answer>>
vars == <<network, client, server, restarts, history>>

\* Mutant: the number is not reduced before it becomes one byte.
BlockUnreduced(kind, transaction, r) ==
    [kind |-> kind, tag |-> transaction, req |-> r]

\* encrypt(data, transaction) prepends transaction % 255.
Block(kind, transaction, r) ==
    [kind |-> kind, tag |-> transaction % Modulus, req |-> r]

\* decrypt(data, transaction): the first byte must be the transaction's.
Accepts(block, transaction) == block.tag = transaction % Modulus

Init ==
    /\ c2s = [k \in Conns |-> <<>>] /\ s2c = [k \in Conns |-> <<>>]
    /\ clientEnd = [k \in Conns |-> "none"] /\ serverEnd = [k \in Conns |-> "none"]
    /\ pc = "idle" /\ request = NoAnswer
    /\ conn = 0 /\ connected = FALSE
    /\ writes = 0 /\ reads = 0
    /\ read_counter = [k \in Conns |-> 0] /\ write_counter = [k \in Conns |-> 0]
    /\ busy = 0 /\ restarts = 0
    /\ status = [r \in Requests |-> "new"]
    /\ executed = [r \in Requests |-> 0]
    /\ answer = [r \in Requests |-> NoAnswer]

-----------------------------------------------------------------------------
(* The client *)

\* communicate(request)
Communicate(r) ==
    /\ pc = "idle" /\ status[r] = "new"
    /\ status' = [status EXCEPT ![r] = "called"]
    /\ request' = r
    /\ pc' = IF connected THEN "sendSize" ELSE "connect"
    /\ UNCHANGED <<network, conn, connected, writes, reads, server, restarts,
                   executed, answer>>

\* reconnect() succeeds: a fresh connection in the server's backlog.
Reconnect ==
    /\ pc = "connect" /\ conn < MaxConns
    /\ conn' = conn + 1 /\ connected' = TRUE
    /\ clientEnd' = [clientEnd EXCEPT ![conn + 1] = "open"]
    /\ serverEnd' = [serverEnd EXCEPT ![conn + 1] = "backlog"]
    /\ pc' = "sendSize"
    /\ UNCHANGED <<c2s, s2c, request, writes, reads, server, restarts, history>>

\* reconnect() fails: communicate returns an empty string.
ReconnectFails ==
    /\ pc = "connect"
    /\ status' = [status EXCEPT ![request] = "failed"]
    /\ pc' = "idle" /\ request' = NoAnswer
    /\ UNCHANGED <<network, conn, connected, writes, reads, server, restarts,
                   executed, answer>>

\* Mutant: the transaction numbers survive the connection.
KeepCounters == UNCHANGED <<writes, reads>>

\* The counters restart with the next connection.
ResetCounters == writes' = 0 /\ reads' = 0

\* close_client().  Data in flight may still reach the server, or be lost.
CloseClient ==
    /\ connected' = FALSE
    /\ clientEnd' = [clientEnd EXCEPT ![conn] = "closed"]
    /\ \E kept \in {c2s[conn], <<>>} : c2s' = [c2s EXCEPT ![conn] = kept]
    /\ ResetCounters

\* A write to a connection the server has closed may appear to succeed.
WriteBlock(block) ==
    \/ /\ serverEnd[conn] # "closed"
       /\ c2s' = [c2s EXCEPT ![conn] = Append(@, block)]
    \/ /\ serverEnd[conn] = "closed"
       /\ UNCHANGED c2s

\* encryptor.send, first write: the number is used up before either write.
SendSize ==
    /\ pc = "sendSize"
    /\ writes' = writes + 1
    /\ WriteBlock(Block("size", writes, request))
    /\ pc' = "sendData"
    /\ UNCHANGED <<s2c, clientEnd, serverEnd, request, conn, connected, reads,
                   server, restarts, history>>

\* encryptor.send, second write.
SendData ==
    /\ pc = "sendData"
    /\ WriteBlock(Block("data", writes - 1, request))
    /\ pc' = "recvSize"
    /\ UNCHANGED <<s2c, clientEnd, serverEnd, request, conn, connected, writes,
                   reads, server, restarts, history>>

\* Mutant: a request whose answer does not come is sent again.
RetryStates == {"sendSize", "sendData", "recvSize", "recvData"}

\* Where a failure leads to a new connection and the request being sent again.
SendStates == {"sendSize", "sendData"}

\* Either write fails: close, reconnect and start over with the same request.
SendFails ==
    /\ pc \in SendStates
    /\ serverEnd[conn] = "closed"
    /\ CloseClient
    /\ pc' = "connect"
    /\ UNCHANGED <<s2c, serverEnd, request, conn, server, restarts, history>>

\* communicate gives up: close and return an empty string.
GiveUp ==
    /\ CloseClient
    /\ pc' = "idle" /\ request' = NoAnswer
    /\ status' = [status EXCEPT ![request] = "failed"]
    /\ UNCHANGED <<s2c, serverEnd, conn, executed, answer>>

\* encryptor.recv, the size block.  The number is checked but not used up.
ClientRecvSize ==
    /\ pc = "recvSize" /\ s2c[conn] # <<>>
    /\ IF Accepts(Head(s2c[conn]), reads)
       THEN /\ s2c' = [s2c EXCEPT ![conn] = Tail(@)]
            /\ pc' = "recvData"
            /\ UNCHANGED <<c2s, clientEnd, serverEnd, request, conn, connected,
                           writes, reads, history>>
       ELSE GiveUp
    /\ UNCHANGED <<server, restarts>>

\* encryptor.recv, the data block: the callback keeps it as the response.
ClientRecvData ==
    /\ pc = "recvData" /\ s2c[conn] # <<>>
    /\ IF Accepts(Head(s2c[conn]), reads)
       THEN /\ s2c' = [s2c EXCEPT ![conn] = Tail(@)]
            /\ reads' = reads + 1
            /\ status' = [status EXCEPT ![request] = "answered"]
            /\ answer' = [answer EXCEPT ![request] = Head(s2c[conn]).req]
            /\ pc' = "idle" /\ request' = NoAnswer
            /\ UNCHANGED <<c2s, clientEnd, serverEnd, conn, connected, writes,
                           executed>>
       ELSE GiveUp
    /\ UNCHANGED <<server, restarts>>

\* Mutant: a read of 0 counts as nothing to read yet.
EofIgnored == FALSE

\* A read of 0 or an error: the server's end is closed and nothing is left.
Eof == serverEnd[conn] = "closed" /\ s2c[conn] = <<>>

\* A read of 0, an error, or part of a block makes recv negative.
ClientRecvFails ==
    /\ pc \in {"recvSize", "recvData"}
    /\ s2c[conn] # <<>> \/ Eof
    /\ GiveUp
    /\ UNCHANGED <<server, restarts>>

-----------------------------------------------------------------------------
(* The server: one thread *)

\* The accept branch: both counters start at 0.
ServerAccept(k) ==
    /\ busy = 0 /\ serverEnd[k] = "backlog"
    /\ serverEnd' = [serverEnd EXCEPT ![k] = "open"]
    /\ read_counter' = [read_counter EXCEPT ![k] = 0]
    /\ write_counter' = [write_counter EXCEPT ![k] = 0]
    /\ UNCHANGED <<c2s, s2c, clientEnd, client, busy, restarts, history>>

\* The server's end goes; answers in flight may still arrive, or be lost.
ServerClose(k) ==
    /\ serverEnd' = [serverEnd EXCEPT ![k] = "closed"]
    /\ \E kept \in {s2c[k], <<>>} : s2c' = [s2c EXCEPT ![k] = kept]
    /\ c2s' = [c2s EXCEPT ![k] = <<>>]
    /\ busy' = 0

\* encryptor.recv, the size block.  From here on the thread reads this
\* connection again and again until the data block or an error comes.
ServerRecvSize(k) ==
    /\ busy = 0 /\ serverEnd[k] = "open"
    /\ c2s[k] # <<>>
    /\ IF Accepts(Head(c2s[k]), read_counter[k])
       THEN /\ c2s' = [c2s EXCEPT ![k] = Tail(@)]
            /\ busy' = k
            /\ UNCHANGED <<s2c, serverEnd>>
       ELSE ServerClose(k)
    /\ UNCHANGED <<clientEnd, client, read_counter, write_counter, restarts, history>>

\* encryptor.recv, the data block, and on_read: execute the request and send the
\* answer.  When the client is gone the sends succeed or not; when they do not,
\* on_read returns -1.
ServerRecvData(k) ==
    /\ busy = k /\ c2s[k] # <<>>
    /\ LET r == Head(c2s[k]).req IN
       IF Accepts(Head(c2s[k]), read_counter[k])
       THEN /\ read_counter' = [read_counter EXCEPT ![k] = @ + 1]
            /\ write_counter' = [write_counter EXCEPT ![k] = @ + 1]
            /\ executed' = [executed EXCEPT ![r] = @ + 1]
            /\ \/ /\ s2c' = [s2c EXCEPT ![k] =
                              @ \o << Block("size", write_counter[k], r),
                                      Block("data", write_counter[k], r) >>]
                  /\ c2s' = [c2s EXCEPT ![k] = Tail(@)]
                  /\ busy' = 0
                  /\ UNCHANGED serverEnd
               \/ /\ clientEnd[k] = "closed"
                  /\ ServerClose(k)
       ELSE /\ ServerClose(k)
            /\ UNCHANGED <<read_counter, write_counter, executed>>
    /\ UNCHANGED <<clientEnd, client, restarts, status, answer>>

\* recv is negative: the client's end is closed, or part of a block was read.
ServerRecvFails(k) ==
    /\ busy \in {0, k} /\ serverEnd[k] = "open"
    /\ c2s[k] # <<>> \/ clientEnd[k] = "closed"
    /\ ServerClose(k)
    /\ UNCHANGED <<clientEnd, client, read_counter, write_counter, restarts, history>>

\* The connection's timer fires; the thread sees it unless it is in recv.
ServerTimeout(k) ==
    /\ busy = 0 /\ serverEnd[k] = "open"
    /\ ServerClose(k)
    /\ UNCHANGED <<clientEnd, client, read_counter, write_counter, restarts, history>>

\* The server process ends and is started again.
ServerRestart ==
    /\ restarts < MaxRestarts
    /\ restarts' = restarts + 1
    /\ serverEnd' = [k \in Conns |->
         IF serverEnd[k] = "none" THEN "none" ELSE "closed"]
    /\ c2s' = [k \in Conns |-> <<>>]
    /\ busy' = 0
    /\ UNCHANGED <<s2c, clientEnd, client, read_counter, write_counter, history>>

-----------------------------------------------------------------------------
ClientStep ==
    \/ Reconnect \/ ReconnectFails
    \/ SendSize \/ SendData \/ SendFails
    \/ ClientRecvSize \/ ClientRecvData \/ ClientRecvFails

ServerStep ==
    \E k \in Conns : ServerAccept(k) \/ ServerRecvSize(k) \/ ServerRecvData(k)
                       \/ ServerRecvFails(k)

\* Every request has been used and everything is quiet.
Finished ==
    /\ pc = "idle" /\ \A r \in Requests : status[r] # "new"
    /\ UNCHANGED vars

Next ==
    \/ \E r \in Requests : Communicate(r)
    \/ ClientStep \/ ServerStep
    \/ \E k \in Conns : ServerTimeout(k)
    \/ ServerRestart
    \/ Finished

Spec == Init /\ [][Next]_vars

\* Both processes run; timeouts, restarts and further calls need not come.
FairSpec == Spec /\ WF_vars(ClientStep) /\ WF_vars(ServerStep)

-----------------------------------------------------------------------------
(* Properties *)

Blocks == [kind : {"size", "data"}, tag : 0 .. Modulus - 1, req : Requests]

\* Every variable holds a value of its type.
TypeOK ==
    /\ c2s \in [Conns -> Seq(Blocks)] /\ s2c \in [Conns -> Seq(Blocks)]
    /\ clientEnd \in [Conns -> {"none", "open", "closed"}]
    /\ serverEnd \in [Conns -> {"none", "backlog", "open", "closed"}]
    /\ pc \in {"idle", "connect", "sendSize", "sendData", "recvSize", "recvData"}
    /\ request \in Requests \cup {NoAnswer}
    /\ conn \in 0 .. MaxConns /\ connected \in BOOLEAN
    /\ writes \in Nat /\ reads \in Nat
    /\ read_counter \in [Conns -> Nat] /\ write_counter \in [Conns -> Nat]
    /\ busy \in 0 .. MaxConns /\ restarts \in 0 .. MaxRestarts
    /\ status \in [Requests -> {"new", "called", "answered", "failed"}]
    /\ executed \in [Requests -> Nat]
    /\ answer \in [Requests -> Requests \cup {NoAnswer}]

\* The transaction numbers of the two sides never diverge while a connection
\* is in use: the next block either side would read carries the number it
\* expects, so an honest peer is never closed for a "Bad transaction number."
TransactionsInStep ==
    /\ \A k \in Conns : serverEnd[k] = "open" /\ c2s[k] # <<>> =>
         Accepts(Head(c2s[k]), read_counter[k])
    /\ connected /\ s2c[conn] # <<>> => Accepts(Head(s2c[conn]), reads)

\* communicate implements an at-most-once call: retries never execute a request
\* twice, and no failure pairs a request with another one's answer.
Rpc == INSTANCE RpcChannel WITH
    Requests <- Requests, NoAnswer <- NoAnswer,
    status <- status, executed <- executed, answer <- answer
RpcSpec == Rpc!RpcSpec

\* communicate returns, as long as both processes run.
CommunicateReturns == \A r \in Requests : status[r] = "called" ~> status[r] # "called"
=============================================================================
