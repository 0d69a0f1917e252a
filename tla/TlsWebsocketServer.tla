------------------------- MODULE TlsWebsocketServer -------------------------
(***************************************************************************)
(* TlsWebsocketServer on TlsEpollServer and Websocket (websocket.hpp), with  *)
(* the one thread its users give it, beside a thread of the application     *)
(* that sends to the connections it has heard from (the tick thread of      *)
(* jph2).  client_ssl, client_handshake_complete and the application's      *)
(* table are kept by number, and the kernel gives a number that was closed  *)
(* to the next connection.  WebsocketServer is the same without TLS.        *)
(***************************************************************************)
EXTENDS Naturals

CONSTANTS
    Numbers,           \* descriptors
    MaxConnections     \* bound on the connections accepted

Clients == 1 .. MaxConnections
NoNumber == 0
ASSUME NumbersAssumption == NoNumber \notin Numbers /\ MaxConnections \in Nat

VARIABLES
    server,       \* what the thread does: "wait", or the step it comes to with a descriptor:
                  \* "continue" and "accept" of a new one, "close", "closed" and "disconnect"
                  \* of one it had, "abandon" and "abandoned" of one it could not accept
    current,      \* the descriptor it does that with
    numAccepted,  \* connections so far
    connection,   \* of each number: the connection that has it, 0 if closed
    polled,       \* of each number: registered with epoll, so that recv may be called
    client_ssl,   \* of each number: the connection its SSL was made for, 0 if none
    ssl,          \* of each connection: its SSL is "none", "live" or "freed"
    complete,     \* client_handshake_complete
    greeted,      \* connections that were sent their handshake's response
    heard,        \* connections from which on_read had a message
    joined,       \* numbers in the application's table
    aim, aimed,   \* what the other thread will send to, and its connection then
    early         \* connections that were sent data meant for them in the wrong form

sessionVars == <<client_ssl, ssl, complete>>
doneVars == <<greeted, heard, joined>>
senderVars == <<aim, aimed, early>>
tlsVars == <<server, current, numAccepted, connection, polled, sessionVars, doneVars, senderVars>>

TlsInit ==
    /\ server = "wait" /\ current = NoNumber /\ numAccepted = 0
    /\ connection = [fd \in Numbers |-> 0] /\ polled = [fd \in Numbers |-> FALSE]
    /\ client_ssl = [fd \in Numbers |-> 0] /\ ssl = [k \in Clients |-> "none"]
    /\ complete = [fd \in Numbers |-> FALSE]
    /\ greeted = {} /\ heard = {} /\ joined = {}
    /\ aim = NoNumber /\ aimed = 0 /\ early = {}

Goes(place, fd) == server' = place /\ current' = fd

---------------------------------------------------------------------------
(* The server's thread *)

\* accept(): a connection with any number that is free.
AcceptConnection(fd) ==
    /\ server = "wait" /\ connection[fd] = 0 /\ numAccepted < MaxConnections
    /\ numAccepted' = numAccepted + 1
    /\ connection' = [connection EXCEPT ![fd] = numAccepted + 1]
    /\ Goes("continue", fd)
    /\ UNCHANGED <<polled, sessionVars, doneVars, senderVars>>

\* Mutant: a number keeps the state of the handshake.
NotReset(fd) == UNCHANGED complete

\* TlsWebsocketServer::accept_continuation.
ResetHandshake(fd) == complete' = [complete EXCEPT ![fd] = FALSE]

\* TlsEpollServer::accept_continuation: SSL_new and SSL_set_fd, either of which may
\* fail.
NewSsl ==
    /\ server = "continue" /\ ResetHandshake(current)
    /\ \/ /\ client_ssl' = [client_ssl EXCEPT ![current] = 0]
          /\ UNCHANGED ssl /\ Goes("abandon", current)
       \/ /\ client_ssl' = [client_ssl EXCEPT ![current] = connection[current]]
          /\ ssl' = [ssl EXCEPT ![connection[current]] = "live"]
          /\ Goes("accept", current) \/ Goes("abandon", current)
    /\ UNCHANGED <<numAccepted, connection, polled, doneVars, senderVars>>

\* SSL_accept: done, failed, or given up after 10 s.
AcceptSsl ==
    /\ server = "accept"
    /\ \/ Goes("wait", NoNumber) /\ polled' = [polled EXCEPT ![current] = TRUE]
       \/ Goes("abandon", current) /\ UNCHANGED polled
    /\ UNCHANGED <<numAccepted, connection, sessionVars, doneVars, senderVars>>

\* Mutant: the SSL is freed but stays in client_ssl.
CloseSslOnly ==
    /\ server \in {"abandon", "close"}
    /\ ssl' = IF client_ssl[current] = 0 THEN ssl ELSE [ssl EXCEPT ![client_ssl[current]] = "freed"]
    /\ Goes(IF server = "close" THEN "closed" ELSE "abandoned", current)
    /\ UNCHANGED <<client_ssl, numAccepted, connection, polled, complete, doneVars, senderVars>>

\* close_client frees the SSL before it calls back, which closes the socket; only
\* a connection that was accepted to the end has its on_disconnect called.
CloseSsl ==
    /\ server \in {"abandon", "close"}
    /\ ssl' = IF client_ssl[current] = 0 THEN ssl ELSE [ssl EXCEPT ![client_ssl[current]] = "freed"]
    /\ client_ssl' = [client_ssl EXCEPT ![current] = 0]
    /\ Goes(IF server = "close" THEN "closed" ELSE "abandoned", current)
    /\ UNCHANGED <<numAccepted, connection, polled, complete, doneVars, senderVars>>

CloseSocket ==
    /\ server \in {"abandoned", "closed"}
    /\ connection' = [connection EXCEPT ![current] = 0]
    /\ polled' = [polled EXCEPT ![current] = FALSE]
    /\ IF server = "closed" THEN Goes("disconnect", current) ELSE Goes("wait", NoNumber)
    /\ UNCHANGED <<numAccepted, sessionVars, doneVars, senderVars>>

\* on_disconnect.
ForgetClient ==
    /\ server = "disconnect" /\ Goes("wait", NoNumber)
    /\ joined' = joined \ {current}
    /\ UNCHANGED <<numAccepted, connection, polled, sessionVars, greeted, heard, senderVars>>

\* The events recv is called for; a negative result closes.
Received(fd) == server = "wait" /\ polled[fd]

\* TlsEpollServer::recv: an error or the end of the stream, or a timeout of epoll's.
RecvFails(fd) ==
    /\ Received(fd) /\ Goes("close", fd)
    /\ UNCHANGED <<numAccepted, connection, polled, sessionVars, doneVars, senderVars>>

\* Websocket::recv after the handshake: a message to on_read, which may refuse it,
\* a ping, or the browser's farewell.
RecvFrame(fd) ==
    /\ Received(fd) /\ complete[fd]
    /\ \/ /\ heard' = heard \cup {connection[fd]}
          /\ \/ joined' = joined \cup {fd} /\ Goes("wait", NoNumber)
             \/ UNCHANGED joined /\ Goes("close", fd)
       \/ UNCHANGED <<heard, joined>> /\ Goes("wait", NoNumber)
       \/ UNCHANGED <<heard, joined>> /\ Goes("close", fd)
    /\ UNCHANGED <<numAccepted, connection, polled, sessionVars, greeted, senderVars>>

\* Websocket::recv before it: the request is answered, unless it is bad or the
\* answer cannot be sent.
RecvHandshake(fd) ==
    /\ Received(fd) /\ ~complete[fd]
    /\ \/ /\ greeted' = greeted \cup {connection[fd]}
          /\ complete' = [complete EXCEPT ![fd] = TRUE] /\ Goes("wait", NoNumber)
       \/ Goes("close", fd) /\ UNCHANGED <<greeted, complete>>
    /\ UNCHANGED <<numAccepted, connection, polled, client_ssl, ssl, heard, joined, senderVars>>

---------------------------------------------------------------------------
(* The application's thread *)

TakeAim(fd) ==
    /\ aim = NoNumber /\ fd \in joined
    /\ aim' = fd /\ aimed' = connection[fd]
    /\ UNCHANGED <<server, current, numAccepted, connection, polled, sessionVars, doneVars, early>>

\* TlsEpollServer::send: to the SSL the number has now; with none, SSL_write is given
\* a null pointer.
TlsSend(fd, framed) ==
    early' = IF aimed # 0 /\ client_ssl[fd] = aimed /\ ~(framed /\ aimed \in greeted)
             THEN early \cup {aimed} ELSE early

\* TlsWebsocketServer::send: framed if the handshake is complete, raw if not.
SendTo ==
    /\ aim # NoNumber /\ TlsSend(aim, complete[aim])
    /\ aim' = NoNumber /\ aimed' = 0
    /\ UNCHANGED <<server, current, numAccepted, connection, polled, sessionVars, doneVars>>

TlsNext ==
    \/ \E fd \in Numbers : AcceptConnection(fd) \/ RecvFails(fd) \/ RecvFrame(fd)
                           \/ RecvHandshake(fd) \/ TakeAim(fd)
    \/ NewSsl \/ AcceptSsl \/ CloseSsl \/ CloseSocket \/ ForgetClient \/ SendTo

---------------------------------------------------------------------------

\* Every variable holds a value of its type, and an SSL lives exactly as long as
\* client_ssl names it, under the number of its own connection.
TlsTypeOK ==
    /\ server \in {"wait", "continue", "accept", "abandon", "close", "abandoned", "closed", "disconnect"}
    /\ current \in Numbers \cup {NoNumber} /\ numAccepted \in 0 .. MaxConnections
    /\ ssl \in [Clients -> {"none", "live", "freed"}]
    /\ \A k \in Clients : ssl[k] = "live" <=> \E fd \in Numbers : client_ssl[fd] = k
    /\ \A fd \in Numbers : client_ssl[fd] \in {0, connection[fd]}
                           /\ (polled[fd] => connection[fd] # 0)
    /\ complete \in [Numbers -> BOOLEAN]
    /\ greeted \cup heard \cup early \subseteq Clients /\ joined \subseteq Numbers

\* A connection's handshake comes first, whatever the last one with its number has
\* left behind: on_read has nothing of a connection that was not greeted, and what
\* is sent to one that the application has heard from goes to it in a frame.
HandshakeFirst == heard \subseteq greeted /\ early = {}
=============================================================================
