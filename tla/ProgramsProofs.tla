--------------------------- MODULE ProgramsProofs ---------------------------
(***************************************************************************)
(* Machine-checked proofs about the programs that stand on the servers: the *)
(* handshake of a TlsWebsocketServer comes first, the tables of the tanks   *)
(* game agree, the sessions of comd and the owners of jph2's rows are kept  *)
(* apart, the counter of an EventClient follows its connections, and a      *)
(* request of a DistributedNode is lost with its connection.  A program has *)
(* an inductive invariant of its own: no step of one touches another's      *)
(* variables, so the theorems about the sum need nothing more.              *)
(***************************************************************************)
EXTENDS Programs, RemoteShellProofs, FiniteSetTheorems, SequenceTheorems, TLAPS

---------------------------------------------------------------------------
(* TlsWebsocketServer: the handshake comes first *)

\* What the thread does is done with a descriptor that still has its connection and
\* its SSL, or has them no more, according to the step it has come to; and no
\* connection has two numbers.
TlsStepInv ==
    /\ connection \in [Numbers -> 0 .. numAccepted] /\ polled \in [Numbers -> BOOLEAN]
    /\ client_ssl \in [Numbers -> 0 .. numAccepted]
    /\ greeted \cup heard \cup early \subseteq 1 .. numAccepted
    /\ \A fd, gd \in Numbers : connection[fd] = connection[gd] /\ connection[fd] # 0 => fd = gd
    /\ server # "wait" => current \in Numbers
    /\ server \in {"continue", "accept", "abandon", "close"} => connection[current] # 0
    /\ server \in {"continue", "abandoned", "closed", "disconnect"} => client_ssl[current] = 0
    /\ server = "disconnect" => connection[current] = 0
    /\ server \in {"continue", "accept", "abandon", "abandoned"} => current \notin joined

\* What an earlier connection left of its handshake is gone before the thread waits
\* again: a number that is complete, that is in the application's table or that the
\* other thread aims at has had the handshake of the connection it has.
TlsGreetedInv ==
    /\ \A fd \in Numbers :
         complete[fd] /\ connection[fd] # 0 /\ ~(server = "continue" /\ current = fd)
             => connection[fd] \in greeted
    /\ \A fd \in joined :
         /\ complete[fd]
         /\ connection[fd] = 0 => server = "disconnect" /\ current = fd
    /\ aim \in Numbers \cup {NoNumber}
    /\ aimed # 0 =>
         /\ aim \in Numbers /\ aimed \in greeted
         /\ connection[aim] = aimed => complete[aim] /\ ~(server = "continue" /\ current = aim)

TlsInv == TlsTypeOK /\ TlsStepInv /\ TlsGreetedInv /\ HandshakeFirst
\* Nothing is accepted at first.
LEMMA TlsInitial == TlsInit => TlsInv
BY NumbersAssumption
   DEF TlsInit, TlsInv, TlsTypeOK, TlsStepInv, TlsGreetedInv, HandshakeFirst, Clients

\* One step of the server's thread or of the application's.
LEMMA TlsStep == TlsInv /\ TlsNext => TlsInv'
<1> SUFFICES ASSUME TlsInv, TlsNext PROVE TlsInv'
  OBVIOUS
<1> USE NumbersAssumption DEF tlsVars, sessionVars, doneVars, senderVars, Goes, Clients
<1>1. ASSUME NEW fd \in Numbers, AcceptConnection(fd) PROVE TlsInv'
  <2>1. TlsTypeOK'
    BY <1>1 DEF TlsInv, TlsTypeOK, TlsStepInv, AcceptConnection
  <2>2. TlsStepInv'
    <3>1. /\ connection' = [connection EXCEPT ![fd] = numAccepted + 1]
          /\ numAccepted' = numAccepted + 1 /\ numAccepted \in Nat
          /\ server' = "continue" /\ current' = fd /\ connection[fd] = 0
      BY <1>1 DEF TlsInv, TlsTypeOK, AcceptConnection
    <3>2. \A gd \in Numbers : connection[gd] \in 0 .. numAccepted
      BY DEF TlsInv, TlsStepInv
    <3>3. /\ connection' \in [Numbers -> 0 .. numAccepted']
          /\ client_ssl \in [Numbers -> 0 .. numAccepted'] /\ 1 .. numAccepted \subseteq 1 .. numAccepted'
      BY <3>1 DEF TlsInv, TlsStepInv
    <3>4. \A gd, hd \in Numbers : connection'[gd] = connection'[hd] /\ connection'[gd] # 0 => gd = hd
      BY <3>1, <3>2 DEF TlsInv, TlsStepInv
    <3>5. client_ssl[fd] = 0 /\ fd \notin joined
      BY <1>1, <3>1 DEF TlsInv, TlsTypeOK, TlsStepInv, TlsGreetedInv, AcceptConnection
    <3> QED
      BY <1>1, <3>1, <3>3, <3>4, <3>5 DEF TlsInv, TlsStepInv, AcceptConnection
  <2>3. TlsGreetedInv'
    BY <1>1 DEF TlsInv, TlsTypeOK, TlsStepInv, TlsGreetedInv, HandshakeFirst, AcceptConnection
  <2>4. HandshakeFirst'
    BY <1>1 DEF TlsInv, TlsTypeOK, TlsStepInv, TlsGreetedInv, HandshakeFirst, AcceptConnection
  <2> QED
    BY <2>1, <2>2, <2>3, <2>4 DEF TlsInv
<1>2. ASSUME NEW fd \in Numbers, RecvFails(fd) PROVE TlsInv'
  <2>1. TlsTypeOK'
    BY <1>2 DEF TlsInv, TlsTypeOK, TlsStepInv, RecvFails, Received
  <2>2. TlsStepInv'
    BY <1>2 DEF TlsInv, TlsTypeOK, TlsStepInv, RecvFails, Received
  <2>3. TlsGreetedInv'
    BY <1>2 DEF TlsInv, TlsTypeOK, TlsStepInv, TlsGreetedInv, HandshakeFirst, RecvFails, Received
  <2>4. HandshakeFirst'
    BY <1>2 DEF TlsInv, TlsTypeOK, TlsStepInv, TlsGreetedInv, HandshakeFirst, RecvFails, Received
  <2> QED
    BY <2>1, <2>2, <2>3, <2>4 DEF TlsInv
<1>3. ASSUME NEW fd \in Numbers, RecvFrame(fd) PROVE TlsInv'
  <2>1. TlsTypeOK'
    BY <1>3 DEF TlsInv, TlsTypeOK, TlsStepInv, RecvFrame, Received
  <2>2. TlsStepInv'
    BY <1>3 DEF TlsInv, TlsTypeOK, TlsStepInv, RecvFrame, Received
  <2>3. TlsGreetedInv'
    BY <1>3 DEF TlsInv, TlsTypeOK, TlsStepInv, TlsGreetedInv, HandshakeFirst, RecvFrame, Received
  <2>4. HandshakeFirst'
    BY <1>3 DEF TlsInv, TlsTypeOK, TlsStepInv, TlsGreetedInv, HandshakeFirst, RecvFrame, Received
  <2> QED
    BY <2>1, <2>2, <2>3, <2>4 DEF TlsInv
<1>4. ASSUME NEW fd \in Numbers, RecvHandshake(fd) PROVE TlsInv'
  <2>1. TlsTypeOK'
    <3>1. connection[fd] \in Clients
      BY <1>4 DEF TlsInv, TlsTypeOK, TlsStepInv, RecvHandshake, Received
    <3>2. greeted' \subseteq Clients /\ complete' \in [Numbers -> BOOLEAN]
      BY <1>4, <3>1 DEF TlsInv, TlsTypeOK, RecvHandshake
    <3> QED
      BY <1>4, <3>2 DEF TlsInv, TlsTypeOK, RecvHandshake, Received
  <2>2. TlsStepInv'
    BY <1>4 DEF TlsInv, TlsTypeOK, TlsStepInv, RecvHandshake, Received
  <2>3. TlsGreetedInv'
    <3>1. server = "wait" /\ UNCHANGED <<connection, joined, aim, aimed>>
          /\ server' # "disconnect" /\ server' # "continue"
      BY <1>4 DEF RecvHandshake, Received
    <3>2. \A gd \in Numbers : complete[gd] => complete'[gd]
      BY <1>4 DEF TlsInv, TlsTypeOK, RecvHandshake
    <3>3. greeted \subseteq greeted'
      BY <1>4 DEF RecvHandshake
    <3>4. \A gd \in Numbers : complete'[gd] /\ connection[gd] # 0 => connection[gd] \in greeted'
      BY <1>4, <3>1 DEF TlsInv, TlsTypeOK, TlsGreetedInv, RecvHandshake
    <3>5. \A gd \in joined : gd \in Numbers /\ complete'[gd] /\ connection[gd] # 0
      BY <3>1, <3>2 DEF TlsInv, TlsTypeOK, TlsGreetedInv
    <3>6. aimed # 0 => aimed \in greeted' /\ (connection[aim] = aimed => complete'[aim])
      BY <3>1, <3>2, <3>3, NumbersAssumption DEF TlsInv, TlsTypeOK, TlsStepInv, TlsGreetedInv
    <3> QED
      BY <3>1, <3>4, <3>5, <3>6 DEF TlsInv, TlsGreetedInv
  <2>4. HandshakeFirst'
    BY <1>4 DEF TlsInv, TlsTypeOK, TlsStepInv, TlsGreetedInv, HandshakeFirst, RecvHandshake, Received
  <2> QED
    BY <2>1, <2>2, <2>3, <2>4 DEF TlsInv
<1>5. ASSUME NEW fd \in Numbers, TakeAim(fd) PROVE TlsInv'
  <2>1. TlsTypeOK'
    BY <1>5 DEF TlsInv, TlsTypeOK, TlsStepInv, TakeAim
  <2>2. TlsStepInv'
    BY <1>5 DEF TlsInv, TlsTypeOK, TlsStepInv, TakeAim
  <2>3. TlsGreetedInv'
    BY <1>5 DEF TlsInv, TlsTypeOK, TlsStepInv, TlsGreetedInv, HandshakeFirst, TakeAim
  <2>4. HandshakeFirst'
    BY <1>5 DEF TlsInv, TlsTypeOK, TlsStepInv, TlsGreetedInv, HandshakeFirst, TakeAim
  <2> QED
    BY <2>1, <2>2, <2>3, <2>4 DEF TlsInv
<1>6. ASSUME NewSsl PROVE TlsInv'
  <2> DEFINE fd == current
  <2>1. /\ fd \in Numbers /\ connection[fd] \in Clients /\ client_ssl[fd] = 0
        /\ \A gd \in Numbers \ {fd} : client_ssl[gd] # connection[fd]
    BY <1>6 DEF TlsInv, TlsTypeOK, TlsStepInv, NewSsl
  <2>2. \A k \in Clients : ssl'[k] = "live" <=> \E gd \in Numbers : client_ssl'[gd] = k
    <3>1. CASE client_ssl' = [client_ssl EXCEPT ![fd] = 0] /\ UNCHANGED ssl
      <4>1. client_ssl' = client_ssl
        BY <2>1, <3>1 DEF TlsInv, TlsStepInv
      <4> QED
        BY <3>1, <4>1 DEF TlsInv, TlsTypeOK
    <3>2. CASE /\ client_ssl' = [client_ssl EXCEPT ![fd] = connection[fd]]
               /\ ssl' = [ssl EXCEPT ![connection[fd]] = "live"]
      <4>1. ASSUME NEW k \in Clients, k # connection[fd]
            PROVE (\E gd \in Numbers : client_ssl'[gd] = k) <=> (\E gd \in Numbers : client_ssl[gd] = k)
        BY <2>1, <3>2, <4>1 DEF TlsInv, TlsStepInv
      <4>2. ssl'[connection[fd]] = "live" /\ client_ssl'[fd] = connection[fd]
        BY <2>1, <3>2 DEF TlsInv, TlsTypeOK, TlsStepInv
      <4> QED
        BY <2>1, <3>2, <4>1, <4>2 DEF TlsInv, TlsTypeOK
    <3> QED
      BY <1>6, <3>1, <3>2 DEF NewSsl
  <2>3. /\ client_ssl' \in [Numbers -> 0 .. numAccepted] /\ client_ssl'[fd] \in {0, connection[fd]}
        /\ \A gd \in Numbers : gd # fd => client_ssl'[gd] = client_ssl[gd]
        /\ ssl' \in [Clients -> {"none", "live", "freed"}]
    <3>1. connection[fd] \in 0 .. numAccepted /\ 0 \in 0 .. numAccepted
      BY <2>1 DEF TlsInv, TlsTypeOK, TlsStepInv
    <3>2. \/ client_ssl' = [client_ssl EXCEPT ![fd] = 0]
          \/ client_ssl' = [client_ssl EXCEPT ![fd] = connection[fd]]
      BY <1>6 DEF NewSsl
    <3>3. UNCHANGED ssl \/ ssl' = [ssl EXCEPT ![connection[fd]] = "live"]
      BY <1>6 DEF NewSsl
    <3> HIDE DEF fd
    <3>4. ssl' \in [Clients -> {"none", "live", "freed"}]
      BY <2>1, <3>3 DEF TlsInv, TlsTypeOK
    <3> QED
      BY <2>1, <3>1, <3>2, <3>4 DEF TlsInv, TlsStepInv
  <2>4. /\ server' \in {"accept", "abandon"} /\ current' = fd /\ complete' \in [Numbers -> BOOLEAN]
        /\ UNCHANGED <<numAccepted, connection, polled, greeted, heard, joined, early>>
    BY <1>6 DEF TlsInv, TlsTypeOK, NewSsl, ResetHandshake
  <2>5. TlsTypeOK'
    <3>1. \A gd \in Numbers : client_ssl'[gd] \in {0, connection'[gd]} /\ (polled'[gd] => connection'[gd] # 0)
      BY <2>1, <2>3, <2>4 DEF TlsInv, TlsTypeOK
    <3> HIDE DEF fd
    <3> QED
      BY <2>1, <2>2, <2>3, <2>4, <3>1 DEF TlsInv, TlsTypeOK
  <2>6. TlsStepInv'
    BY <1>6, <2>1, <2>3, <2>4 DEF TlsInv, TlsStepInv, NewSsl
  <2>7. TlsGreetedInv'
    BY <1>6 DEF TlsInv, TlsTypeOK, TlsStepInv, TlsGreetedInv, HandshakeFirst, NewSsl, ResetHandshake
  <2>8. HandshakeFirst'
    BY <1>6 DEF TlsInv, TlsTypeOK, TlsStepInv, TlsGreetedInv, HandshakeFirst, NewSsl, ResetHandshake
  <2> QED
    BY <2>5, <2>6, <2>7, <2>8 DEF TlsInv
<1>7. ASSUME AcceptSsl PROVE TlsInv'
  <2>1. TlsTypeOK'
    BY <1>7 DEF TlsInv, TlsTypeOK, TlsStepInv, AcceptSsl
  <2>2. TlsStepInv'
    BY <1>7 DEF TlsInv, TlsTypeOK, TlsStepInv, AcceptSsl
  <2>3. TlsGreetedInv'
    BY <1>7 DEF TlsInv, TlsTypeOK, TlsStepInv, TlsGreetedInv, HandshakeFirst, AcceptSsl
  <2>4. HandshakeFirst'
    BY <1>7 DEF TlsInv, TlsTypeOK, TlsStepInv, TlsGreetedInv, HandshakeFirst, AcceptSsl
  <2> QED
    BY <2>1, <2>2, <2>3, <2>4 DEF TlsInv
<1>8. ASSUME CloseSsl PROVE TlsInv'
  <2>1. TlsTypeOK'
    BY <1>8 DEF TlsInv, TlsTypeOK, TlsStepInv, CloseSsl
  <2>2. TlsStepInv'
    BY <1>8 DEF TlsInv, TlsTypeOK, TlsStepInv, CloseSsl
  <2>3. TlsGreetedInv'
    BY <1>8 DEF TlsInv, TlsTypeOK, TlsStepInv, TlsGreetedInv, HandshakeFirst, CloseSsl
  <2>4. HandshakeFirst'
    BY <1>8 DEF TlsInv, TlsTypeOK, TlsStepInv, TlsGreetedInv, HandshakeFirst, CloseSsl
  <2> QED
    BY <2>1, <2>2, <2>3, <2>4 DEF TlsInv
<1>9. ASSUME CloseSocket PROVE TlsInv'
  <2>1. TlsTypeOK'
    BY <1>9 DEF TlsInv, TlsTypeOK, TlsStepInv, CloseSocket
  <2>2. TlsStepInv'
    BY <1>9 DEF TlsInv, TlsTypeOK, TlsStepInv, CloseSocket
  <2>3. TlsGreetedInv'
    BY <1>9 DEF TlsInv, TlsTypeOK, TlsStepInv, TlsGreetedInv, HandshakeFirst, CloseSocket
  <2>4. HandshakeFirst'
    BY <1>9 DEF TlsInv, TlsTypeOK, TlsStepInv, TlsGreetedInv, HandshakeFirst, CloseSocket
  <2> QED
    BY <2>1, <2>2, <2>3, <2>4 DEF TlsInv
<1>10. ASSUME ForgetClient PROVE TlsInv'
  <2>1. TlsTypeOK'
    BY <1>10 DEF TlsInv, TlsTypeOK, TlsStepInv, ForgetClient
  <2>2. TlsStepInv'
    BY <1>10 DEF TlsInv, TlsTypeOK, TlsStepInv, ForgetClient
  <2>3. TlsGreetedInv'
    BY <1>10 DEF TlsInv, TlsTypeOK, TlsStepInv, TlsGreetedInv, HandshakeFirst, ForgetClient
  <2>4. HandshakeFirst'
    BY <1>10 DEF TlsInv, TlsTypeOK, TlsStepInv, TlsGreetedInv, HandshakeFirst, ForgetClient
  <2> QED
    BY <2>1, <2>2, <2>3, <2>4 DEF TlsInv
<1>11. ASSUME SendTo PROVE TlsInv'
  <2>1. early' = {} /\ HandshakeFirst'
    BY <1>11 DEF TlsInv, TlsTypeOK, TlsStepInv, TlsGreetedInv, HandshakeFirst, SendTo, TlsSend
  <2>2. /\ UNCHANGED <<server, current, numAccepted, connection, polled, client_ssl, ssl, complete,
                        greeted, heard, joined>>
        /\ aim' = NoNumber /\ aimed' = 0
    BY <1>11 DEF SendTo
  <2>3. TlsTypeOK'
    BY <2>1, <2>2 DEF TlsInv, TlsTypeOK
  <2>4. TlsStepInv'
    BY <2>1, <2>2 DEF TlsInv, TlsStepInv
  <2>5. TlsGreetedInv'
    BY <2>2 DEF TlsInv, TlsGreetedInv
  <2> QED
    BY <2>1, <2>3, <2>4, <2>5 DEF TlsInv
<1> QED
  BY <1>1, <1>2, <1>3, <1>4, <1>5, <1>6, <1>7, <1>8, <1>9, <1>10, <1>11 DEF TlsNext

LEMMA TlsStutters == TlsInv /\ UNCHANGED tlsVars => TlsInv'
BY DEF TlsInv, TlsTypeOK, TlsStepInv, TlsGreetedInv, HandshakeFirst, tlsVars, sessionVars,
       doneVars, senderVars

\* A connection's handshake comes first, whatever the last one with its number has
\* left behind: TlsWebsocketServer::accept_continuation resets
\* client_handshake_complete before a message of the connection is received.
THEOREM HandshakeCorrect == Spec => []HandshakeFirst
<1>1. Init => TlsInv
  BY TlsInitial DEF Init
<1>2. TlsInv /\ [Next]_vars => TlsInv'
  <2> SUFFICES ASSUME TlsInv, [Next]_vars PROVE TlsInv'
    OBVIOUS
  <2>1. CASE UNCHANGED tlsVars
    BY <2>1, TlsStutters
  <2>2. CASE TlsNext
    BY <2>2, TlsStep
  <2> QED
    BY <2>1, <2>2 DEF Next, vars
<1>3. TlsInv => HandshakeFirst
  BY DEF TlsInv
<1> QED
  BY <1>1, <1>2, <1>3, PTL DEF Spec

---------------------------------------------------------------------------
(* Tanks: every tank in the game has a location *)

QueuedEvents == [type : {0, 1}, player : Handles] \cup [type : {2}, player : Tanks]

\* Between the two steps of an event its tank has no location, and a tank that is
\* being added is not in the game yet, and one that is being steered is: but for those
\* that met each other.
SpawnInv ==
    /\ IsFiniteSet(locations)
    /\ phase \in {"eraseTables", "erasePlayer"} => Erased \in Tanks
    /\ phase = "erasePlayer" /\ Erased \in locations \cup {spawning} => Erased \in raced
    /\ spawning \in Tanks \cup {None} /\ (spawning # None => spawning \notin players)
    /\ placed => spawning # None /\ spawning \in locations \cup raced
    /\ steered # None => steered \in players \cup raced

TanksInv == TanksTypeOK /\ SpawnInv /\ TablesAgree

\* SetToSeq lists the elements of a finite set.
LEMMA SetToSeqType ==
    ASSUME NEW S, IsFiniteSet(S)
    PROVE SetToSeq(S) \in Seq(S)
<1>1. PICK f \in Bijection(1 .. Cardinality(S), S) : TRUE
  BY FS_CardinalityType DEF ExistsBijection
<1>2. f \in [1 .. Cardinality(S) -> S] /\ IsInjective(f)
  BY <1>1 DEF Bijection, Injection
<1>3. SetToSeq(S) \in [1 .. Cardinality(S) -> S]
  BY <1>2 DEF SetToSeq
<1>4. Cardinality(S) \in Nat
  BY FS_CardinalityType
<1> QED
  BY <1>3, <1>4, SeqDef

\* No tank has the name that stands for none.
LEMMA NoneIsNoTank == None \notin Tanks
<1> SUFFICES ASSUME NEW h \in Handles PROVE Tank(h) # None
  BY DEF Tanks
<1>1. h \in Seq(STRING)
  BY TanksAssumption
<1> DEFINE S == STRING \cup {"tank"}
<1>2. h \in Seq(S)
  BY <1>1, SeqDef
<1>3. Append(h, "tank") # <<>>
  <2>1. "tank" \in S
    OBVIOUS
  <2> HIDE DEF S
  <2> QED
    BY <1>2, <2>1, AppendProperties
<1> QED
  BY <1>3 DEF Tank, None

\* An event that is announced, or found, is one the queue may hold.
LEMMA QueueAppend ==
    ASSUME TanksTypeOK, NEW e \in QueuedEvents
    PROVE Append(game_event_queue, e) \in Seq(QueuedEvents)
BY AppendProperties DEF TanksTypeOK, QueuedEvents

\* The game starts without a tank.
LEMMA TanksInitial == TanksInit => TanksInv
<1> SUFFICES ASSUME TanksInit PROVE TanksInv
  OBVIOUS
<1>1. IsFiniteSet(locations) /\ <<>> \in Seq(QueuedEvents)
  BY FS_EmptySet, EmptySeq DEF TanksInit
<1>2. TanksTypeOK
  <2>1. client_details \in [Players -> Handles \cup {None}]
    BY DEF TanksInit
  <2>2. game_event_queue \in Seq(QueuedEvents)
    BY <1>1 DEF TanksInit
  <2>3. 0 \in 0 .. MaxJoins
    BY TanksAssumption
  <2> QED
    BY <2>1, <2>2, <2>3 DEF TanksInit, TanksTypeOK, QueuedEvents
<1>3. SpawnInv /\ TablesAgree
  BY <1>1 DEF TanksInit, SpawnInv, TablesAgree, Runs
<1> QED
  BY <1>2, <1>3 DEF TanksInv

\* One step of the tick thread or of the game server's.
LEMMA TanksStep == TanksInv /\ TanksNext => TanksInv'
<1> SUFFICES ASSUME TanksInv, TanksNext PROVE TanksInv'
  OBVIOUS
<1> USE TanksAssumption DEF tickVars, serverVars, Runs
<1>1. CASE TakeEvent
  <2>1. Head(game_event_queue) \in QueuedEvents /\ Tail(game_event_queue) \in Seq(QueuedEvents)
    BY <1>1, HeadTailProperties DEF TakeEvent, TanksInv, TanksTypeOK, QueuedEvents
  <2>2. TanksTypeOK'
    BY <1>1, <2>1 DEF TakeEvent, TanksInv, TanksTypeOK, QueuedEvents
  <2>3. event'.type # 0 => (IF event'.type = 1 THEN Tank(event'.player) ELSE event'.player) \in Tanks
    BY <1>1, <2>1 DEF TakeEvent, QueuedEvents, Tanks
  <2>4. SpawnInv'
    BY <1>1, <2>3 DEF TakeEvent, TanksInv, SpawnInv, Erased
  <2>5. TablesAgree'
    BY <1>1 DEF TakeEvent, TanksInv, TablesAgree
  <2> QED
    BY <2>2, <2>4, <2>5 DEF TanksInv
<1>2. CASE EraseTables
  <2>1. /\ Erased \in Tanks /\ UNCHANGED <<Erased, spawning, steered, placed, players>>
        /\ phase = "eraseTables"
        /\ phase' = "erasePlayer" /\ locations' = locations \ {Erased}
        /\ raced' = IF Erased = spawning THEN raced \cup {Erased} ELSE raced
    BY <1>2 DEF EraseTables, TanksInv, SpawnInv, Erased, Race
  <2>2. TanksTypeOK'
    BY <1>2, <2>1 DEF EraseTables, TanksInv, TanksTypeOK
  <2>3. IsFiniteSet(locations')
    BY <2>1, FS_Subset DEF TanksInv, SpawnInv
  <2>4. SpawnInv'
    BY <2>1, <2>3 DEF TanksInv, SpawnInv
  <2>5. TablesAgree'
    BY <2>1 DEF TanksInv, TablesAgree
  <2> QED
    BY <2>2, <2>4, <2>5 DEF TanksInv
<1>3. CASE ErasePlayer
  <2>1. /\ Erased \in Tanks /\ UNCHANGED <<Erased, spawning, steered, placed, locations>>
        /\ phase = "erasePlayer"
        /\ phase' = "events" /\ players' = players \ {Erased}
        /\ raced' = IF Erased \in {spawning, steered} THEN raced \cup {Erased} ELSE raced
    BY <1>3 DEF ErasePlayer, TanksInv, SpawnInv, Erased, Race
  <2>2. TanksTypeOK'
    BY <1>3, <2>1 DEF ErasePlayer, TanksInv, TanksTypeOK
  <2>3. SpawnInv'
    BY <2>1 DEF TanksInv, SpawnInv
  <2>4. TablesAgree'
    BY <2>1 DEF TanksInv, SpawnInv, TablesAgree
  <2> QED
    BY <2>2, <2>3, <2>4 DEF TanksInv
<1>4. CASE EventsDone
  BY <1>4 DEF EventsDone, TanksInv, TanksTypeOK, SpawnInv, TablesAgree
<1>5. CASE Collide
  <2>1. PICK overlap \in SUBSET kSubset(2, locations) :
          LET hits == SetToSeq({hit \in locations \X locations : {hit[1], hit[2]} \in overlap})
          IN game_event_queue' = game_event_queue \o [i \in DOMAIN hits |-> Event(2, hits[i][1])]
    BY <1>5 DEF Collide
  <2> DEFINE found == {hit \in locations \X locations : {hit[1], hit[2]} \in overlap}
             hits == SetToSeq(found)
             new == [i \in DOMAIN hits |-> Event(2, hits[i][1])]
  <2>2. hits \in Seq(found)
    <3>1. IsFiniteSet(locations \X locations)
      BY FS_Product DEF TanksInv, SpawnInv
    <3>2. IsFiniteSet(found)
      BY <3>1, FS_Subset
    <3> QED
      BY <3>2, SetToSeqType
  <2>3. DOMAIN hits = 1 .. Len(hits) /\ Len(hits) \in Nat /\ \A i \in DOMAIN hits : hits[i] \in found
    BY ZenonT(60), <2>2, LenProperties, ElementOfSeq
  <2>4. \A i \in DOMAIN hits : Event(2, hits[i][1]) \in QueuedEvents
    BY <2>3 DEF Event, QueuedEvents, TanksInv, TanksTypeOK
  <2>5. new \in Seq(QueuedEvents)
    <3> HIDE DEF hits
    <3>1. new \in [1 .. Len(hits) -> QueuedEvents]
      BY <2>3, <2>4
    <3> QED
      BY <2>3, <3>1, SeqDef
  <2>6. game_event_queue' \in Seq(QueuedEvents)
    <3>1. game_event_queue' = game_event_queue \o new
      BY <2>1
    <3>2. game_event_queue \in Seq(QueuedEvents)
      BY DEF TanksInv, TanksTypeOK, QueuedEvents
    <3> HIDE DEF new
    <3> QED
      BY <2>5, <3>1, <3>2, ConcatProperties
  <2>7. TanksTypeOK'
    BY <1>5, <2>6 DEF Collide, TanksInv, TanksTypeOK, QueuedEvents
  <2>8. SpawnInv' /\ TablesAgree'
    BY <1>5 DEF Collide, TanksInv, SpawnInv, TablesAgree
  <2> QED
    BY <2>7, <2>8 DEF TanksInv
<1>6. CASE Move
  <2>1. TanksTypeOK' /\ SpawnInv'
    BY <1>6 DEF Move, TanksInv, TanksTypeOK, SpawnInv
  <2>2. phase' = "lost" => raced # {}
    BY <1>6, NoneIsNoTank DEF Move, TanksInv, TanksTypeOK, SpawnInv, TablesAgree
  <2>3. TablesAgree'
    BY <1>6, <2>2 DEF Move, TanksInv, TablesAgree
  <2> QED
    BY <2>1, <2>3 DEF TanksInv
<1>7. ASSUME NEW fd \in Players, NEW h \in Handles, Announce(fd, h) PROVE TanksInv'
  <2>1. game_event_queue' \in Seq(QueuedEvents)
    <3>1. Event(0, h) \in QueuedEvents
      BY DEF Event, QueuedEvents
    <3> QED
      BY <1>7, <3>1, QueueAppend DEF Announce, TanksInv
  <2>2. TanksTypeOK'
    BY <1>7, <2>1 DEF Announce, TanksInv, TanksTypeOK, QueuedEvents
  <2>3. SpawnInv' /\ TablesAgree'
    BY <1>7 DEF Announce, TanksInv, SpawnInv, TablesAgree, Erased
  <2> QED
    BY <2>2, <2>3 DEF TanksInv
<1>8. ASSUME NEW fd \in Players, Disconnected(fd) PROVE TanksInv'
  <2>1. game_event_queue' \in Seq(QueuedEvents)
    <3>1. Event(1, client_details[fd]) \in QueuedEvents
      BY <1>8 DEF Event, QueuedEvents, Disconnected, TanksInv, TanksTypeOK
    <3> QED
      BY <1>8, <3>1, QueueAppend DEF Disconnected, TanksInv
  <2>2. TanksTypeOK'
    BY <1>8, <2>1 DEF Disconnected, TanksInv, TanksTypeOK, QueuedEvents
  <2>3. SpawnInv' /\ TablesAgree'
    BY <1>8 DEF Disconnected, TanksInv, SpawnInv, TablesAgree, Erased
  <2> QED
    BY <2>2, <2>3 DEF TanksInv
<1>9. ASSUME NEW h \in Handles, Spawn(h) PROVE TanksInv'
  <2>1. /\ Tank(h) \in Tanks /\ Tank(h) \notin players /\ spawning = None /\ spawning' = Tank(h)
        /\ raced' = IF phase = "erasePlayer" /\ Erased = Tank(h) THEN raced \cup {Erased} ELSE raced
        /\ UNCHANGED <<players, locations, phase, placed, steered, event>> /\ ~placed
    BY <1>9 DEF Spawn, Idle, Tanks, TanksInv, TanksTypeOK, SpawnInv
  <2>2. TanksTypeOK'
    BY <1>9, <2>1 DEF Spawn, TanksInv, TanksTypeOK
  <2>3. SpawnInv'
    BY <2>1 DEF TanksInv, SpawnInv, Erased
  <2>4. TablesAgree'
    BY <2>1, NoneIsNoTank DEF TanksInv, TanksTypeOK, SpawnInv, TablesAgree, Erased
  <2> QED
    BY <2>2, <2>3, <2>4 DEF TanksInv
<1>10. CASE PlaceTank
  <2>1. TanksTypeOK'
    BY <1>10 DEF PlaceTank, TanksInv, TanksTypeOK, SpawnInv
  <2>2. IsFiniteSet(locations')
    BY <1>10, FS_AddElement DEF PlaceTank, TanksInv, SpawnInv
  <2>3. SpawnInv'
    BY <1>10, <2>2 DEF PlaceTank, TanksInv, SpawnInv, Erased
  <2>4. TablesAgree'
    BY <1>10 DEF PlaceTank, TanksInv, TablesAgree, Erased
  <2> QED
    BY <2>1, <2>3, <2>4 DEF TanksInv
<1>11. CASE EnterTank
  <2>1. TanksTypeOK'
    BY <1>11 DEF EnterTank, TanksInv, TanksTypeOK, SpawnInv
  <2>2. SpawnInv'
    <3>1. /\ spawning' = None /\ ~placed' /\ players' = players \cup {spawning} /\ UNCHANGED Erased
          /\ UNCHANGED <<locations, phase, steered, raced>> /\ spawning # None
      BY <1>11 DEF EnterTank, TanksInv, SpawnInv, Erased
    <3>2. phase = "erasePlayer" /\ Erased \in locations \cup {None} => Erased \in raced
      BY NoneIsNoTank DEF TanksInv, SpawnInv
    <3> QED
      BY <3>1, <3>2 DEF TanksInv, SpawnInv
  <2>3. TablesAgree'
    BY <1>11 DEF EnterTank, TanksInv, SpawnInv, TablesAgree, Erased
  <2> QED
    BY <2>1, <2>2, <2>3 DEF TanksInv
<1>12. ASSUME NEW h \in Handles, FindTank(h) PROVE TanksInv'
  <2>1. TanksTypeOK' /\ TablesAgree'
    BY <1>12 DEF FindTank, TanksInv, TanksTypeOK, TablesAgree, Erased
  <2>2. SpawnInv'
    BY <1>12 DEF FindTank, TanksInv, SpawnInv, Erased
  <2> QED
    BY <2>1, <2>2 DEF TanksInv
<1>13. CASE Steer
  <2>1. TanksTypeOK' /\ SpawnInv'
    BY <1>13 DEF Steer, TanksInv, TanksTypeOK, SpawnInv, Erased
  <2>2. phase' = "lost" => raced # {}
    BY <1>13 DEF Steer, TanksInv, SpawnInv, TablesAgree
  <2>3. TablesAgree'
    BY <1>13, <2>2 DEF Steer, TanksInv, TablesAgree, Erased
  <2> QED
    BY <2>1, <2>3 DEF TanksInv
<1>14. ASSUME NEW h \in Handles, Refuse(h) PROVE TanksInv'
  BY <1>14 DEF Refuse, TanksInv, TanksTypeOK, SpawnInv, TablesAgree, Erased
<1> QED
  BY <1>1, <1>2, <1>3, <1>4, <1>5, <1>6, <1>7, <1>8, <1>9, <1>10, <1>11, <1>12, <1>13, <1>14
     DEF TanksNext, TickThread, GameServer

LEMMA TanksStutters == TanksInv /\ UNCHANGED gameVars => TanksInv'
BY DEF TanksInv, TanksTypeOK, SpawnInv, TablesAgree, Erased, Runs, gameVars

\* While the program runs, a tank is in the game exactly if it has a location, but for
\* the one that is being added and the one that is being erased: on_read gives it its
\* location before it enters the game, and the tick thread erases its location first;
\* so locations.at throws, and on_read steers a tank that has gone, only after an event
\* was carried out for a tank that on_read was at.
THEOREM TablesCorrect == Spec => []TablesAgree
<1>1. Init => TanksInv
  BY TanksInitial DEF Init
<1>2. TanksInv /\ [Next]_vars => TanksInv'
  <2> SUFFICES ASSUME TanksInv, [Next]_vars PROVE TanksInv'
    OBVIOUS
  <2>1. CASE UNCHANGED gameVars
    BY <2>1, TanksStutters
  <2>2. CASE TanksNext
    BY <2>2, TanksStep
  <2> QED
    BY <2>1, <2>2 DEF Next, vars
<1>3. TanksInv => TablesAgree
  BY DEF TanksInv
<1> QED
  BY <1>1, <1>2, <1>3, PTL DEF Spec

---------------------------------------------------------------------------
(* comd: the sessions are kept apart *)

\* The state of comd, its shell and the number of its connection are not per client,
\* but on_disconnect closes the shell and sleeps before the next connection is
\* accepted: a shell is opened by a client that gave the identity and asked for SHELL,
\* no thread closes a shell it did not find open, and the output of a shell goes to
\* its own client alone and never beside an answer to it, unless main was still
\* waiting for a command of that shell when the sleep ended (late).
THEOREM SessionsCorrect == Spec => []SessionsKeptApart
<1>1. Init => RemoteInv
  BY RemoteInitial DEF Init
<1>2. RemoteInv /\ [Next]_vars => RemoteInv'
  <2> SUFFICES ASSUME RemoteInv, [Next]_vars PROVE RemoteInv'
    OBVIOUS
  <2>1. CASE UNCHANGED remoteVars
    BY <2>1, RemoteStutters
  <2>2. CASE RemoteNext
    BY <2>2, RemoteStep
  <2> QED
    BY <2>1, <2>2 DEF Next, vars
<1>3. RemoteInv => SessionsKeptApart
  BY DEF RemoteInv
<1> QED
  BY <1>1, <1>2, <1>3, PTL DEF Spec

---------------------------------------------------------------------------
(* jph2: statements on a table *)

\* A table has rows of S under some of the numbers Ids.
IsTable(table, Ids, S) == DOMAIN table \subseteq Ids /\ table \in [DOMAIN table -> S]

---------------------------------------------------------------------------
(* jph2: the handlers *)

UserRow == [deleted : BOOLEAN]
Row == [owner_id : Accounts, deleted : BOOLEAN, owners : SUBSET Accounts]

Statements ==
    {NoStatement} \cup [does : {"insertUser"}, first : BOOLEAN]
    \cup [does : {"insertAccess"}, user : Accounts]
    \cup [does : {"insert"}, user : Accounts, table : Tables]
    \cup [does : {"change"}, user : Accounts, table : Tables, id : Rows, kept : BOOLEAN]

Jph2Types ==
    /\ Jph2TypeOK
    /\ IsTable(accounts, Accounts, UserRow)
    /\ DOMAIN rows = Tables /\ rows = [t \in Tables |-> rows[t]]
    /\ \A t \in Tables : IsTable(rows[t], Rows, Row)
    /\ doing \in [Workers -> Statements]

\* What a handler has checked stays true until its next statement, as long as its row
\* keeps its number: access and former owners are never taken away.
CheckedRight(w) ==
    /\ Does(w, "insert") => MayCreate(doing[w].user, doing[w].table)
    /\ Does(w, "change") /\ doing[w].kept =>
         /\ doing[w].id \in DOMAIN rows[doing[w].table]
         /\ doing[w].user \in rows[doing[w].table][doing[w].id].owners

Made(table, owners) == \E user \in owners : MayCreate(user, table)

HandlersInv ==
    /\ \A w \in Workers : CheckedRight(w)
    /\ \A table \in Tables : \A id \in DOMAIN rows[table] : Made(table, rows[table][id].owners)

\* Workers on their way to make the first user the administrator.
Promoting == {w \in Workers : Does(w, "insertAccess") \/ (Does(w, "insertUser") /\ doing[w].first)}

\* Unless a user was deleted, each of the administrators was promoted by another
\* worker than those that still promote: once there is a user, none begins to.
PromotedInv ==
    (\A id \in DOMAIN accounts : ~accounts[id].deleted)
        => Cardinality(Administrators) + Cardinality(Promoting) <= Cardinality(Workers)

Jph2Inv == Jph2Types /\ HandlersInv /\ PromotedInv

\* The database is empty at first, and every worker waits.
LEMMA Jph2Initial == Jph2Init => Jph2Inv
<1> SUFFICES ASSUME Jph2Init PROVE Jph2Inv
  OBVIOUS
<1>1. DOMAIN EmptyTable = {} /\ EmptyTable \in [{} -> UserRow] /\ EmptyTable \in [{} -> Row]
  BY DEF EmptyTable
<1>2. IsTable(EmptyTable, Accounts, UserRow) /\ IsTable(EmptyTable, Rows, Row)
  BY <1>1 DEF IsTable
<1>3. Jph2Types
  BY <1>1, <1>2 DEF Jph2Init, Jph2Types, Jph2TypeOK, Statements
<1>4. HandlersInv
  BY <1>1 DEF Jph2Init, HandlersInv, CheckedRight, Does, NoStatement
<1>5. PromotedInv
  <2>1. Administrators = {} /\ Promoting = {}
    BY <1>1 DEF Jph2Init, Administrators, Promoting, Does, NoStatement
  <2>2. Cardinality({}) = 0 /\ Cardinality(Workers) \in Nat
    BY FS_EmptySet, FS_CardinalityType, Jph2Assumption
  <2> QED
    BY <2>1, <2>2 DEF PromotedInv
<1> QED
  BY <1>3, <1>4, <1>5 DEF Jph2Inv

\* The sets that are counted are finite.
LEMMA FiniteCounts ==
    ASSUME Jph2Types
    PROVE  /\ IsFiniteSet(Administrators) /\ Cardinality(Administrators) \in Nat
           /\ IsFiniteSet(Promoting) /\ Cardinality(Promoting) \in Nat
           /\ Cardinality(Promoting) <= Cardinality(Workers) /\ Cardinality(Workers) \in Nat
<1>1. IsFiniteSet(Accounts)
  BY FS_Interval, Jph2Assumption DEF Accounts
<1>2. IsFiniteSet(Administrators)
  <2>1. Administrators \in SUBSET Accounts
    BY DEF Jph2Types, Jph2TypeOK, Administrators
  <2> QED
    BY <1>1, <2>1, FS_Subset
<1>3. IsFiniteSet(Promoting) /\ Cardinality(Promoting) <= Cardinality(Workers)
  BY FS_Subset, Jph2Assumption DEF Promoting
<1> QED
  BY <1>2, <1>3, FS_CardinalityType, Jph2Assumption

\* A step that adds neither an administrator nor a worker on its way to make one.
LEMMA NoPromotion ==
    ASSUME Jph2Inv, Administrators' \subseteq Administrators, Promoting' \subseteq Promoting,
           (\A id \in DOMAIN accounts' : ~accounts'[id].deleted)
               => \A id \in DOMAIN accounts : ~accounts[id].deleted
    PROVE  PromotedInv'
<1>1. Cardinality(Administrators') <= Cardinality(Administrators) /\ Cardinality(Administrators') \in Nat
  BY FiniteCounts, FS_Subset, FS_CardinalityType DEF Jph2Inv
<1>2. Cardinality(Promoting') <= Cardinality(Promoting) /\ Cardinality(Promoting') \in Nat
  BY FiniteCounts, FS_Subset, FS_CardinalityType DEF Jph2Inv
<1> QED
  BY <1>1, <1>2, FiniteCounts DEF Jph2Inv, PromotedInv

\* Who may create rows may always.
LEMMA AccessKept ==
    ASSUME access \subseteq access', NEW user, NEW table, MayCreate(user, table)
    PROVE  MayCreate(user, table)'
BY DEF MayCreate, HasAccess

\* So a handler that does not move on has still checked what it did, and every row
\* that descends from another was made with access.
LEMMA HandlersKept ==
    ASSUME HandlersInv, access \subseteq access',
           \A v \in Workers : \/ CheckedRight(v)'
                              \/ /\ doing'[v] = doing[v]
                                 /\ Does(v, "change") /\ doing[v].kept =>
                                      /\ doing[v].id \in DOMAIN rows'[doing[v].table]
                                      /\ rows[doing[v].table][doing[v].id].owners
                                           \subseteq rows'[doing[v].table][doing[v].id].owners,
           \A t \in Tables : \A id \in DOMAIN rows'[t] :
             \/ \E k \in DOMAIN rows[t] : rows[t][k].owners \subseteq rows'[t][id].owners
             \/ \E user \in rows'[t][id].owners : MayCreate(user, t)
    PROVE  HandlersInv'
<1>1. ASSUME NEW v \in Workers PROVE CheckedRight(v)'
  <2>1. CASE doing'[v] = doing[v]
    <3>1. Does(v, "insert") =>
            \/ doing[v].table = "poi"
            \/ \E type \in {Administrator, Blogger} : <<doing[v].user, type>> \in access'
      BY DEF HandlersInv, CheckedRight, MayCreate, HasAccess
    <3>2. (Does(v, "insert") => MayCreate(doing[v].user, doing[v].table))'
      BY <2>1, <3>1 DEF Does, MayCreate, HasAccess
    <3>3. (Does(v, "change") /\ doing[v].kept =>
             /\ doing[v].id \in DOMAIN rows[doing[v].table]
             /\ doing[v].user \in rows[doing[v].table][doing[v].id].owners)'
      BY <2>1 DEF HandlersInv, CheckedRight, Does
    <3> QED
      BY <3>2, <3>3 DEF CheckedRight
  <2> QED
    BY <2>1
<1>2. ASSUME NEW t \in Tables, NEW id \in DOMAIN rows'[t] PROVE Made(t, rows[t][id].owners)'
  <2>1. PICK user \in rows'[t][id].owners : MayCreate(user, t)
    BY DEF HandlersInv, Made
  <2> QED
    BY <2>1, AccessKept DEF Made
<1> QED
  BY <1>1, <1>2 DEF HandlersInv

\* The same, when no row changes.
LEMMA HandlersWait ==
    ASSUME HandlersInv, access \subseteq access', UNCHANGED rows,
           \A v \in Workers : CheckedRight(v)' \/ doing'[v] = doing[v]
    PROVE  HandlersInv'
<1>1. ASSUME NEW v \in Workers
      PROVE  \/ CheckedRight(v)'
             \/ /\ doing'[v] = doing[v]
                /\ Does(v, "change") /\ doing[v].kept =>
                     /\ doing[v].id \in DOMAIN rows'[doing[v].table]
                     /\ rows[doing[v].table][doing[v].id].owners
                          \subseteq rows'[doing[v].table][doing[v].id].owners
  BY DEF HandlersInv, CheckedRight
<1>2. ASSUME NEW t \in Tables, NEW id \in DOMAIN rows'[t]
      PROVE  \E k \in DOMAIN rows[t] : rows[t][k].owners \subseteq rows'[t][id].owners
  OBVIOUS
<1> QED
  BY <1>1, <1>2, HandlersKept

\* An Update of a row: another worker that had found it has its number still, or no
\* longer relies on it, and the row keeps its former owners.
LEMMA RowUpdated ==
    ASSUME Jph2Inv, NEW w \in Workers, Does(w, "change"), doing' \in [Workers -> Statements],
           doing'[w] = NoStatement,
           NEW table \in Tables, NEW id \in DOMAIN rows[table], NEW to \in Rows, NEW row \in Row,
           Free(rows[table], id, to),
           row.owner_id \in DOMAIN accounts, row.owner_id \in row.owners,
           rows[table][id].owners \subseteq row.owners,
           rows' = [rows EXCEPT ![table] = Update(rows[table], id, to, row)],
           \A v \in Workers \ {w} :
             \/ doing'[v] = doing[v] /\ (to = id \/ v \notin Finders(table, id))
             \/ doing[v].does = "change" /\ doing'[v].does = "change" /\ ~doing'[v].kept,
           UNCHANGED <<accounts, access, tokens>>
    PROVE  Jph2Inv'
<1> DEFINE new == Update(rows[table], id, to, row)
<1> HIDE DEF new
<1>1. /\ IsTable(new, Rows, Row) /\ DOMAIN new = (DOMAIN rows[table] \ {id}) \cup {to} /\ new[to] = row
      /\ \A n \in DOMAIN rows[table] : n # id => n # to /\ new[n] = rows[table][n]
  <2>1. IsTable(rows[table], Rows, Row)
    BY DEF Jph2Inv, Jph2Types
  <2> DEFINE old == rows[table]
  <2> HIDE DEF old
  <2>2. id \in DOMAIN old /\ Free(old, id, to) /\ IsTable(old, Rows, Row) /\ new = Update(old, id, to, row)
    BY <2>1 DEF old, new
  <2>3. /\ IsTable(new, Rows, Row) /\ DOMAIN new = (DOMAIN old \ {id}) \cup {to} /\ new[to] = row
        /\ \A n \in DOMAIN old : n # id => n # to /\ new[n] = old[n]
    BY <2>2 DEF IsTable, Update, Free
  <2> QED
    BY <2>3 DEF old
<1>2. /\ DOMAIN rows' = Tables /\ rows' = [t \in Tables |-> rows'[t]]
      /\ \A t \in Tables : rows'[t] = IF t = table THEN new ELSE rows[t]
  BY DEF new, Jph2Inv, Jph2Types
<1>3. Jph2Types'
  <2>1. \A t \in Tables : IsTable(rows'[t], Rows, Row)
    BY <1>1, <1>2 DEF Jph2Inv, Jph2Types
  <2>2. \A t \in Tables : \A n \in DOMAIN rows[t] :
          /\ rows[t][n].owner_id \in DOMAIN accounts /\ rows[t][n].owner_id \in rows[t][n].owners
          /\ rows[t][n].owners \subseteq Accounts
    BY DEF Jph2Inv, Jph2Types, Jph2TypeOK
  <2>3. \A n \in DOMAIN new : /\ new[n].owner_id \in DOMAIN accounts /\ new[n].owner_id \in new[n].owners
                              /\ new[n].owners \subseteq Accounts
    BY <1>1, <2>2 DEF Row
  <2>4. \A t \in Tables : \A n \in DOMAIN rows'[t] :
          /\ rows'[t][n].owner_id \in DOMAIN accounts /\ rows'[t][n].owner_id \in rows'[t][n].owners
          /\ rows'[t][n].owners \subseteq Accounts
    BY <1>2, <2>2, <2>3
  <2>5. \A t \in Tables : DOMAIN rows'[t] \subseteq Rows
    BY <2>1 DEF IsTable
  <2>6. Jph2TypeOK'
    <3>1. Jph2TypeOK
      BY DEF Jph2Inv, Jph2Types
    <3> QED
      BY <2>4, <2>5, <3>1 DEF Jph2TypeOK
  <2> QED
    BY <1>2, <2>1, <2>6 DEF Jph2Inv, Jph2Types
<1>4. HandlersInv'
  <2>1. CheckedRight(w)'
    BY DEF CheckedRight, Does, NoStatement
  <2>2. ASSUME NEW v \in Workers \ {w}, doing'[v] = doing[v], to = id \/ v \notin Finders(table, id),
               Does(v, "change"), doing[v].kept
        PROVE  /\ doing[v].id \in DOMAIN rows'[doing[v].table]
               /\ rows[doing[v].table][doing[v].id].owners
                    \subseteq rows'[doing[v].table][doing[v].id].owners
    <3>1. doing[v].id \in DOMAIN rows[doing[v].table] /\ doing[v].table \in Tables
      <4>1. doing[v] \in Statements /\ CheckedRight(v)
        BY DEF Jph2Inv, Jph2Types, HandlersInv
      <4>2. doing[v].table \in Tables
        BY <4>1, <2>2 DEF Does, Statements, NoStatement
      <4> QED
        BY <4>1, <4>2, <2>2 DEF CheckedRight
    <3>2. CASE doing[v].table # table
      BY <1>2, <3>1, <3>2
    <3>3. CASE doing[v].table = table /\ doing[v].id # id
      BY <1>1, <1>2, <3>1, <3>3
    <3>4. CASE doing[v].table = table /\ doing[v].id = id
      <4>1. to = id
        BY <2>2, <3>4 DEF Finders
      <4> QED
        BY <1>1, <1>2, <3>4, <4>1
    <3> QED
      BY <3>2, <3>3, <3>4
  <2>3. \A v \in Workers \ {w} :
          doing[v].does = "change" /\ doing'[v].does = "change" /\ ~doing'[v].kept => CheckedRight(v)'
    BY DEF CheckedRight, Does
  <2>4. ASSUME NEW t \in Tables, NEW n \in DOMAIN rows'[t]
        PROVE  \E k \in DOMAIN rows[t] : rows[t][k].owners \subseteq rows'[t][n].owners
    <3>1. CASE t # table
      BY <1>2, <3>1
    <3>2. CASE t = table /\ n = to
      BY <1>1, <1>2, <3>2
    <3>3. CASE t = table /\ n # to
      BY <1>1, <1>2, <3>3
    <3> QED
      BY <3>1, <3>2, <3>3
  <2>5. \A v \in Workers : \/ CheckedRight(v)'
                           \/ /\ doing'[v] = doing[v]
                              /\ Does(v, "change") /\ doing[v].kept =>
                                   /\ doing[v].id \in DOMAIN rows'[doing[v].table]
                                   /\ rows[doing[v].table][doing[v].id].owners
                                        \subseteq rows'[doing[v].table][doing[v].id].owners
    BY <2>1, <2>2, <2>3
  <2> QED
    BY <2>4, <2>5, HandlersKept DEF Jph2Inv
<1>5. PromotedInv'
  <2>1. Promoting' \subseteq Promoting
    BY DEF Promoting, Does, NoStatement
  <2>2. Administrators' = Administrators
    BY DEF Administrators, HasAccess
  <2> QED
    BY <2>1, <2>2, NoPromotion
<1> QED
  BY <1>3, <1>4, <1>5 DEF Jph2Inv

\* One statement of a handler, or what happens outside.
LEMMA Jph2Step == Jph2Inv /\ Jph2Next => Jph2Inv'
<1> SUFFICES ASSUME Jph2Inv, Jph2Next PROVE Jph2Inv'
  OBVIOUS
<1> USE DEF Waiting, Does, Continues, Replies, NoStatement
<1>0. Jph2TypeOK /\ Jph2Types /\ HandlersInv /\ doing \in [Workers -> Statements]
  BY DEF Jph2Inv, Jph2Types
<1>1. ASSUME NEW w \in Workers, CreateUser(w) PROVE Jph2Inv'
  <2> DEFINE isFirst == All(accounts) = {}
             next == [does |-> "insertUser", first |-> isFirst]
  <2>1. /\ doing' = [doing EXCEPT ![w] = next]
        /\ \A v \in Workers : doing'[v] = IF v = w THEN next ELSE doing[v]
        /\ UNCHANGED <<accounts, access, rows, tokens>>
    BY <1>1, <1>0 DEF CreateUser
  <2>2. next \in Statements
    BY DEF Statements
  <2>3. Jph2Types'
    <3> HIDE DEF next
    <3> QED
      BY <1>0, <2>1, <2>2 DEF Jph2Types, Jph2TypeOK
  <2>4. doing'[w].does = "insertUser" /\ (doing'[w].first <=> All(accounts) = {})
        /\ \A v \in Workers : v # w => doing'[v] = doing[v]
    <3> HIDE DEF isFirst
    <3>1. doing'[w].does = "insertUser" /\ doing'[w].first = isFirst
          /\ \A v \in Workers : v # w => doing'[v] = doing[v]
      BY <2>1
    <3> QED
      BY <3>1 DEF isFirst
  <2>5. HandlersInv'
    <3>1. CheckedRight(w)'
      BY <2>4 DEF CheckedRight
    <3> QED
      BY <1>0, <2>1, <2>4, <3>1, HandlersWait
  <2>6. CASE isFirst
    <3>1. ASSUME \A id \in DOMAIN accounts' : ~accounts'[id].deleted PROVE Cardinality(Administrators') = 0
      <4>1. Administrators' = {}
        BY <2>1, <2>6, <3>1 DEF Administrators, All
      <4> QED
        BY <4>1, FS_EmptySet
    <3>2. Cardinality(Promoting') <= Cardinality(Workers) /\ Cardinality(Promoting') \in Nat
          /\ Cardinality(Workers) \in Nat
      BY FS_Subset, FS_CardinalityType, Jph2Assumption DEF Promoting
    <3>3. (\A id \in DOMAIN accounts' : ~accounts'[id].deleted)
            => Cardinality(Administrators') + Cardinality(Promoting') <= Cardinality(Workers)
      BY <3>1, <3>2
    <3>4. PromotedInv'
      BY <3>3 DEF PromotedInv
    <3> QED
      BY <2>3, <2>5, <3>4 DEF Jph2Inv
  <2>7. CASE ~isFirst
    <3>1. Promoting' \subseteq Promoting
      BY <2>4, <2>7 DEF Promoting
    <3> QED
      BY <2>1, <2>3, <2>5, <3>1, NoPromotion DEF Jph2Inv, Administrators, HasAccess
  <2> QED
    BY <2>6, <2>7
<1>2. ASSUME NEW user \in DOMAIN accounts, Login(user) PROVE Jph2Inv'
  <2>1. UNCHANGED <<accounts, access, rows, doing>> /\ tokens' = tokens \cup {user}
    BY <1>2 DEF Login
  <2>2. Jph2Types'
    BY <1>0, <2>1 DEF Jph2Types, Jph2TypeOK
  <2>3. HandlersInv'
    BY <1>0, <2>1, HandlersWait
  <2>4. PromotedInv'
    BY <2>1 DEF Jph2Inv, PromotedInv, Administrators, Promoting, HasAccess
  <2> QED
    BY <2>2, <2>3, <2>4 DEF Jph2Inv
<1>3. ASSUME NEW w \in Workers, InsertUser(w) PROVE Jph2Inv'
  <2>1. doing[w].does = "insertUser" /\ doing[w].first \in BOOLEAN
        /\ UNCHANGED <<access, rows, tokens>>
    BY <1>3, <1>0 DEF InsertUser, Statements
  <2>2. ASSUME NEW next \in Statements, doing' = [doing EXCEPT ![w] = next],
               \/ next = NoStatement
               \/ doing[w].first /\ next.does = "insertAccess",
               IsTable(accounts', Accounts, UserRow),
               DOMAIN accounts \subseteq DOMAIN accounts',
               \A id \in DOMAIN accounts : accounts'[id] = accounts[id]
        PROVE  Jph2Inv'
    <3>1. doing'[w] = next /\ \A v \in Workers : v # w => doing'[v] = doing[v]
      BY <1>0, <2>2
    <3>2. Jph2Types'
      <4>1. doing' \in [Workers -> Statements]
        BY <1>0, <2>2
      <4>2. DOMAIN accounts' \subseteq Accounts /\ \A id \in DOMAIN accounts' : accounts'[id] \in UserRow
        BY <2>2 DEF IsTable
      <4>3. Jph2TypeOK'
        BY <1>0, <2>1, <2>2, <4>2 DEF Jph2TypeOK, UserRow
      <4> QED
        BY <1>0, <2>1, <2>2, <4>1, <4>3 DEF Jph2Types
    <3>3. HandlersInv'
      <4>1. CheckedRight(w)'
        BY <2>2, <3>1 DEF CheckedRight
      <4> QED
        BY <1>0, <2>1, <3>1, <4>1, HandlersWait
    <3>4. Promoting' \subseteq Promoting
      BY <2>1, <2>2, <3>1 DEF Promoting
    <3>5. Administrators' \subseteq Administrators
      BY <1>0, <2>1, <2>2 DEF Jph2TypeOK, Administrators, HasAccess
    <3>6. PromotedInv'
      BY <2>2, <3>4, <3>5, NoPromotion
    <3> QED
      BY <3>2, <3>3, <3>6 DEF Jph2Inv
  <2>3. NoStatement \in Statements
    BY DEF Statements
  <2>4. CASE Replies(w) /\ UNCHANGED accounts
    BY <1>0, <2>2, <2>3, <2>4 DEF Jph2Types
  <2>5. CASE \E id \in Accounts \ DOMAIN accounts, deleted \in BOOLEAN :
               /\ accounts' = Insert(accounts, id, [deleted |-> deleted])
               /\ IF doing[w].first THEN Continues(w, [does |-> "insertAccess", user |-> id]) ELSE Replies(w)
    <3>1. PICK id \in Accounts \ DOMAIN accounts, deleted \in BOOLEAN :
                 /\ accounts' = Insert(accounts, id, [deleted |-> deleted])
                 /\ IF doing[w].first THEN Continues(w, [does |-> "insertAccess", user |-> id])
                    ELSE Replies(w)
      BY <2>5
    <3> DEFINE row == [deleted |-> deleted]
    <3>2. row \in UserRow
      BY DEF UserRow
    <3>3. /\ IsTable(accounts', Accounts, UserRow) /\ DOMAIN accounts \subseteq DOMAIN accounts'
          /\ \A n \in DOMAIN accounts : accounts'[n] = accounts[n]
      <4>1. accounts' = Insert(accounts, id, row)
        BY <3>1
      <4> HIDE DEF row
      <4> QED
        BY <1>0, <3>2, <4>1 DEF Jph2Types, IsTable, Insert
    <3>4. CASE doing[w].first
      <4> DEFINE next == [does |-> "insertAccess", user |-> id]
      <4>1. doing' = [doing EXCEPT ![w] = next]
        BY <3>1, <3>4
      <4>2. next \in Statements /\ next.does = "insertAccess"
        BY DEF Statements
      <4> HIDE DEF next
      <4> QED
        BY <2>2, <3>3, <3>4, <4>1, <4>2
    <3>5. CASE ~doing[w].first
      <4>1. Replies(w)
        BY <3>1, <3>5
      <4> QED
        BY <2>2, <2>3, <3>3, <4>1
    <3> QED
      BY <3>4, <3>5
  <2> QED
    BY <1>3, <2>4, <2>5 DEF InsertUser
<1>4. ASSUME NEW w \in Workers, InsertAccess(w) PROVE Jph2Inv'
  <2> DEFINE user == doing[w].user
  <2>1. /\ doing[w].does = "insertAccess"
        /\ access' = access \cup ({user} \cap DOMAIN accounts) \X {Administrator}
        /\ UNCHANGED <<accounts, rows, tokens>> /\ doing' = [doing EXCEPT ![w] = NoStatement]
        /\ \A v \in Workers : doing'[v] = IF v = w THEN NoStatement ELSE doing[v]
    BY <1>4, <1>0 DEF InsertAccess
  <2> HIDE DEF user
  <2>2. Jph2Types'
    <3>1. access' \subseteq (DOMAIN accounts) \X {Administrator, Blogger}
      BY <1>0, <2>1 DEF Jph2TypeOK
    <3>2. Jph2TypeOK'
      BY <1>0, <2>1, <3>1 DEF Jph2TypeOK
    <3>3. doing' \in [Workers -> Statements]
      BY <1>0, <2>1 DEF Statements
    <3> QED
      BY <1>0, <2>1, <3>2, <3>3 DEF Jph2Types
  <2>3. HandlersInv'
    <3>1. CheckedRight(w)'
      BY <2>1 DEF CheckedRight
    <3> QED
      BY <1>0, <2>1, <3>1, HandlersWait
  <2>4. Promoting' = Promoting \ {w} /\ w \in Promoting
    BY <2>1 DEF Promoting
  <2>5. Cardinality(Promoting') = Cardinality(Promoting) - 1
    BY <1>0, <2>4, FiniteCounts, FS_RemoveElement
  <2>6. Administrators' = Administrators \/ Administrators' = Administrators \cup {user}
    BY <2>1 DEF Administrators, HasAccess
  <2>7. Cardinality(Administrators') \in {Cardinality(Administrators), Cardinality(Administrators) + 1}
    <3>1. CASE Administrators' = Administrators
      BY <3>1
    <3>2. CASE Administrators' = Administrators \cup {user} /\ user \notin Administrators
      BY <1>0, <3>2, FiniteCounts, FS_AddElement
    <3> QED
      BY <2>6, <3>1, <3>2
  <2>8. PromotedInv'
    BY <1>0, <2>1, <2>5, <2>7, FiniteCounts DEF Jph2Inv, PromotedInv
  <2> QED
    BY <2>2, <2>3, <2>8 DEF Jph2Inv
<1>5. ASSUME NEW w \in Workers, InsertRow(w) PROVE Jph2Inv'
  <2>0. PICK user \in Accounts, table \in Tables :
          doing[w].does = "insert" /\ doing[w].user = user /\ doing[w].table = table
    BY <1>5, <1>0 DEF InsertRow, Statements
  <2>1. /\ UNCHANGED <<accounts, access, tokens>>
        /\ doing' \in [Workers -> Statements]
        /\ \A v \in Workers : doing'[v] = IF v = w THEN NoStatement ELSE doing[v]
    BY <1>5, <1>0 DEF InsertRow, Statements
  <2>2. MayCreate(user, table)
    BY <1>0, <2>0 DEF HandlersInv, CheckedRight
  <2>3. CheckedRight(w)'
    BY <2>1 DEF CheckedRight
  <2>4. PromotedInv'
    <3>1. Promoting' \subseteq Promoting /\ Administrators' = Administrators
      BY <2>0, <2>1 DEF Promoting, Administrators, HasAccess
    <3> QED
      BY <2>1, <3>1, NoPromotion
  <2>5. CASE UNCHANGED rows
    <3>1. Jph2Types'
      BY <1>0, <2>1, <2>5 DEF Jph2Types, Jph2TypeOK
    <3>2. HandlersInv'
      BY <1>0, <2>1, <2>3, <2>5, HandlersWait
    <3> QED
      BY <2>4, <3>1, <3>2 DEF Jph2Inv
  <2>6. CASE \E id \in Rows \ DOMAIN rows[table] :
               /\ user \in DOMAIN accounts
               /\ rows' = [rows EXCEPT ![table] = Insert(@, id,
                      [owner_id |-> user, deleted |-> FALSE, owners |-> {user}])]
    <3> DEFINE row == [owner_id |-> user, deleted |-> FALSE, owners |-> {user}]
    <3>1. PICK id \in Rows \ DOMAIN rows[table] :
            user \in DOMAIN accounts /\ rows' = [rows EXCEPT ![table] = Insert(@, id, row)]
      BY <2>6
    <3>2. row \in Row /\ row.owners = {user} /\ row.owner_id = user
      BY DEF Row
    <3> HIDE DEF row
    <3>3. /\ DOMAIN rows' = Tables /\ rows' = [t \in Tables |-> rows'[t]]
          /\ \A t \in Tables : rows'[t] = IF t = table THEN Insert(rows[table], id, row) ELSE rows[t]
      BY <1>0, <3>1 DEF Jph2Types
    <3>4. /\ IsTable(rows'[table], Rows, Row) /\ DOMAIN rows'[table] = DOMAIN rows[table] \cup {id}
          /\ rows'[table][id] = row
          /\ \A n \in DOMAIN rows[table] : n # id /\ rows'[table][n] = rows[table][n]
      <4>1. IsTable(rows[table], Rows, Row) /\ rows'[table] = Insert(rows[table], id, row)
        BY <1>0, <3>3 DEF Jph2Types
      <4> QED
        BY <3>2, <4>1 DEF IsTable, Insert
    <3>5. Jph2Types'
      <4>1. \A t \in Tables : IsTable(rows'[t], Rows, Row)
        BY <1>0, <3>3, <3>4 DEF Jph2Types
      <4>2. \A t \in Tables : \A n \in DOMAIN rows'[t] :
              /\ rows'[t][n].owner_id \in DOMAIN accounts /\ rows'[t][n].owner_id \in rows'[t][n].owners
              /\ rows'[t][n].owners \subseteq Accounts
        BY <1>0, <3>1, <3>2, <3>3, <3>4 DEF Jph2TypeOK
      <4>3. \A t \in Tables : DOMAIN rows'[t] \subseteq Rows
        BY <4>1 DEF IsTable
      <4>4. Jph2TypeOK'
        BY <1>0, <2>1, <4>2, <4>3 DEF Jph2TypeOK
      <4> QED
        BY <1>0, <2>1, <3>3, <4>1, <4>4 DEF Jph2Types
    <3>6. HandlersInv'
      <4>1. ASSUME NEW v \in Workers, v # w, Does(v, "change"), doing[v].kept
            PROVE  /\ doing[v].id \in DOMAIN rows'[doing[v].table]
                   /\ rows[doing[v].table][doing[v].id].owners
                        \subseteq rows'[doing[v].table][doing[v].id].owners
        <5>1. doing[v].table \in Tables
          BY <1>0, <4>1 DEF Statements
        <5>2. doing[v].id \in DOMAIN rows[doing[v].table]
          BY <1>0, <4>1 DEF HandlersInv, CheckedRight
        <5> QED
          BY <3>3, <3>4, <5>1, <5>2
      <4>2. \A t \in Tables : \A n \in DOMAIN rows'[t] :
              \/ \E k \in DOMAIN rows[t] : rows[t][k].owners \subseteq rows'[t][n].owners
              \/ \E u \in rows'[t][n].owners : MayCreate(u, t)
        <5>1. ASSUME NEW t \in Tables, NEW n \in DOMAIN rows'[t], t # table \/ n # id
              PROVE  \E k \in DOMAIN rows[t] : rows[t][k].owners \subseteq rows'[t][n].owners
          BY <3>3, <3>4, <5>1
        <5>2. \E u \in rows'[table][id].owners : MayCreate(u, table)
          BY <2>2, <3>2, <3>4
        <5> QED
          BY <5>1, <5>2
      <4>3. \A v \in Workers : v # w => doing'[v] = doing[v]
        BY <2>1
      <4> QED
        BY <1>0, <2>1, <2>3, <4>1, <4>2, <4>3, HandlersKept
    <3> QED
      BY <2>4, <3>5, <3>6 DEF Jph2Inv
  <2> QED
    BY <1>5, <2>0, <2>5, <2>6 DEF InsertRow
<1>6. ASSUME NEW w \in Workers, ApplyChange(w) PROVE Jph2Inv'
  <2> DEFINE table == doing[w].table
             id == doing[w].id
             old == rows[table][id]
  <2>1. doing[w].does = "change" /\ table \in Tables /\ UNCHANGED <<accounts, access, tokens>>
    <3>1. doing[w].does = "change" /\ UNCHANGED <<accounts, access, tokens>>
      BY <1>6 DEF ApplyChange
    <3>2. doing[w] \in Statements
      BY <1>0
    <3>3. doing[w].table \in Tables
      BY <3>1, <3>2 DEF Statements
    <3> QED
      BY <3>1, <3>3
  <2>2. NoStatement \in Statements
    BY DEF Statements
  <2>3. CASE Replies(w) /\ UNCHANGED rows
    <3>1. doing' \in [Workers -> Statements] /\ \A v \in Workers : doing'[v] = IF v = w THEN NoStatement ELSE doing[v]
      BY <1>0, <2>2, <2>3
    <3>2. Jph2Types'
      BY <1>0, <2>1, <2>3, <3>1 DEF Jph2Types, Jph2TypeOK
    <3>3. HandlersInv'
      <4>1. CheckedRight(w)'
        BY <3>1 DEF CheckedRight
      <4> QED
        BY <1>0, <2>1, <2>3, <3>1, <4>1, HandlersWait
    <3>4. PromotedInv'
      <4>1. Promoting' \subseteq Promoting /\ Administrators' = Administrators
        BY <2>1, <3>1 DEF Promoting, Administrators, HasAccess
      <4> QED
        BY <2>1, <4>1, NoPromotion
    <3> QED
      BY <3>2, <3>3, <3>4 DEF Jph2Inv
  <2>4. ASSUME id \in DOMAIN rows[table]
        PROVE  /\ old \in Row /\ id \in Rows /\ old.owner_id \in DOMAIN accounts /\ old.owner_id \in old.owners
               /\ old = [owner_id |-> old.owner_id, deleted |-> old.deleted, owners |-> old.owners]
    <3>1. IsTable(rows[table], Rows, Row)
      BY <1>0, <2>1 DEF Jph2Types
    <3>2. old \in Row /\ id \in Rows
      BY <2>4, <3>1 DEF IsTable
    <3>3. old.owner_id \in DOMAIN accounts /\ old.owner_id \in old.owners
      BY <1>0, <2>1, <2>4 DEF Jph2TypeOK
    <3> HIDE DEF old
    <3> QED
      BY <3>2, <3>3 DEF Row
  <2>5. CASE id \in DOMAIN rows[table] /\ Replies(w) /\ rows' = [rows EXCEPT ![table] = Delete(rows[table], id)]
    <3> DEFINE row == [old EXCEPT !.deleted = TRUE]
    <3>1. row \in Row /\ row.owner_id = old.owner_id /\ row.owners = old.owners
      <4> HIDE DEF old
      <4> QED
        BY <2>4, <2>5 DEF Row
    <3>2. Delete(rows[table], id) = Update(rows[table], id, id, row)
      <4>1. rows[table] = [n \in DOMAIN rows[table] |-> rows[table][n]]
        BY <1>0, <2>1 DEF Jph2Types, IsTable
      <4> QED
        BY <2>5, <4>1 DEF Delete, Update
    <3>3. /\ doing' \in [Workers -> Statements] /\ doing'[w] = NoStatement
          /\ \A v \in Workers \ {w} : doing'[v] = doing[v]
      BY <1>0, <2>2, <2>5
    <3>4. rows' = [rows EXCEPT ![table] = Update(rows[table], id, id, row)] /\ Free(rows[table], id, id)
      BY <2>5, <3>2 DEF Free
    <3> HIDE DEF row, old
    <3>5. row.owner_id \in DOMAIN accounts /\ row.owner_id \in row.owners /\ old.owners \subseteq row.owners
      BY <2>4, <2>5, <3>1
    <3> HIDE DEF table, id
    <3> QED
      BY <2>1, <2>4, <2>5, <3>1, <3>3, <3>4, <3>5, RowUpdated DEF old
  <2>6. ASSUME id \in DOMAIN rows[table],
               NEW to \in Rows, NEW heir \in DOMAIN accounts, Free(rows[table], id, to),
               rows' = [rows EXCEPT ![table] = Update(rows[table], id, to,
                          [old EXCEPT !.owner_id = heir, !.owners = @ \cup {heir}])],
               doing' = [v \in Workers |->
                           IF v = w THEN NoStatement
                           ELSE IF to # id /\ v \in Finders(table, id)
                                THEN [doing[v] EXCEPT !.kept = FALSE]
                                ELSE doing[v]]
        PROVE  Jph2Inv'
    <3> DEFINE row == [old EXCEPT !.owner_id = heir, !.owners = @ \cup {heir}]
    <3>1. row \in Row /\ row.owner_id = heir /\ row.owners = old.owners \cup {heir}
      <4>1. heir \in Accounts
        BY <1>0 DEF Jph2TypeOK
      <4> HIDE DEF old
      <4> QED
        BY <2>4, <2>6, <4>1 DEF Row
    <3>2. ASSUME NEW v \in Workers, v \in Finders(table, id)
          PROVE  /\ [doing[v] EXCEPT !.kept = FALSE] \in Statements /\ doing[v].does = "change"
                 /\ [doing[v] EXCEPT !.kept = FALSE].does = "change"
                 /\ ~[doing[v] EXCEPT !.kept = FALSE].kept
      <4> DEFINE req == doing[v]
      <4>1. req.does = "change" /\ req \in Statements
        BY <1>0, <3>2 DEF Finders
      <4> HIDE DEF req
      <4>2. req \in [does : {"change"}, user : Accounts, table : Tables, id : Rows, kept : BOOLEAN]
        BY <4>1 DEF Statements
      <4>3. /\ [req EXCEPT !.kept = FALSE] \in
                 [does : {"change"}, user : Accounts, table : Tables, id : Rows, kept : BOOLEAN]
            /\ [req EXCEPT !.kept = FALSE].does = "change" /\ [req EXCEPT !.kept = FALSE].kept = FALSE
        BY <4>2
      <4> QED
        BY <4>1, <4>3 DEF req, Statements
    <3>3. doing' \in [Workers -> Statements] /\ doing'[w] = NoStatement
      BY <1>0, <2>2, <2>6, <3>2
    <3>4. \A v \in Workers \ {w} :
            \/ doing'[v] = doing[v] /\ (to = id \/ v \notin Finders(table, id))
            \/ doing[v].does = "change" /\ doing'[v].does = "change" /\ ~doing'[v].kept
      BY <2>6, <3>2
    <3>5. rows' = [rows EXCEPT ![table] = Update(rows[table], id, to, row)]
      BY <2>6
    <3>6. row.owner_id \in DOMAIN accounts /\ row.owner_id \in row.owners /\ old.owners \subseteq row.owners
      BY <3>1
    <3> HIDE DEF row, table, id
    <3> QED
      BY <2>1, <2>6, <3>1, <3>3, <3>4, <3>5, <3>6, RowUpdated
  <2> QED
    BY <1>6, <2>3, <2>5, <2>6 DEF ApplyChange
<1>7. ASSUME NEW user \in tokens, UpdateUser(user) PROVE Jph2Inv'
  <2>1. PICK to \in Accounts, deleted \in BOOLEAN :
          /\ Free(accounts, user, to) /\ (to = user \/ ~Referenced(user))
          /\ accounts[user].deleted => deleted
          /\ accounts' = Update(accounts, user, to, [deleted |-> deleted])
    BY <1>7 DEF UpdateUser
  <2>2. user \in DOMAIN accounts /\ UNCHANGED <<access, rows, tokens, doing>>
    BY <1>7 DEF UpdateUser
  <2> DEFINE row == [deleted |-> deleted]
  <2>3. row \in UserRow /\ row.deleted = deleted
    BY DEF UserRow
  <2> HIDE DEF row
  <2>4. /\ IsTable(accounts', Accounts, UserRow) /\ DOMAIN accounts' = (DOMAIN accounts \ {user}) \cup {to}
        /\ accounts'[to] = row /\ \A n \in DOMAIN accounts : n # user => n # to /\ accounts'[n] = accounts[n]
    <3>1. IsTable(accounts, Accounts, UserRow) /\ accounts' = Update(accounts, user, to, row)
      BY <1>0, <2>1 DEF Jph2Types, row
    <3> QED
      BY <2>1, <2>2, <2>3, <3>1 DEF IsTable, Update, Free
  <2>5. Jph2Types'
    <3>1. access' \subseteq (DOMAIN accounts') \X {Administrator, Blogger}
      <4>1. access \subseteq (DOMAIN accounts) \X {Administrator, Blogger}
        BY <1>0 DEF Jph2TypeOK
      <4>2. user \in DOMAIN accounts' \/ \A type \in {Administrator, Blogger} : <<user, type>> \notin access
        BY <2>1, <2>4 DEF Referenced, HasAccess
      <4> QED
        BY <2>2, <2>4, <4>1, <4>2
    <3>2. \A table \in Tables : \A id \in DOMAIN rows[table] : rows[table][id].owner_id \in DOMAIN accounts'
      <4>1. user \in DOMAIN accounts' \/ \A table \in Tables : \A id \in DOMAIN rows[table] :
              rows[table][id].owner_id # user
        BY <2>1, <2>4 DEF Referenced
      <4> QED
        BY <1>0, <2>4, <4>1 DEF Jph2TypeOK
    <3>3. DOMAIN accounts' \subseteq Accounts /\ \A id \in DOMAIN accounts' : accounts'[id] \in [deleted : BOOLEAN]
      BY <2>4 DEF IsTable, UserRow
    <3>4. Jph2TypeOK'
      BY <1>0, <2>2, <3>1, <3>2, <3>3 DEF Jph2TypeOK
    <3> QED
      BY <1>0, <2>2, <2>4, <3>4 DEF Jph2Types
  <2>6. HandlersInv'
    BY <1>0, <2>2, HandlersWait
  <2>7. PromotedInv'
    <3>1. Promoting' \subseteq Promoting
      BY <2>2 DEF Promoting
    <3>2. Administrators' \subseteq Administrators
      BY <1>0, <2>2, <2>4 DEF Jph2TypeOK, Administrators, HasAccess
    <3>3. (\A id \in DOMAIN accounts' : ~accounts'[id].deleted)
            => \A id \in DOMAIN accounts : ~accounts[id].deleted
      BY <2>1, <2>3, <2>4
    <3> QED
      BY <3>1, <3>2, <3>3, NoPromotion
  <2> QED
    BY <2>5, <2>6, <2>7 DEF Jph2Inv
<1>8. ASSUME NEW w \in Workers, NEW user \in tokens, NEW table \in Tables, CreateRow(w, user, table)
      PROVE Jph2Inv'
  <2> DEFINE next == [does |-> "insert", user |-> user, table |-> table]
  <2>1. /\ doing' = [doing EXCEPT ![w] = next] /\ \A v \in Workers : doing'[v] = IF v = w THEN next ELSE doing[v]
        /\ doing[w] = NoStatement /\ MayCreate(user, table) /\ UNCHANGED <<accounts, access, rows, tokens>>
    BY <1>8, <1>0 DEF CreateRow
  <2>2. next \in Statements
    BY <1>0 DEF Jph2TypeOK, Statements
  <2>3. doing'[w].does = "insert" /\ doing'[w].user = user /\ doing'[w].table = table
    BY <2>1
  <2>4. Jph2Types'
    <3> HIDE DEF next
    <3> QED
      BY <1>0, <2>1, <2>2 DEF Jph2Types, Jph2TypeOK
  <2>5. HandlersInv'
    <3>1. CheckedRight(w)'
      BY <2>1, <2>3 DEF CheckedRight, MayCreate, HasAccess
    <3> QED
      BY <1>0, <2>1, <3>1, HandlersWait
  <2>6. PromotedInv'
    <3>1. Promoting' \subseteq Promoting /\ Administrators' = Administrators
      BY <2>1, <2>3 DEF Promoting, Administrators, HasAccess
    <3> QED
      BY <2>1, <3>1, NoPromotion
  <2> QED
    BY <2>4, <2>5, <2>6 DEF Jph2Inv
<1>9. ASSUME NEW w \in Workers, NEW user \in tokens, NEW table \in Tables,
             NEW id \in DOMAIN rows[table], ChangeRow(w, user, table, id)
      PROVE Jph2Inv'
  <2> DEFINE next == [does |-> "change", user |-> user, table |-> table, id |-> id, kept |-> TRUE]
  <2>1. /\ doing' = [doing EXCEPT ![w] = next] /\ \A v \in Workers : doing'[v] = IF v = w THEN next ELSE doing[v]
        /\ UNCHANGED <<accounts, access, rows, tokens>>
    BY <1>9, <1>0 DEF ChangeRow
  <2>2. user \in rows[table][id].owners
    <3>1. rows[table][id].owner_id = user
      BY <1>9 DEF ChangeRow, Owned, Where, All
    <3> QED
      BY <1>0, <3>1 DEF Jph2TypeOK
  <2>3. next \in Statements
    <3>1. id \in Rows /\ user \in Accounts
      BY <1>0 DEF Jph2TypeOK
    <3> QED
      BY <3>1 DEF Statements
  <2>4. Jph2Types'
    <3> HIDE DEF next
    <3> QED
      BY <1>0, <2>1, <2>3 DEF Jph2Types, Jph2TypeOK
  <2>5. HandlersInv'
    <3>1. doing'[w].does = "change" /\ doing'[w].user = user /\ doing'[w].table = table /\ doing'[w].id = id
      BY <2>1
    <3>2. CheckedRight(w)'
      BY <2>1, <2>2, <3>1 DEF CheckedRight
    <3> QED
      BY <1>0, <2>1, <3>2, HandlersWait
  <2>6. PromotedInv'
    <3>1. Promoting' \subseteq Promoting /\ Administrators' = Administrators
      BY <2>1 DEF Promoting, Administrators, HasAccess
    <3> QED
      BY <2>1, <3>1, NoPromotion
  <2> QED
    BY <2>4, <2>5, <2>6 DEF Jph2Inv
<1>10. ASSUME NEW user \in DOMAIN accounts, Grant(user) PROVE Jph2Inv'
  <2>1. access' = access \cup {<<user, Blogger>>} /\ UNCHANGED <<accounts, rows, tokens, doing>>
    BY <1>10 DEF Grant
  <2>2. Jph2Types'
    BY <1>0, <2>1 DEF Jph2Types, Jph2TypeOK
  <2>3. HandlersInv'
    BY <1>0, <2>1, HandlersWait
  <2>4. PromotedInv'
    <3>1. Promoting' \subseteq Promoting
      BY <2>1 DEF Promoting
    <3>2. Administrators' \subseteq Administrators
      BY <2>1 DEF Administrators, HasAccess, Administrator, Blogger
    <3> QED
      BY <2>1, <3>1, <3>2, NoPromotion
  <2> QED
    BY <2>2, <2>3, <2>4 DEF Jph2Inv
<1>11. CASE ProcessEnds
  <2>1. UNCHANGED <<accounts, access, rows>> /\ tokens' = {} /\ doing' = [w \in Workers |-> NoStatement]
    BY <1>11 DEF ProcessEnds
  <2>2. Jph2Types'
    BY <1>0, <2>1 DEF Jph2Types, Jph2TypeOK, Statements
  <2>3. HandlersInv'
    <3>1. \A v \in Workers : CheckedRight(v)'
      BY <2>1 DEF CheckedRight
    <3> QED
      BY <1>0, <2>1, <3>1, HandlersWait
  <2>4. PromotedInv'
    BY <2>1, NoPromotion DEF Administrators, Promoting, HasAccess
  <2> QED
    BY <2>2, <2>3, <2>4 DEF Jph2Inv
<1> QED
  BY <1>1, <1>2, <1>3, <1>4, <1>5, <1>6, <1>7, <1>8, <1>9, <1>10, <1>11 DEF Jph2Next

\* Nor does another program's.
LEMMA Jph2Stutters == Jph2Inv /\ UNCHANGED jph2Vars => Jph2Inv'
<1> SUFFICES ASSUME Jph2Inv, UNCHANGED jph2Vars PROVE Jph2Inv'
  OBVIOUS
<1> USE DEF jph2Vars
<1>1. Jph2Types'
  BY DEF Jph2Inv, Jph2Types, Jph2TypeOK
<1>2. HandlersInv'
  BY HandlersWait DEF Jph2Inv
<1>3. PromotedInv'
  BY DEF Jph2Inv, PromotedInv, Administrators, Promoting, Does, HasAccess
<1> QED
  BY <1>1, <1>2, <1>3 DEF Jph2Inv

\* What the invariant says of the rows and the administrators.
LEMMA OwnersFollow == Jph2Inv => OwnersKept
<1> SUFFICES ASSUME Jph2Inv PROVE OwnersKept
  OBVIOUS
<1>1. Cardinality(Administrators) <= Cardinality(Administrators) + Cardinality(Promoting)
  BY FiniteCounts DEF Jph2Inv
<1>2. (\A id \in DOMAIN accounts : ~accounts[id].deleted)
        => Cardinality(Administrators) <= Cardinality(Workers)
  BY <1>1, FiniteCounts DEF Jph2Inv, PromotedInv
<1> QED
  BY <1>2 DEF Jph2Inv, HandlersInv, CheckedRight, Made, OwnersKept

---------------------------------------------------------------------------
(* jph2: the owners of the rows are kept *)

\* However the statements of the handlers interleave, a row that keeps the number it was
\* found by is changed or deleted only by a user it has belonged to, a thread or a
\* message is there because somebody with access made it, and unless a user was deleted
\* there are never more administrators than workers, whatever numbers users and rows take:
\* the first statement of each handler has checked what is only lost with the number.
THEOREM OwnersCorrect == Spec => []OwnersKept
<1>1. Init => Jph2Inv
  BY Jph2Initial DEF Init
<1>2. Jph2Inv /\ [Next]_vars => Jph2Inv'
  <2> SUFFICES ASSUME Jph2Inv, [Next]_vars PROVE Jph2Inv'
    OBVIOUS
  <2>1. CASE UNCHANGED jph2Vars
    BY <2>1, Jph2Stutters
  <2>2. CASE Jph2Next
    BY <2>2, Jph2Step
  <2> QED
    BY <2>1, <2>2 DEF Next, vars
<1>3. Jph2Inv => OwnersKept
  BY OwnersFollow
<1> QED
  BY <1>1, <1>2, <1>3, PTL DEF Spec

---------------------------------------------------------------------------
(* EventClient: alive_connections follows the connections *)

Alive == {c \in Connections : state[c] # "DEAD"}
ClientInv == ClientTypeOK /\ alive \in Int

LEMMA AliveFinite == IsFiniteSet(Alive) /\ Cardinality(Alive) \in Nat
BY FS_Subset, FS_CardinalityType, ConnectionsAssumption DEF Alive

\* add counts every connection.
LEMMA ClientInitial == ClientInit => ClientInv
<1> SUFFICES ASSUME ClientInit PROVE ClientInv
  OBVIOUS
<1>1. PICK g \in Garbage : alive = g + Cardinality(Connections)
  BY DEF ClientInit
<1>2. {c \in Connections : state[c] # "DEAD"} = Connections /\ Cardinality(Connections) \in Nat
  BY FS_CardinalityType, ConnectionsAssumption DEF ClientInit
<1>3. alive \in Int /\ alive - Cardinality({c \in Connections : state[c] # "DEAD"}) \in Garbage
  <2> DEFINE n == Cardinality(Connections)
  <2>1. g \in Int /\ n \in Nat /\ alive = g + n
    BY <1>1, <1>2, ConnectionsAssumption
  <2> HIDE DEF n
  <2>2. alive \in Int /\ alive - n = g
    BY <2>1
  <2> QED
    BY <1>2, <2>2 DEF n
<1>4. turn \in 0 .. Rounds
  BY <1>2 DEF ClientInit, Rounds
<1> QED
  BY <1>3, <1>4 DEF ClientInit, ClientInv, ClientTypeOK

\* A connection that is polled comes to a living state, or is closed and counted off.
LEMMA PolledConnection ==
    ASSUME ClientInv, NEW c \in Connections, state[c] # "DEAD",
           \/ alive' = alive /\ state' \in {state, [state EXCEPT ![c] = "CONNECTING"],
                                             [state EXCEPT ![c] = "CONNECTED"]}
           \/ CloseConnection(c)
    PROVE  /\ state' \in [Connections -> {"DISCONNECTED", "CONNECTING", "CONNECTED", "DEAD"}]
           /\ alive' \in Int
           /\ alive' - Cardinality({d \in Connections : state'[d] # "DEAD"}) \in Garbage
<1> DEFINE left == {d \in Connections : state'[d] # "DEAD"}
<1>1. alive - Cardinality(Alive) \in Garbage /\ alive \in Int
  BY DEF ClientInv, ClientTypeOK, Alive
<1>2. CASE alive' = alive /\ state' \in {state, [state EXCEPT ![c] = "CONNECTING"],
                                          [state EXCEPT ![c] = "CONNECTED"]}
  <2>1. left = Alive
    BY <1>2 DEF ClientInv, ClientTypeOK, Alive
  <2> QED
    BY <1>1, <1>2, <2>1 DEF ClientInv, ClientTypeOK
<1>3. CASE CloseConnection(c)
  <2>1. left = Alive \ {c} /\ c \in Alive
    BY <1>3 DEF CloseConnection, Becomes, ClientInv, ClientTypeOK, Alive
  <2>2. Cardinality(left) = Cardinality(Alive) - 1
    BY <2>1, AliveFinite, FS_RemoveElement
  <2>3. alive' = alive - 1
    BY <1>3 DEF CloseConnection
  <2>4. alive' - Cardinality(left) = alive - Cardinality(Alive) /\ alive' \in Int
    BY <1>1, <2>2, <2>3, AliveFinite
  <2> QED
    BY <1>1, <1>3, <2>4 DEF CloseConnection, Becomes, ClientInv, ClientTypeOK
<1> QED
  BY <1>2, <1>3

\* One step of run or of another end.
LEMMA ClientInvStep == ClientInv /\ ClientNext => ClientInv'
<1> SUFFICES ASSUME ClientInv, ClientNext PROVE ClientInv'
  OBVIOUS
<1>0. Rounds \in Nat /\ 1 \in 0 .. Rounds /\ \A c \in Connections : c \in 1 .. Rounds - 1
  BY FS_CardinalityType, ConnectionsAssumption DEF Rounds
<1>1. CASE StartRound
  BY <1>1, <1>0 DEF StartRound, ClientInv, ClientTypeOK
<1>2. CASE EndRound
  BY <1>2, <1>0 DEF EndRound, ClientInv, ClientTypeOK
<1>3. ASSUME NEW c \in Connections,
             PollDisconnected(c) \/ PollConnecting(c) \/ PollConnected(c)
      PROVE ClientInv'
  <2>1. turn' \in 0 .. Rounds /\ returned' \in BOOLEAN /\ running' \in BOOLEAN
    <3>1. turn = c /\ turn' = turn + 1 /\ returned' = returned
      BY <1>3 DEF PollDisconnected, PollConnecting, PollConnected, Polling, NextTurn
    <3>2. c + 1 \in 0 .. Rounds
      BY <1>0
    <3>3. running' \in BOOLEAN
      BY <1>3 DEF PollDisconnected, PollConnecting, PollConnected, ClientInv, ClientTypeOK
    <3> QED
      BY <3>1, <3>2, <3>3 DEF ClientInv, ClientTypeOK
  <2>2. peer' \in [Connections -> {"none", "pending", "up", "data", "refused", "closed"}]
    BY <1>3 DEF PollDisconnected, PollConnecting, PollConnected, RecvSucceeds, RecvNegative,
                ClientInv, ClientTypeOK
  <2>3. /\ state' \in [Connections -> {"DISCONNECTED", "CONNECTING", "CONNECTED", "DEAD"}]
        /\ alive' \in Int
        /\ alive' - Cardinality({d \in Connections : state'[d] # "DEAD"}) \in Garbage
    <3>1. state[c] # "DEAD"
      BY <1>3 DEF PollDisconnected, PollConnecting, PollConnected, Polling
    <3>2. \/ alive' = alive /\ state' \in {state, [state EXCEPT ![c] = "CONNECTING"],
                                                [state EXCEPT ![c] = "CONNECTED"]}
          \/ CloseConnection(c)
      BY <1>3 DEF PollDisconnected, PollConnecting, PollConnected, Becomes
    <3> QED
      BY <3>1, <3>2, PolledConnection
  <2> QED
    BY <2>1, <2>2, <2>3 DEF ClientInv, ClientTypeOK
<1>4. ASSUME NEW c \in Connections, PollDead(c) PROVE ClientInv'
  BY <1>4, <1>0 DEF PollDead, Polling, NextTurn, ClientInv, ClientTypeOK
<1>5. CASE PeerStep
  <2>1. UNCHANGED <<state, alive, running, turn, returned>>
    BY <1>5 DEF PeerStep
  <2>2. peer' \in [Connections -> {"none", "pending", "up", "data", "refused", "closed"}]
    BY <1>5 DEF PeerStep, ClientInv, ClientTypeOK
  <2> QED
    BY <2>1, <2>2 DEF ClientInv, ClientTypeOK
<1> QED
  BY <1>1, <1>2, <1>3, <1>4, <1>5 DEF ClientNext, ClientStep

---------------------------------------------------------------------------
(* DistributedNode: a request is on its way only on an open connection *)

Said == {Nothing, "", "hash", "Up to date.", "Out of date."}

NodesTypes ==
    /\ up \in [Nodes -> BOOLEAN] /\ hash \in [Nodes -> 0 .. MaxData]
    /\ clients \in [Nodes -> SUBSET Nodes] /\ todo \in [Nodes -> SUBSET Nodes]
    /\ thread \in [Nodes -> {"sleep", "call"} \cup Nodes]
    /\ connected \in [Links -> BOOLEAN] /\ serverEnd \in [Links -> BOOLEAN]
    /\ asked \in [Links -> 0 .. NoHash]
    /\ reply \in [Links -> Said] /\ told \in [Links -> Said]

\* A round calls nodes its thread knows, and what is asked of a closed connection is
\* lost with it.
RequestsInv ==
    /\ \A n \in Nodes : todo[n] \subseteq clients[n] /\ clients[n] \subseteq Knows[n]
    /\ \A l \in Links : asked[l] # NoHash => serverEnd[l] /\ connected[l]

NodesInv == NodesTypes /\ RequestsInv

LEMMA NodesFollow == NodesInv => NodesTypeOK
BY DEF NodesInv, NodesTypes, RequestsInv, NodesTypeOK, Said

\* No node knows another.
LEMMA NodesInitial == NodesInit => NodesInv
<1> SUFFICES ASSUME NodesInit PROVE NodesInv
  OBVIOUS
<1>1. 0 \in 0 .. MaxData /\ NoHash \in 0 .. NoHash /\ Nothing \in Said
  BY NodesAssumption DEF NoHash, Said
<1>2. NodesTypes
  BY <1>1 DEF NodesInit, NodesTypes
<1>3. RequestsInv
  BY DEF NodesInit, RequestsInv
<1> QED
  BY <1>2, <1>3 DEF NodesInv

\* A process that ends takes what was asked of it, and what it asked, with it.
LEMMA NodesEnd == ASSUME NodesInv, NEW n \in Nodes, Ends(n) PROVE NodesInv'
<1>1. 0 \in 0 .. MaxData /\ NoHash \in 0 .. NoHash /\ Nothing \in Said
  BY NodesAssumption DEF NoHash, Said
<1>2. /\ up' \in [Nodes -> BOOLEAN] /\ hash' \in [Nodes -> 0 .. MaxData]
      /\ clients' \in [Nodes -> SUBSET Nodes] /\ todo' \in [Nodes -> SUBSET Nodes]
      /\ thread' \in [Nodes -> {"sleep", "call"} \cup Nodes]
  BY <1>1 DEF NodesInv, NodesTypes, Ends
<1>3. connected' \in [Links -> BOOLEAN] /\ serverEnd' \in [Links -> BOOLEAN]
  BY DEF NodesInv, NodesTypes, Ends
<1>4. asked' \in [Links -> 0 .. NoHash] /\ reply' \in [Links -> Said] /\ told' \in [Links -> Said]
  BY <1>1 DEF NodesInv, NodesTypes, Ends
<1>5. \A p \in Nodes : todo'[p] \subseteq clients'[p] /\ clients'[p] \subseteq Knows[p]
  BY DEF NodesInv, NodesTypes, RequestsInv, Ends
<1>6. \A l \in Links : asked'[l] # NoHash => serverEnd'[l] /\ connected'[l]
  BY DEF NodesInv, NodesTypes, RequestsInv, Ends
<1> QED
  BY <1>2, <1>3, <1>4, <1>5, <1>6 DEF NodesInv, NodesTypes, RequestsInv, NoHash

\* One step of a node or of what stands around it.
LEMMA NodesStep == NodesInv /\ NodesNext => NodesInv'
<1> SUFFICES ASSUME NodesInv, NodesNext PROVE NodesInv'
  OBVIOUS
<1> USE DEF processVars, loopVars, linkVars, ThreadTo, Called
<1>0. /\ \A n \in Nodes : \A m \in Knows[n] : <<n, m>> \in Links /\ m \in Nodes
      /\ \A l \in Links : l[1] \in Nodes /\ l[2] \in Nodes
      /\ NoHash \in 0 .. NoHash /\ MaxData \in Nat /\ 0 .. MaxData \subseteq 0 .. NoHash
      /\ \A k \in 0 .. MaxData : k # NoHash
      /\ {Nothing, "", "hash", "Up to date.", "Out of date."} = Said
  BY NodesAssumption DEF Links, NoHash, Said
<1>1. ASSUME NEW n \in Nodes, SetData(n) PROVE NodesInv'
  <2>1. hash[n] + 1 \in 0 .. MaxData
    <3>1. hash[n] \in 0 .. MaxData /\ hash[n] < MaxData
      BY <1>1 DEF NodesInv, NodesTypes, SetData
    <3> QED
      BY <3>1, NodesAssumption
  <2>2. hash' \in [Nodes -> 0 .. MaxData]
    BY <1>1, <2>1 DEF NodesInv, NodesTypes, SetData
  <2>3. NodesTypes'
    BY <1>1, <2>2 DEF NodesInv, NodesTypes, SetData
  <2>4. RequestsInv'
    BY <1>0, <1>1 DEF NodesInv, NodesTypes, RequestsInv, SetData
  <2> QED
    BY <2>3, <2>4 DEF NodesInv
<1>2. ASSUME NEW n \in Nodes, NodeEnds(n) PROVE NodesInv'
  BY <1>2, NodesEnd DEF NodeEnds
<1>3. ASSUME NEW n \in Nodes, NodeStarts(n) PROVE NodesInv'
  <2>1. NodesTypes'
    BY <1>0, <1>3 DEF NodesInv, NodesTypes, NodeStarts
  <2>2. RequestsInv'
    BY <1>0, <1>3 DEF NodesInv, NodesTypes, RequestsInv, NodeStarts
  <2> QED
    BY <2>1, <2>2 DEF NodesInv
<1>4. ASSUME NEW n \in Nodes, BeginRound(n) PROVE NodesInv'
  <2>1. NodesTypes'
    BY <1>0, <1>4 DEF NodesInv, NodesTypes, BeginRound
  <2>2. RequestsInv'
    BY <1>0, <1>4 DEF NodesInv, NodesTypes, RequestsInv, BeginRound
  <2> QED
    BY <2>1, <2>2 DEF NodesInv
<1>5. ASSUME NEW n \in Nodes, FinishRound(n) PROVE NodesInv'
  <2>1. NodesTypes'
    BY <1>0, <1>5 DEF NodesInv, NodesTypes, FinishRound
  <2>2. RequestsInv'
    BY <1>0, <1>5 DEF NodesInv, NodesTypes, RequestsInv, FinishRound
  <2> QED
    BY <2>1, <2>2 DEF NodesInv
<1>6. ASSUME NEW n \in Nodes, NEW m \in Knows[n], Connects(n, m) PROVE NodesInv'
  <2> DEFINE l == <<n, m>>
  <2>1. l \in Links /\ UNCHANGED <<up, hash, clients, asked, reply>>
    BY <1>0, <1>6 DEF Connects
  <2>2. CASE /\ connected' = [connected EXCEPT ![l] = TRUE]
             /\ serverEnd' = [serverEnd EXCEPT ![l] = TRUE]
             /\ UNCHANGED <<told, loopVars>>
    <3> HIDE DEF l
    <3>1. NodesTypes'
      BY <2>1, <2>2 DEF NodesInv, NodesTypes
    <3>2. RequestsInv'
      BY <2>1, <2>2 DEF NodesInv, NodesTypes, RequestsInv
    <3> QED
      BY <3>1, <3>2 DEF NodesInv
  <2>3. CASE /\ told' = [told EXCEPT ![l] = ""] /\ Called(n, m)
             /\ UNCHANGED <<connected, serverEnd>>
    <3> HIDE DEF l
    <3>1. NodesTypes'
      BY <1>0, <2>1, <2>3 DEF NodesInv, NodesTypes
    <3>2. RequestsInv'
      BY <2>1, <2>3 DEF NodesInv, NodesTypes, RequestsInv
    <3> QED
      BY <3>1, <3>2 DEF NodesInv
  <2> QED
    BY <1>6, <2>2, <2>3 DEF Connects
<1>7. ASSUME NEW n \in Nodes, NEW m \in Knows[n], SendsStatus(n, m) PROVE NodesInv'
  <2> DEFINE l == <<n, m>>
  <2>1. /\ l \in Links /\ connected[l] /\ m \in Nodes
        /\ UNCHANGED <<up, hash, clients, todo, serverEnd, reply, told>>
    BY <1>0, <1>7 DEF SendsStatus
  <2>2. CASE /\ asked' = [asked EXCEPT ![l] = IF serverEnd[l] THEN hash[n] ELSE @]
             /\ thread' = [thread EXCEPT ![n] = m] /\ UNCHANGED connected
    <3> HIDE DEF l
    <3>1. hash[n] \in 0 .. NoHash
      BY <1>0 DEF NodesInv, NodesTypes
    <3>2. asked' \in [Links -> 0 .. NoHash]
      BY <2>1, <2>2, <3>1 DEF NodesInv, NodesTypes
    <3>3. NodesTypes'
      BY <2>1, <2>2, <3>2 DEF NodesInv, NodesTypes
    <3>4. RequestsInv'
      BY <2>1, <2>2 DEF NodesInv, NodesTypes, RequestsInv
    <3> QED
      BY <3>3, <3>4 DEF NodesInv
  <2>3. CASE ~serverEnd[l] /\ Closes(l) /\ UNCHANGED <<asked, thread>>
    <3> HIDE DEF l
    <3>1. NodesTypes'
      BY <2>1, <2>3 DEF NodesInv, NodesTypes, Closes
    <3>2. RequestsInv'
      BY <2>1, <2>3 DEF NodesInv, NodesTypes, RequestsInv, Closes
    <3> QED
      BY <3>1, <3>2 DEF NodesInv
  <2> QED
    BY <1>7, <2>2, <2>3 DEF SendsStatus
<1>8. ASSUME NEW n \in Nodes, NEW m \in Knows[n], GetsReply(n, m) PROVE NodesInv'
  <2>1. NodesTypes'
    BY <1>0, <1>8 DEF NodesInv, NodesTypes, GetsReply
  <2>2. RequestsInv'
    BY <1>0, <1>8 DEF NodesInv, NodesTypes, RequestsInv, GetsReply
  <2> QED
    BY <2>1, <2>2 DEF NodesInv
<1>9. ASSUME NEW n \in Nodes, NEW m \in Knows[n], GetsNothing(n, m) PROVE NodesInv'
  <2>1. NodesTypes'
    BY <1>0, <1>9 DEF NodesInv, NodesTypes, GetsNothing, Closes
  <2>2. RequestsInv'
    BY <1>0, <1>9 DEF NodesInv, NodesTypes, RequestsInv, GetsNothing, Closes
  <2> QED
    BY <2>1, <2>2 DEF NodesInv
<1>10. ASSUME NEW n \in Nodes, NEW m \in Nodes, AddClient(n, m) PROVE NodesInv'
  <2>1. NodesTypes'
    BY <1>0, <1>10 DEF NodesInv, NodesTypes, AddClient
  <2>2. RequestsInv'
    BY <1>0, <1>10 DEF NodesInv, NodesTypes, RequestsInv, AddClient
  <2> QED
    BY <2>1, <2>2 DEF NodesInv
<1>11. ASSUME NEW l \in Links, Answers(l) PROVE NodesInv'
  <2>1. NodesTypes'
    BY <1>0, <1>11 DEF NodesInv, NodesTypes, Answers, Asked, Verdict
  <2>2. RequestsInv'
    BY <1>0, <1>11 DEF NodesInv, NodesTypes, RequestsInv, Answers, Asked, Verdict
  <2> QED
    BY <2>1, <2>2 DEF NodesInv
<1>12. ASSUME NEW l \in Links, EndsByQuestion(l) PROVE NodesInv'
  BY <1>0, <1>12, NodesEnd DEF EndsByQuestion
<1> QED
  BY <1>1, <1>2, <1>3, <1>4, <1>5, <1>6, <1>7, <1>8, <1>9, <1>10, <1>11, <1>12 DEF NodesNext, NodeThread

---------------------------------------------------------------------------
(* All of them *)

\* Every variable of every program keeps to its type: alive_connections follows the
\* connections of the EventClient, a request of a DistributedNode is on its way only
\* while its connection is open, an SSL lives exactly as long as client_ssl names it
\* and every row belongs to a user.
THEOREM TypesCorrect == Spec => []ProgramsTypeOK
<1> DEFINE AllInv == ClientInv /\ RemoteInv /\ TanksInv /\ NodesInv /\ TlsInv /\ Jph2Inv
<1>1. Init => AllInv
  BY ClientInitial, RemoteInitial, TanksInitial, NodesInitial, TlsInitial, Jph2Initial DEF Init
<1>2. AllInv /\ [Next]_vars => AllInv'
  <2> SUFFICES ASSUME AllInv, [Next]_vars PROVE AllInv'
    OBVIOUS
  <2>1. ClientInv'
    <3>1. UNCHANGED clientVars \/ ClientNext
      BY DEF Next, vars
    <3>2. UNCHANGED clientVars => ClientInv'
      BY DEF ClientInv, ClientTypeOK, clientVars
    <3> QED
      BY <3>1, <3>2, ClientInvStep
  <2>2. RemoteInv'
    BY RemoteStep, RemoteStutters DEF Next, vars
  <2>3. TanksInv'
    <3>1. UNCHANGED gameVars \/ TanksNext
      BY DEF Next, vars
    <3> QED
      BY <3>1, TanksStep, TanksStutters
  <2>4. NodesInv'
    <3>1. UNCHANGED nodeVars \/ NodesNext
      BY DEF Next, vars
    <3>2. UNCHANGED nodeVars => NodesInv'
      BY DEF NodesInv, NodesTypes, RequestsInv, nodeVars, processVars, loopVars, linkVars
    <3> QED
      BY <3>1, <3>2, NodesStep
  <2>5. TlsInv'
    <3>1. UNCHANGED tlsVars \/ TlsNext
      BY DEF Next, vars
    <3> QED
      BY <3>1, TlsStep, TlsStutters
  <2>6. Jph2Inv'
    BY Jph2Step, Jph2Stutters DEF Next, vars
  <2> QED
    BY <2>1, <2>2, <2>3, <2>4, <2>5, <2>6
<1>3. AllInv => ProgramsTypeOK
  BY NodesFollow
     DEF ProgramsTypeOK, ClientInv, RemoteInv, RemoteTypes, TanksInv, TlsInv, Jph2Inv, Jph2Types
<1> QED
  BY <1>1, <1>2, <1>3, PTL DEF Spec
=============================================================================
