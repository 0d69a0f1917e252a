-------------------------- MODULE BroadcastProofs --------------------------
(***************************************************************************)
(* Machine-checked proofs about Broadcast, for any threads, clients, pipe   *)
(* size and number of messages: type correctness, that a client gets its    *)
(* messages in the order they were broadcast, and that a message reaches    *)
(* every client of the thread that read it.                                 *)
(***************************************************************************)
EXTENDS Broadcast, SequenceTheorems, TLAPS

Messages == 1 .. MaxMessages

\* run_thread starts with an empty pipe and nobody connected.
LEMMA TypeInit == Init => TypeOK
<1> SUFFICES ASSUME Init PROVE TypeOK
  OBVIOUS
<1>1. <<>> \in Seq(Messages) /\ Len(<<>>) = 0
  BY EmptySeq
<1> QED
  BY <1>1, BroadcastAssumption DEF Init, TypeOK, Messages

\* No step of a thread, a sender or a client leaves the types.
LEMMA TypeNext == TypeOK /\ [Next]_vars => TypeOK'
<1> SUFFICES ASSUME TypeOK, [Next]_vars PROVE TypeOK'
  OBVIOUS
<1> USE BroadcastAssumption
<1>1. CASE Send
  <2>1. written + 1 \in Messages /\ written' \in 0 .. MaxMessages
    BY <1>1 DEF Send, TypeOK, Messages
  <2>2. pipe' \in Seq(Messages) /\ Len(pipe') = Len(pipe) + 1
    BY <1>1, <2>1, AppendProperties DEF Send, TypeOK, Messages
  <2>3. Len(pipe') <= PipeSize
    BY <1>1, <2>2 DEF Send, TypeOK
  <2>4. Connected \subseteq Clients
    BY DEF Connected, TypeOK
  <2>5. audience' \in [Messages -> SUBSET Clients]
    BY <1>1, <2>4 DEF Send, TypeOK, Messages
  <2> QED
    BY <1>1, <2>1, <2>2, <2>3, <2>5 DEF Send, TypeOK, Messages
<1>2. ASSUME NEW t \in Threads, EpollWait(t) PROVE TypeOK'
  BY <1>2 DEF EpollWait, TypeOK
<1>3. ASSUME NEW t \in Threads, BroadcastEvent(t) PROVE TypeOK'
  <2>1. reg' \in [Threads -> {"armed", "fired"}]
    BY <1>3 DEF BroadcastEvent, Rearmed, TypeOK
  <2>2. CASE pipe = <<>> /\ UNCHANGED <<pipe, delivered, reader>>
    BY <1>3, <2>1, <2>2 DEF BroadcastEvent, TypeOK
  <2>3. CASE pipe # <<>>
    <3>1. /\ Head(pipe) \in Messages
          /\ Tail(pipe) \in Seq(Messages) /\ Len(Tail(pipe)) = Len(pipe) - 1
      BY <2>3, HeadTailProperties DEF TypeOK, Messages
    <3>2. pipe' = Tail(pipe)
      BY <1>3, <2>3 DEF BroadcastEvent, ReadPacket
    <3>3. Len(pipe) \in Nat /\ Len(pipe) <= PipeSize
      BY DEF TypeOK
    <3>4. Len(pipe') <= PipeSize /\ pipe' \in Seq(Messages)
      BY <3>1, <3>2, <3>3
    <3>5. reader' \in [Messages -> Threads \cup {NoThread}]
      BY <1>3, <2>3, <3>1 DEF BroadcastEvent, TypeOK, Messages
    <3>6. PICK S : delivered' = [c \in Clients |->
                     IF c \in S THEN Append(delivered[c], Head(pipe)) ELSE delivered[c]]
      BY <1>3, <2>3 DEF BroadcastEvent
    <3>7. \A c \in Clients : Append(delivered[c], Head(pipe)) \in Seq(Messages)
      BY <3>1, AppendProperties DEF TypeOK, Messages
    <3>8. delivered' \in [Clients -> Seq(Messages)]
      BY <3>6, <3>7 DEF TypeOK, Messages
    <3> QED
      BY <1>3, <2>1, <3>4, <3>5, <3>8 DEF BroadcastEvent, TypeOK, Messages
  <2> QED
    BY <1>3, <2>2, <2>3 DEF BroadcastEvent
<1>4. ASSUME NEW t \in Threads, NEW c \in Clients, Accept(t, c) \/ Leave(t, c)
      PROVE  TypeOK'
  <2>1. CASE Accept(t, c)
    BY <2>1 DEF Accept, TypeOK
  <2>2. CASE Leave(t, c)
    <3>1. audience' \in [Messages -> SUBSET Clients]
      BY <2>2 DEF Leave, TypeOK, Messages
    <3>2. tracked' \in [Threads -> SUBSET Clients]
      BY <2>2 DEF Leave, TypeOK
    <3> QED
      BY <2>2, <3>1, <3>2 DEF Leave, TypeOK, Messages
  <2> QED
    BY <1>4, <2>1, <2>2
<1>5. CASE UNCHANGED vars
  BY <1>5 DEF vars, TypeOK
<1> QED
  BY <1>1, <1>2, <1>3, <1>4, <1>5 DEF Next, Quiescent

\* Every variable holds a value of its type in every reachable state: the sequences
\* hold numbers of messages, and the pipe at most PipeSize of them.
THEOREM TypeCorrect == Spec => []TypeOK
  BY TypeInit, TypeNext, PTL DEF Spec
-----------------------------------------------------------------------------
(* Order *)

\* The pipe holds written messages in the order they were broadcast, and everything
\* that any client was sent is older than everything that is still in the pipe.
PipeInv ==
    /\ \A i, j \in DOMAIN pipe : i < j => pipe[i] < pipe[j]
    /\ \A i \in DOMAIN pipe : pipe[i] <= written
    /\ \A c \in Clients : \A i \in DOMAIN delivered[c] :
         /\ delivered[c][i] <= written
         /\ \A j \in DOMAIN pipe : delivered[c][i] < pipe[j]

OrderInv == TypeOK /\ PipeInv /\ DeliveredInOrder

\* What one reading of the pipe does: the oldest message leaves it and is appended to
\* what some clients were sent.
LEMMA ReadOne ==
    ASSUME TypeOK, NEW t \in Threads, BroadcastEvent(t), pipe # <<>>
    PROVE  /\ Head(pipe) = pipe[1] /\ pipe[1] \in Messages
           /\ pipe' \in Seq(Messages) /\ Len(pipe') = Len(pipe) - 1
           /\ \A i \in DOMAIN pipe' : pipe'[i] = pipe[i + 1]
           /\ \A c \in Clients :
                \/ delivered'[c] = delivered[c]
                \/ delivered'[c] = Append(delivered[c], pipe[1])
<1>1. Head(pipe) = pipe[1]
  OBVIOUS
<1>2. /\ Head(pipe) \in Messages
      /\ Tail(pipe) \in Seq(Messages) /\ Len(Tail(pipe)) = Len(pipe) - 1
      /\ \A i \in 1 .. Len(Tail(pipe)) : Tail(pipe)[i] = pipe[i + 1]
  BY HeadTailProperties DEF TypeOK, Messages
<1>3. pipe' = Tail(pipe)
  BY DEF BroadcastEvent, ReadPacket
<1>4. DOMAIN pipe' = 1 .. Len(Tail(pipe))
  BY <1>2, <1>3
<1>5. \A c \in Clients : \/ delivered'[c] = delivered[c]
                         \/ delivered'[c] = Append(delivered[c], pipe[1])
  BY <1>1 DEF BroadcastEvent
<1> QED
  BY <1>1, <1>2, <1>3, <1>4, <1>5

\* A thread that reads the pipe keeps the order: what it sends is newer than what its
\* clients have, and older than what stays in the pipe.
LEMMA OrderRead ==
    ASSUME OrderInv, NEW t \in Threads, BroadcastEvent(t), pipe # <<>>
    PROVE  (PipeInv /\ DeliveredInOrder)'
<1> DEFINE h == pipe[1]
<1>1. /\ h \in Messages /\ pipe' \in Seq(Messages) /\ Len(pipe') = Len(pipe) - 1
      /\ \A i \in DOMAIN pipe' : pipe'[i] = pipe[i + 1]
      /\ \A c \in Clients : delivered'[c] = delivered[c]
                            \/ delivered'[c] = Append(delivered[c], h)
  BY ReadOne DEF OrderInv
<1>2. /\ pipe \in Seq(Messages) /\ Len(pipe) \in Nat /\ Len(pipe) # 0
      /\ DOMAIN pipe = 1 .. Len(pipe) /\ DOMAIN pipe' = 1 .. Len(pipe) - 1
      /\ written' = written
  BY <1>1, EmptySeq, LenProperties DEF OrderInv, TypeOK, Messages, BroadcastEvent
<1>3. /\ \A i \in DOMAIN pipe : pipe[i] \in Nat
      /\ written \in Nat /\ 1 \in DOMAIN pipe
  <2>1. \A i \in DOMAIN pipe : pipe[i] \in Messages
    BY <1>2, ElementOfSeq
  <2> QED
    BY <1>2, <2>1, BroadcastAssumption DEF OrderInv, TypeOK, Messages
<1>4. \A i \in DOMAIN pipe' : i + 1 \in DOMAIN pipe /\ h < pipe'[i]
  <2>1. \A i \in DOMAIN pipe' : 1 < i + 1 /\ i + 1 \in DOMAIN pipe
    BY <1>2
  <2> QED
    BY <1>1, <1>3, <2>1 DEF OrderInv, PipeInv
<1>5. \A i, j \in DOMAIN pipe' : i < j => pipe'[i] < pipe'[j]
  BY SMTT(30), <1>1, <1>2, <1>4 DEF OrderInv, PipeInv
<1>6. \A i \in DOMAIN pipe' : pipe'[i] <= written'
  BY <1>1, <1>2, <1>4 DEF OrderInv, PipeInv
<1>7. ASSUME NEW c \in Clients
      PROVE  /\ \A i \in DOMAIN delivered'[c] :
                  /\ delivered'[c][i] <= written'
                  /\ \A j \in DOMAIN pipe' : delivered'[c][i] < pipe'[j]
             /\ \A i, j \in DOMAIN delivered'[c] :
                  i < j => delivered'[c][i] < delivered'[c][j]
  <2> DEFINE d == delivered[c]
  <2>1. d \in Seq(Messages) /\ Len(d) \in Nat /\ DOMAIN d = 1 .. Len(d)
        /\ \A i \in DOMAIN d : d[i] \in Nat
    <3>1. d \in Seq(Messages) /\ Len(d) \in Nat /\ DOMAIN d = 1 .. Len(d)
      BY LenProperties DEF OrderInv, TypeOK, Messages
    <3>2. \A i \in DOMAIN d : d[i] \in Messages
      BY <3>1, ElementOfSeq
    <3> QED
      BY <3>1, <3>2, BroadcastAssumption DEF Messages
  <2>2. /\ \A i \in DOMAIN d : d[i] <= written /\ d[i] < h
        /\ \A i \in DOMAIN d, j \in DOMAIN pipe : d[i] < pipe[j]
        /\ \A i, j \in DOMAIN d : i < j => d[i] < d[j]
    BY <1>3 DEF OrderInv, PipeInv, DeliveredInOrder
  <2>3. CASE delivered'[c] = d
    BY <1>1, <1>2, <1>4, <2>2, <2>3
  <2>4. CASE delivered'[c] = Append(d, h)
    <3> DEFINE e == delivered'[c]
    <3>1. /\ e \in Seq(Messages) /\ Len(e) = Len(d) + 1
          /\ \A i \in 1 .. Len(d) : e[i] = d[i]
          /\ e[Len(d) + 1] = h
      BY <1>1, <2>1, <2>4, AppendProperties
    <3>2. DOMAIN e = 1 .. Len(d) + 1
      BY <3>1
    <3> HIDE DEF d, e, h
    <3>3. h <= written /\ h \in Nat
      BY <1>1, <1>3 DEF OrderInv, PipeInv, Messages, h
    <3>4. \A i \in DOMAIN e : e[i] <= written
      BY <2>1, <2>2, <3>1, <3>2, <3>3
    <3>5. \A i \in DOMAIN e, j \in DOMAIN pipe' : e[i] < pipe'[j]
      <4>1. \A i \in DOMAIN e : e[i] \in Nat /\ e[i] <= h
        BY <2>1, <2>2, <3>1, <3>2, <3>3
      <4>2. \A j \in DOMAIN pipe' : pipe'[j] \in Nat /\ h < pipe'[j]
        BY <1>1, <1>3, <1>4
      <4> QED
        BY <3>3, <4>1, <4>2
    <3>6. \A i, j \in DOMAIN e : i < j => e[i] < e[j]
      BY <2>1, <2>2, <3>1, <3>2, <3>3
    <3> QED
      BY <1>2, <3>4, <3>5, <3>6 DEF e
  <2> QED
    BY <1>1, <2>3, <2>4
<1> QED
  BY <1>5, <1>6, <1>7 DEF PipeInv, DeliveredInOrder

\* A message that is broadcast is newer than every message before it.
LEMMA OrderSend ==
    ASSUME OrderInv, Send
    PROVE  (PipeInv /\ DeliveredInOrder)'
<1>1. written + 1 \in Messages /\ written \in Nat /\ written' = written + 1
  BY BroadcastAssumption DEF Send, OrderInv, TypeOK, Messages
<1>2. /\ Len(pipe) \in Nat /\ DOMAIN pipe = 1 .. Len(pipe)
      /\ DOMAIN pipe' = 1 .. Len(pipe) + 1
      /\ \A i \in DOMAIN pipe : pipe'[i] = pipe[i]
      /\ pipe'[Len(pipe) + 1] = written + 1
  <2>1. pipe \in Seq(Messages) /\ pipe' = Append(pipe, written + 1)
    BY DEF Send, OrderInv, TypeOK, Messages
  <2>2. /\ pipe' \in Seq(Messages) /\ Len(pipe') = Len(pipe) + 1
        /\ \A i \in 1 .. Len(pipe) : pipe'[i] = pipe[i]
        /\ pipe'[Len(pipe) + 1] = written + 1
    BY <1>1, <2>1, AppendProperties
  <2> QED
    BY <2>1, <2>2, LenProperties
<1>3. /\ \A i \in DOMAIN pipe : pipe[i] \in Nat /\ pipe[i] <= written
      /\ \A i, j \in DOMAIN pipe : i < j => pipe[i] < pipe[j]
  <2>1. pipe \in Seq(Messages)
    BY DEF OrderInv, TypeOK, Messages
  <2>2. \A i \in DOMAIN pipe : pipe[i] \in Messages
    BY <1>2, <2>1, ElementOfSeq
  <2> QED
    BY <2>2, BroadcastAssumption DEF OrderInv, PipeInv, Messages
<1>4. \A i, j \in DOMAIN pipe' : i < j => pipe'[i] < pipe'[j]
  BY <1>1, <1>2, <1>3
<1>5. \A i \in DOMAIN pipe' : pipe'[i] <= written'
  BY <1>1, <1>2, <1>3
<1>6. \A c \in Clients : \A i \in DOMAIN delivered'[c] :
        /\ delivered'[c][i] <= written'
        /\ \A j \in DOMAIN pipe' : delivered'[c][i] < pipe'[j]
  <2>1. UNCHANGED delivered
    BY DEF Send
  <2>2. \A c \in Clients : \A i \in DOMAIN delivered[c] :
          /\ delivered[c][i] \in Nat /\ delivered[c][i] <= written
          /\ \A j \in DOMAIN pipe : delivered[c][i] < pipe[j]
    <3>1. \A c \in Clients : /\ delivered[c] \in Seq(Messages)
                             /\ DOMAIN delivered[c] = 1 .. Len(delivered[c])
      BY LenProperties DEF OrderInv, TypeOK, Messages
    <3>2. \A c \in Clients : \A i \in DOMAIN delivered[c] : delivered[c][i] \in Messages
      BY <3>1, ElementOfSeq
    <3> QED
      BY <3>2, BroadcastAssumption DEF OrderInv, PipeInv, Messages
  <2> QED
    BY <1>1, <1>2, <2>1, <2>2
<1>7. DeliveredInOrder'
  BY DEF Send, OrderInv, DeliveredInOrder
<1> QED
  BY <1>4, <1>5, <1>6, <1>7 DEF PipeInv

\* Reading and sending are the only steps that touch what is ordered.
LEMMA OrderNext == OrderInv /\ [Next]_vars => OrderInv'
<1> SUFFICES ASSUME OrderInv, [Next]_vars PROVE OrderInv'
  OBVIOUS
<1>1. TypeOK'
  BY TypeNext DEF OrderInv
<1>2. CASE Send
  BY <1>1, <1>2, OrderSend DEF OrderInv
<1>3. ASSUME NEW t \in Threads, BroadcastEvent(t), pipe # <<>> PROVE OrderInv'
  BY <1>1, <1>3, OrderRead DEF OrderInv
<1>4. CASE UNCHANGED <<pipe, written, delivered>>
  BY <1>1, <1>4 DEF OrderInv, PipeInv, DeliveredInOrder
<1> QED
  BY <1>2, <1>3, <1>4
  DEF Next, EpollWait, BroadcastEvent, Accept, Leave, Quiescent, vars

LEMMA OrderInit == Init => OrderInv
<1> SUFFICES ASSUME Init PROVE OrderInv
  OBVIOUS
<1>1. DOMAIN pipe = {} /\ \A c \in Clients : DOMAIN delivered[c] = {}
  BY DEF Init
<1> QED
  BY <1>1, TypeInit DEF OrderInv, PipeInv, DeliveredInOrder

\* However the threads interleave, a client gets the messages it does get in the order
\* they were broadcast, and none twice: the reads of the shared pipe serialise them.
THEOREM OrderCorrect == Spec => []DeliveredInOrder
  BY OrderInit, OrderNext, PTL DEF Spec, OrderInv

\* What is in the pipe or was delivered was broadcast, and a message that some client
\* was sent has left the pipe, so that no other thread will read it.
ReadOnce ==
    /\ \A i \in DOMAIN pipe : pipe[i] <= written
    /\ \A c \in Clients : \A i \in DOMAIN delivered[c] :
         delivered[c][i] <= written /\ \A j \in DOMAIN pipe : delivered[c][i] # pipe[j]

\* No thread makes up a message, and each message is read by one thread only, however
\* many of them epoll wakes for it.
THEOREM PipeCorrect == Spec => []ReadOnce
<1>1. OrderInv => ReadOnce
  <2> SUFFICES ASSUME OrderInv PROVE ReadOnce
    OBVIOUS
  <2>1. pipe \in Seq(Messages) /\ \A c \in Clients : delivered[c] \in Seq(Messages)
    BY DEF OrderInv, TypeOK, Messages
  <2>2. /\ \A j \in DOMAIN pipe : pipe[j] \in Messages
        /\ \A c \in Clients : \A i \in DOMAIN delivered[c] : delivered[c][i] \in Messages
    BY <2>1, ElementOfSeq, LenProperties
  <2> QED
    BY <2>2 DEF OrderInv, PipeInv, ReadOnce, Messages
<1> QED
  BY <1>1, OrderInit, OrderNext, PTL DEF Spec
-----------------------------------------------------------------------------
(* Reaching the reader's clients *)

\* A message in the pipe was read by nobody, one not yet written has no audience, and
\* an audience is made of clients that are still connected.  A client that comes later
\* was in nobody's audience, so a thread that reads a message has in its map exactly
\* those of the audience that it ever had.
AudienceInv ==
    /\ \A i \in DOMAIN pipe : reader[pipe[i]] = NoThread
    /\ \A n \in Messages : n > written => reader[n] = NoThread
    /\ \A n \in Messages : audience[n] \subseteq Connected

ReachInv == TypeOK /\ PipeInv /\ DeliveredInOrder /\ AudienceInv /\ ReachesReadersClients

\* What a client was sent, it keeps.
LEMMA KeepsDelivered ==
    ASSUME NEW S, NEW d \in Seq(S), NEW h \in S
    PROVE  ToSet(Append(d, h)) = ToSet(d) \cup {h}
<1>1. /\ Len(d) \in Nat /\ DOMAIN d = 1 .. Len(d)
      /\ DOMAIN Append(d, h) = 1 .. Len(d) + 1
      /\ \A i \in 1 .. Len(d) : Append(d, h)[i] = d[i]
      /\ Append(d, h)[Len(d) + 1] = h
  BY AppendProperties, LenProperties
<1> QED
  BY <1>1 DEF ToSet

\* The reader of a message sends it to all of its clients but slow ones, so to those
\* of the audience; the other messages' readers have not changed.
LEMMA ReachRead ==
    ASSUME ReachInv, TypeOK', NEW t \in Threads, BroadcastEvent(t), pipe # <<>>
    PROVE  (AudienceInv /\ ReachesReadersClients)'
<1> DEFINE h == pipe[1]
<1>1. /\ Head(pipe) = h /\ h \in Messages
      /\ pipe' \in Seq(Messages) /\ Len(pipe') = Len(pipe) - 1
      /\ \A i \in DOMAIN pipe' : pipe'[i] = pipe[i + 1]
  BY ReadOne DEF ReachInv
<1>2. /\ Len(pipe) \in Nat /\ Len(pipe) # 0
      /\ DOMAIN pipe = 1 .. Len(pipe) /\ DOMAIN pipe' = 1 .. Len(pipe) - 1
      /\ \A i \in DOMAIN pipe : pipe[i] \in Messages
  BY ZenonT(60), <1>1, EmptySeq, LenProperties, ElementOfSeq DEF ReachInv, TypeOK, Messages
<1>3. \A i \in DOMAIN pipe' : i + 1 \in DOMAIN pipe /\ pipe'[i] \in Messages /\ pipe'[i] # h
  <2>1. \A i \in DOMAIN pipe' : 1 \in DOMAIN pipe /\ i + 1 \in DOMAIN pipe /\ 1 < i + 1
    BY <1>2
  <2>2. \A i \in DOMAIN pipe' : h < pipe[i + 1]
    BY <2>1 DEF ReachInv, PipeInv
  <2> QED
    BY <1>1, <1>2, <2>1, <2>2 DEF Messages
<1>4. /\ reader' = [reader EXCEPT ![h] = t]
      /\ UNCHANGED <<written, tracked, audience>>
  BY <1>1 DEF BroadcastEvent
<1>5. reader'[h] = t /\ \A n \in Messages : n # h => reader'[n] = reader[n]
  BY <1>1, <1>4 DEF ReachInv, TypeOK, Messages
<1>6. h <= written
  BY <1>2 DEF ReachInv, PipeInv
<1>7. AudienceInv'
  <2>1. \A i \in DOMAIN pipe' : reader'[pipe'[i]] = NoThread
    BY <1>1, <1>3, <1>5 DEF ReachInv, AudienceInv
  <2>2. \A n \in Messages : n > written' => reader'[n] = NoThread
    BY <1>1, <1>4, <1>5, <1>6 DEF ReachInv, AudienceInv, TypeOK, Messages
  <2>3. \A n \in Messages : audience'[n] \subseteq Connected'
    BY <1>4 DEF ReachInv, AudienceInv, Connected
  <2> QED
    BY <2>1, <2>2, <2>3 DEF AudienceInv
<1>8. PICK failed \in SUBSET (tracked[t] \cap Slow) :
        delivered' = [c \in Clients |->
          IF c \in tracked[t] \ failed THEN Append(delivered[c], h) ELSE delivered[c]]
  BY <1>1 DEF BroadcastEvent, Recipients
<1>9. \A c \in Clients : ToSet(Append(delivered[c], h)) = ToSet(delivered[c]) \cup {h}
  BY <1>1, KeepsDelivered DEF ReachInv, TypeOK, Messages
<1>10. ASSUME NEW n \in 1 .. written', NEW u \in Threads, reader'[n] = u,
              NEW c \in (audience'[n] \cap tracked'[u]) \ Slow
       PROVE  n \in ToSet(delivered'[c])
  <2>1. c \in Clients /\ n \in Messages /\ n \in 1 .. written
    <3>1. n \in 1 .. written /\ written \in 0 .. MaxMessages /\ c \in tracked[u]
      BY <1>4, <1>10 DEF ReachInv, TypeOK
    <3> QED
      BY <3>1, BroadcastAssumption DEF ReachInv, TypeOK, Messages
  <2>2. CASE n = h
    <3>1. u = t /\ c \in tracked[t] \ failed
      BY <1>4, <1>5, <1>8, <1>10, <2>2
    <3> QED
      BY <1>8, <1>9, <2>1, <2>2, <3>1
  <2>3. CASE n # h
    <3>1. reader[n] = u
      BY <1>5, <1>10, <2>1, <2>3
    <3>2. n \in ToSet(delivered[c])
      BY <1>4, <2>1, <3>1 DEF ReachInv, ReachesReadersClients
    <3> QED
      BY <1>8, <1>9, <2>1, <3>2
  <2> QED
    BY <2>2, <2>3
<1>11. ReachesReadersClients'
  BY <1>10 DEF ReachesReadersClients
<1> QED
  BY <1>7, <1>11

\* A message that is broadcast was read by nobody yet, and is for those connected.
LEMMA ReachSend ==
    ASSUME ReachInv, TypeOK', Send
    PROVE  (AudienceInv /\ ReachesReadersClients)'
<1>1. /\ written + 1 \in Messages /\ written \in Nat /\ written' = written + 1
      /\ audience' = [audience EXCEPT ![written + 1] = Connected]
      /\ UNCHANGED <<tracked, delivered, reader>>
  BY BroadcastAssumption DEF Send, ReachInv, TypeOK, Messages
<1>2. reader[written + 1] = NoThread
  BY <1>1 DEF ReachInv, AudienceInv, Messages
<1>3. \A i \in DOMAIN pipe' : \/ pipe'[i] = written + 1
                             \/ (i \in DOMAIN pipe /\ pipe'[i] = pipe[i])
  <2>1. pipe \in Seq(Messages) /\ pipe' = Append(pipe, written + 1)
    BY DEF Send, ReachInv, TypeOK, Messages
  <2>2. /\ pipe' \in Seq(Messages) /\ Len(pipe') = Len(pipe) + 1
        /\ \A i \in 1 .. Len(pipe) : pipe'[i] = pipe[i]
        /\ pipe'[Len(pipe) + 1] = written + 1
    BY <1>1, <2>1, AppendProperties
  <2>3. /\ Len(pipe) \in Nat /\ DOMAIN pipe = 1 .. Len(pipe)
        /\ DOMAIN pipe' = 1 .. Len(pipe) + 1
    BY <2>1, <2>2, LenProperties
  <2>4. \A i \in DOMAIN pipe' : i = Len(pipe) + 1 \/ i \in 1 .. Len(pipe)
    BY <2>3
  <2> QED
    BY <2>2, <2>3, <2>4
<1>4. AudienceInv'
  <2>1. \A i \in DOMAIN pipe' : reader'[pipe'[i]] = NoThread
    BY <1>1, <1>2, <1>3 DEF ReachInv, AudienceInv
  <2>2. \A n \in Messages : n > written' => reader'[n] = NoThread
    BY <1>1 DEF ReachInv, AudienceInv, Messages
  <2>3. \A n \in Messages : audience'[n] \subseteq Connected'
    BY <1>1 DEF ReachInv, AudienceInv, Connected, TypeOK, Messages
  <2> QED
    BY <2>1, <2>2, <2>3 DEF AudienceInv
<1>5. ReachesReadersClients'
  <2> SUFFICES ASSUME NEW n \in 1 .. written', NEW u \in Threads, reader'[n] = u,
                      NEW c \in (audience'[n] \cap tracked'[u]) \ Slow
               PROVE  n \in ToSet(delivered'[c])
    BY DEF ReachesReadersClients
  <2>1. n # written + 1
    BY <1>1, <1>2, BroadcastAssumption
  <2>2. n \in 1 .. written /\ audience'[n] = audience[n]
    BY <1>1, <2>1 DEF ReachInv, TypeOK, Messages
  <2> QED
    BY <1>1, <2>2 DEF ReachInv, ReachesReadersClients
<1> QED
  BY <1>4, <1>5

\* Whatever the threads, senders and clients do meanwhile, a message reaches every
\* client of the thread that reads it that was connected when it was written, has
\* stayed, and can be written to.
THEOREM ReachCorrect == Spec => []ReachesReadersClients
<1>1. Init => ReachInv
  <2> SUFFICES ASSUME Init PROVE ReachInv
    OBVIOUS
  <2>1. DOMAIN pipe = {} /\ \A c \in Clients : DOMAIN delivered[c] = {}
    BY DEF Init
  <2>2. PipeInv /\ DeliveredInOrder
    BY <2>1 DEF PipeInv, DeliveredInOrder
  <2>3. AudienceInv
    BY <2>1 DEF Init, AudienceInv, Messages
  <2>4. ReachesReadersClients
    BY DEF Init, ReachesReadersClients
  <2> QED
    BY <2>2, <2>3, <2>4, TypeInit DEF ReachInv
<1>2. ReachInv /\ [Next]_vars => ReachInv'
  <2> SUFFICES ASSUME ReachInv, [Next]_vars PROVE ReachInv'
    OBVIOUS
  <2>1. (OrderInv)'
    BY OrderNext DEF ReachInv, OrderInv
  <2> SUFFICES (AudienceInv /\ ReachesReadersClients)'
    BY <2>1 DEF OrderInv, ReachInv
  <2> USE DEF ReachInv
  <2>2. CASE Send
    BY <2>1, <2>2, ReachSend DEF OrderInv
  <2>3. ASSUME NEW t \in Threads, BroadcastEvent(t), pipe # <<>>
        PROVE  (AudienceInv /\ ReachesReadersClients)'
    BY <2>1, <2>3, ReachRead DEF OrderInv
  <2>4. ASSUME NEW t \in Threads, NEW c \in Clients, Accept(t, c)
        PROVE  (AudienceInv /\ ReachesReadersClients)'
    <3>1. /\ \A n \in Messages : c \notin audience[n]
          /\ \A u \in Threads : tracked'[u] \subseteq tracked[u] \cup {c}
          /\ \A u \in Threads : tracked[u] \subseteq tracked'[u]
          /\ UNCHANGED <<pipe, written, delivered, audience, reader>>
      BY <2>4 DEF Accept, AudienceInv, TypeOK
    <3>2. AudienceInv'
      BY <3>1 DEF AudienceInv, Connected
    <3>3. ReachesReadersClients'
      <4>1. \A n \in 1 .. written : n \in Messages
        BY BroadcastAssumption DEF TypeOK, Messages
      <4> QED
        BY <3>1, <4>1 DEF ReachesReadersClients
    <3> QED
      BY <3>2, <3>3
  <2>5. ASSUME NEW t \in Threads, NEW c \in Clients, Leave(t, c)
        PROVE  (AudienceInv /\ ReachesReadersClients)'
    <3>1. /\ \A n \in Messages : audience'[n] = audience[n] \ {c}
          /\ \A u \in Threads : /\ tracked'[u] \subseteq tracked[u]
                                /\ tracked[u] \subseteq tracked'[u] \cup {c}
          /\ UNCHANGED <<pipe, written, delivered, reader>>
      BY <2>5 DEF Leave, TypeOK, Messages
    <3>2. AudienceInv'
      BY <3>1 DEF AudienceInv, Connected
    <3>3. ReachesReadersClients'
      <4>1. \A n \in 1 .. written : n \in Messages
        BY BroadcastAssumption DEF TypeOK, Messages
      <4> QED
        BY <3>1, <4>1 DEF ReachesReadersClients
    <3> QED
      BY <3>2, <3>3
  <2>6. CASE UNCHANGED <<pipe, written, tracked, delivered, audience, reader>>
    BY <2>6 DEF AudienceInv, Connected, ReachesReadersClients
  <2> QED
    BY <2>2, <2>3, <2>4, <2>5, <2>6
    DEF Next, EpollWait, BroadcastEvent, Quiescent, vars
<1> QED
  BY <1>1, <1>2, PTL DEF Spec, ReachInv
=============================================================================
