----------------------- MODULE SymmetricChannelProofs -----------------------
(***************************************************************************)
(* Machine-checked proofs about SymmetricChannel, for any requests, number  *)
(* of connections and restarts and any modulus: the two sides' transaction  *)
(* numbers stay in step, and communicate implements the at-most-once call   *)
(* of RpcChannel.                                                           *)
(***************************************************************************)
EXTENDS SymmetricChannel, SequenceTheorems, TLAPS

Ends == {"none", "open", "closed"}
ServerEnds == {"none", "backlog", "open", "closed"}
PCs == {"idle", "connect", "sendSize", "sendData", "recvSize", "recvData"}

\* The connection is the client's present one.
Uses(k) == connected /\ k = conn

\* The server still reads, or will read, the connection.
Live(k) == serverEnd[k] \in {"backlog", "open"}

\* The blocks of one message, and what the server's side of one still has to read
\* when it is (or is not) past the size block.
Message(n, r) == <<Block("size", n, r), Block("data", n, r)>>
Unread(k, r) == IF busy = k THEN <<Block("data", read_counter[k], r)>>
                ELSE Message(read_counter[k], r)

\* A connection that was not made yet, one in use and one given up; what the server
\* has closed holds nothing that it could still read.
EndsInv ==
    /\ \A k \in Conns :
         /\ clientEnd[k] = IF k > conn THEN "none" ELSE IF Uses(k) THEN "open" ELSE "closed"
         /\ serverEnd[k] = "none" <=> k > conn
         /\ serverEnd[k] \in {"none", "backlog"} => read_counter[k] = 0 /\ write_counter[k] = 0
         /\ ~Live(k) => c2s[k] = <<>>
         /\ k > conn => s2c[k] = <<>>
    /\ busy # 0 => serverEnd[busy] = "open"

\* The client calls for one request at a time, which is new to the server until its
\* data block was sent.
CallerInv ==
    /\ pc = "idle" <=> request = NoAnswer
    /\ \A r \in Requests : status[r] = "called" <=> request = r
    /\ \A r \in Requests : executed[r] \in {0, 1} /\ (status[r] = "new" => executed[r] = 0)
    /\ pc \in {"connect", "sendSize", "sendData"} => executed[request] = 0
    /\ pc = "connect" => ~connected
    /\ pc \notin {"idle", "connect"} => connected
    /\ IF connected THEN conn # 0 ELSE writes = 0 /\ reads = 0

\* What is on the way between the client and a server end that reads it.
Quiet == c2s[conn] = <<>> /\ busy # conn /\ s2c[conn] = <<>>

Numbered(n) == read_counter[conn] = n /\ write_counter[conn] = n

InUseInv == connected =>
    /\ writes = IF pc \in {"sendData", "recvSize", "recvData"} THEN reads + 1 ELSE reads
    /\ pc = "sendSize" \/ pc = "idle" =>
         s2c[conn] = <<>> /\ (Live(conn) => Quiet /\ Numbered(reads))
    /\ pc = "sendData" =>
         /\ s2c[conn] = <<>>
         /\ Live(conn) => /\ Numbered(reads)
                          /\ c2s[conn] = IF busy = conn THEN <<>>
                                         ELSE <<Block("size", reads, request)>>
    /\ pc = "recvSize" =>
         /\ s2c[conn] # <<>> => s2c[conn] = Message(reads, request) /\ executed[request] = 1
         /\ Live(conn) =>
              IF s2c[conn] = <<>>
              THEN /\ Numbered(reads) /\ c2s[conn] = Unread(conn, request)
                   /\ executed[request] = 0
              ELSE Numbered(writes) /\ c2s[conn] = <<>> /\ busy # conn
    /\ pc = "recvData" =>
         /\ s2c[conn] # <<>> =>
              s2c[conn] = <<Block("data", reads, request)>> /\ executed[request] = 1
         /\ Live(conn) => Numbered(writes) /\ c2s[conn] = <<>> /\ busy # conn

\* A connection given up while its request was on the way holds that request or
\* nothing: the request failed, was not executed, and is on no other connection.
LeftInv ==
    /\ \A k \in Conns : ~Uses(k) /\ c2s[k] # <<>> =>
         \E r \in Requests :
           status[r] = "failed" /\ executed[r] = 0 /\ c2s[k] = Unread(k, r)
    /\ \A k, l \in Conns : ~Uses(k) /\ ~Uses(l) /\ c2s[k] # <<>> /\ c2s[l] # <<>> =>
         (Head(c2s[k]).req = Head(c2s[l]).req => k = l)

ChannelInv == TypeOK /\ EndsInv /\ CallerInv /\ InUseInv /\ LeftInv
-----------------------------------------------------------------------------
(* Blocks *)

\* A block carries its request and the number it was encrypted with.
LEMMA BlockFacts ==
    ASSUME NEW kd \in {"size", "data"}, NEW n \in Nat, NEW r \in Requests
    PROVE  /\ Block(kd, n, r) \in Blocks /\ Block(kd, n, r).req = r
           /\ Accepts(Block(kd, n, r), n)
  BY ChannelAssumption DEF Block, Blocks, Accepts

\* Sequences of one or two blocks, as they are sent and read.
LEMMA ShortSequences ==
    ASSUME NEW a, NEW b
    PROVE  /\ Head(<<a, b>>) = a /\ Tail(<<a, b>>) = <<b>> /\ <<a, b>> # <<>>
           /\ Head(<<a>>) = a /\ Tail(<<a>>) = <<>> /\ <<a>> # <<>>
           /\ Append(<<>>, a) = <<a>> /\ Append(<<a>>, b) = <<a, b>>
           /\ <<>> \o <<a, b>> = <<a, b>>
<1>1. Head(<<a, b>>) = a /\ Head(<<a>>) = a
  OBVIOUS
<1>2. Tail(<<a, b>>) = <<b>> /\ Tail(<<a>>) = <<>>
  OBVIOUS
<1>3. <<a, b>> # <<>> /\ <<a>> # <<>>
  OBVIOUS
<1>4. Append(<<>>, a) = <<a>> /\ Append(<<a>>, b) = <<a, b>>
  <2> DEFINE S == {a, b}
  <2>1. <<>> \in Seq(S) /\ <<a>> \in Seq(S) /\ <<b>> \in Seq(S) /\ <<a, b>> \in Seq(S)
    OBVIOUS
  <2>2. Append(<<a>>, b) \in Seq(S) /\ Append(<<>>, a) \in Seq(S)
    BY <2>1
  <2>3. /\ Len(Append(<<a>>, b)) = 2 /\ Append(<<a>>, b)[1] = a /\ Append(<<a>>, b)[2] = b
        /\ Len(Append(<<>>, a)) = 1 /\ Append(<<>>, a)[1] = a
    BY <2>1
  <2>4. Len(<<a, b>>) = 2 /\ <<a, b>>[1] = a /\ <<a, b>>[2] = b /\ Len(<<a>>) = 1 /\ <<a>>[1] = a
    OBVIOUS
  <2>5. \A i \in 1 .. 2 : i = 1 \/ i = 2
    OBVIOUS
  <2>6. Append(<<a>>, b) = <<a, b>>
    BY <2>1, <2>2, <2>3, <2>4, <2>5, SeqEqual
  <2>7. Append(<<>>, a) = <<a>>
    BY <2>1, <2>2, <2>3, <2>4, SeqEqual
  <2> QED
    BY <2>6, <2>7
<1>5. <<>> \o <<a, b>> = <<a, b>>
  OBVIOUS
<1> QED
  BY <1>1, <1>2, <1>3, <1>4, <1>5

LEMMA ChannelInit == Init => ChannelInv
<1> SUFFICES ASSUME Init PROVE ChannelInv
  OBVIOUS
<1> USE ChannelAssumption DEF Init
<1>1. TypeOK
  <2>1. c2s \in [Conns -> Seq(Blocks)] /\ s2c \in [Conns -> Seq(Blocks)]
    OBVIOUS
  <2>2. conn \in 0 .. MaxConns /\ busy \in 0 .. MaxConns /\ restarts \in 0 .. MaxRestarts
    OBVIOUS
  <2> QED
    BY <2>1, <2>2 DEF TypeOK
<1>2. EndsInv
  BY DEF EndsInv, Uses, Live, Conns
<1>3. CallerInv /\ InUseInv
  BY DEF CallerInv, InUseInv
<1>4. LeftInv
  BY DEF LeftInv
<1> QED
  BY <1>1, <1>2, <1>3, <1>4 DEF ChannelInv

-----------------------------------------------------------------------------
(* The client's steps *)

LEMMA CommunicateStep ==
    ASSUME ChannelInv, NEW r \in Requests, Communicate(r)
    PROVE  ChannelInv'
<1> USE ChannelAssumption DEF ChannelInv, Communicate, network, server
<1>1. TypeOK'
  BY DEF TypeOK
<1>2. EndsInv'
  BY DEF EndsInv, Uses, Live
<1>3. CallerInv'
  BY DEF TypeOK, CallerInv
<1>4. InUseInv'
  BY DEF TypeOK, CallerInv, InUseInv, Live, Quiet, Numbered
<1>5. LeftInv'
  BY DEF TypeOK, LeftInv, CallerInv, Uses, Unread, Message
<1> QED
  BY <1>1, <1>2, <1>3, <1>4, <1>5

LEMMA ReconnectStep ==
    ASSUME ChannelInv, Reconnect
    PROVE  ChannelInv'
<1> USE ChannelAssumption DEF ChannelInv, Reconnect, server, history
<1>1. TypeOK'
  BY SMTT(30) DEF TypeOK, Conns
<1>2. PICK n \in Conns : conn \in Nat /\ n = conn + 1 /\ conn' = n /\ ~connected
  BY DEF TypeOK, CallerInv, Conns
<1>3. ASSUME NEW k \in Conns PROVE k > conn <=> k = n \/ k > n
  BY <1>2 DEF Conns
<1>4. /\ serverEnd[n] = "none" /\ c2s[n] = <<>> /\ s2c[n] = <<>>
      /\ read_counter[n] = 0 /\ write_counter[n] = 0
  BY <1>2, <1>3 DEF EndsInv, Live
<1>5. busy # n
  BY <1>2, <1>4 DEF EndsInv
<1>6. EndsInv'
  <2>1. ASSUME NEW k \in Conns, k # n
        PROVE  /\ clientEnd'[k] = clientEnd[k] /\ serverEnd'[k] = serverEnd[k]
               /\ ~Uses(k) /\ ~Uses(k)' /\ (k > n <=> k > conn)
    BY <1>2, <1>3, <2>1 DEF TypeOK, Uses
  <2>2. clientEnd'[n] = "open" /\ serverEnd'[n] = "backlog" /\ Uses(n)'
    BY <1>2 DEF TypeOK, Uses
  <2>3. busy' # 0 => serverEnd'[busy'] = "open"
    BY <1>2, <1>5 DEF TypeOK, EndsInv
  <2> QED
    BY <1>2, <1>3, <1>4, <2>1, <2>2, <2>3 DEF EndsInv, Live
<1>7. CallerInv'
  BY DEF TypeOK, CallerInv
<1>8. InUseInv'
  BY <1>2, <1>4, <1>5 DEF TypeOK, CallerInv, InUseInv, Quiet, Numbered
<1>9. LeftInv'
  BY <1>2, <1>4 DEF TypeOK, LeftInv, Uses, Unread, Message
<1> QED
  BY <1>1, <1>6, <1>7, <1>8, <1>9

LEMMA ReconnectFailsStep ==
    ASSUME ChannelInv, ReconnectFails
    PROVE  ChannelInv'
<1> USE ChannelAssumption DEF ChannelInv, ReconnectFails, network, server
<1>1. TypeOK'
  BY DEF TypeOK
<1>2. EndsInv'
  BY DEF EndsInv, Uses, Live
<1>3. CallerInv'
  BY DEF TypeOK, CallerInv
<1>4. InUseInv'
  BY DEF TypeOK, CallerInv, InUseInv, Live, Quiet, Numbered
<1>5. LeftInv'
  BY DEF TypeOK, LeftInv, CallerInv, Uses, Unread, Message
<1> QED
  BY <1>1, <1>2, <1>3, <1>4, <1>5

LEMMA SendSizeStep ==
    ASSUME ChannelInv, SendSize
    PROVE  ChannelInv'
<1> USE ChannelAssumption DEF ChannelInv, SendSize, server, history
<1> DEFINE b == Block("size", reads, request)
<1>1. /\ conn \in Conns /\ connected /\ request \in Requests /\ writes = reads
      /\ s2c[conn] = <<>> /\ c2s[conn] = <<>> /\ (Live(conn) => Quiet /\ Numbered(reads))
  BY DEF TypeOK, EndsInv, CallerInv, InUseInv, Quiet, Conns
<1>2. b \in Blocks
  BY <1>1, BlockFacts DEF TypeOK
<1>3. c2s' = IF Live(conn) THEN [c2s EXCEPT ![conn] = <<b>>] ELSE c2s
  BY <1>1, <1>2, ShortSequences DEF WriteBlock, TypeOK, EndsInv, Live
<1>4. TypeOK'
  BY <1>1, <1>2, <1>3 DEF TypeOK
<1>5. EndsInv'
  BY <1>1, <1>3 DEF TypeOK, EndsInv, Uses, Live
<1>6. CallerInv'
  BY DEF TypeOK, CallerInv
<1>7. InUseInv'
  BY <1>1, <1>3 DEF TypeOK, InUseInv, Live, Quiet, Numbered
<1>8. LeftInv'
  BY <1>1, <1>3 DEF TypeOK, LeftInv, Uses, Unread, Message
<1> QED
  BY <1>4, <1>5, <1>6, <1>7, <1>8

LEMMA SendDataStep ==
    ASSUME ChannelInv, SendData
    PROVE  ChannelInv'
<1> USE ChannelAssumption DEF ChannelInv, SendData, server, history
<1> DEFINE b == Block("data", reads, request)
<1>1. /\ conn \in Conns /\ connected /\ request \in Requests /\ writes = reads + 1
      /\ writes - 1 = reads /\ s2c[conn] = <<>> /\ executed[request] = 0
  BY DEF TypeOK, CallerInv, InUseInv, Conns
<1>2. b \in Blocks
  BY <1>1, BlockFacts DEF TypeOK
<1>3. c2s' = IF Live(conn) THEN [c2s EXCEPT ![conn] = Unread(conn, request)] ELSE c2s
  <2>1. CASE Live(conn)
    <3>1. /\ c2s' = [c2s EXCEPT ![conn] = Append(c2s[conn], b)]
          /\ Numbered(reads)
          /\ c2s[conn] = IF busy = conn THEN <<>> ELSE <<Block("size", reads, request)>>
      BY <1>1, <2>1 DEF WriteBlock, InUseInv, Live
    <3>2. Append(c2s[conn], b) = Unread(conn, request)
      BY <3>1, ShortSequences DEF Unread, Message, Numbered
    <3> QED
      BY <2>1, <3>1, <3>2
  <2>2. CASE ~Live(conn)
    BY <1>1, <2>2 DEF WriteBlock, TypeOK, EndsInv, CallerInv, Live
  <2> QED
    BY <2>1, <2>2
<1>4. TypeOK'
  <2>1. c2s' = c2s \/ c2s' = [c2s EXCEPT ![conn] = Append(@, b)]
    BY <1>1 DEF WriteBlock
  <2>2. c2s[conn] \in Seq(Blocks) /\ Append(c2s[conn], b) \in Seq(Blocks)
    BY <1>1, <1>2 DEF TypeOK
  <2> QED
    BY <1>1, <2>1, <2>2 DEF TypeOK
<1>5. EndsInv'
  BY <1>1, <1>3 DEF TypeOK, EndsInv, Uses, Live
<1>6. CallerInv'
  BY DEF TypeOK, CallerInv
<1>7. InUseInv'
  BY <1>1, <1>3 DEF TypeOK, InUseInv, Live, Quiet, Numbered, Unread, Message
<1>8. LeftInv'
  BY <1>1, <1>3 DEF TypeOK, LeftInv, Uses, Unread, Message
<1> QED
  BY <1>4, <1>5, <1>6, <1>7, <1>8

\* Closing the client's end: the connection is left with what the server still has
\* to read of the request, or without it; the request is no longer called.
LEMMA CloseClientLeaves ==
    ASSUME ChannelInv, CloseClient, connected,
           pc \in {"sendSize", "sendData"} => ~Live(conn),
           UNCHANGED <<s2c, serverEnd, conn, server>>
    PROVE  /\ c2s' \in [Conns -> Seq(Blocks)]
           /\ clientEnd' \in [Conns -> Ends] /\ EndsInv'
           /\ ~connected' /\ writes' = 0 /\ reads' = 0
           /\ conn \in Conns
           /\ \A k \in Conns : k # conn => c2s'[k] = c2s[k]
           /\ c2s'[conn] # <<>> =>
                executed[request] = 0 /\ c2s'[conn] = Unread(conn, request)
<1> USE ChannelAssumption DEF ChannelInv, CloseClient, ResetCounters, server
<1>1. conn \in Conns
  BY DEF TypeOK, CallerInv, Conns
<1>2. PICK kept \in {c2s[conn], <<>>} : c2s' = [c2s EXCEPT ![conn] = kept]
  OBVIOUS
<1>3. c2s' \in [Conns -> Seq(Blocks)] /\ clientEnd' \in [Conns -> Ends]
  <2>1. kept \in Seq(Blocks)
    <3>1. c2s[conn] \in Seq(Blocks) /\ <<>> \in Seq(Blocks)
      BY <1>1 DEF TypeOK
    <3> QED
      BY <1>2, <3>1
  <2> QED
    BY <1>2, <2>1 DEF TypeOK, Ends
<1>4. EndsInv'
  BY <1>1, <1>2 DEF TypeOK, EndsInv, Uses, Live
<1>5. c2s[conn] # <<>> => executed[request] = 0 /\ c2s[conn] = Unread(conn, request)
  <2>1. pc # "idle" \/ c2s[conn] = <<>>
    BY <1>1 DEF EndsInv, InUseInv, Quiet
  <2> QED
    BY <1>1, <2>1 DEF TypeOK, EndsInv, CallerInv, InUseInv, Quiet
<1> QED
  BY <1>1, <1>2, <1>3, <1>4, <1>5 DEF TypeOK

LEMMA SendFailsStep ==
    ASSUME ChannelInv, SendFails
    PROVE  ChannelInv'
<1> USE ChannelAssumption DEF SendFails, SendStates, server, history
<1>1. connected /\ ~Live(conn)
  BY DEF ChannelInv, CallerInv, Live
<1>2. /\ c2s' \in [Conns -> Seq(Blocks)] /\ clientEnd' \in [Conns -> Ends] /\ EndsInv'
      /\ ~connected' /\ writes' = 0 /\ reads' = 0 /\ conn \in Conns
      /\ \A k \in Conns : k # conn => c2s'[k] = c2s[k]
  BY <1>1, CloseClientLeaves
<1>3. TypeOK'
  BY <1>2 DEF ChannelInv, TypeOK, Ends, CloseClient
<1>4. CallerInv'
  BY <1>1, <1>2 DEF ChannelInv, TypeOK, CallerInv
<1>5. c2s'[conn] = <<>>
  BY <1>1, <1>2 DEF EndsInv, Live
<1>6. \A k \in Conns : c2s'[k] # <<>> => ~Uses(k) /\ c2s'[k] = c2s[k]
  BY <1>2, <1>5 DEF Uses
<1>7. LeftInv'
  <2>1. \A k \in Conns, r \in Requests : Unread(k, r)' = Unread(k, r)
    BY DEF Unread, Message
  <2> QED
    BY <1>6, <2>1 DEF ChannelInv, LeftInv
<1> QED
  BY <1>2, <1>3, <1>4, <1>7 DEF ChannelInv, InUseInv

LEMMA GiveUpStep ==
    ASSUME ChannelInv, GiveUp, pc \in {"recvSize", "recvData"}, UNCHANGED <<server, restarts>>
    PROVE  ChannelInv'
<1> USE ChannelAssumption DEF GiveUp, server
<1>1. connected /\ request \in Requests /\ status[request] = "called"
  BY DEF ChannelInv, TypeOK, CallerInv
<1>2. /\ c2s' \in [Conns -> Seq(Blocks)] /\ clientEnd' \in [Conns -> Ends] /\ EndsInv'
      /\ ~connected' /\ writes' = 0 /\ reads' = 0 /\ conn \in Conns
      /\ \A k \in Conns : k # conn => c2s'[k] = c2s[k]
      /\ c2s'[conn] # <<>> => executed[request] = 0 /\ c2s'[conn] = Unread(conn, request)
  BY <1>1, CloseClientLeaves
<1>3. TypeOK'
  BY <1>2 DEF ChannelInv, TypeOK, Ends, CloseClient
<1>4. CallerInv'
  BY <1>1, <1>2 DEF ChannelInv, TypeOK, CallerInv
<1>5. \A k \in Conns, r \in Requests : Unread(k, r)' = Unread(k, r)
  BY DEF Unread, Message
<1>6. \A k \in Conns : k # conn => ~Uses(k) /\ c2s'[k] = c2s[k]
  BY <1>2 DEF Uses
<1>7. status' = [status EXCEPT ![request] = "failed"] /\ UNCHANGED executed
  OBVIOUS
<1>8. ASSUME NEW k \in Conns, c2s'[k] # <<>>
      PROVE  \E r \in Requests :
               status'[r] = "failed" /\ executed'[r] = 0 /\ c2s'[k] = Unread(k, r)'
  <2>1. CASE k = conn
    BY <1>1, <1>2, <1>5, <1>7, <1>8, <2>1 DEF ChannelInv, TypeOK
  <2>2. CASE k # conn
    BY <1>1, <1>5, <1>6, <1>7, <1>8, <2>2 DEF ChannelInv, TypeOK, LeftInv
  <2> QED
    BY <2>1, <2>2
<1>9. ASSUME NEW k \in Conns, NEW l \in Conns, c2s'[k] # <<>>, c2s'[l] # <<>>,
             Head(c2s'[k]).req = Head(c2s'[l]).req, k # l
      PROVE  FALSE
  <2>1. ASSUME NEW j \in Conns, c2s'[j] # <<>>, j # conn PROVE Head(c2s'[j]).req # request
    <3>1. PICK r \in Requests : status[r] = "failed" /\ c2s[j] = Unread(j, r)
      BY <1>6, <2>1 DEF ChannelInv, LeftInv
    <3>2. read_counter[j] \in Nat
      BY DEF ChannelInv, TypeOK
    <3>3. Head(Unread(j, r)).req = r
      BY <3>2, BlockFacts, ShortSequences DEF Unread, Message
    <3> QED
      BY <1>1, <1>6, <2>1, <3>1, <3>3
  <2>2. c2s'[conn] # <<>> => Head(c2s'[conn]).req = request
    <3>1. read_counter[conn] \in Nat
      BY <1>2 DEF ChannelInv, TypeOK
    <3> QED
      BY <1>1, <1>2, <3>1, BlockFacts, ShortSequences DEF Unread, Message
  <2>3. k # conn /\ l # conn
    BY <1>9, <2>1, <2>2
  <2> QED
    BY <1>6, <1>9, <2>3 DEF ChannelInv, LeftInv
<1>10. LeftInv'
  BY <1>2, <1>8, <1>9 DEF LeftInv
<1> QED
  BY <1>2, <1>3, <1>4, <1>10 DEF ChannelInv, InUseInv

LEMMA ClientRecvSizeStep ==
    ASSUME ChannelInv, ClientRecvSize
    PROVE  ChannelInv'
<1>1. /\ conn \in Conns /\ connected /\ request \in Requests /\ reads \in Nat
      /\ s2c[conn] = Message(reads, request) /\ executed[request] = 1
      /\ Live(conn) => Numbered(writes) /\ c2s[conn] = <<>> /\ busy # conn
      /\ writes = reads + 1
  BY DEF ChannelInv, TypeOK, CallerInv, InUseInv, ClientRecvSize, Conns
<1>2. /\ Accepts(Head(s2c[conn]), reads) /\ Tail(s2c[conn]) = <<Block("data", reads, request)>>
      /\ Block("data", reads, request) \in Blocks
  BY <1>1, BlockFacts, ShortSequences DEF Message
<1>3. /\ pc = "recvSize" /\ pc' = "recvData" /\ s2c' = [s2c EXCEPT ![conn] = Tail(@)]
      /\ UNCHANGED <<c2s, clientEnd, serverEnd, request, conn, connected, writes, reads,
                     history, server, restarts>>
  BY <1>2 DEF ClientRecvSize
<1> USE DEF ChannelInv, server, history
<1>4. TypeOK'
  <2>1. s2c' \in [Conns -> Seq(Blocks)]
    BY <1>1, <1>2, <1>3 DEF TypeOK
  <2> QED
    BY <1>3, <2>1 DEF TypeOK
<1>5. EndsInv'
  BY <1>1, <1>3 DEF TypeOK, EndsInv, Uses, Live
<1>6. CallerInv'
  BY <1>3 DEF CallerInv
<1>7. InUseInv'
  BY <1>1, <1>2, <1>3 DEF TypeOK, InUseInv, Live, Numbered
<1>8. LeftInv'
  BY <1>1, <1>3 DEF LeftInv, Uses, Unread, Message
<1> QED
  BY <1>4, <1>5, <1>6, <1>7, <1>8

LEMMA ClientRecvDataStep ==
    ASSUME ChannelInv, ClientRecvData
    PROVE  ChannelInv'
<1>1. /\ conn \in Conns /\ connected /\ request \in Requests /\ reads \in Nat
      /\ s2c[conn] = <<Block("data", reads, request)>> /\ executed[request] = 1
      /\ Live(conn) => Numbered(writes) /\ c2s[conn] = <<>> /\ busy # conn
      /\ writes = reads + 1 /\ status[request] = "called"
  BY DEF ChannelInv, TypeOK, CallerInv, InUseInv, ClientRecvData, Conns
<1>2. /\ Accepts(Head(s2c[conn]), reads) /\ Tail(s2c[conn]) = <<>>
      /\ Head(s2c[conn]).req = request
  BY <1>1, BlockFacts, ShortSequences
<1>3. /\ pc = "recvData" /\ pc' = "idle" /\ s2c' = [s2c EXCEPT ![conn] = <<>>]
      /\ reads' = reads + 1 /\ request' = NoAnswer
      /\ status' = [status EXCEPT ![request] = "answered"]
      /\ answer' = [answer EXCEPT ![request] = request]
      /\ UNCHANGED <<c2s, clientEnd, serverEnd, conn, connected, writes, executed,
                     server, restarts>>
  BY <1>2 DEF ClientRecvData
<1> USE ChannelAssumption DEF ChannelInv, server
<1>4. TypeOK'
  <2>1. s2c' \in [Conns -> Seq(Blocks)]
    BY <1>1, <1>3 DEF TypeOK
  <2> QED
    BY <1>1, <1>3, <2>1 DEF TypeOK
<1>5. EndsInv'
  BY <1>1, <1>3 DEF TypeOK, EndsInv, Uses, Live
<1>6. CallerInv'
  BY <1>1, <1>3 DEF TypeOK, CallerInv
<1>7. InUseInv'
  BY <1>1, <1>3 DEF TypeOK, InUseInv, Live, Numbered, Quiet
<1>8. LeftInv'
  BY <1>1, <1>3 DEF TypeOK, LeftInv, Uses, Unread, Message
<1> QED
  BY <1>4, <1>5, <1>6, <1>7, <1>8

LEMMA ClientRecvFailsStep ==
    ASSUME ChannelInv, ClientRecvFails
    PROVE  ChannelInv'
  BY GiveUpStep DEF ClientRecvFails

-----------------------------------------------------------------------------
(* The server's steps *)

\* What is on the way to the server is the whole of one message or the rest of it,
\* of a request that was not executed, and carries the number the server expects.
LEMMA ToServer ==
    ASSUME ChannelInv, NEW k \in Conns, c2s[k] # <<>>
    PROVE  /\ Live(k) /\ read_counter[k] \in Nat /\ write_counter[k] \in Nat
           /\ \E r \in Requests :
                /\ executed[r] = 0
                /\ status[r] = IF Uses(k) THEN "called" ELSE "failed"
                /\ Uses(k) => r = request /\ Numbered(reads) /\ s2c[k] = <<>>
                /\ \/ c2s[k] = Unread(k, r) /\ (Uses(k) => pc = "recvSize")
                   \/ /\ Uses(k) /\ pc = "sendData" /\ busy # k
                      /\ c2s[k] = <<Block("size", read_counter[k], r)>>
<1>1. Live(k) /\ read_counter[k] \in Nat /\ write_counter[k] \in Nat
  BY DEF ChannelInv, TypeOK, EndsInv
<1>2. CASE Uses(k)
  <2>1. request \in Requests /\ status[request] = "called"
    <3>1. pc # "idle"
      BY <1>1, <1>2 DEF ChannelInv, InUseInv, Uses, Quiet
    <3> QED
      BY <3>1 DEF ChannelInv, TypeOK, CallerInv
  <2>2. pc \in {"sendData", "recvSize"} /\ executed[request] = 0 /\ Numbered(reads) /\ s2c[k] = <<>>
    BY <1>1, <1>2 DEF ChannelInv, TypeOK, CallerInv, InUseInv, Uses, Quiet
  <2> QED
    BY <1>1, <1>2, <2>1, <2>2 DEF ChannelInv, InUseInv, Uses, Numbered
<1>3. CASE ~Uses(k)
  BY <1>1, <1>3 DEF ChannelInv, LeftInv
<1> QED
  BY <1>1, <1>2, <1>3

\* The server's end goes, and the rest of what was on the way to it.
LEMMA ServerCloses ==
    ASSUME ChannelInv, NEW k \in Conns, serverEnd[k] = "open", busy \in {0, k}, ServerClose(k),
           UNCHANGED <<clientEnd, client, read_counter, write_counter, restarts, history>>
    PROVE  ChannelInv'
<1> USE ChannelAssumption DEF ChannelInv, client, history
<1>1. PICK kept \in {s2c[k], <<>>} : s2c' = [s2c EXCEPT ![k] = kept]
  BY DEF ServerClose
<1>2. /\ serverEnd' = [serverEnd EXCEPT ![k] = "closed"]
      /\ c2s' = [c2s EXCEPT ![k] = <<>>] /\ busy' = 0
      /\ UNCHANGED <<clientEnd, client, read_counter, write_counter, restarts, history>>
  BY DEF ServerClose
<1>3. TypeOK'
  <2>1. kept \in Seq(Blocks) /\ <<>> \in Seq(Blocks)
    <3>1. s2c[k] \in Seq(Blocks) /\ <<>> \in Seq(Blocks)
      BY DEF TypeOK
    <3> QED
      BY <1>1, <3>1
  <2>2. c2s' \in [Conns -> Seq(Blocks)] /\ s2c' \in [Conns -> Seq(Blocks)]
    BY <1>1, <1>2, <2>1 DEF TypeOK
  <2> QED
    BY <1>2, <2>2 DEF TypeOK
<1>4. EndsInv'
  BY <1>1, <1>2 DEF TypeOK, EndsInv, Uses, Live
<1>5. CallerInv'
  BY <1>2 DEF CallerInv
<1>6. InUseInv'
  <2>1. CASE Uses(k)
    <3>1. conn = k /\ s2c'[conn] \in {s2c[conn], <<>>} /\ c2s'[conn] = <<>> /\ ~Live(conn)'
      BY <1>1, <1>2, <2>1 DEF TypeOK, Uses, Live
    <3> QED
      BY <1>2, <3>1 DEF InUseInv
  <2>2. CASE ~Uses(k)
    <3> SUFFICES ASSUME connected PROVE InUseInv'
      BY <1>2 DEF InUseInv
    <3>1. conn # k /\ conn \in Conns
      BY <2>2 DEF Uses, TypeOK, CallerInv, Conns
    <3>2. /\ s2c'[conn] = s2c[conn] /\ c2s'[conn] = c2s[conn] /\ (Live(conn)' <=> Live(conn))
          /\ busy # conn /\ busy' # conn
      BY <1>1, <1>2, <3>1 DEF TypeOK, Live, Conns
    <3> QED
      BY <1>2, <3>2 DEF InUseInv, Quiet, Numbered, Unread, Message
  <2> QED
    BY <2>1, <2>2
<1>7. LeftInv'
  <2>1. ASSUME NEW l \in Conns, c2s'[l] # <<>>
        PROVE  l # k /\ c2s'[l] = c2s[l] /\ (Uses(l)' <=> Uses(l))
               /\ \A r \in Requests : Unread(l, r)' = Unread(l, r)
    <3>1. l # k /\ c2s'[l] = c2s[l]
      BY <1>2, <2>1 DEF TypeOK
    <3>2. busy' # l /\ busy # l
      BY <1>2, <3>1 DEF Conns
    <3> QED
      BY <1>2, <3>1, <3>2 DEF Uses, Unread, Message
  <2> QED
    BY <1>2, <2>1 DEF LeftInv
<1> QED
  BY <1>3, <1>4, <1>5, <1>6, <1>7

LEMMA ServerAcceptStep ==
    ASSUME ChannelInv, NEW k \in Conns, ServerAccept(k)
    PROVE  ChannelInv'
<1> USE ChannelAssumption DEF ChannelInv, ServerAccept, client, history
<1>1. read_counter[k] = 0 /\ write_counter[k] = 0
  BY DEF EndsInv
<1>2. read_counter' = read_counter /\ write_counter' = write_counter
  BY <1>1 DEF TypeOK
<1>3. TypeOK'
  BY <1>2 DEF TypeOK
<1>4. EndsInv'
  BY <1>2 DEF TypeOK, EndsInv, Uses, Live
<1>5. CallerInv'
  BY DEF CallerInv
<1>6. \A l \in Conns : Live(l)' <=> Live(l)
  BY DEF TypeOK, Live
<1>7. InUseInv'
  <2>1. connected => conn \in Conns
    BY DEF TypeOK, CallerInv, Conns
  <2> QED
    BY <1>2, <1>6, <2>1 DEF InUseInv, Quiet, Numbered, Unread, Message
<1>8. LeftInv'
  BY <1>2 DEF LeftInv, Uses, Unread, Message
<1> QED
  BY <1>3, <1>4, <1>5, <1>7, <1>8

LEMMA ServerRestartStep ==
    ASSUME ChannelInv, ServerRestart
    PROVE  ChannelInv'
<1> USE ChannelAssumption DEF ChannelInv, ServerRestart, client, history
<1>1. TypeOK'
  BY DEF TypeOK
<1>2. EndsInv'
  BY DEF TypeOK, EndsInv, Uses, Live
<1>3. CallerInv'
  BY DEF CallerInv
<1>4. \A k \in Conns : c2s'[k] = <<>> /\ ~Live(k)'
  BY DEF Live
<1>5. InUseInv'
  <2>1. connected => conn \in Conns
    BY DEF TypeOK, CallerInv, Conns
  <2> QED
    BY <1>4, <2>1 DEF InUseInv
<1>6. LeftInv'
  BY <1>4 DEF LeftInv
<1> QED
  BY <1>1, <1>2, <1>3, <1>5, <1>6

LEMMA ServerRecvSizeStep ==
    ASSUME ChannelInv, NEW k \in Conns, ServerRecvSize(k)
    PROVE  ChannelInv'
<1>1. PICK r \in Requests :
        /\ executed[r] = 0
        /\ status[r] = IF Uses(k) THEN "called" ELSE "failed"
        /\ Uses(k) => r = request /\ Numbered(reads) /\ s2c[k] = <<>>
        /\ \/ c2s[k] = Unread(k, r) /\ (Uses(k) => pc = "recvSize")
           \/ /\ Uses(k) /\ pc = "sendData" /\ busy # k
              /\ c2s[k] = <<Block("size", read_counter[k], r)>>
  BY ToServer DEF ServerRecvSize
<1> DEFINE size == Block("size", read_counter[k], r)
           data == Block("data", read_counter[k], r)
<1>2. k # 0 /\ busy = 0 /\ serverEnd[k] = "open" /\ read_counter[k] \in Nat
  BY ChannelAssumption DEF ServerRecvSize, ChannelInv, TypeOK, Conns
<1>3. \/ c2s[k] = <<size, data>> /\ (Uses(k) => pc = "recvSize")
      \/ c2s[k] = <<size>> /\ Uses(k) /\ pc = "sendData"
  BY <1>1, <1>2 DEF Unread, Message
<1>4. /\ Accepts(Head(c2s[k]), read_counter[k]) /\ data \in Blocks /\ size \in Blocks
      /\ Tail(c2s[k]) = IF Uses(k) /\ pc = "sendData" THEN <<>> ELSE <<data>>
  <2>1. data \in Blocks /\ size \in Blocks /\ Accepts(size, read_counter[k])
    BY <1>2, BlockFacts
  <2> HIDE DEF size, data
  <2>2. /\ Head(<<size, data>>) = size /\ Tail(<<size, data>>) = <<data>>
        /\ Head(<<size>>) = size /\ Tail(<<size>>) = <<>>
    BY ShortSequences
  <2>3. Head(c2s[k]) = size
    BY <1>3, <2>2
  <2>4. Tail(c2s[k]) = IF Uses(k) /\ pc = "sendData" THEN <<>> ELSE <<data>>
    <3>1. CASE Uses(k) /\ pc = "sendData"
      BY <1>3, <2>2, <3>1
    <3>2. CASE ~(Uses(k) /\ pc = "sendData")
      BY <1>3, <2>2, <3>2
    <3> QED
      BY <3>1, <3>2
  <2> QED
    BY <2>1, <2>3, <2>4
<1>5. /\ c2s' = [c2s EXCEPT ![k] = IF Uses(k) /\ pc = "sendData" THEN <<>> ELSE <<data>>]
      /\ busy' = k
      /\ UNCHANGED <<s2c, serverEnd, clientEnd, client, read_counter, write_counter,
                     restarts, history>>
  BY <1>4 DEF ServerRecvSize
<1> HIDE DEF size, data
<1> USE DEF ChannelInv, client, history
<1>6. TypeOK'
  <2>1. c2s' \in [Conns -> Seq(Blocks)]
    BY <1>4, <1>5 DEF TypeOK
  <2> QED
    BY <1>5, <2>1 DEF TypeOK, Conns
<1>7. EndsInv'
  BY <1>2, <1>5 DEF TypeOK, EndsInv, Uses, Live
<1>8. CallerInv'
  BY <1>5 DEF CallerInv
<1>9. data = Block("data", read_counter[k], r) /\ Unread(k, r)' = <<data>>
  BY <1>5 DEF Unread, data
<1>10. InUseInv'
  <2>1. CASE Uses(k)
    BY <1>1, <1>2, <1>5, <1>9, <2>1 DEF TypeOK, InUseInv, Uses, Live, Quiet, Numbered
  <2>2. CASE ~Uses(k)
    <3> SUFFICES ASSUME connected PROVE InUseInv'
      BY <1>5 DEF InUseInv
    <3>1. conn # k /\ conn \in Conns /\ conn # 0
      BY <2>2 DEF Uses, TypeOK, CallerInv, Conns
    <3>2. c2s'[conn] = c2s[conn] /\ busy # conn /\ busy' # conn
      BY <1>2, <1>5, <3>1 DEF TypeOK
    <3> QED
      BY <1>5, <3>2 DEF InUseInv, Live, Quiet, Numbered, Unread, Message
  <2> QED
    BY <2>1, <2>2
<1>11. LeftInv'
  <2>1. ASSUME NEW l \in Conns, l # k
        PROVE  /\ c2s'[l] = c2s[l] /\ \A q \in Requests : Unread(l, q)' = Unread(l, q)
    <3>1. c2s'[l] = c2s[l] /\ busy # l /\ busy' # l
      BY <1>2, <1>5, <2>1 DEF TypeOK, Conns
    <3> QED
      BY <1>5, <3>1 DEF Unread, Message
  <2>2. \A l \in Conns : Uses(l)' <=> Uses(l)
    BY <1>5 DEF Uses
  <2>3. ASSUME ~Uses(k) PROVE c2s'[k] = Unread(k, r)' /\ Head(c2s'[k]).req = Head(c2s[k]).req
                              /\ c2s[k] # <<>>
    BY <1>2, <1>3, <1>5, <1>9, <2>3, BlockFacts, ShortSequences DEF TypeOK, size
  <2> QED
    BY <1>1, <1>5, <2>1, <2>2, <2>3 DEF LeftInv
<1> QED
  BY <1>6, <1>7, <1>8, <1>10, <1>11

\* What a step of the server that reads a data block does: it executes the request,
\* the first time, and answers it or closes.
LEMMA ServerExecutes ==
    ASSUME ChannelInv, NEW k \in Conns, ServerRecvData(k)
    PROVE  \E r \in Requests :
             /\ c2s[k] = <<Block("data", read_counter[k], r)>> /\ executed[r] = 0
             /\ status[r] = IF Uses(k) THEN "called" ELSE "failed"
             /\ Uses(k) => r = request /\ pc = "recvSize" /\ Numbered(reads) /\ s2c[k] = <<>>
             /\ busy = k /\ k # 0 /\ serverEnd[k] = "open"
             /\ read_counter' = [read_counter EXCEPT ![k] = @ + 1]
             /\ write_counter' = [write_counter EXCEPT ![k] = @ + 1]
             /\ executed' = [executed EXCEPT ![r] = 1]
             /\ UNCHANGED <<clientEnd, client, restarts, status, answer>>
             /\ \/ /\ s2c' = [s2c EXCEPT ![k] = @ \o Message(write_counter[k], r)]
                   /\ c2s' = [c2s EXCEPT ![k] = <<>>] /\ busy' = 0
                   /\ UNCHANGED serverEnd
                \/ clientEnd[k] = "closed" /\ ServerClose(k)
<1>1. PICK r \in Requests :
        /\ executed[r] = 0
        /\ status[r] = IF Uses(k) THEN "called" ELSE "failed"
        /\ Uses(k) => r = request /\ Numbered(reads) /\ s2c[k] = <<>>
        /\ \/ c2s[k] = Unread(k, r) /\ (Uses(k) => pc = "recvSize")
           \/ /\ Uses(k) /\ pc = "sendData" /\ busy # k
              /\ c2s[k] = <<Block("size", read_counter[k], r)>>
  BY ToServer DEF ServerRecvData
<1>2. /\ k # 0 /\ busy = k /\ serverEnd[k] = "open" /\ read_counter[k] \in Nat
  <2>1. k # 0 /\ busy = k
    BY ChannelAssumption DEF ServerRecvData, Conns
  <2> QED
    BY <2>1 DEF ChannelInv, TypeOK, EndsInv
<1>3. c2s[k] = <<Block("data", read_counter[k], r)>> /\ (Uses(k) => pc = "recvSize")
  BY <1>1, <1>2 DEF Unread
<1>4. /\ Accepts(Head(c2s[k]), read_counter[k]) /\ Head(c2s[k]).req = r /\ Tail(c2s[k]) = <<>>
  BY <1>2, <1>3, BlockFacts, ShortSequences
<1>5. executed[r] + 1 = 1
  BY <1>1
<1> QED
  BY <1>1, <1>2, <1>3, <1>4, <1>5 DEF ServerRecvData, Message

LEMMA ServerRecvDataStep ==
    ASSUME ChannelInv, NEW k \in Conns, ServerRecvData(k)
    PROVE  ChannelInv'
<1>1. PICK r \in Requests :
        /\ c2s[k] = <<Block("data", read_counter[k], r)>> /\ executed[r] = 0
        /\ status[r] = IF Uses(k) THEN "called" ELSE "failed"
        /\ Uses(k) => r = request /\ pc = "recvSize" /\ Numbered(reads) /\ s2c[k] = <<>>
        /\ busy = k /\ k # 0 /\ serverEnd[k] = "open"
        /\ read_counter' = [read_counter EXCEPT ![k] = @ + 1]
        /\ write_counter' = [write_counter EXCEPT ![k] = @ + 1]
        /\ executed' = [executed EXCEPT ![r] = 1]
        /\ UNCHANGED <<clientEnd, client, restarts, status, answer>>
        /\ \/ /\ s2c' = [s2c EXCEPT ![k] = @ \o Message(write_counter[k], r)]
              /\ c2s' = [c2s EXCEPT ![k] = <<>>] /\ busy' = 0
              /\ UNCHANGED serverEnd
           \/ clientEnd[k] = "closed" /\ ServerClose(k)
  BY ServerExecutes
<1>2. PICK back \in Seq(Blocks) :
        /\ s2c' = [s2c EXCEPT ![k] = back]
        /\ Uses(k) => back = Message(reads, request)
    <2>1. Message(write_counter[k], r) \in Seq(Blocks) /\ s2c[k] \in Seq(Blocks) /\ <<>> \in Seq(Blocks)
      <3>1. write_counter[k] \in Nat
        BY DEF ChannelInv, TypeOK
      <3>2. Block("size", write_counter[k], r) \in Blocks /\ Block("data", write_counter[k], r) \in Blocks
        BY <3>1, BlockFacts
      <3> QED
        BY <3>2 DEF ChannelInv, TypeOK, Message
    <2>2. CASE s2c' = [s2c EXCEPT ![k] = @ \o Message(write_counter[k], r)]
      <3>1. s2c[k] \o Message(write_counter[k], r) \in Seq(Blocks)
        BY <2>1
      <3>2. Uses(k) => s2c[k] \o Message(write_counter[k], r) = Message(reads, request)
        <4> SUFFICES ASSUME Uses(k)
                     PROVE  s2c[k] \o Message(write_counter[k], r) = Message(reads, request)
          OBVIOUS
        <4>1. s2c[k] = <<>> /\ write_counter[k] = reads /\ r = request
          BY <1>1 DEF Uses, Numbered
        <4>2. <<>> \o Message(reads, request) = Message(reads, request)
          BY ShortSequences DEF Message
        <4> QED
          BY <4>1, <4>2
      <3> QED
        BY <2>2, <3>1, <3>2
    <2>3. CASE clientEnd[k] = "closed" /\ ServerClose(k)
      <3>1. ~Uses(k)
        BY <2>3 DEF ChannelInv, EndsInv
      <3> QED
        BY <2>1, <2>3, <3>1 DEF ServerClose
    <2> QED
      BY <1>1, <2>2, <2>3
<1>3. /\ c2s' = [c2s EXCEPT ![k] = <<>>] /\ busy' = 0
      /\ \/ UNCHANGED serverEnd
         \/ ~Uses(k) /\ serverEnd' = [serverEnd EXCEPT ![k] = "closed"]
      /\ UNCHANGED <<clientEnd, client, restarts, status, answer>>
      /\ busy = k /\ k # 0 /\ serverEnd[k] = "open"
  BY <1>1 DEF ServerClose, ChannelInv, EndsInv
<1> USE DEF ChannelInv, client
<1>4. TypeOK'
  <2>1. c2s' \in [Conns -> Seq(Blocks)] /\ s2c' \in [Conns -> Seq(Blocks)]
    BY <1>2, <1>3 DEF TypeOK
  <2>2. serverEnd' \in [Conns -> {"none", "backlog", "open", "closed"}]
    BY <1>3 DEF TypeOK
  <2>3. /\ read_counter' \in [Conns -> Nat] /\ write_counter' \in [Conns -> Nat]
        /\ executed' \in [Requests -> Nat]
    BY SMTT(30), <1>1 DEF TypeOK
  <2>4. busy' \in 0 .. MaxConns
    BY <1>3, ChannelAssumption
  <2>5. UNCHANGED <<clientEnd, pc, request, conn, connected, writes, reads, restarts, status,
                    answer>>
    BY <1>3
  <2> QED
    BY <2>1, <2>2, <2>3, <2>4, <2>5 DEF TypeOK
<1>5. EndsInv'
  <2>1. ASSUME NEW l \in Conns, l # k
        PROVE  /\ c2s'[l] = c2s[l] /\ s2c'[l] = s2c[l] /\ serverEnd'[l] = serverEnd[l]
               /\ read_counter'[l] = read_counter[l] /\ write_counter'[l] = write_counter[l]
    BY <1>1, <1>2, <1>3, <2>1 DEF TypeOK
  <2>2. c2s'[k] = <<>> /\ serverEnd'[k] \in {"open", "closed"} /\ ~(k > conn)
    BY <1>3 DEF TypeOK, EndsInv
  <2> QED
    BY <1>3, <2>1, <2>2 DEF EndsInv, Uses, Live
<1>6. CallerInv'
  BY <1>1 DEF TypeOK, CallerInv
<1>7. \A l \in Conns : l # k =>
        /\ c2s'[l] = c2s[l] /\ s2c'[l] = s2c[l] /\ (Live(l)' <=> Live(l))
        /\ busy # l /\ busy' # l
        /\ read_counter'[l] = read_counter[l] /\ write_counter'[l] = write_counter[l]
  <2> SUFFICES ASSUME NEW l \in Conns, l # k
               PROVE  /\ c2s'[l] = c2s[l] /\ s2c'[l] = s2c[l] /\ serverEnd'[l] = serverEnd[l]
                      /\ busy # l /\ busy' # l
                      /\ read_counter'[l] = read_counter[l] /\ write_counter'[l] = write_counter[l]
    BY DEF Live
  <2>1. busy # l /\ busy' # l
    BY <1>3, ChannelAssumption DEF Conns
  <2> QED
    BY <1>1, <1>2, <1>3, <2>1 DEF TypeOK
<1>8. InUseInv'
  <2>1. CASE Uses(k)
    <3>1. /\ conn = k /\ s2c'[k] = Message(reads, request) /\ s2c'[k] # <<>>
          /\ c2s'[k] = <<>> /\ busy' # k /\ executed'[request] = 1
          /\ reads \in Nat /\ read_counter'[k] = reads + 1 /\ write_counter'[k] = reads + 1
      <4>1. conn = k /\ Numbered(reads) /\ s2c'[k] = Message(reads, request) /\ r = request
        BY <1>1, <1>2, <2>1 DEF TypeOK, Uses
      <4>2. c2s'[k] = <<>> /\ busy' # k /\ executed'[r] = 1
        BY <1>1, <1>3 DEF TypeOK
      <4>3. read_counter'[k] = read_counter[k] + 1 /\ write_counter'[k] = write_counter[k] + 1
        BY <1>1 DEF TypeOK
      <4> QED
        BY <4>1, <4>2, <4>3, ShortSequences DEF TypeOK, Numbered, Message
    <3> QED
      BY <1>1, <2>1, <3>1 DEF InUseInv, Uses, Numbered
  <2>2. CASE ~Uses(k)
    <3> SUFFICES ASSUME connected PROVE InUseInv'
      BY <1>1 DEF InUseInv
    <3>1. conn # k /\ conn \in Conns
      BY <2>2 DEF Uses, TypeOK, CallerInv, Conns
    <3>2. pc \notin {"idle", "connect"} => request \in Requests /\ request # r
      BY <1>1, <2>2 DEF TypeOK, CallerInv
    <3>3. pc \notin {"idle", "connect"} => executed'[request] = executed[request]
      BY <1>1, <3>2 DEF TypeOK
    <3> QED
      BY <1>1, <1>7, <3>1, <3>3 DEF InUseInv, Quiet, Numbered, Unread, Message
  <2> QED
    BY <2>1, <2>2
<1>9. LeftInv'
  <2>1. ASSUME NEW l \in Conns, c2s'[l] # <<>>, ~Uses(l)'
        PROVE  /\ l # k /\ c2s'[l] = c2s[l] /\ ~Uses(l)
               /\ \A q \in Requests : Unread(l, q)' = Unread(l, q)
    <3>1. l # k
      BY <1>3, <2>1 DEF TypeOK
    <3> QED
      BY <1>1, <1>7, <2>1, <3>1 DEF Uses, Unread, Message
  <2>2. ASSUME NEW l \in Conns, c2s'[l] # <<>>, ~Uses(l)', NEW q \in Requests,
               status[q] = "failed", executed[q] = 0, c2s[l] = Unread(l, q)
        PROVE  q # r
    <3>1. l # k /\ c2s[l] # <<>> /\ ~Uses(l) /\ read_counter[l] \in Nat /\ read_counter[k] \in Nat
      BY <2>1, <2>2 DEF TypeOK
    <3>2. Head(c2s[l]).req = q /\ Head(c2s[k]).req = r /\ c2s[k] # <<>>
      BY <1>1, <2>2, <3>1, BlockFacts, ShortSequences DEF Unread, Message
    <3>3. CASE Uses(k)
      BY <1>1, <2>2, <3>3
    <3>4. CASE ~Uses(k)
      BY <3>1, <3>2, <3>4 DEF LeftInv
    <3> QED
      BY <3>3, <3>4
  <2>3. ASSUME NEW l \in Conns, c2s'[l] # <<>>, ~Uses(l)'
        PROVE  \E q \in Requests :
                 status'[q] = "failed" /\ executed'[q] = 0 /\ c2s'[l] = Unread(l, q)'
    <3>1. PICK q \in Requests : status[q] = "failed" /\ executed[q] = 0 /\ c2s[l] = Unread(l, q)
      BY <2>1, <2>3 DEF LeftInv
    <3>2. q # r
      BY <2>2, <2>3, <3>1
    <3> QED
      BY <1>1, <2>1, <2>3, <3>1, <3>2 DEF TypeOK
  <2> QED
    BY <2>1, <2>3 DEF LeftInv
<1> QED
  BY <1>4, <1>5, <1>6, <1>8, <1>9
-----------------------------------------------------------------------------
(* The invariant *)

LEMMA ChannelNext == ChannelInv /\ [Next]_vars => ChannelInv'
<1> SUFFICES ASSUME ChannelInv, [Next]_vars PROVE ChannelInv'
  OBVIOUS
<1>1. ASSUME NEW r \in Requests, Communicate(r) PROVE ChannelInv'
  BY <1>1, CommunicateStep
<1>2. CASE ClientStep
  BY <1>2, ReconnectStep, ReconnectFailsStep, SendSizeStep, SendDataStep, SendFailsStep,
     ClientRecvSizeStep, ClientRecvDataStep, ClientRecvFailsStep DEF ClientStep
<1>3. ASSUME NEW k \in Conns, ServerRecvFails(k) \/ ServerTimeout(k) PROVE ChannelInv'
  BY <1>3, ServerCloses DEF ServerRecvFails, ServerTimeout
<1>4. CASE ServerStep
  BY <1>3, <1>4, ServerAcceptStep, ServerRecvSizeStep, ServerRecvDataStep DEF ServerStep
<1>5. CASE ServerRestart
  BY <1>5, ServerRestartStep
<1>6. CASE UNCHANGED vars
  BY <1>6 DEF vars, network, client, server, history, ChannelInv, TypeOK, EndsInv, CallerInv,
     InUseInv, LeftInv, Uses, Live, Quiet, Numbered, Unread, Message
<1> QED
  BY <1>1, <1>2, <1>3, <1>4, <1>5, <1>6 DEF Next, Finished

\* Every variable keeps its type, through reconnects, lost data, timeouts and restarts.
THEOREM TypeCorrect == Spec => []TypeOK
<1>1. ChannelInv => TypeOK
  BY DEF ChannelInv
<1> QED
  BY <1>1, ChannelInit, ChannelNext, PTL DEF Spec

\* The next block that either end would read carries the number that end expects,
\* however connections were lost and made again before: no honest peer is ever
\* closed for a bad transaction number.
THEOREM NumbersInStep == Spec => []TransactionsInStep
<1>1. ChannelInv => TransactionsInStep
  <2> SUFFICES ASSUME ChannelInv PROVE TransactionsInStep
    OBVIOUS
  <2>1. ASSUME NEW k \in Conns, c2s[k] # <<>>
        PROVE  Accepts(Head(c2s[k]), read_counter[k])
    <3>1. PICK r \in Requests : \/ c2s[k] = Unread(k, r)
                                \/ c2s[k] = <<Block("size", read_counter[k], r)>>
      BY <2>1, ToServer
    <3>2. read_counter[k] \in Nat
      BY DEF ChannelInv, TypeOK
    <3> QED
      BY <3>1, <3>2, BlockFacts, ShortSequences DEF Unread, Message
  <2>2. ASSUME connected, s2c[conn] # <<>> PROVE Accepts(Head(s2c[conn]), reads)
    <3>1. reads \in Nat /\ pc \in {"recvSize", "recvData"} /\ request \in Requests
      BY <2>2 DEF ChannelInv, TypeOK, CallerInv, InUseInv
    <3>2. s2c[conn] = Message(reads, request) \/ s2c[conn] = <<Block("data", reads, request)>>
      BY <2>2, <3>1 DEF ChannelInv, InUseInv
    <3> QED
      BY <3>1, <3>2, BlockFacts, ShortSequences DEF Message
  <2> QED
    BY <2>1, <2>2 DEF TransactionsInStep
<1> QED
  BY <1>1, ChannelInit, ChannelNext, PTL DEF Spec
-----------------------------------------------------------------------------
(* The refinement *)

\* Executing a request is one step of the abstract call, allowed to happen once while
\* it is called or after it failed.
LEMMA ExecuteRefines ==
    ASSUME ChannelInv, NEW k \in Conns, ServerRecvData(k)
    PROVE  \E r \in Requests : Rpc!Execute(r)
<1>1. PICK r \in Requests :
        /\ executed[r] = 0 /\ status[r] = IF Uses(k) THEN "called" ELSE "failed"
        /\ executed' = [executed EXCEPT ![r] = 1] /\ UNCHANGED <<status, answer>>
  BY ServerExecutes
<1> QED
  BY <1>1 DEF Rpc!Execute

\* An answer is to the request that was called, which was executed.
LEMMA AnswerRefines ==
    ASSUME ChannelInv, ClientRecvData
    PROVE  \E r \in Requests : Rpc!Answer(r)
<1>1. /\ request \in Requests /\ reads \in Nat /\ status[request] = "called"
      /\ s2c[conn] = <<Block("data", reads, request)>> /\ executed[request] = 1
  BY DEF ChannelInv, TypeOK, CallerInv, InUseInv, ClientRecvData
<1>2. Accepts(Head(s2c[conn]), reads) /\ Head(s2c[conn]).req = request
  BY <1>1, BlockFacts, ShortSequences
<1> QED
  BY <1>1, <1>2 DEF ClientRecvData, Rpc!Answer

\* Giving up, for whatever reason, is a failure of the request that was called.
LEMMA FailRefines ==
    ASSUME ChannelInv, pc # "idle", status' = [status EXCEPT ![request] = "failed"],
           UNCHANGED <<executed, answer>>
    PROVE  \E r \in Requests : Rpc!Fail(r)
<1>1. request \in Requests /\ status[request] = "called"
  BY DEF ChannelInv, TypeOK, CallerInv
<1> QED
  BY <1>1 DEF Rpc!Fail

LEMMA StepRefines == ChannelInv /\ [Next]_vars => [Rpc!RpcNext]_(Rpc!rpcVars)
<1> SUFFICES ASSUME ChannelInv, [Next]_vars, ~UNCHANGED <<status, executed, answer>>
             PROVE  \E r \in Requests :
                      Rpc!Call(r) \/ Rpc!Execute(r) \/ Rpc!Answer(r) \/ Rpc!Fail(r)
  BY DEF Rpc!RpcNext, Rpc!rpcVars
<1>1. ASSUME NEW r \in Requests, Communicate(r) PROVE Rpc!Call(r)
  BY <1>1 DEF Communicate, Rpc!Call
<1>2. CASE ReconnectFails
  BY <1>2, FailRefines DEF ReconnectFails
<1>3. CASE ClientRecvSize
  BY <1>3, FailRefines DEF ClientRecvSize, GiveUp, history
<1>4. CASE ClientRecvData
  BY <1>4, AnswerRefines
<1>5. CASE ClientRecvFails
  BY <1>5, FailRefines DEF ClientRecvFails, GiveUp
<1>6. ASSUME NEW k \in Conns, ServerRecvData(k) PROVE \E r \in Requests : Rpc!Execute(r)
  BY <1>6, ExecuteRefines
<1>7. ~(Reconnect \/ SendSize \/ SendData \/ SendFails \/ ServerRestart \/ UNCHANGED vars)
  BY DEF Reconnect, SendSize, SendData, SendFails, ServerRestart, history, vars
<1>8. ASSUME NEW k \in Conns
      PROVE  ~(ServerAccept(k) \/ ServerRecvSize(k) \/ ServerRecvFails(k) \/ ServerTimeout(k))
  BY DEF ServerAccept, ServerRecvSize, ServerRecvFails, ServerTimeout, history
<1> QED
  BY <1>1, <1>2, <1>3, <1>4, <1>5, <1>6, <1>7, <1>8 DEF Next, ClientStep, ServerStep, Finished

\* communicate implements the at-most-once call: whatever is lost, retried, timed out
\* or restarted, no request is executed twice and none gets another one's answer.
THEOREM CommunicateImplementsRpc == Spec => RpcSpec
<1>1. Init => Rpc!RpcInit
  BY DEF Init, Rpc!RpcInit
<1> QED
  BY <1>1, StepRefines, ChannelInit, ChannelNext, PTL DEF Spec, RpcSpec, Rpc!RpcSpec
=============================================================================
