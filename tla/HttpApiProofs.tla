--------------------------- MODULE HttpApiProofs ---------------------------
(***************************************************************************)
(* Machine-checked proofs about HttpApi, for any number of threads, clients *)
(* and addresses, any limit and any bounds.                                 *)
(***************************************************************************)
EXTENDS HttpApi, SequenceTheorems, FiniteSetTheorems, TLAPS

Sessions == [captcha : 0 .. MaxCaptchas, created : 0 .. MaxTime]

\* The steps at which the handler uses the Session it found.
WithSession == {"captcha", "issue", "clock", "limit", "stamp", "human", "wrong", "consume"}

\* A key in use has a Session, and a handler's Session is one that was made.
SessionInv ==
    /\ Len(objects) <= MaxSessions
    /\ req \in [Threads -> Requests \cup {<<>>}]
    /\ \A t \in Threads :
         /\ pc[t] = "use" => sessions[req[t].key] # 0
         /\ pc[t] \in WithSession => req[t].session \in 1 .. Len(objects)

TypeInv == TypeOK /\ SessionInv
-----------------------------------------------------------------------------
(* Type correctness *)

LEMMA TypeInit == Init => TypeInv
<1> SUFFICES ASSUME Init PROVE TypeInv
  OBVIOUS
<1>1. objects \in Seq(Sessions) /\ Len(objects) = 0
  BY DEF Init
<1>2. TypeOK
  BY <1>1, HttpApiAssumption DEF Init, TypeOK, PCs, Never, Sessions
<1>3. SessionInv
  BY <1>1, HttpApiAssumption DEF Init, SessionInv, WithSession
<1> QED
  BY <1>2, <1>3 DEF TypeInv

\* A request in the handler, and the Session it uses.
LEMMA InHandler ==
    ASSUME TypeInv, NEW t \in Threads, pc[t] # "idle"
    PROVE  /\ req[t] \in Requests /\ req[t].client \in Clients /\ req[t].key \in Clients
           /\ req[t].answer \in Answers /\ req[t].time \in 0 .. MaxTime
           /\ req[t].session \in 0 .. MaxSessions
           /\ Address(t) \in Addresses
           /\ pc[t] \in WithSession => /\ req[t].session \in 1 .. Len(objects)
                                       /\ Captcha(t) \in 0 .. MaxCaptchas
<1>1. req[t] \in Requests
  BY DEF TypeInv, TypeOK
<1>2. Address(t) \in Addresses
  BY <1>1, HttpApiAssumption DEF Requests, Address
<1>3. pc[t] \in WithSession => req[t].session \in 1 .. Len(objects)
  BY DEF TypeInv, SessionInv
<1>4. \A i \in 1 .. Len(objects) : objects[i] \in Sessions
  BY ElementOfSeq DEF TypeInv, TypeOK, Sessions
<1> QED
  BY <1>1, <1>2, <1>3, <1>4 DEF Requests, Captcha, Sessions

\* Setting the captcha of the handler's Session changes no other.
LEMMA CaptchaSet ==
    ASSUME TypeInv, NEW t \in Threads, pc[t] \in WithSession,
           NEW n \in 0 .. MaxCaptchas, SetCaptcha(t, n)
    PROVE  /\ objects' \in Seq(Sessions) /\ Len(objects') = Len(objects)
           /\ \A i \in 1 .. Len(objects) :
                objects'[i].captcha = IF i = req[t].session THEN n ELSE objects[i].captcha
<1> DEFINE o == req[t].session
           new == [objects[o] EXCEPT !.captcha = n]
<1>1. o \in 1 .. Len(objects) /\ objects \in Seq(Sessions)
  BY DEF TypeInv, TypeOK, SessionInv, Sessions
<1>2. objects[o] \in Sessions
  BY <1>1, ElementOfSeq
<1>3. new \in Sessions /\ new.captcha = n
  BY <1>2 DEF Sessions
<1>4. objects' = [objects EXCEPT ![o] = new]
  BY DEF SetCaptcha
<1> HIDE DEF new
<1>5. /\ objects' \in Seq(Sessions) /\ Len(objects') = Len(objects)
      /\ \A i \in 1 .. Len(objects) : objects'[i] = IF i = o THEN new ELSE objects[i]
  BY <1>1, <1>3, <1>4, ExceptSeq
<1> QED
  BY <1>3, <1>5

\* The steps that move a handler on or end it, and make no Session.
LEMMA TypeMoves ==
    ASSUME TypeInv, NEW t \in Threads,
           /\ UNCHANGED sessions /\ Len(objects') = Len(objects) /\ objects' \in Seq(Sessions)
           /\ issued' \in 0 .. MaxCaptchas /\ UNCHANGED now
           /\ client_ms_at_call' \in [Addresses -> 0 .. Never]
           /\ passed' \in [Addresses -> [0 .. MaxTime -> Nat]]
           /\ uses' \in [1 .. MaxCaptchas -> Nat],
           \/ Respond(t)
           \/ /\ pc[t] \in WithSession /\ UNCHANGED req
              /\ \E label \in WithSession : Goto(t, label)
    PROVE  TypeInv'
<1>1. CASE Respond(t)
  <2>1. /\ pc' = [pc EXCEPT ![t] = "idle"] /\ req' = [req EXCEPT ![t] = <<>>]
    BY <1>1 DEF Respond, Goto
  <2>2. TypeOK'
    BY <2>1 DEF TypeInv, TypeOK, SessionInv, PCs, Sessions
  <2>3. SessionInv'
    BY <2>1 DEF TypeInv, TypeOK, SessionInv, WithSession
  <2> QED
    BY <2>2, <2>3 DEF TypeInv
<1>2. CASE /\ pc[t] \in WithSession /\ UNCHANGED req
           /\ \E label \in WithSession : Goto(t, label)
  <2>1. PICK label \in WithSession : pc' = [pc EXCEPT ![t] = label]
    BY <1>2 DEF Goto
  <2>2. TypeOK'
    BY <1>2, <2>1 DEF TypeInv, TypeOK, SessionInv, PCs, WithSession, Sessions
  <2>3. SessionInv'
    BY <1>2, <2>1 DEF TypeInv, TypeOK, SessionInv, WithSession
  <2> QED
    BY <2>2, <2>3 DEF TypeInv
<1> QED
  BY <1>1, <1>2

LEMMA TypeReceive ==
    ASSUME TypeInv, NEW t \in Threads, Receive(t)
    PROVE  TypeInv'
<1>1. PICK c \in Clients, k \in Clients \cup {NoKey}, what \in {"call", "captcha", "new"},
           a \in Answers :
        /\ Goto(t, IF sessions[SessionKey(c, k)] = 0 THEN "create" ELSE "use")
        /\ req' = [req EXCEPT ![t] = [client |-> c, key |-> SessionKey(c, k), what |-> what,
                                      answer |-> a, session |-> 0, time |-> 0]]
  BY DEF Receive
<1> DEFINE key == SessionKey(c, k)
           new == [client |-> c, key |-> key, what |-> what,
                   answer |-> a, session |-> 0, time |-> 0]
<1>2. key \in Clients
  BY DEF SessionKey, Valid
<1> HIDE DEF key
<1>3. new \in Requests /\ new.key = key
  BY <1>2, HttpApiAssumption DEF Requests
<1> HIDE DEF new
<1>4. /\ req' = [req EXCEPT ![t] = new]
      /\ pc' = [pc EXCEPT ![t] = IF sessions[key] = 0 THEN "create" ELSE "use"]
      /\ UNCHANGED <<now, sessions, objects, client_ms_at_call, issued, passed, uses>>
  BY <1>1 DEF Receive, Goto, new, key
<1>5. ASSUME NEW u \in Threads
      PROVE  /\ pc'[u] \in PCs /\ req'[u] \in Requests \cup {<<>>}
             /\ IF pc'[u] = "idle" THEN req'[u] = <<>> ELSE req'[u] \in Requests
             /\ pc'[u] = "use" => sessions[req'[u].key] # 0
             /\ pc'[u] \in WithSession => req'[u].session \in 1 .. Len(objects)
  <2>1. CASE u = t
    BY <1>3, <1>4, <2>1 DEF TypeInv, TypeOK, SessionInv, PCs, WithSession
  <2>2. CASE u # t
    BY <1>4, <2>2 DEF TypeInv, TypeOK, SessionInv
  <2> QED
    BY <2>1, <2>2
<1>6. pc' \in [Threads -> PCs] /\ req' \in [Threads -> Requests \cup {<<>>}]
  BY <1>4, <1>5 DEF TypeInv, TypeOK, SessionInv
<1>7. TypeOK'
  BY <1>4, <1>5, <1>6 DEF TypeInv, TypeOK
<1>8. SessionInv'
  BY <1>4, <1>5, <1>6 DEF TypeInv, SessionInv
<1> QED
  BY <1>7, <1>8 DEF TypeInv

LEMMA TypeCreate ==
    ASSUME TypeInv, NEW t \in Threads, CreateSession(t)
    PROVE  /\ TypeInv' /\ Len(objects') = Len(objects) + 1
           /\ \A i \in 1 .. Len(objects) : objects'[i] = objects[i]
           /\ objects'[Len(objects) + 1].captcha = Empty
<1> DEFINE n == Len(objects) + 1
           new == [captcha |-> Empty, created |-> now]
<1>1. new \in Sessions /\ new.captcha = Empty
  BY HttpApiAssumption DEF TypeInv, TypeOK, Sessions, Empty
<1>2. /\ objects' = Append(objects, new) /\ sessions' = [sessions EXCEPT ![req[t].key] = n]
      /\ pc' = [pc EXCEPT ![t] = "use"] /\ Len(objects) < MaxSessions /\ pc[t] = "create"
      /\ UNCHANGED <<now, client_ms_at_call, issued, req, passed, uses>>
  BY DEF CreateSession, NewSession, Goto
<1> HIDE DEF new
<1>3. /\ objects \in Seq(Sessions) /\ Len(objects) \in Nat /\ MaxSessions \in Nat
      /\ sessions \in [Clients -> 0 .. Len(objects)] /\ req[t].key \in Clients
  <2>1. req[t].key \in Clients
    BY <1>2, InHandler
  <2> QED
    BY <2>1, HttpApiAssumption DEF TypeInv, TypeOK, Sessions
<1>4. /\ objects' \in Seq(Sessions) /\ Len(objects') = n
      /\ \A i \in 1 .. Len(objects) : objects'[i] = objects[i]
      /\ objects'[n] = new
  BY <1>1, <1>2, <1>3
<1>5. sessions' \in [Clients -> 0 .. n]
  BY <1>2, <1>3
<1>6. pc' \in [Threads -> PCs]
  BY <1>2 DEF TypeInv, TypeOK, PCs
<1>7. TypeOK'
  <2>1. \A u \in Threads : IF pc'[u] = "idle" THEN req[u] = <<>> ELSE req[u] \in Requests
    BY <1>2 DEF TypeInv, TypeOK
  <2> QED
    BY <1>2, <1>4, <1>5, <1>6, <2>1 DEF TypeInv, TypeOK, Sessions
<1>8. SessionInv'
  <2>1. Len(objects') <= MaxSessions
    BY <1>2, <1>3, <1>4
  <2>2. ASSUME NEW u \in Threads
        PROVE  /\ pc'[u] = "use" => sessions'[req[u].key] # 0
               /\ pc'[u] \in WithSession => req[u].session \in 1 .. n
    <3>1. pc'[u] = "use" => req[u].key \in Clients
      BY <1>2, InHandler DEF TypeInv, TypeOK
    <3>2. CASE u = t
      BY <1>2, <1>3, <3>2 DEF TypeInv, TypeOK, WithSession
    <3>3. CASE u # t
      BY <1>2, <1>3, <3>1, <3>3 DEF TypeInv, TypeOK, SessionInv
    <3> QED
      BY <3>2, <3>3
  <2> QED
    BY <1>2, <1>4, <2>1, <2>2 DEF TypeInv, SessionInv
<1> QED
  BY <1>1, <1>4, <1>7, <1>8 DEF TypeInv

LEMMA TypeUpdate ==
    ASSUME TypeInv, NEW t \in Threads, UseSession(t) \/ ReadClock(t)
    PROVE  TypeInv'
<1>1. pc[t] # "idle" /\ req[t] \in Requests
  <2>1. pc[t] # "idle"
    BY DEF UseSession, ReadClock
  <2> QED
    BY <2>1, InHandler
<1>2. PICK session \in 0 .. MaxSessions, time \in 0 .. MaxTime :
        /\ req' = [req EXCEPT ![t] = [req[t] EXCEPT !.session = session, !.time = time]]
        /\ session \in 1 .. Len(objects)
  <2>1. CASE UseSession(t)
    <3>1. sessions[req[t].key] \in 1 .. Len(objects) /\ Len(objects) <= MaxSessions
      BY <1>1, <2>1 DEF UseSession, TypeInv, TypeOK, SessionInv, Requests
    <3>2. sessions[req[t].key] \in 0 .. MaxSessions /\ req[t].time \in 0 .. MaxTime
      <4>1. Len(objects) \in Nat
        BY DEF TypeInv, TypeOK
      <4> QED
        BY <1>1, <3>1, <4>1, HttpApiAssumption DEF Requests
    <3>3. [req[t] EXCEPT !.session = sessions[req[t].key], !.time = req[t].time]
            = [req[t] EXCEPT !.session = sessions[req[t].key]]
      BY <1>1 DEF Requests
    <3> QED
      BY <2>1, <3>1, <3>2, <3>3 DEF UseSession
  <2>2. CASE ReadClock(t)
    <3>1. now \in 0 .. MaxTime
      BY DEF TypeInv, TypeOK
    <3>2. req[t].session \in 1 .. Len(objects) /\ req[t].session \in 0 .. MaxSessions
      BY <1>1, <2>2 DEF ReadClock, TypeInv, SessionInv, WithSession, Requests
    <3>3. [req[t] EXCEPT !.session = req[t].session, !.time = now] = [req[t] EXCEPT !.time = now]
      BY <1>1 DEF Requests
    <3> QED
      BY <2>2, <3>1, <3>2, <3>3 DEF ReadClock
  <2> QED
    BY <2>1, <2>2
<1> DEFINE new == [req[t] EXCEPT !.session = session, !.time = time]
<1>3. new \in Requests /\ new.session = session
  BY <1>1 DEF Requests
<1> HIDE DEF new
<1>4. PICK label \in {"captcha", "clock", "limit"} : pc' = [pc EXCEPT ![t] = label]
  BY DEF UseSession, ReadClock, Goto
<1>5. /\ UNCHANGED <<now, sessions, objects, client_ms_at_call, issued, passed, uses>>
      /\ req' = [req EXCEPT ![t] = new]
  BY <1>2 DEF UseSession, ReadClock, new
<1>6. TypeOK'
  <2>1. pc' \in [Threads -> PCs]
    BY <1>4 DEF TypeInv, TypeOK, PCs
  <2>2. \A u \in Threads : IF pc'[u] = "idle" THEN req'[u] = <<>> ELSE req'[u] \in Requests
    BY <1>3, <1>4, <1>5 DEF TypeInv, TypeOK, SessionInv
  <2> QED
    BY <1>5, <2>1, <2>2 DEF TypeInv, TypeOK
<1>7. SessionInv'
  <2>1. req' \in [Threads -> Requests \cup {<<>>}]
    BY <1>3, <1>5 DEF TypeInv, SessionInv
  <2>2. ASSUME NEW u \in Threads
        PROVE  /\ pc'[u] = "use" => sessions[req'[u].key] # 0
               /\ pc'[u] \in WithSession => req'[u].session \in 1 .. Len(objects)
    <3>1. CASE u = t
      BY <1>2, <1>3, <1>4, <1>5, <3>1 DEF TypeInv, TypeOK, SessionInv
    <3>2. CASE u # t
      BY <1>4, <1>5, <3>2 DEF TypeInv, TypeOK, SessionInv
    <3> QED
      BY <3>1, <3>2
  <2> QED
    BY <1>5, <2>1, <2>2 DEF TypeInv, SessionInv
<1> QED
  BY <1>6, <1>7 DEF TypeInv

LEMMA TypeNext == TypeInv /\ [Next]_vars => TypeInv'
<1> SUFFICES ASSUME TypeInv, [Next]_vars PROVE TypeInv'
  OBVIOUS
<1>1. TypeOK /\ objects \in Seq(Sessions) /\ Empty \in 0 .. MaxCaptchas
  BY HttpApiAssumption DEF TypeInv, TypeOK, Sessions, Empty
<1>2. ASSUME NEW t \in Threads, AskCaptcha(t) PROVE TypeInv'
  <2>1. pc[t] = "captcha" /\ pc[t] \in WithSession
    BY <1>2 DEF AskCaptcha, WithSession
  <2>2. objects' \in Seq(Sessions) /\ Len(objects') = Len(objects)
    BY <1>1, <1>2, <2>1, CaptchaSet DEF AskCaptcha
  <2>3. Respond(t) \/ (Goto(t, "issue") /\ UNCHANGED req)
    BY <1>2 DEF AskCaptcha
  <2> QED
    BY <1>1, <1>2, <2>1, <2>2, <2>3, TypeMoves DEF AskCaptcha, TypeOK, WithSession
<1>3. ASSUME NEW t \in Threads, IssueCaptcha(t) PROVE TypeInv'
  <2>1. pc[t] \in WithSession /\ issued + 1 \in 0 .. MaxCaptchas
    BY <1>1, <1>3, HttpApiAssumption DEF IssueCaptcha, WithSession, TypeOK
  <2>2. objects' \in Seq(Sessions) /\ Len(objects') = Len(objects)
    BY <1>3, <2>1, CaptchaSet DEF IssueCaptcha
  <2> QED
    BY <1>1, <1>3, <2>1, <2>2, TypeMoves DEF IssueCaptcha, TypeOK
<1>4. ASSUME NEW t \in Threads, CheckLimit(t) \/ CheckHuman(t) PROVE TypeInv'
  <2>1. /\ pc[t] \in WithSession
        /\ UNCHANGED <<now, sessions, objects, client_ms_at_call, issued, passed, uses>>
        /\ Respond(t) \/ (UNCHANGED req /\ \E label \in WithSession : Goto(t, label))
    BY <1>4 DEF CheckLimit, CheckHuman, WithSession
  <2> QED
    BY <1>1, <2>1, TypeMoves DEF TypeOK
<1>5. ASSUME NEW t \in Threads, StampCall(t) PROVE TypeInv'
  <2>1. /\ pc[t] \in WithSession
        /\ UNCHANGED <<now, sessions, objects, issued, uses>>
        /\ Respond(t) \/ (UNCHANGED req /\ \E label \in WithSession : Goto(t, label))
    BY <1>5 DEF StampCall, WithSession
  <2>2. req[t].time \in 0 .. MaxTime /\ Address(t) \in Addresses
    BY <1>5, InHandler DEF StampCall
  <2>3. client_ms_at_call' \in [Addresses -> 0 .. Never]
    <3>1. req[t].time \in 0 .. Never
      BY <2>2, HttpApiAssumption DEF Never
    <3> QED
      BY <1>1, <1>5, <3>1 DEF StampCall, TypeOK
  <2>4. passed' \in [Addresses -> [0 .. MaxTime -> Nat]]
    <3> DEFINE a == Address(t)
               time == req[t].time
    <3>1. passed[a] \in [0 .. MaxTime -> Nat] /\ passed[a][time] + 1 \in Nat
      <4>1. passed[a] \in [0 .. MaxTime -> Nat]
        BY <1>1, <2>2 DEF TypeOK
      <4>2. time \in 0 .. MaxTime
        BY <2>2
      <4> HIDE DEF a, time
      <4>3. passed[a][time] \in Nat
        BY <4>1, <4>2
      <4> QED
        BY <4>1, <4>3
    <3>2. [passed[a] EXCEPT ![time] = passed[a][time] + 1] \in [0 .. MaxTime -> Nat]
      BY <2>2, <3>1
    <3>3. passed' = [passed EXCEPT ![a] = [passed[a] EXCEPT ![time] = passed[a][time] + 1]]
      BY <1>5 DEF StampCall
    <3> QED
      BY <1>1, <3>2, <3>3 DEF TypeOK
  <2> QED
    BY <1>1, <2>1, <2>3, <2>4, TypeMoves DEF TypeOK
<1>6. ASSUME NEW t \in Threads, WrongAnswer(t) PROVE TypeInv'
  <2>1. pc[t] \in WithSession
    BY <1>6 DEF WrongAnswer, WithSession
  <2>2. objects' \in Seq(Sessions) /\ Len(objects') = Len(objects)
    BY <1>1, <1>6, <2>1, CaptchaSet DEF WrongAnswer
  <2> QED
    BY <1>1, <1>6, <2>1, <2>2, TypeMoves DEF WrongAnswer, TypeOK
<1>7. ASSUME NEW t \in Threads, Consume(t) PROVE TypeInv'
  <2>1. pc[t] \in WithSession
    BY <1>7 DEF Consume, WithSession
  <2>2. objects' \in Seq(Sessions) /\ Len(objects') = Len(objects)
    BY <1>1, <1>7, <2>1, CaptchaSet DEF Consume, Cleared
  <2>3. uses' \in [1 .. MaxCaptchas -> Nat]
    <3>1. req[t].answer \in 1 .. MaxCaptchas => uses[req[t].answer] + 1 \in Nat
      BY <1>1 DEF TypeOK
    <3> QED
      BY <1>1, <1>7, <3>1 DEF Consume, TypeOK
  <2> QED
    BY <1>1, <1>7, <2>1, <2>2, <2>3, TypeMoves DEF Consume, TypeOK
<1>8. CASE Tick
  BY <1>8, HttpApiAssumption DEF Tick, TypeInv, TypeOK, SessionInv
<1>9. CASE UNCHANGED vars
  BY <1>9 DEF vars, TypeInv, TypeOK, SessionInv
<1> QED
  BY <1>2, <1>3, <1>4, <1>5, <1>6, <1>7, <1>8, <1>9, TypeReceive, TypeCreate, TypeUpdate
  DEF Next, Step, BoundReached

\* Every variable keeps its type: a handler never uses a Session that was not made,
\* although another thread may give its key a new one meanwhile.
THEOREM TypeCorrect == Spec => []TypeOK
<1>1. TypeInv => TypeOK
  BY DEF TypeInv
<1> QED
  BY <1>1, TypeInit, TypeNext, PTL DEF Spec
-----------------------------------------------------------------------------
(* Captchas *)

\* Threads that found the answer n right and have not cleared the captcha yet.
Consuming(p, r, n) == {t \in Threads : p[t] = "consume" /\ r[t].answer = n}

\* A captcha is of one Session and was issued; while it stands, nobody has used it.
HeldInv ==
    /\ \A i, j \in 1 .. Len(objects) :
         objects[i].captcha # Empty /\ objects[i].captcha = objects[j].captcha => i = j
    /\ \A i \in 1 .. Len(objects) :
         /\ objects[i].captcha <= issued
         /\ objects[i].captcha # Empty => uses[objects[i].captcha] = 0
    /\ \A n \in 1 .. MaxCaptchas : n > issued => uses[n] = 0

\* If a right answer's captcha still stands, clearing the handler's Session clears it.
RightInv ==
    \A t \in Threads :
      /\ pc[t] = "human" => req[t].answer # Empty
      /\ pc[t] = "consume" =>
           /\ req[t].answer \in 1 .. issued
           /\ \A i \in 1 .. Len(objects) :
                objects[i].captcha = req[t].answer => i = req[t].session

\* The calls a captcha let through and those it still will.
SpentInv ==
    \A n \in 1 .. issued :
      uses[n] + Cardinality(Consuming(pc, req, n)) <= Cardinality(Threads)

CaptchaInv == TypeInv /\ HeldInv /\ RightInv /\ SpentInv

LEMMA Counts ==
    ASSUME NEW p, NEW r, NEW n
    PROVE  /\ IsFiniteSet(Consuming(p, r, n)) /\ Cardinality(Consuming(p, r, n)) \in Nat
           /\ Cardinality(Consuming(p, r, n)) <= Cardinality(Threads)
           /\ Cardinality(Threads) \in Nat
<1>1. Consuming(p, r, n) \subseteq Threads
  BY DEF Consuming
<1> QED
  BY <1>1, FS_Subset, FS_CardinalityType, HttpApiAssumption

\* A step after which no more threads have found an answer right.
LEMMA CountKept ==
    ASSUME NEW p, NEW r, NEW q, NEW s, NEW n,
           \A u \in Threads : q[u] = "consume" /\ s[u].answer = n =>
                                p[u] = "consume" /\ r[u] = s[u]
    PROVE  Cardinality(Consuming(q, s, n)) <= Cardinality(Consuming(p, r, n))
<1>1. Consuming(q, s, n) \subseteq Consuming(p, r, n)
  BY DEF Consuming
<1> QED
  BY <1>1, Counts, FS_Subset

LEMMA CaptchaInit == Init => CaptchaInv
<1> SUFFICES ASSUME Init PROVE CaptchaInv
  OBVIOUS
<1>1. Len(objects) = 0 /\ issued = 0
  BY DEF Init
<1>2. HeldInv /\ SpentInv
  BY <1>1 DEF HeldInv, SpentInv, Init
<1>3. RightInv
  BY DEF Init, RightInv
<1> QED
  BY <1>2, <1>3, TypeInit DEF CaptchaInv

\* Steps that issue and use no captcha: at most they clear one.
LEMMA CaptchaKept ==
    ASSUME CaptchaInv, TypeInv', UNCHANGED <<issued, uses>>,
           \A i \in 1 .. Len(objects') :
             \/ objects'[i].captcha = Empty
             \/ i \in 1 .. Len(objects) /\ objects'[i].captcha = objects[i].captcha,
           \A u \in Threads :
             /\ pc'[u] = "consume" => pc[u] = "consume" /\ req'[u] = req[u]
             /\ pc'[u] = "human" => req'[u].answer # Empty
    PROVE  CaptchaInv'
<1>1. TypeOK /\ HeldInv /\ RightInv /\ SpentInv /\ Empty <= issued /\ Empty \notin 1 .. issued
  BY DEF CaptchaInv, TypeInv, TypeOK, Empty
<1>2. HeldInv'
  BY <1>1 DEF HeldInv
<1>3. RightInv'
  BY <1>1 DEF RightInv
<1>4. SpentInv'
  <2> SUFFICES ASSUME NEW n \in 1 .. issued
               PROVE  uses[n] + Cardinality(Consuming(pc', req', n)) <= Cardinality(Threads)
    BY DEF SpentInv
  <2>1. Cardinality(Consuming(pc', req', n)) <= Cardinality(Consuming(pc, req, n))
    BY CountKept
  <2>2. uses[n] \in Nat
    BY <1>1, HttpApiAssumption DEF TypeOK
  <2> QED
    BY <1>1, <2>1, <2>2, Counts DEF SpentInv
<1> QED
  BY <1>2, <1>3, <1>4 DEF CaptchaInv

LEMMA CaptchaIssue ==
    ASSUME CaptchaInv, TypeInv', NEW t \in Threads, IssueCaptcha(t)
    PROVE  CaptchaInv'
<1> DEFINE n == issued + 1
<1>1. /\ TypeInv /\ TypeOK /\ HeldInv /\ RightInv /\ SpentInv
      /\ issued \in Nat /\ n \in 1 .. MaxCaptchas /\ n \in 0 .. MaxCaptchas
  <2>1. TypeInv /\ TypeOK /\ HeldInv /\ RightInv /\ SpentInv /\ issued \in 0 .. MaxCaptchas
    BY DEF CaptchaInv, TypeInv, TypeOK
  <2>2. issued < MaxCaptchas
    BY DEF IssueCaptcha
  <2> QED
    BY <2>1, <2>2, HttpApiAssumption
<1>2. /\ issued' = n /\ UNCHANGED uses /\ pc' = [pc EXCEPT ![t] = "idle"]
      /\ req' = [req EXCEPT ![t] = <<>>] /\ pc[t] = "issue" /\ SetCaptcha(t, n)
  BY DEF IssueCaptcha, Respond, Goto
<1>3. /\ Len(objects') = Len(objects) /\ req[t].session \in 1 .. Len(objects)
      /\ \A i \in 1 .. Len(objects) :
           objects'[i].captcha = IF i = req[t].session THEN n ELSE objects[i].captcha
  BY <1>1, <1>2, CaptchaSet, InHandler DEF WithSession
<1>4. \A u \in Threads : pc'[u] # "idle" => pc'[u] = pc[u] /\ req'[u] = req[u]
  BY <1>1, <1>2 DEF TypeInv, TypeOK, SessionInv
<1>5. \A i \in 1 .. Len(objects) : objects[i].captcha \in 0 .. MaxCaptchas
  <2>1. \A i \in 1 .. Len(objects) : objects[i] \in Sessions
    BY <1>1, ElementOfSeq DEF TypeOK, Sessions
  <2> QED
    BY <2>1 DEF Sessions
<1>6. uses[n] = 0
  BY <1>1 DEF HeldInv
<1> HIDE DEF n
<1>7. HeldInv'
  <2>1. \A i \in 1 .. Len(objects) : objects[i].captcha <= issued /\ objects[i].captcha # n
    BY <1>1, <1>5 DEF HeldInv, n
  <2>2. issued <= n /\ \A m \in 1 .. MaxCaptchas : m > n => m > issued
    BY <1>1 DEF n
  <2>3. \A i, j \in 1 .. Len(objects) :
          objects'[i].captcha # Empty /\ objects'[i].captcha = objects'[j].captcha => i = j
    BY <1>1, <1>3, <2>1 DEF HeldInv
  <2>4. \A i \in 1 .. Len(objects) :
          /\ objects'[i].captcha <= n
          /\ objects'[i].captcha # Empty => uses[objects'[i].captcha] = 0
    BY <1>1, <1>3, <1>5, <1>6, <2>1, <2>2 DEF HeldInv
  <2> QED
    BY <1>1, <1>2, <1>3, <2>2, <2>3, <2>4 DEF HeldInv
<1>8. RightInv'
  <2> SUFFICES ASSUME NEW u \in Threads
               PROVE  /\ pc'[u] = "human" => req'[u].answer # Empty
                      /\ pc'[u] = "consume" =>
                           /\ req'[u].answer \in 1 .. n
                           /\ \A i \in 1 .. Len(objects) :
                                objects'[i].captcha = req'[u].answer => i = req'[u].session
    BY <1>2, <1>3 DEF RightInv
  <2>1. pc[u] = "consume" => /\ req[u].answer \in 1 .. issued /\ req[u].answer # n
                             /\ req[u].answer \in 1 .. n
    BY <1>1 DEF RightInv, n
  <2> QED
    BY <1>1, <1>3, <1>4, <2>1 DEF RightInv
<1>9. SpentInv'
  <2> SUFFICES ASSUME NEW m \in 1 .. n
               PROVE  uses[m] + Cardinality(Consuming(pc', req', m)) <= Cardinality(Threads)
    BY <1>2 DEF SpentInv
  <2>1. Cardinality(Consuming(pc', req', m)) <= Cardinality(Consuming(pc, req, m))
    BY <1>4, CountKept
  <2>2. m \in 1 .. MaxCaptchas /\ uses[m] \in Nat
    BY <1>1, HttpApiAssumption DEF TypeOK, n
  <2>3. CASE m = n
    BY <1>6, <2>3, Counts
  <2>4. CASE m # n
    <3>1. m \in 1 .. issued
      BY <1>1, <2>4 DEF n
    <3> QED
      BY <1>1, <2>1, <2>2, <3>1, Counts DEF SpentInv
  <2> QED
    BY <2>3, <2>4
<1> QED
  BY <1>7, <1>8, <1>9 DEF CaptchaInv

\* A right answer's captcha stands in the handler's Session, unused.
LEMMA CaptchaRight ==
    ASSUME CaptchaInv, TypeInv', NEW t \in Threads, CheckHuman(t), req[t].answer = Captcha(t)
    PROVE  CaptchaInv'
<1> DEFINE n == req[t].answer
           o == req[t].session
<1>1. TypeInv /\ TypeOK /\ HeldInv /\ RightInv /\ SpentInv /\ issued \in Nat
  BY DEF CaptchaInv, TypeInv, TypeOK
<1>2. /\ UNCHANGED <<objects, issued, uses, req>> /\ pc' = [pc EXCEPT ![t] = "consume"]
      /\ pc[t] = "human" /\ n # Empty
  BY <1>1 DEF CheckHuman, Goto, RightInv
<1>3. o \in 1 .. Len(objects) /\ objects[o].captcha = n /\ n \in 0 .. MaxCaptchas
  BY <1>1, <1>2, InHandler DEF Captcha, WithSession
<1>4. /\ n \in 1 .. issued /\ uses[n] = 0
      /\ \A i \in 1 .. Len(objects) : objects[i].captcha = n => i = o
  BY <1>1, <1>2, <1>3 DEF HeldInv, Empty
<1> HIDE DEF n, o
<1>5. HeldInv'
  BY <1>1, <1>2 DEF HeldInv
<1>6. RightInv'
  BY <1>1, <1>2, <1>4 DEF RightInv, TypeOK, n, o
<1>7. SpentInv'
  <2> SUFFICES ASSUME NEW m \in 1 .. issued
               PROVE  uses[m] + Cardinality(Consuming(pc', req, m)) <= Cardinality(Threads)
    BY <1>2 DEF SpentInv
  <2>1. CASE m = n
    BY <1>4, <2>1, Counts
  <2>2. CASE m # n
    <3>1. Cardinality(Consuming(pc', req, m)) <= Cardinality(Consuming(pc, req, m))
      <4>1. \A u \in Threads : pc'[u] = "consume" /\ req[u].answer = m => pc[u] = "consume"
        BY <1>1, <1>2, <2>2 DEF TypeOK, n
      <4> QED
        BY <4>1, CountKept
    <3>2. uses[m] \in Nat
      BY <1>1, HttpApiAssumption DEF TypeOK
    <3> QED
      BY <1>1, <3>1, <3>2, Counts DEF SpentInv
  <2> QED
    BY <2>1, <2>2
<1> QED
  BY <1>5, <1>6, <1>7 DEF CaptchaInv

LEMMA CaptchaConsume ==
    ASSUME CaptchaInv, TypeInv', NEW t \in Threads, Consume(t)
    PROVE  CaptchaInv'
<1> DEFINE n == req[t].answer
           o == req[t].session
<1>1. TypeInv /\ TypeOK /\ HeldInv /\ RightInv /\ SpentInv /\ issued \in Nat
  BY DEF CaptchaInv, TypeInv, TypeOK
<1>2. /\ UNCHANGED issued /\ pc' = [pc EXCEPT ![t] = "idle"]
      /\ req' = [req EXCEPT ![t] = <<>>] /\ pc[t] = "consume" /\ SetCaptcha(t, Empty)
      /\ uses' = [uses EXCEPT ![n] = @ + 1]
  BY DEF Consume, Cleared, Respond, Goto
<1>3. /\ Len(objects') = Len(objects) /\ Empty \in 0 .. MaxCaptchas
      /\ \A i \in 1 .. Len(objects) :
           objects'[i].captcha = IF i = o THEN Empty ELSE objects[i].captcha
  <2>1. Empty \in 0 .. MaxCaptchas
    BY HttpApiAssumption DEF Empty
  <2> QED
    BY <1>1, <1>2, <2>1, CaptchaSet DEF WithSession
<1>4. /\ n \in 1 .. issued /\ n \in 1 .. MaxCaptchas
      /\ \A i \in 1 .. Len(objects) : objects[i].captcha = n => i = o
  BY <1>1, <1>2, HttpApiAssumption DEF RightInv, TypeOK
<1>5. /\ \A u \in Threads : pc'[u] # "idle" => u # t /\ pc'[u] = pc[u] /\ req'[u] = req[u]
      /\ \A m \in 1 .. MaxCaptchas : uses'[m] = IF m = n THEN uses[n] + 1 ELSE uses[m]
      /\ \A m \in 1 .. MaxCaptchas : uses[m] \in Nat
  BY <1>1, <1>2, <1>4 DEF TypeInv, TypeOK, SessionInv
<1>6. \A i \in 1 .. Len(objects) : objects[i].captcha \in 0 .. MaxCaptchas
  <2>1. \A i \in 1 .. Len(objects) : objects[i] \in Sessions
    BY <1>1, ElementOfSeq DEF TypeOK, Sessions
  <2> QED
    BY <2>1 DEF Sessions
<1> HIDE DEF n, o
<1>7. HeldInv'
  <2>1. \A i, j \in 1 .. Len(objects) :
          objects'[i].captcha # Empty /\ objects'[i].captcha = objects'[j].captcha => i = j
    BY <1>1, <1>3 DEF HeldInv
  <2>2. ASSUME NEW i \in 1 .. Len(objects)
        PROVE  /\ objects'[i].captcha <= issued
               /\ objects'[i].captcha # Empty => uses'[objects'[i].captcha] = 0
    <3>1. CASE i = o
      BY <1>1, <1>3, <3>1 DEF Empty
    <3>2. CASE i # o
      <4>1. objects[i].captcha # n /\ objects'[i].captcha = objects[i].captcha
        BY <1>3, <1>4, <3>2
      <4>2. objects[i].captcha # Empty => objects[i].captcha \in 1 .. MaxCaptchas
        BY <1>6 DEF Empty
      <4> QED
        BY <1>1, <1>5, <4>1, <4>2 DEF HeldInv
    <3> QED
      BY <3>1, <3>2
  <2>3. \A m \in 1 .. MaxCaptchas : m > issued => uses'[m] = 0
    <3>1. \A m \in 1 .. MaxCaptchas : m > issued => m # n
      BY <1>1, <1>4
    <3> QED
      BY <1>1, <1>5, <3>1 DEF HeldInv
  <2> QED
    BY <1>2, <1>3, <2>1, <2>2, <2>3 DEF HeldInv
<1>8. RightInv'
  <2> SUFFICES ASSUME NEW u \in Threads
               PROVE  /\ pc'[u] = "human" => req'[u].answer # Empty
                      /\ pc'[u] = "consume" =>
                           /\ req'[u].answer \in 1 .. issued
                           /\ \A i \in 1 .. Len(objects) :
                                objects'[i].captcha = req'[u].answer => i = req'[u].session
    BY <1>2, <1>3 DEF RightInv
  <2>1. Empty \notin 1 .. issued
    BY DEF Empty
  <2> QED
    BY <1>1, <1>3, <1>5, <2>1 DEF RightInv
<1>9. SpentInv'
  <2> SUFFICES ASSUME NEW m \in 1 .. issued
               PROVE  uses'[m] + Cardinality(Consuming(pc', req', m)) <= Cardinality(Threads)
    BY <1>2 DEF SpentInv
  <2>1. m \in 1 .. MaxCaptchas
    BY <1>1, HttpApiAssumption DEF TypeOK
  <2>2. CASE m = n
    <3>1. Consuming(pc', req', m) \subseteq Consuming(pc, req, m) \ {t}
      BY <1>5 DEF Consuming
    <3>2. t \in Consuming(pc, req, m)
      BY <1>2, <2>2 DEF Consuming, n
    <3>3. /\ IsFiniteSet(Consuming(pc, req, m) \ {t})
          /\ Cardinality(Consuming(pc, req, m) \ {t}) = Cardinality(Consuming(pc, req, m)) - 1
      BY <3>2, Counts, FS_RemoveElement
    <3>4. Cardinality(Consuming(pc', req', m)) <= Cardinality(Consuming(pc, req, m)) - 1
      BY <3>1, <3>3, FS_Subset
    <3>5. uses'[m] = uses[m] + 1 /\ uses[m] \in Nat
      BY <1>5, <2>1, <2>2
    <3>6. uses[m] + Cardinality(Consuming(pc, req, m)) <= Cardinality(Threads)
      BY <1>1 DEF SpentInv
    <3>7. /\ Cardinality(Consuming(pc', req', m)) \in Nat
          /\ Cardinality(Consuming(pc, req, m)) \in Nat /\ Cardinality(Threads) \in Nat
      BY Counts
    <3> QED
      BY <3>4, <3>5, <3>6, <3>7
  <2>3. CASE m # n
    <3>1. Cardinality(Consuming(pc', req', m)) <= Cardinality(Consuming(pc, req, m))
      BY <1>5, CountKept
    <3>2. uses'[m] = uses[m] /\ uses[m] \in Nat
      BY <1>5, <2>1, <2>3
    <3> QED
      BY <1>1, <3>1, <3>2, Counts DEF SpentInv
  <2> QED
    BY <2>2, <2>3
<1> QED
  BY <1>7, <1>8, <1>9 DEF CaptchaInv

LEMMA CaptchaNext == CaptchaInv /\ [Next]_vars => CaptchaInv'
<1> SUFFICES ASSUME CaptchaInv, [Next]_vars PROVE CaptchaInv'
  OBVIOUS
<1>1. TypeInv /\ TypeInv' /\ RightInv
  BY TypeNext DEF CaptchaInv
<1>2. TypeOK /\ req \in [Threads -> Requests \cup {<<>>}] /\ Empty \in 0 .. MaxCaptchas
  BY <1>1, HttpApiAssumption DEF TypeInv, SessionInv, Empty
<1>3. ASSUME NEW t \in Threads, Receive(t) \/ UseSession(t) \/ ReadClock(t) \/ CheckLimit(t)
      PROVE  CaptchaInv'
  <2>1. UNCHANGED <<issued, uses, objects>>
    BY <1>3 DEF Receive, UseSession, ReadClock, CheckLimit
  <2>2. /\ \E label \in PCs \ {"human", "consume"} : pc' = [pc EXCEPT ![t] = label]
        /\ \A u \in Threads \ {t} : req'[u] = req[u]
    BY <1>2, <1>3 DEF Receive, UseSession, ReadClock, CheckLimit, Respond, Goto, PCs
  <2>3. \A u \in Threads : /\ pc'[u] = "consume" => pc[u] = "consume" /\ req'[u] = req[u]
                           /\ pc'[u] = "human" => req'[u].answer # Empty
    BY <1>1, <1>2, <2>2 DEF TypeOK, RightInv
  <2> QED
    BY <1>1, <2>1, <2>3, CaptchaKept
<1>4. ASSUME NEW t \in Threads, StampCall(t) PROVE CaptchaInv'
  <2>1. UNCHANGED <<issued, uses, objects>>
    BY <1>4 DEF StampCall
  <2>2. \/ pc' = [pc EXCEPT ![t] = "idle"] /\ req' = [req EXCEPT ![t] = <<>>]
        \/ req[t].answer # Empty /\ pc' = [pc EXCEPT ![t] = "human"] /\ UNCHANGED req
    BY <1>4 DEF StampCall, Respond, Goto
  <2>3. \A u \in Threads : /\ pc'[u] = "consume" => pc[u] = "consume" /\ req'[u] = req[u]
                           /\ pc'[u] = "human" => req'[u].answer # Empty
    BY <1>1, <1>2, <2>2 DEF TypeOK, RightInv
  <2> QED
    BY <1>1, <2>1, <2>3, CaptchaKept
<1>5. ASSUME NEW t \in Threads, CreateSession(t) PROVE CaptchaInv'
  <2>1. \A i \in 1 .. Len(objects') :
          \/ objects'[i].captcha = Empty
          \/ i \in 1 .. Len(objects) /\ objects'[i].captcha = objects[i].captcha
    <3>1. /\ Len(objects) \in Nat /\ Len(objects') = Len(objects) + 1
          /\ \A i \in 1 .. Len(objects) : objects'[i] = objects[i]
          /\ objects'[Len(objects) + 1].captcha = Empty
      BY <1>1, <1>2, <1>5, TypeCreate DEF TypeOK
    <3> QED
      BY <3>1
  <2>2. UNCHANGED <<issued, uses, req>> /\ pc' = [pc EXCEPT ![t] = "use"]
    BY <1>5 DEF CreateSession, Goto
  <2>3. \A u \in Threads : /\ pc'[u] = "consume" => pc[u] = "consume" /\ req'[u] = req[u]
                           /\ pc'[u] = "human" => req'[u].answer # Empty
    BY <1>1, <1>2, <2>2 DEF TypeOK, RightInv
  <2> QED
    BY <1>1, <2>1, <2>2, <2>3, CaptchaKept
<1>6. ASSUME NEW t \in Threads, AskCaptcha(t) \/ WrongAnswer(t) PROVE CaptchaInv'
  <2>1. /\ SetCaptcha(t, Empty) \/ UNCHANGED objects
        /\ UNCHANGED <<issued, uses>> /\ pc[t] \in WithSession
    BY <1>6 DEF AskCaptcha, WrongAnswer, WithSession
  <2>2. \A i \in 1 .. Len(objects') :
          \/ objects'[i].captcha = Empty
          \/ i \in 1 .. Len(objects) /\ objects'[i].captcha = objects[i].captcha
    <3>1. CASE SetCaptcha(t, Empty)
      BY <1>1, <1>2, <2>1, <3>1, CaptchaSet
    <3>2. CASE UNCHANGED objects
      BY <3>2
    <3> QED
      BY <2>1, <3>1, <3>2
  <2>3. \/ pc' = [pc EXCEPT ![t] = "idle"] /\ req' = [req EXCEPT ![t] = <<>>]
        \/ pc' = [pc EXCEPT ![t] = "issue"] /\ UNCHANGED req
    BY <1>6 DEF AskCaptcha, WrongAnswer, Respond, Goto
  <2>4. \A u \in Threads : /\ pc'[u] = "consume" => pc[u] = "consume" /\ req'[u] = req[u]
                           /\ pc'[u] = "human" => req'[u].answer # Empty
    BY <1>1, <1>2, <2>3 DEF TypeOK, RightInv
  <2> QED
    BY <1>1, <2>1, <2>2, <2>4, CaptchaKept
<1>7. ASSUME NEW t \in Threads, CheckHuman(t), req[t].answer # Captcha(t) PROVE CaptchaInv'
  <2>1. UNCHANGED <<issued, uses, objects, req>> /\ pc' = [pc EXCEPT ![t] = "wrong"]
    BY <1>7 DEF CheckHuman, Goto
  <2>2. \A u \in Threads : /\ pc'[u] = "consume" => pc[u] = "consume" /\ req'[u] = req[u]
                           /\ pc'[u] = "human" => req'[u].answer # Empty
    BY <1>1, <1>2, <2>1 DEF TypeOK, RightInv
  <2> QED
    BY <1>1, <2>1, <2>2, CaptchaKept
<1>8. CASE UNCHANGED <<issued, uses, objects, pc, req>>
  BY <1>1, <1>8, CaptchaKept DEF RightInv
<1>9. ASSUME NEW t \in Threads, Step(t) PROVE CaptchaInv'
  BY <1>1, <1>3, <1>4, <1>5, <1>6, <1>7, <1>9, CaptchaIssue, CaptchaRight, CaptchaConsume
  DEF Step
<1> QED
  BY <1>8, <1>9 DEF Next, Tick, BoundReached, vars

\* Checking an answer and clearing the captcha are two steps, and sessions are replaced
\* meanwhile; still one captcha lets no more calls through than there are threads.
THEOREM CaptchaCorrect == Spec => []CaptchaBounded
<1>1. CaptchaInv => CaptchaBounded
  <2> SUFFICES ASSUME CaptchaInv, NEW n \in 1 .. issued PROVE uses[n] <= Cardinality(Threads)
    BY DEF CaptchaBounded
  <2>1. uses[n] \in Nat
    BY HttpApiAssumption DEF CaptchaInv, TypeInv, TypeOK
  <2>2. uses[n] + Cardinality(Consuming(pc, req, n)) <= Cardinality(Threads)
    BY DEF CaptchaInv, SpentInv
  <2> QED
    BY <2>1, <2>2, Counts
<1> QED
  BY <1>1, CaptchaInit, CaptchaNext, PTL DEF Spec
-----------------------------------------------------------------------------
(* Counting calls *)

\* A set of numbers that has the predecessor of each of its members is empty.
LEMMA Descent ==
    ASSUME NEW Q \in SUBSET Nat, \A n \in Q : n # 0 /\ n - 1 \in Q
    PROVE  Q = {}
<1> SUFFICES ASSUME NEW m \in Q PROVE FALSE
  OBVIOUS
<1> DEFINE S == Q \cap (0 .. m)
           f == [x \in S |-> x - 1]
<1>1. IsFiniteSet(S) /\ m \in S
  <2>1. IsFiniteSet(0 .. m)
    BY FS_Interval
  <2> QED
    BY <2>1, FS_Subset
<1>2. /\ IsFiniteSet(S \ {m}) /\ Cardinality(S) \in Nat
      /\ Cardinality(S \ {m}) = Cardinality(S) - 1
  BY <1>1, FS_RemoveElement, FS_CardinalityType
<1>3. f \in Injection(S, S \ {m})
  <2>1. \A x \in S : x - 1 \in S \ {m}
    OBVIOUS
  <2>2. f \in [S -> S \ {m}] /\ \A x, y \in S : f[x] = f[y] => x = y
    BY <2>1
  <2> QED
    BY <2>2 DEF Injection, IsInjective
<1>4. Cardinality(S) <= Cardinality(S \ {m})
  <2> HIDE DEF f, S
  <2> QED
    BY <1>1, <1>2, <1>3, FS_Injection
<1> QED
  BY <1>2, <1>4

Sums(c, p, n) == c[0] = 0 /\ \A i \in 1 .. n : c[i] = c[i - 1] + p[i - 1]

CallsOf(p) == CHOOSE c : c = [n \in 0 .. MaxTime + 1 |-> IF n = 0 THEN 0 ELSE c[n - 1] + p[n - 1]]

\* There is a function that counts.
LEMMA CallsExist ==
    ASSUME NEW p \in [0 .. MaxTime -> Nat]
    PROVE  \E c \in [0 .. MaxTime + 1 -> Nat] : Sums(c, p, MaxTime + 1)
<1> DEFINE Q == {n \in 0 .. MaxTime + 1 : ~ \E c \in [0 .. n -> Nat] : Sums(c, p, n)}
<1>1. Q \in SUBSET Nat /\ MaxTime \in Nat
  BY HttpApiAssumption
<1>2. ASSUME NEW n \in Q PROVE n # 0 /\ n - 1 \in Q
  <2>1. n # 0
    <3>1. [i \in 0 .. 0 |-> 0] \in [0 .. 0 -> Nat] /\ Sums([i \in 0 .. 0 |-> 0], p, 0)
      BY DEF Sums
    <3> QED
      BY <3>1
  <2>2. n - 1 \in 0 .. MaxTime + 1 /\ n - 1 \in 0 .. MaxTime /\ n \in Nat
    BY <1>1, <2>1
  <2>3. ASSUME NEW c \in [0 .. n - 1 -> Nat], Sums(c, p, n - 1) PROVE FALSE
    <3> DEFINE d == [i \in 0 .. n |-> IF i = n THEN c[n - 1] + p[n - 1] ELSE c[i]]
    <3>1. c[n - 1] \in Nat /\ p[n - 1] \in Nat
      BY <2>2
    <3>2. d \in [0 .. n -> Nat]
      BY <2>2, <3>1
    <3>3. d[0] = 0
      BY <2>1, <2>2, <2>3 DEF Sums
    <3>4. ASSUME NEW i \in 1 .. n PROVE d[i] = d[i - 1] + p[i - 1]
      <4>1. CASE i = n
        BY <2>2, <4>1
      <4>2. CASE i # n
        BY <2>2, <2>3, <4>2 DEF Sums
      <4> QED
        BY <4>1, <4>2
    <3> HIDE DEF d
    <3>5. Sums(d, p, n)
      BY <3>3, <3>4 DEF Sums
    <3> QED
      BY <3>2, <3>5
  <2> QED
    BY <2>1, <2>2, <2>3
<1> HIDE DEF Q
<1>3. Q = {}
  BY <1>1, <1>2, Descent
<1>4. MaxTime + 1 \in 0 .. MaxTime + 1 /\ MaxTime + 1 \notin Q
  BY <1>1, <1>3
<1> QED
  BY <1>4 DEF Q

LEMMA CallsCount ==
    ASSUME NEW p \in [0 .. MaxTime -> Nat]
    PROVE  /\ Sums(CallsOf(p), p, MaxTime + 1)
           /\ \A n \in 0 .. MaxTime + 1 : CallsOf(p)[n] \in Nat
<1> DEFINE c == CallsOf(p)
<1>1. PICK e \in [0 .. MaxTime + 1 -> Nat] : Sums(e, p, MaxTime + 1)
  BY CallsExist
<1>2. MaxTime \in Nat
  BY HttpApiAssumption
<1>3. e = [n \in 0 .. MaxTime + 1 |-> IF n = 0 THEN 0 ELSE e[n - 1] + p[n - 1]]
  <2>1. e = [n \in 0 .. MaxTime + 1 |-> e[n]]
    OBVIOUS
  <2>2. \A n \in 0 .. MaxTime + 1 : e[n] = IF n = 0 THEN 0 ELSE e[n - 1] + p[n - 1]
    BY <1>1, <1>2 DEF Sums
  <2> QED
    BY <2>1, <2>2
<1>4. c = [n \in 0 .. MaxTime + 1 |-> IF n = 0 THEN 0 ELSE c[n - 1] + p[n - 1]]
  BY <1>3 DEF CallsOf
<1> HIDE DEF c
<1>5. Sums(c, p, MaxTime + 1)
  BY <1>2, <1>4 DEF Sums
<1> DEFINE Q == {n \in 0 .. MaxTime + 1 : c[n] \notin Nat}
<1>6. ASSUME NEW n \in Q PROVE n # 0 /\ n - 1 \in Q
  <2>1. n # 0
    BY <1>5 DEF Sums
  <2>2. n - 1 \in 0 .. MaxTime + 1 /\ p[n - 1] \in Nat /\ n \in 1 .. MaxTime + 1
    BY <1>2, <2>1
  <2>3. c[n - 1] \in Nat => c[n] \in Nat
    BY <1>5, <2>2 DEF Sums
  <2> QED
    BY <2>1, <2>2, <2>3
<1>7. Q = {}
  <2>1. Q \in SUBSET Nat
    BY <1>2
  <2> HIDE DEF Q
  <2> QED
    BY <1>6, <2>1, Descent
<1> QED
  BY <1>5, <1>7 DEF c

\* Nothing counted is zero, and one more call counts in every later time.
LEMMA CallsNone ==
    ASSUME NEW p \in [0 .. MaxTime -> Nat], \A n \in 0 .. MaxTime : p[n] = 0
    PROVE  \A n \in 0 .. MaxTime + 1 : CallsOf(p)[n] = 0
<1> DEFINE c == CallsOf(p)
           Q == {n \in 0 .. MaxTime + 1 : c[n] # 0}
<1>1. Sums(c, p, MaxTime + 1) /\ MaxTime \in Nat /\ Q \in SUBSET Nat
  BY CallsCount, HttpApiAssumption
<1> HIDE DEF c
<1>2. ASSUME NEW n \in Q PROVE n # 0 /\ n - 1 \in Q
  <2>1. n # 0
    BY <1>1 DEF Sums
  <2>2. n - 1 \in 0 .. MaxTime /\ n \in 1 .. MaxTime + 1
    BY <1>1, <2>1
  <2>3. c[n] = c[n - 1] + p[n - 1] /\ p[n - 1] = 0
    BY <1>1, <2>2 DEF Sums
  <2>4. c[n - 1] # 0
    BY <2>3
  <2> QED
    BY <1>1, <2>1, <2>2, <2>4
<1> HIDE DEF Q
<1>3. Q = {}
  BY <1>1, <1>2, Descent
<1> QED
  BY <1>3 DEF Q, c

LEMMA CallsAdd ==
    ASSUME NEW p \in [0 .. MaxTime -> Nat], NEW time \in 0 .. MaxTime
    PROVE  LET q == [p EXCEPT ![time] = @ + 1] IN
           /\ q \in [0 .. MaxTime -> Nat]
           /\ \A n \in 0 .. MaxTime + 1 :
                CallsOf(q)[n] = CallsOf(p)[n] + (IF n > time THEN 1 ELSE 0)
<1> DEFINE q == [p EXCEPT ![time] = @ + 1]
           c == CallsOf(p)
           d == CallsOf(q)
           Q == {n \in 0 .. MaxTime + 1 : d[n] # c[n] + (IF n > time THEN 1 ELSE 0)}
<1>1. MaxTime \in Nat /\ p[time] + 1 \in Nat
  BY HttpApiAssumption
<1>2. q \in [0 .. MaxTime -> Nat] /\ \A n \in 0 .. MaxTime : q[n] = p[n] + (IF n = time THEN 1 ELSE 0)
  <2>1. q \in [0 .. MaxTime -> Nat]
    BY <1>1
  <2>2. \A n \in 0 .. MaxTime : p[n] \in Nat /\ q[n] = IF n = time THEN p[n] + 1 ELSE p[n]
    OBVIOUS
  <2> QED
    BY <2>1, <2>2
<1> HIDE DEF q
<1>3. /\ Sums(c, p, MaxTime + 1) /\ \A n \in 0 .. MaxTime + 1 : c[n] \in Nat
      /\ Sums(d, q, MaxTime + 1) /\ \A n \in 0 .. MaxTime + 1 : d[n] \in Nat
  BY <1>2, CallsCount
<1>4. Q \in SUBSET Nat
  BY <1>1
<1> HIDE DEF c, d
<1>5. ASSUME NEW n \in Q PROVE n # 0 /\ n - 1 \in Q
  <2>1. n # 0
    BY <1>3 DEF Sums
  <2>2. n - 1 \in 0 .. MaxTime /\ n - 1 \in 0 .. MaxTime + 1 /\ n \in 1 .. MaxTime + 1
    BY <1>1, <2>1
  <2>3. c[n] = c[n - 1] + p[n - 1] /\ d[n] = d[n - 1] + q[n - 1]
    BY <1>3, <2>2 DEF Sums
  <2>4. q[n - 1] = p[n - 1] + (IF n - 1 = time THEN 1 ELSE 0) /\ p[n - 1] \in Nat
    BY <1>2, <2>2
  <2>5. c[n - 1] \in Nat /\ d[n - 1] \in Nat
    BY <1>3, <2>2
  <2>6. d[n - 1] # c[n - 1] + (IF n - 1 > time THEN 1 ELSE 0)
    BY SMTT(30), <1>1, <2>2, <2>3, <2>4, <2>5
  <2> QED
    BY <2>1, <2>2, <2>6
<1> HIDE DEF Q
<1>6. Q = {}
  BY <1>4, <1>5, Descent
<1> QED
  BY <1>2, <1>6 DEF q, Q, c, d
-----------------------------------------------------------------------------
(* The rate limit *)

\* Calls of an address that passed the limit in a window.
Calls(a, from, to) == CallsBefore(a)[to] - CallsBefore(a)[from]

\* Threads that read the clock before the window and may yet stamp that time.
Old(a, from) ==
    {t \in Threads : pc[t] \in {"limit", "stamp"} /\ Address(t) = a /\ req[t].time < from}

\* Threads that passed the limit in the window and will stamp that time.
Pending(a, from, to) ==
    {t \in Threads : pc[t] = "stamp" /\ Address(t) = a /\ req[t].time >= from /\ req[t].time < to}

\* The last call is in the window or after it: nobody passes in it.
Closed(a, from) == client_ms_at_call[a] # Never /\ client_ms_at_call[a] >= from

\* How many still pass without an old thread's help.
Coming(a, from, to) ==
    IF Closed(a, from) THEN Cardinality(Pending(a, from, to))
    ELSE Cardinality(Threads) - Cardinality(Old(a, from))

\* Twice the calls so far, those still to come as it is, and those who can come each time
\* one of the old threads has opened the limit again.
Credit(calls, coming, old) ==
    LET N == Cardinality(Threads) IN
    2 * calls + 2 * coming + old * (2 * N - old + 1) <= N * (N + 1)

WindowInv(a, from, to) ==
    IF now < from THEN Calls(a, from, to) = 0
    ELSE Credit(Calls(a, from, to), Coming(a, from, to), Cardinality(Old(a, from)))

ClockInv ==
    /\ \A t \in Threads : pc[t] \in {"limit", "stamp"} => req[t].time <= now
    /\ \A a \in Addresses : client_ms_at_call[a] = Never \/ client_ms_at_call[a] <= now

LimitInv ==
    /\ TypeInv /\ ClockInv
    /\ \A a \in Addresses : \A from \in 0 .. MaxTime, to \in 0 .. MaxTime + 1 :
         from <= to /\ to <= from + Minimum => WindowInv(a, from, to)

\* How the credit moves: an old thread ends or stamps, one in the window or after it
\* stamps, and the window begins.
LEMMA CreditMoves ==
    ASSUME NEW s \in Int, NEW p \in Nat, NEW o \in Nat, NEW coming \in Int,
           Cardinality(Threads) \in Nat, o + p <= Cardinality(Threads),
           coming = p \/ coming = Cardinality(Threads) - o
    PROVE  LET N == Cardinality(Threads) IN
           /\ Credit(0, N - o, o)
           /\ Credit(s, coming, o) =>
                /\ o >= 1 => Credit(s, p, o - 1) /\ Credit(s, N - (o - 1), o - 1)
                /\ p >= 1 => Credit(s + 1, p - 1, o)
                /\ Credit(s, p, o)
                /\ 2 * s <= N * (N + 1)
<1> DEFINE N == Cardinality(Threads)
           left == o * (2 * N - o + 1)
           all == N * (N + 1)
<1>1. N \in Nat /\ left \in Nat /\ all \in Nat
  <2>1. 2 * N - o + 1 \in Nat
    OBVIOUS
  <2>2. \A x, y \in Nat : x * y \in Nat
    OBVIOUS
  <2> QED
    BY <2>1, <2>2
<1>2. (o - 1) * (2 * N - (o - 1) + 1) = left - 2 * (N - o + 1)
  <2>1. \A x, y \in Int : (x - 1) * (2 * y - (x - 1) + 1) = x * (2 * y - x + 1) - 2 * (y - x + 1)
    OBVIOUS
  <2> HIDE DEF N
  <2>2. N \in Int /\ o \in Int
    BY <1>1
  <2> QED
    BY <2>1, <2>2
<1>3. 2 * (N - o) + left <= all
  <2>1. PICK d \in Nat : N = o + d
    <3>1. N - o \in Nat /\ N = o + (N - o)
      OBVIOUS
    <3> QED
      BY <3>1
  <2>2. \A x, y \in Nat : (x + y) * (x + y + 1) - x * (2 * (x + y) - x + 1) = y * (y + 1)
    OBVIOUS
  <2>3. d * (d + 1) >= 2 * d
    <3>1. CASE d = 0 \/ d = 1
      BY <3>1
    <3>2. CASE d >= 2
      <4>1. PICK k \in Nat : d = k + 1
        <5>1. d - 1 \in Nat /\ d = (d - 1) + 1
          BY <3>2
        <5> QED
          BY <5>1
      <4>2. d * (d + 1) = 2 * d + d * k /\ d * k \in Nat
        BY <4>1
      <4> QED
        BY <4>2
    <3> QED
      BY <3>1, <3>2
  <2>4. all - left = d * (d + 1)
    BY <2>1, <2>2
  <2>5. 2 * (N - o) = 2 * d
    BY <2>1
  <2>6. d * (d + 1) \in Nat
    OBVIOUS
  <2> HIDE DEF N, left, all
  <2> QED
    BY <1>1, <2>3, <2>4, <2>5, <2>6
<1>4. \A x, c : /\ Credit(x, c, o) <=> 2 * x + 2 * c + left <= all
                /\ Credit(x, c, o - 1) <=> 2 * x + 2 * c + (left - 2 * (N - o + 1)) <= all
  BY <1>2 DEF Credit
<1>5. o + p <= N /\ (coming = p \/ coming = N - o)
  OBVIOUS
<1>6. Credit(0, N - o, o)
  <2> HIDE DEF N, left, all
  <2> QED
    BY <1>1, <1>3, <1>4
<1>7. ASSUME Credit(s, coming, o)
      PROVE  /\ o >= 1 => Credit(s, p, o - 1) /\ Credit(s, N - (o - 1), o - 1)
             /\ p >= 1 => Credit(s + 1, p - 1, o)
             /\ Credit(s, p, o)
             /\ 2 * s <= all
  <2> HIDE DEF N, left, all
  <2>1. 2 * s + 2 * coming + left <= all
    BY <1>4, <1>7
  <2>2. 2 * s + 2 * p + left <= all /\ 2 * s + left <= all /\ 2 * s <= all
    BY <1>1, <1>5, <2>1
  <2>3. Credit(s, p, o)
    BY <1>4, <2>2
  <2>4. p >= 1 => Credit(s + 1, p - 1, o)
    BY <1>1, <1>4, <2>2
  <2>5. o >= 1 => Credit(s, N - (o - 1), o - 1)
    BY <1>1, <1>4, <2>2
  <2>6. o >= 1 => Credit(s, p, o - 1)
    BY <1>1, <1>4, <1>5, <2>2
  <2> QED
    BY <2>2, <2>3, <2>4, <2>5, <2>6
<1> QED
  BY <1>6, <1>7

LEMMA SetMoves ==
    ASSUME NEW S \in SUBSET Threads, NEW R \in SUBSET Threads, NEW t \in Threads,
           \A u \in Threads \ {t} : u \in S <=> u \in R
    PROVE  /\ Cardinality(S) \in Nat /\ Cardinality(R) \in Nat
           /\ Cardinality(R) = IF t \in S THEN IF t \in R THEN Cardinality(S) ELSE Cardinality(S) - 1
                               ELSE IF t \in R THEN Cardinality(S) + 1 ELSE Cardinality(S)
<1>1. IsFiniteSet(S) /\ IsFiniteSet(R)
  BY FS_Subset, HttpApiAssumption
<1>2. t \in S => (t \in R => R = S) /\ (t \notin R => R = S \ {t})
  OBVIOUS
<1>3. t \notin S => (t \in R => R = S \cup {t}) /\ (t \notin R => R = S)
  OBVIOUS
<1> QED
  BY <1>1, <1>2, <1>3, FS_CardinalityType, FS_AddElement, FS_RemoveElement

\* The old threads and the pending ones are different threads.
LEMMA Waiting ==
    ASSUME TypeInv, NEW a, NEW from \in 0 .. MaxTime, NEW to
    PROVE  /\ Old(a, from) \in SUBSET Threads /\ Pending(a, from, to) \in SUBSET Threads
           /\ Cardinality(Old(a, from)) \in Nat /\ Cardinality(Pending(a, from, to)) \in Nat
           /\ Cardinality(Threads) \in Nat
           /\ Cardinality(Old(a, from)) + Cardinality(Pending(a, from, to)) <= Cardinality(Threads)
<1> DEFINE O == Old(a, from)
           P == Pending(a, from, to)
<1>1. O \in SUBSET Threads /\ P \in SUBSET Threads
  BY DEF Old, Pending
<1>2. O \cap P = {}
  <2> SUFFICES ASSUME NEW t \in O, t \in P PROVE FALSE
    OBVIOUS
  <2>1. t \in Threads /\ pc[t] = "stamp" /\ req[t].time < from /\ req[t].time >= from
    BY DEF Old, Pending
  <2>2. req[t].time \in 0 .. MaxTime
    BY <2>1, InHandler
  <2> QED
    BY <2>1, <2>2
<1> HIDE DEF O, P
<1>3. IsFiniteSet(O) /\ IsFiniteSet(P) /\ IsFiniteSet(Threads) /\ O \cup P \in SUBSET Threads
  BY <1>1, FS_Subset, HttpApiAssumption
<1>4. Cardinality(O \cup P) = Cardinality(O) + Cardinality(P)
  <2>1. Cardinality(O \cup P) = Cardinality(O) + Cardinality(P) - Cardinality(O \cap P)
    BY <1>3, FS_Union
  <2>2. Cardinality(O \cap P) = 0
    BY <1>2, FS_EmptySet
  <2> QED
    BY <1>3, <2>1, <2>2, FS_CardinalityType
<1>5. Cardinality(O \cup P) <= Cardinality(Threads)
  BY <1>3, FS_Subset
<1> QED
  BY <1>1, <1>3, <1>4, <1>5, FS_CardinalityType DEF O, P

\* The calls in a window are a number, and only calls in the window add to it.
LEMMA CallsKnown ==
    ASSUME TypeInv, NEW a \in Addresses, NEW from \in 0 .. MaxTime, NEW to \in 0 .. MaxTime + 1
    PROVE  /\ Calls(a, from, to) = CallsOf(passed[a])[to] - CallsOf(passed[a])[from]
           /\ passed[a] \in [0 .. MaxTime -> Nat] /\ Calls(a, from, to) \in Int
           /\ from \in 0 .. MaxTime + 1
<1>1. passed[a] \in [0 .. MaxTime -> Nat]
  BY DEF TypeInv, TypeOK
<1>2. CallsBefore(a) = CallsOf(passed[a])
  BY DEF CallsBefore, CallsOf
<1>3. from \in 0 .. MaxTime + 1
  BY HttpApiAssumption
<1>4. CallsOf(passed[a])[to] \in Nat /\ CallsOf(passed[a])[from] \in Nat
  BY <1>1, <1>3, CallsCount
<1> QED
  BY <1>1, <1>2, <1>3, <1>4 DEF Calls

LEMMA LimitInit == Init => LimitInv
<1> SUFFICES ASSUME Init PROVE LimitInv
  OBVIOUS
<1>1. TypeInv
  BY TypeInit
<1>2. ClockInv
  BY DEF Init, ClockInv
<1>3. ASSUME NEW a \in Addresses, NEW from \in 0 .. MaxTime, NEW to \in 0 .. MaxTime + 1
      PROVE  WindowInv(a, from, to)
  <2>1. Calls(a, from, to) = 0
    <3>1. \A n \in 0 .. MaxTime : passed[a][n] = 0
      BY DEF Init
    <3> QED
      BY <1>1, <3>1, CallsKnown, CallsNone
  <2>2. ~Closed(a, from)
    BY DEF Init, Closed
  <2>3. Credit(0, Cardinality(Threads) - Cardinality(Old(a, from)), Cardinality(Old(a, from)))
    <3> DEFINE n == Cardinality(Old(a, from))
    <3>1. /\ n \in Nat /\ Cardinality(Threads) \in Nat /\ n + 0 <= Cardinality(Threads)
          /\ Cardinality(Threads) - n \in Int
      <4> DEFINE m == Cardinality(Pending(a, from, to))
      <4>1. n \in Nat /\ m \in Nat /\ Cardinality(Threads) \in Nat /\ n + m <= Cardinality(Threads)
        BY <1>1, Waiting
      <4> HIDE DEF n, m
      <4> QED
        BY <4>1
    <3> HIDE DEF n
    <3>2. Credit(0, Cardinality(Threads) - n, n)
      BY <3>1, CreditMoves
    <3> QED
      BY <3>2 DEF n
  <2> QED
    BY <2>1, <2>2, <2>3 DEF WindowInv, Coming
<1> QED
  BY <1>1, <1>2, <1>3 DEF LimitInv

\* A step of a thread that is, before and after, neither at the limit nor at the stamp.
LEMMA LimitElsewhere ==
    ASSUME LimitInv, TypeInv', UNCHANGED <<now, client_ms_at_call, passed>>,
           \A u \in Threads :
             /\ pc'[u] \in {"limit", "stamp"} <=> pc[u] \in {"limit", "stamp"}
             /\ pc[u] \in {"limit", "stamp"} => pc'[u] = pc[u] /\ req'[u] = req[u]
    PROVE  LimitInv'
<1>1. ClockInv'
  BY DEF LimitInv, ClockInv
<1>2. ASSUME NEW a \in Addresses, NEW from \in 0 .. MaxTime, NEW to \in 0 .. MaxTime + 1,
             WindowInv(a, from, to)
      PROVE  WindowInv(a, from, to)'
  <2>1. Old(a, from)' = Old(a, from) /\ Pending(a, from, to)' = Pending(a, from, to)
    BY DEF Old, Pending, Address
  <2>2. Closed(a, from)' <=> Closed(a, from)
    BY DEF Closed
  <2>3. Calls(a, from, to)' = Calls(a, from, to)
    BY DEF Calls, CallsBefore
  <2>4. Coming(a, from, to)' = Coming(a, from, to)
    BY <2>1, <2>2 DEF Coming
  <2> QED
    BY <1>2, <2>1, <2>3, <2>4 DEF WindowInv
<1> QED
  BY <1>1, <1>2 DEF LimitInv

\* A thread that reads the clock has no time before a window that has begun.
LEMMA LimitReadClock ==
    ASSUME LimitInv, TypeInv', NEW t \in Threads, ReadClock(t)
    PROVE  LimitInv'
<1>1. /\ UNCHANGED <<now, client_ms_at_call, passed>> /\ pc[t] = "clock"
      /\ pc' = [pc EXCEPT ![t] = "limit"]
      /\ \A u \in Threads \ {t} : pc'[u] = pc[u] /\ req'[u] = req[u]
      /\ pc'[t] = "limit" /\ req'[t].time = now
  <2>1. pc[t] # "idle"
    BY DEF ReadClock
  <2>2. req[t] \in Requests
    BY <2>1, InHandler DEF LimitInv
  <2> QED
    BY <2>2 DEF ReadClock, Goto, LimitInv, TypeInv, TypeOK, SessionInv, Requests
<1>2. ClockInv'
  <2>1. now \in 0 .. MaxTime
    BY DEF LimitInv, TypeInv, TypeOK
  <2> QED
    BY <1>1, <2>1 DEF LimitInv, ClockInv
<1>3. ASSUME NEW a \in Addresses, NEW from \in 0 .. MaxTime, NEW to \in 0 .. MaxTime + 1,
             WindowInv(a, from, to)
      PROVE  WindowInv(a, from, to)'
  <2>1. Calls(a, from, to)' = Calls(a, from, to)
    BY <1>1 DEF Calls, CallsBefore
  <2>2. CASE now < from
    BY <1>1, <1>3, <2>1, <2>2 DEF WindowInv
  <2>3. CASE ~(now < from)
    <3>1. Old(a, from)' = Old(a, from)
      BY <1>1, <2>3 DEF Old, Address
    <3>2. Pending(a, from, to)' = Pending(a, from, to)
      BY <1>1 DEF Pending, Address
    <3>3. Coming(a, from, to)' = Coming(a, from, to)
      BY <1>1, <3>1, <3>2 DEF Coming, Closed
    <3> QED
      BY <1>1, <1>3, <2>1, <3>1, <3>3 DEF WindowInv
  <2> QED
    BY <2>2, <2>3
<1> QED
  BY <1>2, <1>3 DEF LimitInv

\* When the window begins, nobody has called in it and it is open.
LEMMA LimitTick ==
    ASSUME LimitInv, TypeInv', Tick
    PROVE  LimitInv'
<1>1. /\ now' = now + 1 /\ UNCHANGED <<client_ms_at_call, passed, pc, req>>
      /\ now \in Nat /\ TypeInv
  BY HttpApiAssumption DEF Tick, LimitInv, TypeInv, TypeOK
<1>2. ClockInv'
  <2>1. \A t \in Threads : pc[t] \in {"limit", "stamp"} => req[t].time \in Nat
    BY <1>1, InHandler
  <2>2. \A a \in Addresses : client_ms_at_call[a] \in Nat
    BY <1>1, HttpApiAssumption DEF TypeInv, TypeOK, Never
  <2> QED
    BY <1>1, <2>1, <2>2 DEF LimitInv, ClockInv
<1>3. ASSUME NEW a \in Addresses, NEW from \in 0 .. MaxTime, NEW to \in 0 .. MaxTime + 1,
             WindowInv(a, from, to)
      PROVE  WindowInv(a, from, to)'
  <2>1. /\ Calls(a, from, to)' = Calls(a, from, to) /\ Old(a, from)' = Old(a, from)
        /\ Pending(a, from, to)' = Pending(a, from, to)
        /\ Closed(a, from)' <=> Closed(a, from)
    BY <1>1 DEF Calls, CallsBefore, Old, Pending, Closed, Address
  <2>2. Coming(a, from, to)' = Coming(a, from, to)
    BY <2>1 DEF Coming
  <2>3. from \in Nat
    OBVIOUS
  <2>4. CASE now + 1 < from
    BY <1>1, <1>3, <2>1, <2>3, <2>4 DEF WindowInv
  <2>5. CASE now >= from
    BY <1>1, <1>3, <2>1, <2>2, <2>3, <2>5 DEF WindowInv
  <2>6. CASE now + 1 = from
    <3> DEFINE o == Cardinality(Old(a, from))
               p == Cardinality(Pending(a, from, to))
               N == Cardinality(Threads)
    <3>1. ~Closed(a, from)
      <4>1. client_ms_at_call[a] = Never \/ client_ms_at_call[a] <= now
        BY DEF LimitInv, ClockInv
      <4>2. client_ms_at_call[a] \in Nat
        BY <1>1, HttpApiAssumption DEF TypeInv, TypeOK, Never
      <4> QED
        BY <1>1, <2>6, <4>1, <4>2 DEF Closed
    <3>2. Calls(a, from, to) = 0 /\ ~(now' < from)
      BY <1>1, <1>3, <2>3, <2>6 DEF WindowInv
    <3>3. o \in Nat /\ p \in Nat /\ N \in Nat /\ o + p <= N
      BY <1>1, Waiting
    <3>4. Coming(a, from, to) = N - o
      BY <3>1 DEF Coming
    <3>5. Credit(0, N - o, o)
      <4> HIDE DEF o, p
      <4>1. N - o \in Int
        BY <3>3
      <4> QED
        BY <3>3, <4>1, CreditMoves
    <3> QED
      BY <2>1, <2>2, <3>2, <3>4, <3>5 DEF WindowInv
  <2> QED
    BY <1>1, <2>3, <2>4, <2>5, <2>6
<1> QED
  BY <1>2, <1>3 DEF LimitInv

\* What a window's numbers are, and the credit of a window that has begun.
LEMMA Numbers ==
    ASSUME LimitInv, NEW a \in Addresses, NEW from \in 0 .. MaxTime, NEW to \in 0 .. MaxTime + 1,
           from <= to, to <= from + Minimum
    PROVE  LET o == Cardinality(Old(a, from))
               p == Cardinality(Pending(a, from, to))
               s == Calls(a, from, to)
               N == Cardinality(Threads)
           IN  /\ o \in Nat /\ p \in Nat /\ s \in Int /\ N \in Nat /\ o + p <= N
               /\ Coming(a, from, to) = IF Closed(a, from) THEN p ELSE N - o
               /\ IF now < from THEN s = 0
                  ELSE /\ o >= 1 => Credit(s, p, o - 1) /\ Credit(s, N - (o - 1), o - 1)
                       /\ p >= 1 => Credit(s + 1, p - 1, o)
                       /\ Credit(s, p, o) /\ Credit(s, Coming(a, from, to), o)
                       /\ 2 * s <= N * (N + 1)
<1> DEFINE o == Cardinality(Old(a, from))
           p == Cardinality(Pending(a, from, to))
           s == Calls(a, from, to)
           N == Cardinality(Threads)
           c == Coming(a, from, to)
<1>1. o \in Nat /\ p \in Nat /\ s \in Int /\ N \in Nat /\ o + p <= N
  BY Waiting, CallsKnown DEF LimitInv
<1>2. c = IF Closed(a, from) THEN p ELSE N - o
  BY DEF Coming
<1>3. IF now < from THEN s = 0 ELSE Credit(s, c, o)
  BY DEF LimitInv, WindowInv
<1> HIDE DEF o, p, s, c
<1>4. c \in Int /\ (c = p \/ c = N - o)
  BY <1>1, <1>2
<1>5. Credit(s, c, o) => /\ o >= 1 => Credit(s, p, o - 1) /\ Credit(s, N - (o - 1), o - 1)
                         /\ p >= 1 => Credit(s + 1, p - 1, o)
                         /\ Credit(s, p, o)
                         /\ 2 * s <= N * (N + 1)
  BY <1>1, <1>4, CreditMoves
<1> QED
  BY <1>1, <1>2, <1>3, <1>5 DEF o, p, s, c

\* Whoever is too soon goes; whoever is not found the limit open.
LEMMA LimitCheckLimit ==
    ASSUME LimitInv, TypeInv', NEW t \in Threads, CheckLimit(t)
    PROVE  LimitInv'
<1>1. /\ UNCHANGED <<now, client_ms_at_call, passed>> /\ pc[t] = "limit" /\ TypeInv
      /\ \/ pc' = [pc EXCEPT ![t] = "idle"] /\ req' = [req EXCEPT ![t] = <<>>]
         \/ /\ pc' = [pc EXCEPT ![t] = "stamp"] /\ UNCHANGED req
            /\ ~TooSoon(client_ms_at_call[Address(t)], req[t].time)
  BY DEF CheckLimit, Respond, Goto, LimitInv
<1>2. /\ \A u \in Threads \ {t} : pc'[u] = pc[u] /\ req'[u] = req[u]
      /\ \/ pc'[t] = "idle"
         \/ /\ pc'[t] = "stamp" /\ req'[t] = req[t]
            /\ ~TooSoon(client_ms_at_call[Address(t)], req[t].time)
  BY <1>1 DEF TypeInv, TypeOK, SessionInv
<1>3. ClockInv'
  BY <1>1, <1>2 DEF LimitInv, ClockInv
<1>4. ASSUME NEW a \in Addresses, NEW from \in 0 .. MaxTime, NEW to \in 0 .. MaxTime + 1,
             from <= to, to <= from + Minimum
      PROVE  WindowInv(a, from, to)'
  <2> DEFINE o == Cardinality(Old(a, from))
             p == Cardinality(Pending(a, from, to))
             s == Calls(a, from, to)
             N == Cardinality(Threads)
  <2>1. Calls(a, from, to)' = Calls(a, from, to) /\ (Closed(a, from)' <=> Closed(a, from))
    BY <1>1 DEF Calls, CallsBefore, Closed
  <2>2. \A u \in Threads \ {t} : /\ u \in Old(a, from)' <=> u \in Old(a, from)
                                 /\ u \in Pending(a, from, to)' <=> u \in Pending(a, from, to)
    BY <1>2 DEF Old, Pending, Address
  <2>3. t \notin Pending(a, from, to)
    BY <1>1 DEF Pending
  <2>4. /\ Old(a, from) \in SUBSET Threads /\ Old(a, from)' \in SUBSET Threads
        /\ Pending(a, from, to) \in SUBSET Threads /\ Pending(a, from, to)' \in SUBSET Threads
    BY DEF Old, Pending
  <2>5. CASE pc'[t] = "idle"
    <3>1. t \notin Old(a, from)' /\ t \notin Pending(a, from, to)'
      BY <2>5 DEF Old, Pending
    <3>2. Cardinality(Pending(a, from, to)') = p
      BY <2>2, <2>3, <2>4, <3>1, SetMoves
    <3>3. Cardinality(Old(a, from)') = o \/ (Cardinality(Old(a, from)') = o - 1 /\ o >= 1)
      <4>1. Cardinality(Old(a, from)') \in Nat /\ o \in Nat
        BY <2>2, <2>4, SetMoves
      <4>2. Cardinality(Old(a, from)') = o \/ Cardinality(Old(a, from)') = o - 1
        BY <2>2, <2>4, <3>1, SetMoves
      <4> HIDE DEF o
      <4> QED
        BY <4>1, <4>2
    <3>4. Coming(a, from, to)' = IF Closed(a, from) THEN p ELSE N - Cardinality(Old(a, from)')
      BY <2>1, <3>2 DEF Coming
    <3>5. now < from \/ Credit(s, Coming(a, from, to)', Cardinality(Old(a, from)'))
      <4>1. CASE Cardinality(Old(a, from)') = o
        <5>1. Coming(a, from, to)' = Coming(a, from, to)
          BY <3>4, <4>1 DEF Coming
        <5> QED
          BY <1>4, <4>1, <5>1, Numbers
      <4>2. CASE Cardinality(Old(a, from)') = o - 1 /\ o >= 1
        <5>1. now < from \/ (Credit(s, p, o - 1) /\ Credit(s, N - (o - 1), o - 1))
          BY <1>4, <4>2, Numbers
        <5>2. Coming(a, from, to)' = p \/ Coming(a, from, to)' = N - (o - 1)
          BY <3>4, <4>2
        <5> HIDE DEF o, p, s, N
        <5> QED
          BY <4>2, <5>1, <5>2
      <4> QED
        BY <3>3, <4>1, <4>2
    <3>6. now < from => s = 0
      BY <1>4, Numbers
    <3> QED
      BY <1>1, <2>1, <3>5, <3>6 DEF WindowInv
  <2>6. CASE pc'[t] = "stamp"
    <3>1. req'[t] = req[t] /\ ~TooSoon(client_ms_at_call[Address(t)], req[t].time)
      BY <1>2, <2>6
    <3>2. t \in Old(a, from)' <=> t \in Old(a, from)
      BY <1>1, <2>6, <3>1 DEF Old, Address
    <3>3. Old(a, from)' = Old(a, from)
      BY <2>2, <2>4, <3>2
    <3>4. Closed(a, from) => Pending(a, from, to)' = Pending(a, from, to)
      <4> SUFFICES ASSUME Closed(a, from), t \in Pending(a, from, to)' PROVE FALSE
        BY <2>2, <2>3, <2>4
      <4>1. Address(t) = a /\ req[t].time < to
        BY <3>1 DEF Pending, Address
      <4>2. /\ client_ms_at_call[a] # Never /\ client_ms_at_call[a] >= from
            /\ client_ms_at_call[a] \in Nat /\ req[t].time \in Nat
        <5>1. client_ms_at_call[a] \in Nat
          BY <1>1, HttpApiAssumption DEF TypeInv, TypeOK, Never
        <5>2. req[t].time \in Nat
          BY <1>1, InHandler
        <5> QED
          BY <5>1, <5>2 DEF Closed
      <4>3. ~(req[t].time < client_ms_at_call[a] + Minimum)
        BY <3>1, <4>1, <4>2 DEF TooSoon
      <4> QED
        BY <1>4, <4>1, <4>2, <4>3, HttpApiAssumption
    <3>5. Coming(a, from, to)' = Coming(a, from, to)
      BY <2>1, <3>3, <3>4 DEF Coming
    <3> QED
      BY <1>1, <1>4, <2>1, <3>3, <3>5 DEF WindowInv, LimitInv
  <2> QED
    BY <1>2, <2>5, <2>6
<1> QED
  BY <1>3, <1>4 DEF LimitInv

\* An older time opens the limit again, at the cost of an old thread; a time in the window
\* or after it closes it.
LEMMA LimitStampCall ==
    ASSUME LimitInv, TypeInv', NEW t \in Threads, StampCall(t)
    PROVE  LimitInv'
<1> DEFINE x == req[t].time
<1>1. /\ UNCHANGED now /\ pc[t] = "stamp" /\ TypeInv
      /\ client_ms_at_call' = [client_ms_at_call EXCEPT ![Address(t)] = x]
      /\ passed' = [passed EXCEPT ![Address(t)][x] = @ + 1]
      /\ \/ pc' = [pc EXCEPT ![t] = "idle"] /\ req' = [req EXCEPT ![t] = <<>>]
         \/ pc' = [pc EXCEPT ![t] = "human"] /\ UNCHANGED req
  BY DEF StampCall, Respond, Goto, LimitInv
<1>2. /\ x \in 0 .. MaxTime /\ x \in Nat /\ x <= now /\ now \in Nat /\ x # Never
      /\ Address(t) \in Addresses
  <2>1. x \in 0 .. MaxTime /\ x <= now /\ Address(t) \in Addresses
    BY <1>1, InHandler DEF LimitInv, ClockInv
  <2> HIDE DEF x
  <2> QED
    BY <1>1, <2>1, HttpApiAssumption DEF TypeInv, TypeOK, Never
<1>3. /\ \A u \in Threads \ {t} : pc'[u] = pc[u] /\ req'[u] = req[u]
      /\ pc'[t] \in {"idle", "human"}
  BY <1>1 DEF TypeInv, TypeOK, SessionInv
<1>4. \A a \in Addresses : /\ client_ms_at_call'[a] = IF a = Address(t) THEN x ELSE client_ms_at_call[a]
                           /\ a # Address(t) => passed'[a] = passed[a]
                           /\ a = Address(t) => passed'[a] = [passed[a] EXCEPT ![x] = @ + 1]
  BY <1>1, <1>2 DEF TypeInv, TypeOK
<1> HIDE DEF x
<1>5. ClockInv'
  <2>1. \A a \in Addresses : client_ms_at_call'[a] = Never \/ client_ms_at_call'[a] <= now
    BY <1>2, <1>4 DEF LimitInv, ClockInv
  <2>2. \A u \in Threads : pc'[u] \in {"limit", "stamp"} => req'[u].time <= now
    BY <1>3 DEF LimitInv, ClockInv
  <2> QED
    BY <1>1, <2>1, <2>2 DEF ClockInv
<1>6. ASSUME NEW a \in Addresses, NEW from \in 0 .. MaxTime, NEW to \in 0 .. MaxTime + 1,
             from <= to, to <= from + Minimum
      PROVE  WindowInv(a, from, to)'
  <2> DEFINE o == Cardinality(Old(a, from))
             p == Cardinality(Pending(a, from, to))
             s == Calls(a, from, to)
             N == Cardinality(Threads)
  <2>1. \A u \in Threads \ {t} : /\ u \in Old(a, from)' <=> u \in Old(a, from)
                                 /\ u \in Pending(a, from, to)' <=> u \in Pending(a, from, to)
    BY <1>3 DEF Old, Pending, Address
  <2>2. t \notin Old(a, from)' /\ t \notin Pending(a, from, to)'
    BY <1>3 DEF Old, Pending
  <2>3. /\ Old(a, from) \in SUBSET Threads /\ Old(a, from)' \in SUBSET Threads
        /\ Pending(a, from, to) \in SUBSET Threads /\ Pending(a, from, to)' \in SUBSET Threads
    BY DEF Old, Pending
  <2>4. /\ t \in Old(a, from) <=> (a = Address(t) /\ x < from)
        /\ t \in Pending(a, from, to) <=> (a = Address(t) /\ x >= from /\ x < to)
    BY <1>1 DEF Old, Pending, x
  <2>5. CASE a # Address(t)
    <3>1. Old(a, from)' = Old(a, from) /\ Pending(a, from, to)' = Pending(a, from, to)
      BY <2>1, <2>2, <2>3, <2>4, <2>5
    <3>2. Calls(a, from, to)' = Calls(a, from, to) /\ (Closed(a, from)' <=> Closed(a, from))
      <4>1. passed'[a] = passed[a] /\ client_ms_at_call'[a] = client_ms_at_call[a]
        BY <1>4, <2>5
      <4>2. CallsBefore(a)' = CallsOf(passed'[a]) /\ CallsBefore(a) = CallsOf(passed[a])
        BY DEF CallsBefore, CallsOf
      <4> QED
        BY <4>1, <4>2 DEF Calls, Closed
    <3>3. Coming(a, from, to)' = Coming(a, from, to)
      BY <3>1, <3>2 DEF Coming
    <3> QED
      BY <1>1, <1>6, <3>1, <3>2, <3>3 DEF LimitInv, WindowInv
  <2>6. CASE a = Address(t)
    <3> DEFINE y == Calls(a, from, to)'
    <3>1. y = s + (IF x >= from /\ x < to THEN 1 ELSE 0)
      <4>1. /\ s = CallsOf(passed[a])[to] - CallsOf(passed[a])[from]
            /\ passed[a] \in [0 .. MaxTime -> Nat] /\ from \in 0 .. MaxTime + 1
        BY <1>1, CallsKnown
      <4>2. y = CallsOf(passed'[a])[to] - CallsOf(passed'[a])[from]
        BY DEF Calls, CallsBefore, CallsOf
      <4>3. \A n \in 0 .. MaxTime + 1 :
              CallsOf(passed'[a])[n] = CallsOf(passed[a])[n] + (IF n > x THEN 1 ELSE 0)
        <5>1. passed'[a] = [passed[a] EXCEPT ![x] = @ + 1]
          BY <1>4, <2>6
        <5>2. LET q == [passed[a] EXCEPT ![x] = @ + 1] IN
              \A n \in 0 .. MaxTime + 1 :
                CallsOf(q)[n] = CallsOf(passed[a])[n] + (IF n > x THEN 1 ELSE 0)
          BY <1>2, <4>1, CallsAdd
        <5> QED
          BY <5>1, <5>2
      <4>4. CallsOf(passed[a])[to] \in Nat /\ CallsOf(passed[a])[from] \in Nat
        BY <4>1, CallsCount
      <4>5. to \in Nat /\ from \in Nat
        BY HttpApiAssumption
      <4> HIDE DEF y, s
      <4> QED
        BY <1>2, <1>6, <4>1, <4>2, <4>3, <4>4, <4>5
    <3>2. Closed(a, from)' <=> x >= from
      BY <1>2, <1>4, <2>6 DEF Closed
    <3>3. /\ o \in Nat /\ p \in Nat /\ s \in Int /\ N \in Nat
          /\ IF now < from THEN s = 0
             ELSE /\ o >= 1 => Credit(s, N - (o - 1), o - 1)
                  /\ p >= 1 => Credit(s + 1, p - 1, o)
                  /\ Credit(s, p, o)
      BY <1>6, Numbers
    <3>4. /\ Cardinality(Old(a, from)') = IF x < from THEN o - 1 ELSE o
          /\ Cardinality(Pending(a, from, to)') = IF x >= from /\ x < to THEN p - 1 ELSE p
      BY <2>1, <2>2, <2>3, <2>4, <2>6, SetMoves
    <3>5. Cardinality(Old(a, from)') \in Nat /\ Cardinality(Pending(a, from, to)') \in Nat
      BY <2>1, <2>3, SetMoves
    <3>6. Coming(a, from, to)' = IF x >= from THEN Cardinality(Pending(a, from, to)')
                                 ELSE N - Cardinality(Old(a, from)')
      BY <3>2 DEF Coming
    <3>7. WindowInv(a, from, to)' <=> IF now < from THEN y = 0
                                      ELSE Credit(y, Coming(a, from, to)', Cardinality(Old(a, from)'))
      BY <1>1 DEF WindowInv
    <3>8. to \in Nat /\ from \in Nat
      BY HttpApiAssumption
    <3> HIDE DEF o, p, s, N, y
    <3>9. CASE now < from
      BY <1>2, <3>1, <3>3, <3>7, <3>8, <3>9
    <3>10. CASE ~(now < from) /\ x < from
      <4>1. o >= 1 /\ y = s /\ Cardinality(Old(a, from)') = o - 1
        BY <1>2, <3>1, <3>3, <3>4, <3>5, <3>8, <3>10
      <4>2. Coming(a, from, to)' = N - (o - 1)
        BY <1>2, <3>6, <3>8, <3>10, <4>1
      <4> QED
        BY <3>3, <3>7, <3>10, <4>1, <4>2
    <3>11. CASE ~(now < from) /\ x >= from /\ x < to
      <4>1. p >= 1 /\ y = s + 1 /\ Cardinality(Old(a, from)') = o
        BY <1>2, <3>1, <3>3, <3>4, <3>5, <3>8, <3>11
      <4>2. Coming(a, from, to)' = p - 1
        BY <3>4, <3>6, <3>11
      <4> QED
        BY <3>3, <3>7, <3>11, <4>1, <4>2
    <3>12. CASE ~(now < from) /\ x >= to
      <4>1. x >= from /\ ~(x < from) /\ ~(x < to)
        BY <1>2, <1>6, <3>8, <3>12
      <4>2. y = s /\ Cardinality(Old(a, from)') = o /\ Coming(a, from, to)' = p
        BY <3>1, <3>3, <3>4, <3>6, <4>1
      <4> QED
        BY <3>3, <3>7, <3>12, <4>2
    <3> QED
      BY <1>2, <3>8, <3>9, <3>10, <3>11, <3>12
  <2> QED
    BY <2>5, <2>6
<1> QED
  BY <1>5, <1>6 DEF LimitInv

LEMMA LimitNext == LimitInv /\ [Next]_vars => LimitInv'
<1> SUFFICES ASSUME LimitInv, [Next]_vars PROVE LimitInv'
  OBVIOUS
<1>1. TypeInv /\ TypeInv' /\ TypeOK /\ req \in [Threads -> Requests \cup {<<>>}]
  BY TypeNext DEF LimitInv, TypeInv, SessionInv
<1>2. ASSUME NEW t \in Threads,
             \/ Receive(t) \/ CreateSession(t) \/ UseSession(t) \/ AskCaptcha(t) \/ IssueCaptcha(t)
             \/ CheckHuman(t) \/ WrongAnswer(t) \/ Consume(t)
      PROVE  LimitInv'
  <2>1. UNCHANGED <<now, client_ms_at_call, passed>> /\ pc[t] \notin {"limit", "stamp"}
    BY <1>2 DEF Receive, CreateSession, UseSession, AskCaptcha, IssueCaptcha, CheckHuman,
       WrongAnswer, Consume
  <2>2. /\ \E label \in PCs \ {"limit", "stamp"} : pc' = [pc EXCEPT ![t] = label]
        /\ \A u \in Threads \ {t} : req'[u] = req[u]
    BY <1>1, <1>2 DEF Receive, CreateSession, UseSession, AskCaptcha, IssueCaptcha, CheckHuman,
       WrongAnswer, Consume, Respond, Goto, PCs
  <2>3. \A u \in Threads :
          /\ pc'[u] \in {"limit", "stamp"} <=> pc[u] \in {"limit", "stamp"}
          /\ pc[u] \in {"limit", "stamp"} => pc'[u] = pc[u] /\ req'[u] = req[u]
    BY <1>1, <2>1, <2>2 DEF TypeOK
  <2> QED
    BY <1>1, <2>1, <2>3, LimitElsewhere
<1>3. CASE UNCHANGED vars
  BY <1>1, <1>3, LimitElsewhere DEF vars
<1> QED
  BY <1>1, <1>2, <1>3, LimitReadClock, LimitTick, LimitCheckLimit, LimitStampCall
  DEF Next, Step, BoundReached

\* A slow thread may stamp an older time over a newer one and so open the limit again;
\* each thread can do that once for a window, and so 1 + 2 + ... + N calls are the most.
THEOREM LimitCorrect == Spec => []LimitBounded
<1>1. LimitInv => LimitBounded
  <2> SUFFICES ASSUME LimitInv, NEW a \in Addresses, NEW from \in 0 .. MaxTime,
                      NEW to \in 0 .. MaxTime + 1, from <= to, to <= from + Minimum
               PROVE  LET N == Cardinality(Threads) IN
                      CallsBefore(a)[to] <= CallsBefore(a)[from] + (N * (N + 1)) \div 2
    BY DEF LimitBounded
  <2> DEFINE all == Cardinality(Threads) * (Cardinality(Threads) + 1)
             b == CallsBefore(a)[from]
             c == CallsBefore(a)[to]
  <2>1. b \in Nat /\ c \in Nat
    <3>1. passed[a] \in [0 .. MaxTime -> Nat] /\ from \in 0 .. MaxTime + 1
      BY CallsKnown DEF LimitInv
    <3>2. CallsBefore(a) = CallsOf(passed[a])
      BY DEF CallsBefore, CallsOf
    <3> QED
      BY <3>1, <3>2, CallsCount
  <2>2. all \in Nat /\ 2 * (c - b) <= all
    <3>1. /\ Cardinality(Threads) \in Nat
          /\ IF now < from THEN Calls(a, from, to) = 0 ELSE 2 * Calls(a, from, to) <= all
      BY Numbers
    <3>2. Calls(a, from, to) = c - b
      BY DEF Calls
    <3>3. all \in Nat
      <4>1. \A y \in Nat : y * (y + 1) \in Nat
        OBVIOUS
      <4> QED
        BY <3>1, <4>1
    <3> HIDE DEF all, b, c
    <3> QED
      BY <2>1, <3>1, <3>2, <3>3
  <2> HIDE DEF all, b, c
  <2>3. c <= b + all \div 2
    BY <2>1, <2>2
  <2> QED
    BY <2>3 DEF all, b, c
<1> QED
  BY <1>1, LimitInit, LimitNext, PTL DEF Spec
=============================================================================
