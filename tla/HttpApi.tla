------------------------------ MODULE HttpApi ------------------------------
(***************************************************************************)
(* The request handler HttpApi::start installs as on_read, for a route that *)
(* is rate-limited and asks for a captcha, and for GET /api/captcha/, which *)
(* issues one.  The server's threads run it at once; sessions and           *)
(* client_ms_at_call are shared and not locked.  The model steps between    *)
(* the accesses to them; one access is atomic.                              *)
(***************************************************************************)
EXTENDS Naturals, FiniteSets, Sequences

CONSTANTS
    Threads,       \* the server's threads
    Clients,       \* address, User-Agent and Host, whose hash names a session
    Addresses,     \* what fd_to_details_map says of a connection
    AddressOf,     \* the address of each client
    NoKey,         \* no session header, or one of no session
    Lifetime,      \* 3600 s
    Minimum,       \* minimum_ms_between_call of the route
    MaxTime,       \* bound on the clock
    MaxCaptchas,   \* bound on the captchas ever issued
    MaxSessions    \* bound on the Session objects ever made

ASSUME HttpApiAssumption ==
    /\ IsFiniteSet(Threads) /\ Threads # {}
    /\ AddressOf \in [Clients -> Addresses] /\ NoKey \notin Clients
    /\ Lifetime \in Nat /\ Minimum \in Nat \ {0}
    /\ MaxTime \in Nat /\ MaxCaptchas \in Nat /\ MaxSessions \in Nat

VARIABLES
    now,                 \* system_clock
    sessions,            \* index into objects of each key's Session*, or 0
    objects,             \* the Session objects made so far; none is deleted
    client_ms_at_call,   \* the route's, per address, or Never
    issued,              \* how many captchas were issued; captcha n is the n-th
    pc, req,             \* locals of the handler
    passed,              \* calls of each address and time that passed the limit
    uses                 \* how many calls each captcha let through

vars == <<now, sessions, objects, client_ms_at_call, issued, pc, req, passed, uses>>

Empty == 0                  \* an empty captcha, or no answer
Wrong == MaxCaptchas + 1    \* an answer that no captcha has
Never == MaxTime + 1
Answers == Empty .. Wrong

\* A request: its client, the session key in use, what it asks for ("call" of the
\* route, "captcha", or "new" captcha), the answer it gives, and the handler's
\* session and now.
Requests == [client : Clients, key : Clients, what : {"call", "captcha", "new"},
             answer : Answers, session : 0 .. MaxSessions, time : 0 .. MaxTime]
PCs == {"idle", "create", "use", "captcha", "issue", "clock", "limit",
        "stamp", "human", "wrong", "consume"}

Init ==
    /\ now = 0 /\ issued = 0 /\ objects = <<>>
    /\ sessions = [k \in Clients |-> 0]
    /\ client_ms_at_call = [a \in Addresses |-> Never]
    /\ pc = [t \in Threads |-> "idle"]
    /\ req = [t \in Threads |-> <<>>]
    /\ passed = [a \in Addresses |-> [n \in 0 .. MaxTime |-> 0]]
    /\ uses = [n \in 1 .. MaxCaptchas |-> 0]

Goto(t, label) == pc' = [pc EXCEPT ![t] = label]
Respond(t) == Goto(t, "idle") /\ req' = [req EXCEPT ![t] = <<>>]
Address(t) == AddressOf[req[t].client]

-----------------------------------------------------------------------------
(* The session *)

\* The session header counts while it names a session younger than an hour.
Valid(k) ==
    k # NoKey /\ sessions[k] # 0 /\ now - objects[sessions[k]].created <= Lifetime

\* Otherwise the key is the hash of the address, User-Agent and Host.
SessionKey(c, k) == IF Valid(k) THEN k ELSE c

\* The handler finds the key and whether it has a session.
Receive(t) ==
    /\ pc[t] = "idle"
    /\ \E c \in Clients, k \in Clients \cup {NoKey},
          what \in {"call", "captcha", "new"}, a \in Answers :
         /\ a = Empty \/ (what = "call" /\ (a <= issued \/ a = Wrong))
         /\ Goto(t, IF sessions[SessionKey(c, k)] = 0 THEN "create" ELSE "use")
         /\ req' = [req EXCEPT ![t] =
              [client |-> c, key |-> SessionKey(c, k), what |-> what,
               answer |-> a, session |-> 0, time |-> 0]]
    /\ UNCHANGED <<now, sessions, objects, client_ms_at_call, issued, passed, uses>>

\* Mutant: the key is given a Session that is not there.
MissingSession == Len(objects) + 2

NewSession == Len(objects) + 1

\* A new Session replaces whatever the key has by now.
CreateSession(t) ==
    /\ pc[t] = "create" /\ Len(objects) < MaxSessions
    /\ objects' = Append(objects, [captcha |-> Empty, created |-> now])
    /\ sessions' = [sessions EXCEPT ![req[t].key] = NewSession]
    /\ Goto(t, "use")
    /\ UNCHANGED <<now, client_ms_at_call, issued, req, passed, uses>>

UseSession(t) ==
    /\ pc[t] = "use"
    /\ req' = [req EXCEPT ![t].session = sessions[req[t].key]]
    /\ Goto(t, IF req[t].what = "call" THEN "clock" ELSE "captcha")
    /\ UNCHANGED <<now, sessions, objects, client_ms_at_call, issued, passed, uses>>

Captcha(t) == objects[req[t].session].captcha

SetCaptcha(t, n) == objects' = [objects EXCEPT ![req[t].session].captcha = n]

-----------------------------------------------------------------------------
(* GET /api/captcha/ *)

\* new=true forgets the captcha; only an empty one is replaced.
AskCaptcha(t) ==
    /\ pc[t] = "captcha"
    /\ \/ /\ req[t].what = "new"
          /\ SetCaptcha(t, Empty)
          /\ Goto(t, "issue")
          /\ UNCHANGED req
       \/ /\ req[t].what = "captcha" /\ Captcha(t) = Empty
          /\ Goto(t, "issue")
          /\ UNCHANGED <<objects, req>>
       \/ /\ req[t].what = "captcha" /\ Captcha(t) # Empty
          /\ Respond(t)
          /\ UNCHANGED objects
    /\ UNCHANGED <<now, sessions, client_ms_at_call, issued, passed, uses>>

\* get_captcha; another thread may have issued one to the session meanwhile.
IssueCaptcha(t) ==
    /\ pc[t] = "issue" /\ issued < MaxCaptchas
    /\ issued' = issued + 1
    /\ SetCaptcha(t, issued + 1)
    /\ Respond(t)
    /\ UNCHANGED <<now, sessions, client_ms_at_call, passed, uses>>

-----------------------------------------------------------------------------
(* The limited route *)

\* now = system_clock::now()
ReadClock(t) ==
    /\ pc[t] = "clock"
    /\ req' = [req EXCEPT ![t].time = now]
    /\ Goto(t, "limit")
    /\ UNCHANGED <<now, sessions, objects, client_ms_at_call, issued, passed, uses>>

\* Mutant: a call is let through one tick early.
TooSoonByOne(last, time) == last # Never /\ time - last + 1 < Minimum

\* The difference is signed: a thread with an older now than the last call's is
\* also too soon.
TooSoon(last, time) == last # Never /\ time < last + Minimum

CheckLimit(t) ==
    /\ pc[t] = "limit"
    /\ \/ /\ TooSoon(client_ms_at_call[Address(t)], req[t].time)
          /\ Respond(t)
       \/ /\ ~TooSoon(client_ms_at_call[Address(t)], req[t].time)
          /\ Goto(t, "stamp")
          /\ UNCHANGED req
    /\ UNCHANGED <<now, sessions, objects, client_ms_at_call, issued, passed, uses>>

\* client_ms_at_call is set before the parameters are looked at: a request with
\* an empty captcha field uses up the address's call too.
StampCall(t) ==
    /\ pc[t] = "stamp"
    /\ client_ms_at_call' = [client_ms_at_call EXCEPT ![Address(t)] = req[t].time]
    /\ passed' = [passed EXCEPT ![Address(t)][req[t].time] = @ + 1]
    /\ \/ /\ req[t].answer = Empty
          /\ Respond(t)
       \/ /\ req[t].answer # Empty
          /\ Goto(t, "human")
          /\ UNCHANGED req
    /\ UNCHANGED <<now, sessions, objects, issued, uses>>

CheckHuman(t) ==
    /\ pc[t] = "human"
    /\ Goto(t, IF req[t].answer = Captcha(t) THEN "consume" ELSE "wrong")
    /\ UNCHANGED <<now, sessions, objects, client_ms_at_call, issued, req, passed, uses>>

\* A wrong answer clears the captcha the session has by now.
WrongAnswer(t) ==
    /\ pc[t] = "wrong"
    /\ SetCaptcha(t, Empty)
    /\ Respond(t)
    /\ UNCHANGED <<now, sessions, client_ms_at_call, issued, passed, uses>>

\* Mutant: the captcha of a right answer stays.
Kept(t) == Captcha(t)

\* captcha.clear()
Cleared(t) == Empty

\* A right answer clears it too, and the route's function runs.
Consume(t) ==
    /\ pc[t] = "consume"
    /\ SetCaptcha(t, Cleared(t))
    /\ uses' = [uses EXCEPT ![req[t].answer] = @ + 1]
    /\ Respond(t)
    /\ UNCHANGED <<now, sessions, client_ms_at_call, issued, passed>>

-----------------------------------------------------------------------------
Tick ==
    /\ now < MaxTime
    /\ now' = now + 1
    /\ UNCHANGED <<sessions, objects, client_ms_at_call, issued, pc, req, passed, uses>>

Step(t) ==
    \/ Receive(t) \/ CreateSession(t) \/ UseSession(t)
    \/ AskCaptcha(t) \/ IssueCaptcha(t)
    \/ ReadClock(t) \/ CheckLimit(t) \/ StampCall(t)
    \/ CheckHuman(t) \/ WrongAnswer(t) \/ Consume(t)

\* The bounds on captchas, sessions and time are used up.
BoundReached ==
    /\ \A t \in Threads : pc[t] \in {"create", "issue"}
    /\ now = MaxTime
    /\ UNCHANGED vars

Next == (\E t \in Threads : Step(t)) \/ Tick \/ BoundReached

Spec == Init /\ [][Next]_vars

-----------------------------------------------------------------------------
(* Properties *)

\* Every variable holds a value of its type.
TypeOK ==
    /\ now \in 0 .. MaxTime /\ issued \in 0 .. MaxCaptchas
    /\ sessions \in [Clients -> 0 .. Len(objects)]
    /\ objects \in Seq([captcha : 0 .. MaxCaptchas, created : 0 .. MaxTime])
    /\ client_ms_at_call \in [Addresses -> 0 .. Never]
    /\ pc \in [Threads -> PCs]
    /\ \A t \in Threads : IF pc[t] = "idle" THEN req[t] = <<>> ELSE req[t] \in Requests
    /\ passed \in [Addresses -> [0 .. MaxTime -> Nat]]
    /\ uses \in [1 .. MaxCaptchas -> Nat]

\* How many calls of an address passed the limit before each time.
CallsBefore(a) ==
    LET calls[n \in 0 .. MaxTime + 1] ==
          IF n = 0 THEN 0 ELSE calls[n - 1] + passed[a][n - 1]
    IN  calls

\* The check of the rate limit and its stamp are two steps, and a slow thread may
\* stamp an older time over a newer one, which opens the limit again.  As each thread
\* can do that once for a window of `Minimum`, an address gets at most
\* 1 + 2 + ... + N calls past the limit in one when there are N threads; one call
\* when there is one thread.
LimitBounded ==
    LET N == Cardinality(Threads) IN
    \A a \in Addresses : \A from \in 0 .. MaxTime, to \in 0 .. MaxTime + 1 :
      from <= to /\ to <= from + Minimum =>
        CallsBefore(a)[to] <= CallsBefore(a)[from] + (N * (N + 1)) \div 2

\* The captcha is compared and cleared in two steps.  Still, one captcha never lets
\* more calls through than there are threads: with one thread, exactly one.
CaptchaBounded == \A n \in 1 .. issued : uses[n] <= Cardinality(Threads)
=============================================================================
