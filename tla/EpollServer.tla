---------------------------- MODULE EpollServer ----------------------------
(***************************************************************************)
(* The threaded epoll server of tcp-server.cpp: every thread of run_thread  *)
(* owns an epoll instance that watches the shared listening socket, its own *)
(* clients and (through a second epoll instance) one timerfd per client.    *)
(* All registrations are one-shot: a reported descriptor stays silent until *)
(* it is re-armed with EPOLL_CTL_MOD.                                       *)
(*                                                                         *)
(* The kernel side (descriptor table, readiness, timers, backlog) is the    *)
(* part of the state the system calls change; the thread side is the local  *)
(* variables of run_thread.  One epoll_wait hands a thread a whole batch of *)
(* events; each event is handled later, against a state that other handlers *)
(* of the same batch and the other threads may have changed meanwhile.      *)
(***************************************************************************)
EXTENDS Integers, FiniteSets

CONSTANTS
    Threads,         \* the threads started by EpollServer::run
    Fds,             \* descriptor numbers this process may hold (RLIMIT_NOFILE)
    Stdin,           \* descriptor 0, what operator[] of an int map inserts
    NoFd,            \* an absent map entry, or no descriptor
    NoThread,        \* nobody
    MaxConnections,  \* EpollServer::max_connections, per thread
    MaxBacklog,      \* bound on connections waiting in the listen queue
    MaxElsewhere,    \* bound on descriptors the rest of the process has open
    WordSize,        \* number of values of unsigned long (2^64 in the build)
    Resets,          \* whether peers may reset a connection (EPOLLERR/EPOLLHUP)
    Timeouts         \* whether connections may stay idle until the timer fires

ASSUME ConstantsAssumption ==
    /\ IsFiniteSet(Threads) /\ Threads # {}
    /\ IsFiniteSet(Fds) /\ Stdin \in Fds
    /\ NoFd \notin Fds /\ NoThread \notin Threads
    /\ Fds \cap {"server", "timeout"} = {}
    /\ MaxConnections \in Nat \ {0}
    /\ MaxBacklog \in Nat /\ MaxElsewhere \in Nat
    /\ WordSize \in Nat /\ MaxConnections < WordSize
    /\ Resets \in BOOLEAN /\ Timeouts \in BOOLEAN

VARIABLES
    \* Kernel
    kind,         \* what each descriptor refers to
    ep,           \* the thread whose epoll instances watch it
    armed,        \* clients whose one-shot registration is armed
    peer,         \* what a read of each client would find
    expired,      \* timers that have fired
    backlog,      \* connections waiting to be accepted
    srv,          \* each thread's registration of server_fd
    tmo,          \* each thread's registration of timeout_epoll_fd
    \* EpollServer
    accept_mutex, running,
    sessions,     \* on_connect calls minus on_disconnect calls per descriptor
    \* Locals of run_thread
    pc, batch, errs, timeouts, closing, new_fd, num_connections,
    client_to_timer, timer_to_client

kernel == <<kind, ep, armed, peer, expired>>
registrations == <<srv, tmo>>
maps == <<client_to_timer, timer_to_client>>
events == <<batch, errs, timeouts>>
vars == <<kernel, backlog, registrations, accept_mutex, running, sessions,
          pc, events, closing, new_fd, num_connections, maps>>

Kinds == {"free", "stdin", "client", "timer", "elsewhere"}
PeerStates == {"quiet", "data", "fin", "rst"}
PCs == {"wait", "events", "accept", "track", "unlock", "timeouts", "exited"}

FreeFds == {f \in Fds : kind[f] = "free"}
Elsewhere == {f \in Fds : kind[f] = "elsewhere"}

(***************************************************************************)
(* close() of every descriptor in S: one that is not open is an error that  *)
(* the code only reports.  Closing also leaves every epoll instance.        *)
(***************************************************************************)
KernelClose(S) ==
    /\ kind' = [f \in Fds |-> IF f \in S THEN "free" ELSE kind[f]]
    /\ ep' = [f \in Fds |-> IF f \in S THEN NoThread ELSE ep[f]]
    /\ peer' = [f \in Fds |-> IF f \in S THEN "quiet" ELSE peer[f]]
    /\ armed' = armed \ S
    /\ expired' = expired \ S

\* Mutant: a handler that closes the client and forgets its timer.
CloseClientOnly(timer_fd, client) == KernelClose({client})

\* The two close() calls that end a connection: its timer and its socket.
CloseConnection(timer_fd, client) == KernelClose({timer_fd, client})

\* operator[] of std::unordered_map<int, int>: a missing key reads as 0.
At(map, f) == IF map[f] = NoFd THEN Stdin ELSE map[f]

\* What one epoll_wait that may return up to n events reports of the ready set S.
Harvest(S, n) ==
    {b \in SUBSET S : Cardinality(b) = IF Cardinality(S) < n THEN Cardinality(S) ELSE n}

-----------------------------------------------------------------------------
(***************************************************************************)
(* Setup: run_thread registers server_fd and timeout_epoll_fd, armed.       *)
(***************************************************************************)
Init ==
    /\ kind = [f \in Fds |-> IF f = Stdin THEN "stdin" ELSE "free"]
    /\ ep = [f \in Fds |-> NoThread]
    /\ armed = {} /\ expired = {}
    /\ peer = [f \in Fds |-> "quiet"]
    /\ backlog = 0
    /\ srv = [t \in Threads |-> "armed"]
    /\ tmo = [t \in Threads |-> "armed"]
    /\ accept_mutex = NoThread
    /\ running = TRUE
    /\ sessions = [f \in Fds |-> 0]
    /\ pc = [t \in Threads |-> "wait"]
    /\ batch = [t \in Threads |-> {}]
    /\ errs = [t \in Threads |-> {}]
    /\ timeouts = [t \in Threads |-> {}]
    /\ closing = [t \in Threads |-> NoFd]
    /\ new_fd = [t \in Threads |-> NoFd]
    /\ num_connections = [t \in Threads |-> 0]
    /\ client_to_timer = [t \in Threads |-> [f \in Fds |-> NoFd]]
    /\ timer_to_client = [t \in Threads |-> [f \in Fds |-> NoFd]]

-----------------------------------------------------------------------------
(* Waiting for events *)

ReadyClients(t) ==
    {f \in armed : kind[f] = "client" /\ ep[f] = t /\ peer[f] # "quiet"}

ExpiredTimers(t) == {m \in expired : kind[m] = "timer" /\ ep[m] = t}

\* The ready set of thread t's epoll_fd; server_fd and timeout_epoll_fd are
\* represented by their names.
Ready(t) ==
    ReadyClients(t)
      \cup {e \in {"server"} : srv[t] = "armed" /\ backlog > 0}
      \cup {e \in {"timeout"} : tmo[t] = "armed" /\ ExpiredTimers(t) # {}}

\* epoll_wait(epoll_fd, client_events, max_connections + 2, 10000) > 0: the
\* reported registrations are disarmed, and errors are noted with the event.
EpollWait(t) ==
    /\ pc[t] = "wait"
    /\ Ready(t) # {}
    /\ \E b \in Harvest(Ready(t), MaxConnections + 2) :
         /\ batch' = [batch EXCEPT ![t] = b \cap Fds]
         /\ errs' = [errs EXCEPT ![t] = {f \in b \cap Fds : peer[f] = "rst"}]
         /\ armed' = armed \ b
         /\ srv' = IF "server" \in b THEN [srv EXCEPT ![t] = "fired"] ELSE srv
         /\ tmo' = IF "timeout" \in b THEN [tmo EXCEPT ![t] = "fired"] ELSE tmo
    /\ pc' = [pc EXCEPT ![t] = "events"]
    /\ UNCHANGED <<kind, ep, peer, expired, backlog, accept_mutex, running,
                   sessions, timeouts, closing, new_fd, num_connections, maps>>

\* epoll_wait returned nothing within its 10 s; the loop looks at running.
EpollWaitTimesOut(t) ==
    /\ pc[t] = "wait" /\ Ready(t) = {}
    /\ ~running
    /\ pc' = [pc EXCEPT ![t] = "exited"]
    /\ UNCHANGED <<kernel, backlog, registrations, accept_mutex, running, sessions,
                   events, closing, new_fd, num_connections, maps>>

\* A thread that is in the for loop over its events, between two of them.
Handling(t) == pc[t] = "events" /\ closing[t] = NoFd

BatchDone(t) ==
    /\ Handling(t)
    /\ batch[t] = {} /\ srv[t] # "fired" /\ tmo[t] # "fired"
    /\ pc' = [pc EXCEPT ![t] = IF running THEN "wait" ELSE "exited"]
    /\ UNCHANGED <<kernel, backlog, registrations, accept_mutex, running, sessions,
                   events, closing, new_fd, num_connections, maps>>

-----------------------------------------------------------------------------
(* Closing a client *)

\* Mutant: the count is lowered by the callback and by its caller.
CountDownTwice(n) == n - 2

\* num_connections-- on an unsigned long.
CountDown(n) == IF n = 0 THEN WordSize - 1 ELSE n - 1

(***************************************************************************)
(* The second half of close_client_callback, after close(): tell the        *)
(* application, listen again if this thread was full, count down.           *)
(* EPOLL_CTL_ADD of a registered server_fd fails (EEXIST) and changes       *)
(* nothing.                                                                 *)
(***************************************************************************)
Disconnect(t) ==
    /\ closing[t] # NoFd
    /\ sessions' = [sessions EXCEPT ![closing[t]] = @ - 1]
    /\ srv' = IF num_connections[t] >= MaxConnections /\ srv[t] = "absent"
              THEN [srv EXCEPT ![t] = "armed"] ELSE srv
    /\ num_connections' =
         [num_connections EXCEPT ![t] = CountDown(@)]
    /\ closing' = [closing EXCEPT ![t] = NoFd]
    /\ UNCHANGED <<kernel, backlog, tmo, accept_mutex, running, pc, events,
                   new_fd, maps>>

\* EPOLLERR or EPOLLHUP: forget and close the timer, close the client.
ErrorEvent(t) ==
    /\ Handling(t)
    /\ \E f \in errs[t] :
         LET timer_fd == At(client_to_timer[t], f) IN
         /\ client_to_timer' = [client_to_timer EXCEPT ![t][f] = NoFd]
         /\ timer_to_client' = [timer_to_client EXCEPT ![t][timer_fd] = NoFd]
         /\ CloseConnection(timer_fd, f)
         /\ closing' = [closing EXCEPT ![t] = f]
         /\ batch' = [batch EXCEPT ![t] = @ \ {f}]
         /\ errs' = [errs EXCEPT ![t] = @ \ {f}]
    /\ UNCHANGED <<backlog, registrations, accept_mutex, running, sessions, pc,
                   timeouts, new_fd, num_connections>>

-----------------------------------------------------------------------------
(* Idle timeouts *)

\* epoll_wait on timeout_epoll_fd; nothing to report is only an ERROR line.
TimeoutEvent(t) ==
    /\ Handling(t) /\ tmo[t] = "fired"
    /\ \E b \in Harvest(ExpiredTimers(t), MaxConnections) :
         timeouts' = [timeouts EXCEPT ![t] = b]
    /\ pc' = [pc EXCEPT ![t] = "timeouts"]
    /\ UNCHANGED <<kernel, backlog, registrations, accept_mutex, running, sessions,
                   batch, errs, closing, new_fd, num_connections, maps>>

\* One round of the loop over timeout_events.  A timer that cannot be closed
\* ends the round before the client is closed.
CloseTimedOut(t) ==
    /\ pc[t] = "timeouts" /\ closing[t] = NoFd
    /\ \E m \in timeouts[t] :
         LET client == At(timer_to_client[t], m) IN
         /\ timer_to_client' = [timer_to_client EXCEPT ![t][m] = NoFd]
         /\ client_to_timer' = [client_to_timer EXCEPT ![t][client] = NoFd]
         /\ timeouts' = [timeouts EXCEPT ![t] = @ \ {m}]
         /\ \/ /\ kind[m] # "free"
               /\ CloseConnection(m, client)
               /\ closing' = [closing EXCEPT ![t] = client]
            \/ /\ kind[m] = "free"
               /\ UNCHANGED <<kernel, closing>>
    /\ UNCHANGED <<backlog, registrations, accept_mutex, running, sessions, pc,
                   batch, errs, new_fd, num_connections>>

\* Mutant: the one-shot registration of timeout_epoll_fd is never renewed.
TimeoutsDoneSilent(t) ==
    /\ pc[t] = "timeouts" /\ closing[t] = NoFd
    /\ timeouts[t] = {}
    /\ tmo' = [tmo EXCEPT ![t] = "off"]
    /\ pc' = [pc EXCEPT ![t] = "events"]
    /\ UNCHANGED <<kernel, backlog, srv, accept_mutex, running, sessions,
                   events, closing, new_fd, num_connections, maps>>

\* EPOLL_CTL_MOD of timeout_epoll_fd after the loop.
TimeoutsDone(t) ==
    /\ pc[t] = "timeouts" /\ closing[t] = NoFd
    /\ timeouts[t] = {}
    /\ tmo' = [tmo EXCEPT ![t] = "armed"]
    /\ pc' = [pc EXCEPT ![t] = "events"]
    /\ UNCHANGED <<kernel, backlog, srv, accept_mutex, running, sessions,
                   events, closing, new_fd, num_connections, maps>>

-----------------------------------------------------------------------------
(* Accepting *)

AcceptLock(t) ==
    /\ Handling(t) /\ srv[t] = "fired"
    /\ accept_mutex = NoThread
    /\ accept_mutex' = t
    /\ pc' = [pc EXCEPT ![t] = "accept"]
    /\ UNCHANGED <<kernel, backlog, registrations, running, sessions,
                   events, closing, new_fd, num_connections, maps>>

\* try_lock failed: the handler ends without re-arming server_fd.
AcceptBusy(t) ==
    /\ Handling(t) /\ srv[t] = "fired"
    /\ accept_mutex # NoThread
    /\ srv' = [srv EXCEPT ![t] = "deaf"]
    /\ UNCHANGED <<kernel, backlog, tmo, accept_mutex, running, sessions, pc,
                   events, closing, new_fd, num_connections, maps>>

\* The condition of the accept loop.
HasRoom(t) == num_connections[t] < MaxConnections

\* accept() succeeds.  Which free number it returns depends on the rest of
\* the process too.
AcceptClient(t) ==
    /\ pc[t] = "accept" /\ HasRoom(t)
    /\ backlog > 0
    /\ \E f \in FreeFds :
         /\ kind' = [kind EXCEPT ![f] = "client"]
         /\ new_fd' = [new_fd EXCEPT ![t] = f]
    /\ backlog' = backlog - 1
    /\ pc' = [pc EXCEPT ![t] = "track"]
    /\ UNCHANGED <<ep, armed, peer, expired, registrations, accept_mutex, running,
                   sessions, events, closing, num_connections, maps>>

\* accept() fails: EAGAIN leaves the loop; any other error, here EMFILE,
\* also stops the whole server.
AcceptFails(t) ==
    /\ pc[t] = "accept" /\ HasRoom(t)
    /\ backlog = 0 \/ FreeFds = {}
    /\ running' = (running /\ FreeFds # {})
    /\ pc' = [pc EXCEPT ![t] = "unlock"]
    /\ UNCHANGED <<kernel, backlog, registrations, accept_mutex, sessions,
                   events, closing, new_fd, num_connections, maps>>

\* accept_continuation (or EPOLL_CTL_ADD) fails: close and leave the loop.
ContinuationFails(t) ==
    /\ pc[t] = "track"
    /\ KernelClose({new_fd[t]})
    /\ new_fd' = [new_fd EXCEPT ![t] = NoFd]
    /\ pc' = [pc EXCEPT ![t] = "unlock"]
    /\ UNCHANGED <<backlog, registrations, accept_mutex, running, sessions,
                   events, closing, num_connections, maps>>

\* Watch the new client, give it a timer unless timerfd_create fails, call
\* on_connect and count it.  That a timer cannot be set (382), which no timeout of a
\* program brings about, or cannot be watched (390), for want of memory, is left out.
Track(t) ==
    LET f == new_fd[t] IN
    /\ pc[t] = "track"
    /\ armed' = armed \cup {f}
    /\ \/ \E m \in FreeFds :
            /\ kind' = [kind EXCEPT ![m] = "timer"]
            /\ ep' = [ep EXCEPT ![f] = t, ![m] = t]
            /\ timer_to_client' = [timer_to_client EXCEPT ![t][m] = f]
            /\ client_to_timer' = [client_to_timer EXCEPT ![t][f] = m]
       \/ /\ FreeFds = {}
          /\ ep' = [ep EXCEPT ![f] = t]
          /\ UNCHANGED <<kind, maps>>
    /\ sessions' = [sessions EXCEPT ![f] = @ + 1]
    /\ num_connections' = [num_connections EXCEPT ![t] = @ + 1]
    /\ new_fd' = [new_fd EXCEPT ![t] = NoFd]
    /\ pc' = [pc EXCEPT ![t] = "accept"]
    /\ UNCHANGED <<peer, expired, backlog, registrations, accept_mutex, running,
                   events, closing>>

\* Mutant: server_fd is watched again even when the thread is full.
RearmAlways(t) == "armed"

\* Mutant: the one-shot registration of server_fd is not renewed after a break.
RearmForgotten(t) == IF HasRoom(t) THEN "deaf" ELSE "absent"

\* The epoll_ctl call after the accept loop: EPOLL_CTL_MOD while there is
\* room, EPOLL_CTL_DEL when there is none.
Rearm(t) == IF HasRoom(t) THEN "armed" ELSE "absent"

\* After the loop: re-arm server_fd or, when full, stop watching it; unlock.
AcceptUnlock(t) ==
    /\ pc[t] = "unlock" \/ (pc[t] = "accept" /\ ~HasRoom(t))
    /\ srv' = [srv EXCEPT ![t] = Rearm(t)]
    /\ accept_mutex' = NoThread
    /\ pc' = [pc EXCEPT ![t] = "events"]
    /\ UNCHANGED <<kernel, backlog, tmo, running, sessions,
                   events, closing, new_fd, num_connections, maps>>

-----------------------------------------------------------------------------
(* Reading *)

\* What recv followed by on_read may return for descriptor f.  A reset or
\* finished peer is negative, a drained one zero (EAGAIN); with data it is
\* the callback's result, where "overflow" is PACKET_LIMIT or more.
RecvResults(f) ==
    CASE kind[f] = "client" /\ peer[f] \in {"fin", "rst"} -> {"negative"}
      [] kind[f] = "client" /\ peer[f] = "quiet"          -> {"zero"}
      [] kind[f] = "free"                                 -> {"negative"}
      [] OTHER -> {"negative", "zero", "overflow", "positive"}

\* Mutant: the result of timerfd_settime is not looked at.
SettimeUnchecked(timer_fd) == TRUE

\* timerfd_settime succeeds exactly on a timer.
SettimeOk(timer_fd) == kind[timer_fd] = "timer"

\* The event of a client: restart its timer, recv, and re-arm only when the
\* result is in 1 .. PACKET_LIMIT - 1.
ReadEvent(t) ==
    /\ Handling(t)
    /\ \E f \in batch[t] \ errs[t] :
         LET timer_fd == At(client_to_timer[t], f) IN
         /\ batch' = [batch EXCEPT ![t] = @ \ {f}]
         /\ \/ /\ ~SettimeOk(timer_fd)
               /\ client_to_timer' = [client_to_timer EXCEPT ![t][f] = timer_fd]
               /\ UNCHANGED <<kernel, closing, timer_to_client>>
            \/ /\ SettimeOk(timer_fd)
               /\ "negative" \in RecvResults(f)
               /\ client_to_timer' = [client_to_timer EXCEPT ![t][f] = NoFd]
               /\ timer_to_client' = [timer_to_client EXCEPT ![t][timer_fd] = NoFd]
               /\ CloseConnection(timer_fd, f)
               /\ closing' = [closing EXCEPT ![t] = f]
            \/ /\ SettimeOk(timer_fd)
               /\ \E result \in RecvResults(f) \ {"negative"} :
                    armed' = IF result = "positive" /\ ep[f] = t
                             THEN armed \cup {f} ELSE armed
               /\ expired' = expired \ {timer_fd}
               /\ peer' = [peer EXCEPT ![f] = "quiet"]
               /\ UNCHANGED <<kind, ep, closing, maps>>
    /\ UNCHANGED <<backlog, registrations, accept_mutex, running, sessions, pc,
                   errs, timeouts, new_fd, num_connections>>

-----------------------------------------------------------------------------
(* The rest of the process, the network and the clock *)

\* Files that are sent, databases and shells take descriptors too, and give them back.
OpenElsewhere(f) ==
    /\ kind[f] = "free" /\ Cardinality(Elsewhere) < MaxElsewhere
    /\ kind' = [kind EXCEPT ![f] = "elsewhere"]
    /\ UNCHANGED <<ep, armed, peer, expired, backlog, registrations, accept_mutex,
                   running, sessions, pc, events, closing, new_fd,
                   num_connections, maps>>

CloseElsewhere(f) ==
    /\ kind[f] = "elsewhere"
    /\ kind' = [kind EXCEPT ![f] = "free"]
    /\ UNCHANGED <<ep, armed, peer, expired, backlog, registrations, accept_mutex,
                   running, sessions, pc, events, closing, new_fd,
                   num_connections, maps>>

Connect ==
    /\ backlog < MaxBacklog
    /\ backlog' = backlog + 1
    /\ UNCHANGED <<kernel, registrations, accept_mutex, running, sessions,
                   pc, events, closing, new_fd, num_connections, maps>>

\* The peer of f sends, finishes or resets.
PeerActs(f) ==
    /\ kind[f] = "client"
    /\ \E p \in {"data", "fin"} \cup {r \in {"rst"} : Resets} :
         /\ p = "rst" \/ peer[f] = "quiet"
         /\ peer' = [peer EXCEPT ![f] = p]
    /\ UNCHANGED <<kind, ep, armed, expired, backlog, registrations, accept_mutex,
                   running, sessions, pc, events, closing, new_fd,
                   num_connections, maps>>

TimerFires(m) ==
    /\ Timeouts
    /\ kind[m] = "timer" /\ m \notin expired
    /\ expired' = expired \cup {m}
    /\ UNCHANGED <<kind, ep, armed, peer, backlog, registrations, accept_mutex,
                   running, sessions, pc, events, closing, new_fd,
                   num_connections, maps>>

-----------------------------------------------------------------------------
Step(t) ==
    \/ EpollWait(t) \/ EpollWaitTimesOut(t) \/ BatchDone(t)
    \/ ErrorEvent(t) \/ Disconnect(t)
    \/ TimeoutEvent(t) \/ CloseTimedOut(t) \/ TimeoutsDone(t)
    \/ AcceptLock(t) \/ AcceptBusy(t) \/ AcceptClient(t) \/ AcceptFails(t)
    \/ ContinuationFails(t) \/ Track(t) \/ AcceptUnlock(t)
    \/ ReadEvent(t)

\* Every thread has left run_thread; the process stays.
AllExited == (\A t \in Threads : pc[t] = "exited") /\ UNCHANGED vars

Next ==
    \/ \E t \in Threads : Step(t)
    \/ Connect
    \/ \E f \in Fds : PeerActs(f) \/ TimerFires(f) \/ OpenElsewhere(f) \/ CloseElsewhere(f)
    \/ AllExited

(***************************************************************************)
(* A thread that can act is scheduled eventually, and a running timer fires *)
(* unless it is restarted or closed first.  Peers promise nothing.          *)
(***************************************************************************)
Fairness ==
    /\ \A t \in Threads : WF_vars(Step(t))
    /\ \A m \in Fds : WF_vars(TimerFires(m))

Spec == Init /\ [][Next]_vars
FairSpec == Spec /\ Fairness
-----------------------------------------------------------------------------
(* Properties *)

\* Every variable holds a value of its type.
TypeOK ==
    /\ kind \in [Fds -> Kinds] /\ ep \in [Fds -> Threads \cup {NoThread}]
    /\ armed \subseteq Fds /\ expired \subseteq Fds
    /\ peer \in [Fds -> PeerStates] /\ backlog \in 0 .. MaxBacklog
    /\ srv \in [Threads -> {"armed", "fired", "deaf", "absent"}]
    /\ tmo \in [Threads -> {"armed", "fired"}]
    /\ accept_mutex \in Threads \cup {NoThread} /\ running \in BOOLEAN
    /\ sessions \in [Fds -> Int] /\ pc \in [Threads -> PCs]
    /\ batch \in [Threads -> SUBSET Fds] /\ errs \in [Threads -> SUBSET Fds]
    /\ timeouts \in [Threads -> SUBSET Fds]
    /\ closing \in [Threads -> Fds \cup {NoFd}]
    /\ new_fd \in [Threads -> Fds \cup {NoFd}]
    /\ num_connections \in [Threads -> 0 .. WordSize - 1]
    /\ client_to_timer \in [Threads -> [Fds -> Fds \cup {NoFd}]]
    /\ timer_to_client \in [Threads -> [Fds -> Fds \cup {NoFd}]]

\* The clients that thread t watches.
Clients(t) == {f \in Fds : kind[f] = "client" /\ ep[f] = t}

\* num_connections of every thread is the number of clients it watches, plus
\* the one whose close_client_callback is under way: no path through the
\* error, timeout, accept and read branches closes a client twice or forgets one.
CountMatches ==
    \A t \in Threads :
      num_connections[t] =
        Cardinality(Clients(t)) + (IF closing[t] = NoFd THEN 0 ELSE 1)

\* No thread holds more than max_connections clients.  Outside the accept loop, a
\* thread has removed server_fd from its epoll instance exactly when it is full, so
\* the EPOLL_CTL_ADD that close_client_callback issues when the thread was full
\* always succeeds.
ListenerMatches ==
    \A t \in Threads :
      /\ num_connections[t] <= MaxConnections
      /\ accept_mutex # t => (srv[t] = "absent" <=> ~HasRoom(t))

\* However many threads lose try_lock and so never watch server_fd again, one
\* thread always still watches it, is accepting, or is full and will watch it
\* again at its next disconnect.
SomeoneListens == \E t \in Threads : srv[t] # "deaf"

\* No descriptor leaks.  A timer is open only while the maps of the thread that
\* watches it pair it, both ways, with one of that thread's clients; a client is
\* open only while a thread watches it or is accepting it.
DescriptorsAccounted ==
    /\ \A m \in Fds : kind[m] = "timer" =>
         \E t \in Threads, f \in Fds :
            /\ ep[m] = t /\ timer_to_client[t][m] = f
            /\ kind[f] = "client" /\ ep[f] = t /\ client_to_timer[t][f] = m
    /\ \A f \in Fds : kind[f] = "client" =>
         \E t \in Threads : ep[f] = t \/ (pc[t] = "track" /\ new_fd[t] = f)

\* f has a timer that will end it when it stays idle.
Timed(f) ==
    \E t \in Threads, m \in Fds :
      ep[f] = t /\ ep[m] = t /\ kind[m] = "timer" /\ timer_to_client[t][m] = f

\* While there are descriptors for both, every client a thread watches keeps a timer
\* of its own, so that it cannot stay longer than its idle timeout.
ClientsTimed == \A t \in Threads : \A f \in Clients(t) : Timed(f)

\* Every on_connect gets exactly one on_disconnect: one is due for each client that a
\* thread watches, and for each whose close_client_callback is under way, when another
\* thread may already have accepted, and connected, the same number again.
SessionsMatch ==
    \A f \in Fds :
      sessions[f] = Cardinality({t \in Threads : f \in Clients(t)})
                    + Cardinality({t \in Threads : closing[t] = f})

\* What the constructor's comment says of every thread: it "is able to accept
\* new connections", that is, a waiting thread with room watches server_fd.
EveryThreadListens ==
    \A t \in Threads : pc[t] = "wait" /\ HasRoom(t) => srv[t] = "armed"

\* What the constructor's comment says of a timeout and a read event that both
\* trigger for one client ("Resolved?"): the client still ends only once, so the
\* application never sees more on_disconnect calls than on_connect calls.
DisconnectedOnce == \A f \in Fds : sessions[f] >= 0

\* A client with something to read is read or closed in the end, if only by its timer
\* when on_read's result left it disarmed, unless an accept() out of descriptors has
\* stopped the server.  One that timerfd_create left without a timer has no such promise.
PendingServed ==
    \A f \in Fds :
      (kind[f] = "client" /\ peer[f] # "quiet" /\ Timed(f))
        ~> (kind[f] # "client" \/ peer[f] = "quiet" \/ ~running)

\* Connections keep being accepted unless none is waiting, every thread that still
\* watches server_fd is full, or an accept() out of descriptors stopped the server.
AcceptProgress ==
    \/ []<><<backlog' < backlog>>_vars
    \/ <>~running
    \/ []<>(backlog = 0)
    \/ []<>(/\ \A t \in Threads : srv[t] \in {"deaf", "absent"}
            /\ \E t \in Threads : srv[t] = "absent")
=============================================================================
