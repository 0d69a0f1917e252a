------------------------- MODULE EpollServerProofs -------------------------
(***************************************************************************)
(* Machine-checked proofs about EpollServer, for any number of threads,     *)
(* descriptors and connections.  Type correctness and SomeoneListens hold   *)
(* whatever the peers do; what the server knows of its connections is exact *)
(* as long as resets and idle timeouts do not meet (OneCause).              *)
(***************************************************************************)
EXTENDS EpollServer, FiniteSetTheorems, FunctionTheorems, TLAPS

Accepting == {"accept", "track", "unlock"}

\* In the accept branch no client is being closed, and an accepted client
\* still finds room.
AcceptInv ==
    \A t \in Threads :
      /\ pc[t] \in Accepting => closing[t] = NoFd
      /\ pc[t] = "track" => HasRoom(t) /\ new_fd[t] \in Fds

\* accept_mutex is held by exactly the thread in the accept branch, whose
\* registration of server_fd is disarmed meanwhile.
MutexInv ==
    \A t \in Threads :
      /\ pc[t] \in Accepting <=> accept_mutex = t
      /\ accept_mutex = t => srv[t] = "fired"

\* Descriptor 0 stays standard input; only clients and timers are watched, and a
\* client being accepted is watched by nobody yet.
KernelInv ==
    /\ \A f \in Fds : kind[f] = "stdin" <=> f = Stdin
    /\ \A f \in Fds : kind[f] \in {"free", "stdin", "elsewhere"} => ep[f] = NoThread
    /\ \A t \in Threads : pc[t] = "track" =>
         kind[new_fd[t]] = "client" /\ ep[new_fd[t]] = NoThread

\* The two maps of a thread pair its timers with its clients; only entries of
\* value 0, left by stale events, have no counterpart.
MapsInv ==
    /\ \A t \in Threads, m, f \in Fds : timer_to_client[t][m] = f =>
         /\ kind[m] = "timer" /\ ep[m] = t
         /\ kind[f] = "client" /\ ep[f] = t
         /\ client_to_timer[t][f] = m
    /\ \A t \in Threads, m, f \in Fds :
         client_to_timer[t][f] = m /\ m # Stdin => timer_to_client[t][m] = f
    /\ \A m \in Fds : kind[m] = "timer" =>
         ep[m] \in Threads /\ timer_to_client[ep[m]][m] \in Fds

\* Timers reported to a thread are its own, and it handles no other event
\* before it has closed them.
TimeoutsInv ==
    \A t \in Threads :
      /\ timeouts[t] # {} => pc[t] = "timeouts"
      /\ \A m \in timeouts[t] : kind[m] = "timer" /\ ep[m] = t

\* The rest of the process keeps within its bound.
ElsewhereInv == Cardinality(Elsewhere) <= MaxElsewhere

\* There are descriptors for max_connections clients of every thread and their timers,
\* beside those that the rest of the process has.
EnoughFds ==
    Cardinality(Fds) > 2 * MaxConnections * Cardinality(Threads) + MaxElsewhere

\* A timeout and another event of one client in the same batch close it twice, as
\* DisconnectedOnce shows; and an error event of a client without a timer closes
\* descriptor 0.  Short of these two, what the server counts and maps is exact.
OneCause == Resets => ~Timeouts /\ EnoughFds

\* Errors are among the events of a batch, and come from peers that reset.  Where no
\* timer fires, only the client's own event ends it: the events of a batch are all of
\* clients that the thread still watches.
EventsInv ==
    /\ \A f \in Fds : peer[f] = "rst" => Resets
    /\ \A t \in Threads : errs[t] \subseteq batch[t] /\ (errs[t] # {} => Resets)
    /\ ~Timeouts => expired = {}
    /\ \A t \in Threads : ~Timeouts => timeouts[t] = {} /\ batch[t] \subseteq Clients(t)

\* With enough descriptors timerfd_create never fails.
TimedInv == EnoughFds =>
    \A t \in Threads : \A f \in Clients(t) : client_to_timer[t][f] \in Fds \ {Stdin}

LinkInv ==
    /\ TypeOK /\ AcceptInv /\ MutexInv /\ KernelInv /\ MapsInv /\ TimeoutsInv
    /\ EventsInv /\ TimedInv /\ ElsewhereInv
-----------------------------------------------------------------------------
(* Type correctness *)

TypeInv == TypeOK /\ AcceptInv

\* close() of any set of descriptors keeps the kernel's part of the state typed:
\* every handler that ends a connection calls it.
LEMMA KernelCloseType ==
    ASSUME TypeOK, NEW S, KernelClose(S)
    PROVE  /\ kind' \in [Fds -> Kinds] /\ ep' \in [Fds -> Threads \cup {NoThread}]
           /\ peer' \in [Fds -> PeerStates]
           /\ armed' \subseteq Fds /\ expired' \subseteq Fds
  BY DEF TypeOK, KernelClose, Kinds, PeerStates

\* An update of one entry of a thread's map keeps the maps typed.
LEMMA MapUpdate ==
    ASSUME NEW g \in [Threads -> [Fds -> Fds \cup {NoFd}]],
           NEW t \in Threads, NEW f \in Fds, NEW v \in Fds \cup {NoFd}
    PROVE  [g EXCEPT ![t][f] = v] \in [Threads -> [Fds -> Fds \cup {NoFd}]]
  OBVIOUS

\* The server starts in a typed state: the setup of run_thread.
LEMMA TypeInit == Init => TypeInv
  BY ConstantsAssumption DEF Init, TypeInv, TypeOK, AcceptInv, Kinds, PeerStates, PCs

\* No call of a handler of run_thread leaves the types.
LEMMA TypeStep ==
    ASSUME TypeInv, NEW t \in Threads, Step(t)
    PROVE  TypeInv'
<1> USE ConstantsAssumption DEF TypeInv, AcceptInv, Accepting, HasRoom
<1>1. CASE EpollWait(t)
  BY <1>1 DEF EpollWait, TypeOK, kernel, maps, PCs, Harvest
<1>2. CASE EpollWaitTimesOut(t)
  BY <1>2 DEF EpollWaitTimesOut, TypeOK, kernel, maps, events, registrations, PCs
<1>3. CASE BatchDone(t)
  BY <1>3 DEF BatchDone, TypeOK, kernel, maps, events, registrations, PCs
<1>4. CASE ErrorEvent(t)
  <2>1. PICK f \in errs[t] :
          LET timer_fd == At(client_to_timer[t], f) IN
          /\ client_to_timer' = [client_to_timer EXCEPT ![t][f] = NoFd]
          /\ timer_to_client' = [timer_to_client EXCEPT ![t][timer_fd] = NoFd]
          /\ KernelClose({timer_fd, f})
          /\ closing' = [closing EXCEPT ![t] = f]
          /\ batch' = [batch EXCEPT ![t] = @ \ {f}]
          /\ errs' = [errs EXCEPT ![t] = @ \ {f}]
    BY <1>4 DEF ErrorEvent, CloseConnection
  <2>2. f \in Fds /\ At(client_to_timer[t], f) \in Fds
    BY DEF TypeOK, At
  <2>3. /\ kind' \in [Fds -> Kinds] /\ ep' \in [Fds -> Threads \cup {NoThread}]
        /\ peer' \in [Fds -> PeerStates]
        /\ armed' \subseteq Fds /\ expired' \subseteq Fds
    BY <2>1, KernelCloseType
  <2>4. /\ client_to_timer' \in [Threads -> [Fds -> Fds \cup {NoFd}]]
        /\ timer_to_client' \in [Threads -> [Fds -> Fds \cup {NoFd}]]
    BY <2>1, <2>2 DEF TypeOK
  <2> QED
    BY <1>4, <2>1, <2>2, <2>3, <2>4 DEF ErrorEvent, Handling, TypeOK, registrations
<1>5. CASE Disconnect(t)
  <2>1. num_connections' \in [Threads -> 0 .. WordSize - 1]
    BY <1>5 DEF Disconnect, CountDown, TypeOK
  <2>2. sessions' \in [Fds -> Int]
    BY <1>5 DEF Disconnect, TypeOK
  <2>3. closing' \in [Threads -> Fds \cup {NoFd}] /\ UNCHANGED new_fd
        /\ \A u \in Threads : pc'[u] \in Accepting => closing'[u] = NoFd
    BY <1>5 DEF Disconnect, TypeOK
  <2>4. \A u \in Threads : pc'[u] = "track" => u # t /\ HasRoom(u)'
    BY <1>5 DEF Disconnect, TypeOK
  <2> QED
    BY <1>5, <2>1, <2>2, <2>3, <2>4 DEF Disconnect, TypeOK, kernel, maps, events
<1>6. CASE TimeoutEvent(t)
  BY <1>6 DEF TimeoutEvent, Harvest, ExpiredTimers, TypeOK, kernel, maps, registrations, PCs
<1>7. CASE CloseTimedOut(t)
  <2>1. PICK m \in timeouts[t] :
          LET client == At(timer_to_client[t], m) IN
          /\ timer_to_client' = [timer_to_client EXCEPT ![t][m] = NoFd]
          /\ client_to_timer' = [client_to_timer EXCEPT ![t][client] = NoFd]
          /\ timeouts' = [timeouts EXCEPT ![t] = @ \ {m}]
          /\ \/ /\ KernelClose({m, client})
                /\ closing' = [closing EXCEPT ![t] = client]
             \/ UNCHANGED <<kernel, closing>>
    BY <1>7 DEF CloseTimedOut, CloseConnection
  <2>2. m \in Fds /\ At(timer_to_client[t], m) \in Fds
    BY DEF TypeOK, At
  <2>3. /\ kind' \in [Fds -> Kinds] /\ ep' \in [Fds -> Threads \cup {NoThread}]
        /\ peer' \in [Fds -> PeerStates]
        /\ armed' \subseteq Fds /\ expired' \subseteq Fds
    <3>1. CASE UNCHANGED kernel
      BY <3>1 DEF TypeOK, kernel
    <3> QED
      BY <2>1, <3>1, KernelCloseType
  <2>4. /\ client_to_timer' \in [Threads -> [Fds -> Fds \cup {NoFd}]]
        /\ timer_to_client' \in [Threads -> [Fds -> Fds \cup {NoFd}]]
    BY <2>1, <2>2, MapUpdate DEF TypeOK
  <2>5. timeouts' \in [Threads -> SUBSET Fds]
    BY <2>1 DEF TypeOK
  <2>6. closing' \in [Threads -> Fds \cup {NoFd}]
    <3>1. CASE closing' = [closing EXCEPT ![t] = At(timer_to_client[t], m)]
      BY <2>2, <3>1 DEF TypeOK
    <3> QED
      BY <2>1, <3>1 DEF TypeOK
  <2>7. \A u \in Threads : pc[u] \in Accepting => closing'[u] = NoFd
    BY <1>7, <2>1 DEF CloseTimedOut, TypeOK, kernel
  <2> QED
    BY <1>7, <2>3, <2>4, <2>5, <2>6, <2>7 DEF CloseTimedOut, TypeOK, registrations
<1>8. CASE TimeoutsDone(t)
  BY <1>8 DEF TimeoutsDone, TypeOK, kernel, maps, events, PCs
<1>9. CASE AcceptLock(t)
  BY <1>9 DEF AcceptLock, Handling, TypeOK, kernel, maps, events, registrations, PCs
<1>10. CASE AcceptBusy(t)
  BY <1>10 DEF AcceptBusy, TypeOK, kernel, maps, events, PCs
<1>11. CASE AcceptClient(t)
  BY <1>11 DEF AcceptClient, FreeFds, TypeOK, maps, events, registrations, Kinds, PCs
<1>12. CASE AcceptFails(t)
  BY <1>12 DEF AcceptFails, TypeOK, kernel, maps, events, registrations, PCs
<1>13. CASE ContinuationFails(t)
  BY <1>13, KernelCloseType
  DEF ContinuationFails, TypeOK, maps, events, registrations, PCs
<1>14. CASE Track(t)
  <2>1. /\ kind' \in [Fds -> Kinds] /\ ep' \in [Fds -> Threads \cup {NoThread}]
        /\ timer_to_client' \in [Threads -> [Fds -> Fds \cup {NoFd}]]
        /\ client_to_timer' \in [Threads -> [Fds -> Fds \cup {NoFd}]]
    <3>1. new_fd[t] \in Fds
      BY <1>14 DEF Track
    <3>2. CASE UNCHANGED <<kind, maps>> /\ ep' = [ep EXCEPT ![new_fd[t]] = t]
      BY <3>1, <3>2 DEF TypeOK, maps
    <3>3. ASSUME NEW m \in Fds,
                 kind' = [kind EXCEPT ![m] = "timer"],
                 ep' = [ep EXCEPT ![new_fd[t]] = t, ![m] = t],
                 timer_to_client' = [timer_to_client EXCEPT ![t][m] = new_fd[t]],
                 client_to_timer' = [client_to_timer EXCEPT ![t][new_fd[t]] = m]
          PROVE  /\ kind' \in [Fds -> Kinds] /\ ep' \in [Fds -> Threads \cup {NoThread}]
                 /\ timer_to_client' \in [Threads -> [Fds -> Fds \cup {NoFd}]]
                 /\ client_to_timer' \in [Threads -> [Fds -> Fds \cup {NoFd}]]
      <4>1. kind' \in [Fds -> Kinds] /\ ep' \in [Fds -> Threads \cup {NoThread}]
        BY <3>1, <3>3 DEF TypeOK, Kinds
      <4>2. /\ timer_to_client' \in [Threads -> [Fds -> Fds \cup {NoFd}]]
            /\ client_to_timer' \in [Threads -> [Fds -> Fds \cup {NoFd}]]
        BY <3>1, <3>3, MapUpdate DEF TypeOK
      <4> QED
        BY <4>1, <4>2
    <3> QED
      BY <1>14, <3>2, <3>3 DEF Track, FreeFds
  <2>2. num_connections' \in [Threads -> 0 .. WordSize - 1]
    BY <1>14 DEF Track, TypeOK
  <2> QED
    BY <1>14, <2>1, <2>2 DEF Track, TypeOK, events, registrations, PCs
<1>15. CASE AcceptUnlock(t)
  BY <1>15 DEF AcceptUnlock, Rearm, TypeOK, kernel, maps, events, PCs
<1>16. CASE ReadEvent(t)
  <2>1. PICK f \in batch[t] \ errs[t] :
          LET timer_fd == At(client_to_timer[t], f) IN
          /\ batch' = [batch EXCEPT ![t] = @ \ {f}]
          /\ \/ /\ client_to_timer' = [client_to_timer EXCEPT ![t][f] = timer_fd]
                /\ UNCHANGED <<kernel, closing, timer_to_client>>
             \/ /\ client_to_timer' = [client_to_timer EXCEPT ![t][f] = NoFd]
                /\ timer_to_client' = [timer_to_client EXCEPT ![t][timer_fd] = NoFd]
                /\ KernelClose({timer_fd, f})
                /\ closing' = [closing EXCEPT ![t] = f]
             \/ /\ armed' \in {armed, armed \cup {f}}
                /\ expired' = expired \ {timer_fd}
                /\ peer' = [peer EXCEPT ![f] = "quiet"]
                /\ UNCHANGED <<kind, ep, closing, maps>>
    BY <1>16 DEF ReadEvent, CloseConnection
  <2>2. f \in Fds /\ At(client_to_timer[t], f) \in Fds
    BY DEF TypeOK, At
  <2>3. /\ kind' \in [Fds -> Kinds] /\ ep' \in [Fds -> Threads \cup {NoThread}]
        /\ peer' \in [Fds -> PeerStates]
        /\ armed' \subseteq Fds /\ expired' \subseteq Fds
    <3>1. CASE KernelClose({At(client_to_timer[t], f), f})
      BY <3>1, KernelCloseType
    <3>2. CASE UNCHANGED kernel
      BY <3>2 DEF TypeOK, kernel
    <3>3. CASE /\ armed' \in {armed, armed \cup {f}}
               /\ expired' \subseteq expired
               /\ peer' = [peer EXCEPT ![f] = "quiet"]
               /\ UNCHANGED <<kind, ep>>
      BY <2>2, <3>3 DEF TypeOK, PeerStates
    <3> QED
      BY <2>1, <3>1, <3>2, <3>3
  <2>4. /\ client_to_timer' \in [Threads -> [Fds -> Fds \cup {NoFd}]]
        /\ timer_to_client' \in [Threads -> [Fds -> Fds \cup {NoFd}]]
    <3>1. CASE UNCHANGED maps
      BY <3>1 DEF TypeOK, maps
    <3>2. CASE /\ client_to_timer' =
                    [client_to_timer EXCEPT ![t][f] = At(client_to_timer[t], f)]
               /\ UNCHANGED timer_to_client
      BY <2>2, <3>2, MapUpdate DEF TypeOK
    <3>3. CASE /\ client_to_timer' = [client_to_timer EXCEPT ![t][f] = NoFd]
               /\ timer_to_client' =
                    [timer_to_client EXCEPT ![t][At(client_to_timer[t], f)] = NoFd]
      BY <2>2, <3>3, MapUpdate DEF TypeOK
    <3> QED
      BY <2>1, <3>1, <3>2, <3>3
  <2>7. closing' \in [Threads -> Fds \cup {NoFd}]
    BY ZenonT(60), <2>1, <2>2 DEF TypeOK
  <2>5. batch' \in [Threads -> SUBSET Fds]
    BY <2>1 DEF TypeOK
  <2>6. \A u \in Threads : pc[u] \in Accepting => closing'[u] = NoFd
    BY <1>16, <2>1 DEF ReadEvent, Handling, TypeOK
  <2> QED
    BY <1>16, <2>3, <2>4, <2>5, <2>6, <2>7 DEF ReadEvent, TypeOK, registrations
<1> QED
  BY <1>1, <1>2, <1>3, <1>4, <1>5, <1>6, <1>7, <1>8, <1>9, <1>10, <1>11, <1>12,
     <1>13, <1>14, <1>15, <1>16 DEF Step

\* Nor does anything the peers or the clock do.
LEMMA TypeNext == TypeInv /\ [Next]_vars => TypeInv'
<1> SUFFICES ASSUME TypeInv, [Next]_vars PROVE TypeInv'
  OBVIOUS
<1> USE DEF TypeInv, AcceptInv, Accepting, HasRoom
<1>1. CASE \E t \in Threads : Step(t)
  BY <1>1, TypeStep
<1>2. CASE Connect
  BY <1>2, ConstantsAssumption DEF Connect, TypeOK, kernel, maps, events, registrations
<1>3. ASSUME NEW f \in Fds, PeerActs(f) PROVE TypeInv'
  BY <1>3 DEF PeerActs, TypeOK, maps, events, registrations, PeerStates
<1>4. ASSUME NEW f \in Fds, TimerFires(f) PROVE TypeInv'
  BY <1>4 DEF TimerFires, TypeOK, maps, events, registrations
<1>5. ASSUME NEW f \in Fds, OpenElsewhere(f) \/ CloseElsewhere(f) PROVE TypeInv'
  BY <1>5 DEF OpenElsewhere, CloseElsewhere, TypeOK, maps, events, registrations, Kinds
<1>6. CASE UNCHANGED vars
  BY <1>6 DEF vars, TypeOK, kernel, maps, events, registrations
<1> QED
  BY <1>1, <1>2, <1>3, <1>4, <1>5, <1>6 DEF Next, AllExited

\* Every variable of the server holds a value of its type in every reachable
\* state, with num_connections within an unsigned long.
THEOREM TypeCorrect == Spec => []TypeOK
<1>1. Init => TypeInv
  BY TypeInit
<1>2. TypeInv /\ [Next]_vars => TypeInv'
  BY TypeNext
<1>3. TypeInv => TypeOK
  BY DEF TypeInv
<1> QED
  BY <1>1, <1>2, <1>3, PTL DEF Spec
-----------------------------------------------------------------------------
(* One thread always listens *)

ListenInv == TypeInv /\ MutexInv /\ SomeoneListens

\* Only the handlers that take or release accept_mutex, or change a thread's
\* registration of server_fd, can disturb MutexInv.
LEMMA MutexStep ==
    ASSUME TypeInv, MutexInv, NEW t \in Threads, Step(t)
    PROVE  MutexInv'
<1> USE ConstantsAssumption DEF MutexInv, Accepting
<1>1. CASE EpollWait(t)
  BY <1>1 DEF EpollWait, TypeInv, TypeOK
<1>2. CASE Disconnect(t)
  BY <1>2 DEF Disconnect, TypeInv, TypeOK, AcceptInv
<1>3. CASE AcceptLock(t)
  BY <1>3 DEF AcceptLock, Handling, TypeInv, TypeOK, registrations
<1>4. CASE AcceptBusy(t)
  BY <1>4 DEF AcceptBusy, Handling, TypeInv, TypeOK
<1>5. CASE AcceptUnlock(t)
  BY <1>5 DEF AcceptUnlock, TypeInv, TypeOK
<1>6. CASE AcceptClient(t) \/ AcceptFails(t) \/ ContinuationFails(t) \/ Track(t)
  BY <1>6 DEF AcceptClient, AcceptFails, ContinuationFails, Track, TypeInv, TypeOK,
     registrations
<1>7. CASE EpollWaitTimesOut(t) \/ BatchDone(t) \/ TimeoutEvent(t) \/ TimeoutsDone(t)
  BY <1>7 DEF EpollWaitTimesOut, BatchDone, Handling, TimeoutEvent, TimeoutsDone,
     TypeInv, TypeOK, registrations
<1>8. CASE ErrorEvent(t) \/ CloseTimedOut(t) \/ ReadEvent(t)
  BY <1>8 DEF ErrorEvent, CloseTimedOut, ReadEvent, registrations
<1> QED
  BY <1>1, <1>2, <1>3, <1>4, <1>5, <1>6, <1>7, <1>8 DEF Step

\* A thread goes deaf only while another one holds accept_mutex, and that one is
\* not deaf; re-arming and disconnecting never deafen.
LEMMA ListenStep ==
    ASSUME ListenInv, NEW t \in Threads, Step(t)
    PROVE  SomeoneListens'
<1> USE ConstantsAssumption DEF ListenInv, SomeoneListens
<1>1. PICK u \in Threads : srv[u] # "deaf"
  OBVIOUS
<1>2. CASE AcceptBusy(t)
  <2>1. accept_mutex \in Threads /\ accept_mutex # t
    BY <1>2 DEF AcceptBusy, Handling, MutexInv, Accepting, TypeInv, TypeOK
  <2>2. srv'[accept_mutex] = "fired"
    BY <1>2, <2>1 DEF AcceptBusy, MutexInv, TypeInv, TypeOK
  <2> QED
    BY <2>1, <2>2
<1>3. CASE EpollWait(t)
  BY <1>1, <1>3 DEF EpollWait, TypeInv, TypeOK
<1>4. CASE Disconnect(t)
  BY <1>1, <1>4 DEF Disconnect, TypeInv, TypeOK
<1>5. CASE AcceptUnlock(t)
  BY <1>1, <1>5 DEF AcceptUnlock, Rearm, TypeInv, TypeOK
<1>6. CASE UNCHANGED srv
  BY <1>1, <1>6
<1> QED
  BY <1>2, <1>3, <1>4, <1>5, <1>6
  DEF Step, EpollWaitTimesOut, BatchDone, TimeoutEvent, TimeoutsDone, ErrorEvent,
      CloseTimedOut, ReadEvent, AcceptLock, AcceptClient, AcceptFails,
      ContinuationFails, Track, registrations

\* Losing try_lock leaves a thread deaf, but never the whole server: in every
\* reachable state some thread still watches server_fd, is accepting, or is full
\* and will watch it again.
THEOREM SomeoneAlwaysListens == Spec => []SomeoneListens
<1>1. Init => ListenInv
  BY TypeInit, ConstantsAssumption
  DEF Init, ListenInv, MutexInv, Accepting, SomeoneListens
<1>2. ListenInv /\ [Next]_vars => ListenInv'
  <2> SUFFICES ASSUME ListenInv, [Next]_vars PROVE ListenInv'
    OBVIOUS
  <2>1. TypeInv'
    BY TypeNext DEF ListenInv
  <2>2. CASE \E t \in Threads : Step(t)
    BY <2>1, <2>2, MutexStep, ListenStep DEF ListenInv
  <2>3. CASE UNCHANGED <<pc, accept_mutex, srv>>
    BY <2>1, <2>3 DEF ListenInv, MutexInv, SomeoneListens
  <2> QED
    BY <2>2, <2>3
    DEF Next, AllExited, Connect, PeerActs, TimerFires, OpenElsewhere, CloseElsewhere,
        vars, registrations
<1>3. ListenInv => SomeoneListens
  BY DEF ListenInv
<1> QED
  BY <1>1, <1>2, <1>3, PTL DEF Spec
-----------------------------------------------------------------------------
(* What a thread knows of its connections *)

\* Thread t ends the connection of client f and its timer m, and calls back.
Ends(t, m, f) ==
    /\ timer_to_client[t][m] = f
    /\ KernelClose({m, f})
    /\ client_to_timer' = [client_to_timer EXCEPT ![t][f] = NoFd]
    /\ timer_to_client' = [timer_to_client EXCEPT ![t][m] = NoFd]
    /\ closing[t] = NoFd /\ closing' = [closing EXCEPT ![t] = f]
    /\ m \notin timeouts'[t] /\ (~Timeouts => f \notin batch'[t])

\* Thread t leaves every connection as it was; only the value 0 that operator[] reads
\* for a missing timer may stay in the map.
Spares(t, f) ==
    /\ client_to_timer' = [client_to_timer EXCEPT ![t][f] = At(client_to_timer[t], f)]
    /\ UNCHANGED <<kind, ep, closing, timer_to_client>>

\* What the branches for errors, timeouts and reads share.
Serves(t) ==
    /\ UNCHANGED <<backlog, registrations, accept_mutex, running, sessions, pc, new_fd,
                   num_connections>>
    /\ \A f \in Fds : peer'[f] \in {peer[f], "quiet"}
    /\ expired' \subseteq expired
    /\ \A u \in Threads : /\ timeouts'[u] \subseteq timeouts[u]
                          /\ batch'[u] \subseteq batch[u]
                          /\ errs'[u] \subseteq errs[u] \cap batch'[u]

\* A timer and the client it is paired with are closed together: the other pairs
\* stay, whichever of the two branches closes them.
LEMMA EndConnection ==
    ASSUME LinkInv, NEW t \in Threads, NEW m \in Fds, NEW f \in Fds,
           timer_to_client[t][m] = f,
           KernelClose({m, f}), UNCHANGED <<pc, new_fd>>,
           client_to_timer' = [client_to_timer EXCEPT ![t][f] = NoFd],
           timer_to_client' = [timer_to_client EXCEPT ![t][m] = NoFd]
    PROVE  KernelInv' /\ MapsInv'
<1> USE ConstantsAssumption DEF LinkInv
<1>1. /\ kind[m] = "timer" /\ ep[m] = t /\ kind[f] = "client" /\ ep[f] = t
      /\ client_to_timer[t][f] = m
  BY DEF MapsInv
<1>2. \A g \in Fds : g \notin {m, f} => kind'[g] = kind[g] /\ ep'[g] = ep[g]
  BY DEF KernelClose
<1>3. \A g \in {m, f} : kind'[g] = "free" /\ ep'[g] = NoThread
  BY DEF KernelClose
<1>4. KernelInv'
  <2>1. \A g \in Fds : kind'[g] = "stdin" <=> g = Stdin
    BY <1>1, <1>2, <1>3 DEF KernelInv
  <2>2. \A g \in Fds : kind'[g] \in {"free", "stdin", "elsewhere"} => ep'[g] = NoThread
    BY <1>2, <1>3 DEF KernelInv
  <2>3. ASSUME NEW u \in Threads, pc[u] = "track"
        PROVE  kind'[new_fd[u]] = "client" /\ ep'[new_fd[u]] = NoThread
    <3>1. new_fd[u] \in Fds /\ kind[new_fd[u]] = "client" /\ ep[new_fd[u]] = NoThread
      BY <2>3 DEF KernelInv, AcceptInv
    <3> QED
      BY <1>1, <1>2, <3>1
  <2> QED
    BY <2>1, <2>2, <2>3 DEF KernelInv
<1>5. ASSUME NEW u \in Threads, NEW n \in Fds, NEW g \in Fds
      PROVE  /\ timer_to_client'[u][n] = g <=>
                   timer_to_client[u][n] = g /\ ~(u = t /\ n = m)
             /\ client_to_timer'[u][g] = n <=>
                   client_to_timer[u][g] = n /\ ~(u = t /\ g = f)
  BY <1>5 DEF TypeOK
<1>6. ASSUME NEW u \in Threads, NEW n \in Fds, NEW g \in Fds,
             timer_to_client'[u][n] = g
      PROVE  /\ kind'[n] = "timer" /\ ep'[n] = u
             /\ kind'[g] = "client" /\ ep'[g] = u
             /\ client_to_timer'[u][g] = n
  <2>1. timer_to_client[u][n] = g /\ ~(u = t /\ n = m)
    BY <1>5, <1>6
  <2>2. /\ kind[n] = "timer" /\ ep[n] = u /\ kind[g] = "client" /\ ep[g] = u
        /\ client_to_timer[u][g] = n
    BY <2>1 DEF MapsInv
  <2>3. n \notin {m, f} /\ g \notin {m, f}
    BY <1>1, <2>1, <2>2
  <2> QED
    BY <1>2, <1>5, <2>1, <2>2, <2>3
<1>7. ASSUME NEW u \in Threads, NEW n \in Fds, NEW g \in Fds,
             client_to_timer'[u][g] = n, n # Stdin
      PROVE  timer_to_client'[u][n] = g
  <2>1. timer_to_client[u][n] = g /\ ~(u = t /\ g = f)
    BY <1>5, <1>7 DEF MapsInv
  <2> QED
    BY <1>1, <1>5, <2>1
<1>8. ASSUME NEW n \in Fds, kind'[n] = "timer"
      PROVE  ep'[n] \in Threads /\ timer_to_client'[ep'[n]][n] \in Fds
  BY <1>2, <1>3, <1>5, <1>8 DEF MapsInv
<1> QED
  BY <1>4, <1>6, <1>7, <1>8 DEF MapsInv

\* ... and the thread watches one client less.
LEMMA EndConnectionCount ==
    ASSUME LinkInv, NEW t \in Threads, NEW m \in Fds, NEW f \in Fds,
           timer_to_client[t][m] = f, KernelClose({m, f})
    PROVE  /\ f \in Clients(t) /\ Clients(t)' = Clients(t) \ {f}
           /\ Cardinality(Clients(t)') = Cardinality(Clients(t)) - 1
           /\ \A u \in Threads \ {t} : Clients(u)' = Clients(u)
<1>1. kind[m] = "timer" /\ kind[f] = "client" /\ ep[f] = t
  BY DEF LinkInv, MapsInv
<1>2. f \in Clients(t) /\ Clients(t)' = Clients(t) \ {f}
  BY <1>1, ConstantsAssumption DEF Clients, KernelClose
<1>3. IsFiniteSet(Clients(t))
  BY ConstantsAssumption, FS_Subset DEF Clients
<1>4. \A u \in Threads \ {t} : Clients(u)' = Clients(u)
  BY <1>1, ConstantsAssumption DEF Clients, KernelClose
<1> QED
  BY <1>2, <1>3, <1>4, FS_RemoveElement

\* The number of clients of a thread is a number.
LEMMA CountType ==
    ASSUME NEW t \in Threads
    PROVE  IsFiniteSet(Clients(t)) /\ Cardinality(Clients(t)) \in Nat
  BY ConstantsAssumption, FS_Subset, FS_CardinalityType DEF Clients

\* An error event is only reported of a client that has a timer, and that nothing else
\* has closed since.
LEMMA ErrorPaired ==
    ASSUME OneCause, LinkInv, NEW t \in Threads, NEW f \in errs[t]
    PROVE  /\ f \in Fds /\ client_to_timer[t][f] \in Fds
           /\ timer_to_client[t][client_to_timer[t][f]] = f
<1>1. Resets /\ f \in batch[t]
  BY DEF LinkInv, EventsInv
<1>2. f \in Clients(t)
  BY <1>1 DEF OneCause, LinkInv, EventsInv
<1>3. f \in Fds /\ client_to_timer[t][f] \in Fds \ {Stdin}
  BY <1>1, <1>2 DEF OneCause, LinkInv, TimedInv, Clients
<1> QED
  BY <1>3 DEF LinkInv, MapsInv

\* The three branches that may close a client end the connection of a timer and a
\* client that the maps pair, or none.
LEMMA EndingStep ==
    ASSUME OneCause, LinkInv, NEW t \in Threads,
           ErrorEvent(t) \/ CloseTimedOut(t) \/ ReadEvent(t)
    PROVE  /\ Serves(t)
           /\ \/ \E m, f \in Fds : Ends(t, m, f)
              \/ \E f \in Fds : Spares(t, f)
<1> USE ConstantsAssumption DEF LinkInv
<1>1. ASSUME NEW S, KernelClose(S)
      PROVE  (\A f \in Fds : peer'[f] \in {peer[f], "quiet"}) /\ expired' \subseteq expired
  BY <1>1 DEF KernelClose
<1>2. CASE ErrorEvent(t)
  <2>1. PICK f \in errs[t] :
          LET timer_fd == At(client_to_timer[t], f) IN
          /\ client_to_timer' = [client_to_timer EXCEPT ![t][f] = NoFd]
          /\ timer_to_client' = [timer_to_client EXCEPT ![t][timer_fd] = NoFd]
          /\ KernelClose({timer_fd, f})
          /\ closing' = [closing EXCEPT ![t] = f]
          /\ batch' = [batch EXCEPT ![t] = @ \ {f}]
          /\ errs' = [errs EXCEPT ![t] = @ \ {f}]
    BY <1>2 DEF ErrorEvent, CloseConnection
  <2> DEFINE m == client_to_timer[t][f]
  <2>2. f \in Fds /\ m \in Fds /\ timer_to_client[t][m] = f
    BY ErrorPaired
  <2>3. At(client_to_timer[t], f) = m
    BY <2>2 DEF At
  <2>4. timeouts[t] = {} /\ closing[t] = NoFd /\ UNCHANGED timeouts
    BY <1>2 DEF ErrorEvent, Handling, TimeoutsInv
  <2>5. f \notin batch'[t]
    BY <2>1 DEF TypeOK
  <2>6. Ends(t, m, f)
    BY <2>1, <2>2, <2>3, <2>4, <2>5 DEF Ends
  <2>7. \A u \in Threads :
          batch'[u] \subseteq batch[u] /\ errs'[u] \subseteq errs[u] \cap batch'[u]
    BY <2>1 DEF TypeOK, EventsInv
  <2>8. Serves(t)
    BY <1>1, <1>2, <2>1, <2>4, <2>7 DEF ErrorEvent, Serves
  <2> QED
    BY <2>2, <2>6, <2>8
<1>3. CASE CloseTimedOut(t)
  <2>1. PICK m \in timeouts[t] :
          LET client == At(timer_to_client[t], m) IN
          /\ timer_to_client' = [timer_to_client EXCEPT ![t][m] = NoFd]
          /\ client_to_timer' = [client_to_timer EXCEPT ![t][client] = NoFd]
          /\ timeouts' = [timeouts EXCEPT ![t] = @ \ {m}]
          /\ kind[m] # "free" => /\ KernelClose({m, client})
                                 /\ closing' = [closing EXCEPT ![t] = client]
    BY <1>3 DEF CloseTimedOut, CloseConnection
  <2> DEFINE f == timer_to_client[t][m]
  <2>2. m \in Fds /\ kind[m] = "timer" /\ ep[m] = t
    BY DEF TypeOK, TimeoutsInv
  <2>3. f \in Fds /\ At(timer_to_client[t], m) = f
    BY <2>2 DEF MapsInv, At
  <2>4. closing[t] = NoFd /\ UNCHANGED <<batch, errs>> /\ Timeouts
    BY <1>3 DEF CloseTimedOut, EventsInv
  <2>5. m \notin timeouts'[t] /\ \A u \in Threads : timeouts'[u] \subseteq timeouts[u]
    BY <2>1 DEF TypeOK
  <2>6. Ends(t, m, f)
    BY <2>1, <2>2, <2>3, <2>4, <2>5 DEF Ends
  <2>7. \A u \in Threads :
          batch'[u] \subseteq batch[u] /\ errs'[u] \subseteq errs[u] \cap batch'[u]
    BY <2>4 DEF EventsInv
  <2>8. Serves(t)
    BY <1>1, <1>3, <2>1, <2>2, <2>5, <2>7 DEF CloseTimedOut, Serves
  <2> QED
    BY <2>2, <2>3, <2>6, <2>8
<1>4. CASE ReadEvent(t)
  <2>1. PICK f \in batch[t] \ errs[t] :
          LET timer_fd == At(client_to_timer[t], f) IN
          /\ batch' = [batch EXCEPT ![t] = @ \ {f}]
          /\ \/ /\ client_to_timer' = [client_to_timer EXCEPT ![t][f] = timer_fd]
                /\ UNCHANGED <<kernel, closing, timer_to_client>>
             \/ /\ kind[timer_fd] = "timer"
                /\ client_to_timer' = [client_to_timer EXCEPT ![t][f] = NoFd]
                /\ timer_to_client' = [timer_to_client EXCEPT ![t][timer_fd] = NoFd]
                /\ KernelClose({timer_fd, f})
                /\ closing' = [closing EXCEPT ![t] = f]
             \/ /\ kind[timer_fd] = "timer"
                /\ expired' = expired \ {timer_fd}
                /\ peer' = [peer EXCEPT ![f] = "quiet"]
                /\ UNCHANGED <<kind, ep, closing, maps>>
    BY <1>4 DEF ReadEvent, CloseConnection, SettimeOk
  <2> DEFINE m == At(client_to_timer[t], f)
  <2>2. f \in Fds /\ m \in Fds /\ m \in {client_to_timer[t][f], Stdin}
    BY DEF TypeOK, At
  <2>3. timeouts[t] = {} /\ closing[t] = NoFd /\ UNCHANGED <<timeouts, errs>>
    BY <1>4 DEF ReadEvent, Handling, TimeoutsInv
  <2>4. f \notin batch'[t]
        /\ \A u \in Threads : batch'[u] \subseteq batch[u] /\ errs'[u] \subseteq errs[u] \cap batch'[u]
    BY <2>1, <2>3 DEF TypeOK, EventsInv
  <2>5. (\A g \in Fds : peer'[g] \in {peer[g], "quiet"}) /\ expired' \subseteq expired
    BY <1>1, <2>1, <2>2 DEF kernel, TypeOK
  <2>6. Serves(t)
    BY <1>4, <2>3, <2>4, <2>5 DEF ReadEvent, Serves
  <2>7. kind[m] = "timer" => m = client_to_timer[t][f] /\ timer_to_client[t][m] = f
    BY <2>2 DEF MapsInv, KernelInv
  <2>8. CASE /\ client_to_timer' = [client_to_timer EXCEPT ![t][f] = m]
             /\ UNCHANGED <<kernel, closing, timer_to_client>>
    BY <2>2, <2>6, <2>8 DEF Spares, kernel
  <2>9. CASE /\ kind[m] = "timer"
             /\ client_to_timer' = [client_to_timer EXCEPT ![t][f] = NoFd]
             /\ timer_to_client' = [timer_to_client EXCEPT ![t][m] = NoFd]
             /\ KernelClose({m, f})
             /\ closing' = [closing EXCEPT ![t] = f]
    <3>1. Ends(t, m, f)
      BY <2>3, <2>4, <2>7, <2>9 DEF Ends
    <3> QED
      BY <2>2, <2>6, <3>1
  <2>10. CASE kind[m] = "timer" /\ UNCHANGED <<kind, ep, closing, maps>>
    <3>1. client_to_timer = [client_to_timer EXCEPT ![t][f] = m]
      BY <2>2, <2>7, <2>10 DEF TypeOK
    <3> QED
      BY <2>2, <2>6, <2>10, <3>1 DEF Spares, maps
  <2> QED
    BY <2>1, <2>8, <2>9, <2>10
<1> QED
  BY <1>2, <1>3, <1>4

\* The handlers of run_thread keep the link between the descriptor table and the
\* two maps of every thread.
LEMMA KernelMapsStep ==
    ASSUME OneCause, LinkInv, NEW t \in Threads, Step(t)
    PROVE  KernelInv' /\ MapsInv'
<1> USE ConstantsAssumption DEF LinkInv
<1>1. CASE AcceptClient(t)
  <2>1. PICK f \in FreeFds : /\ kind' = [kind EXCEPT ![f] = "client"]
                             /\ new_fd' = [new_fd EXCEPT ![t] = f]
    BY <1>1 DEF AcceptClient
  <2>2. f \in Fds /\ kind[f] = "free" /\ ep[f] = NoThread
    BY DEF FreeFds, KernelInv
  <2>3. KernelInv'
    BY <1>1, <2>1, <2>2 DEF AcceptClient, KernelInv, TypeOK, AcceptInv
  <2>4. MapsInv'
    BY <1>1, <2>1, <2>2 DEF AcceptClient, MapsInv, TypeOK, maps
  <2> QED
    BY <2>3, <2>4
<1>2. CASE ContinuationFails(t)
  <2> DEFINE f == new_fd[t]
  <2>1. pc[t] = "track" /\ f \in Fds /\ kind[f] = "client" /\ ep[f] = NoThread
    BY <1>2 DEF ContinuationFails, KernelInv, AcceptInv
  <2>2. /\ kind'[f] = "free" /\ ep'[f] = NoThread
        /\ \A g \in Fds \ {f} : kind'[g] = kind[g] /\ ep'[g] = ep[g]
    BY <1>2, <2>1 DEF ContinuationFails, KernelClose
  <2>3. \A u \in Threads : pc'[u] = "track" => pc[u] = "track" /\ u # t
    BY <1>2 DEF ContinuationFails, TypeOK
  <2>4. \A u \in Threads : pc[u] = "track" => u = t
    BY <2>1 DEF MutexInv, Accepting
  <2>5. KernelInv'
    BY <2>1, <2>2, <2>3, <2>4 DEF KernelInv
  <2>6. MapsInv'
    BY <1>2, <2>1, <2>2 DEF ContinuationFails, MapsInv, maps
  <2> QED
    BY <2>5, <2>6
<1>3. CASE Track(t)
  <2> DEFINE f == new_fd[t]
  <2>1. pc[t] = "track" /\ f \in Fds /\ kind[f] = "client" /\ ep[f] = NoThread
    BY <1>3 DEF Track, KernelInv, AcceptInv
  <2>2. \A u \in Threads : pc'[u] # "track"
    BY <1>3, <2>1 DEF Track, MutexInv, Accepting, TypeOK
  <2>3. CASE UNCHANGED <<kind, maps>> /\ ep' = [ep EXCEPT ![f] = t]
    <3>1. KernelInv'
      BY <2>1, <2>2, <2>3 DEF KernelInv, TypeOK
    <3>2. MapsInv'
      BY <2>1, <2>3 DEF MapsInv, TypeOK, maps
    <3> QED
      BY <3>1, <3>2
  <2>4. ASSUME NEW m \in FreeFds,
               kind' = [kind EXCEPT ![m] = "timer"],
               ep' = [ep EXCEPT ![f] = t, ![m] = t],
               timer_to_client' = [timer_to_client EXCEPT ![t][m] = f],
               client_to_timer' = [client_to_timer EXCEPT ![t][f] = m]
        PROVE  KernelInv' /\ MapsInv'
    <3>1. m \in Fds /\ kind[m] = "free" /\ m # f
      BY <2>1 DEF FreeFds
    <3>2. /\ kind'[m] = "timer" /\ ep'[m] = t /\ kind'[f] = "client" /\ ep'[f] = t
          /\ \A g \in Fds \ {f, m} : kind'[g] = kind[g] /\ ep'[g] = ep[g]
      BY <2>1, <2>4, <3>1 DEF TypeOK
    <3>3. KernelInv'
      BY <2>1, <2>2, <3>1, <3>2 DEF KernelInv
    <3>4. ASSUME NEW u \in Threads, NEW n \in Fds, NEW g \in Fds
          PROVE  /\ timer_to_client'[u][n] = g <=>
                       IF u = t /\ n = m THEN g = f ELSE timer_to_client[u][n] = g
                 /\ client_to_timer'[u][g] = n <=>
                       IF u = t /\ g = f THEN n = m ELSE client_to_timer[u][g] = n
      BY <2>1, <2>4, <3>1 DEF TypeOK
    <3>5. ASSUME NEW u \in Threads, NEW n \in Fds, NEW g \in Fds,
                 timer_to_client'[u][n] = g
          PROVE  /\ kind'[n] = "timer" /\ ep'[n] = u
                 /\ kind'[g] = "client" /\ ep'[g] = u
                 /\ client_to_timer'[u][g] = n
      <4>1. CASE u = t /\ n = m
        BY <3>2, <3>4, <3>5, <4>1
      <4>2. CASE ~(u = t /\ n = m)
        <5>1. timer_to_client[u][n] = g
          BY <3>4, <3>5, <4>2
        <5>2. /\ kind[n] = "timer" /\ ep[n] = u /\ kind[g] = "client" /\ ep[g] = u
              /\ client_to_timer[u][g] = n
          BY <5>1 DEF MapsInv
        <5>3. n \notin {f, m} /\ g \notin {f, m}
          BY <2>1, <3>1, <5>2
        <5> QED
          BY <3>2, <3>4, <5>2, <5>3
      <4> QED
        BY <4>1, <4>2
    <3>6. ASSUME NEW u \in Threads, NEW n \in Fds, NEW g \in Fds,
                 client_to_timer'[u][g] = n, n # Stdin
          PROVE  timer_to_client'[u][n] = g
      <4>1. CASE u = t /\ g = f
        BY <3>4, <3>6, <4>1
      <4>2. CASE ~(u = t /\ g = f)
        <5>1. timer_to_client[u][n] = g
          BY <3>4, <3>6, <4>2 DEF MapsInv
        <5>2. n # m
          BY <3>1, <5>1 DEF MapsInv
        <5> QED
          BY <3>4, <5>1, <5>2
      <4> QED
        BY <4>1, <4>2
    <3>7. ASSUME NEW n \in Fds, kind'[n] = "timer"
          PROVE  ep'[n] \in Threads /\ timer_to_client'[ep'[n]][n] \in Fds
      BY <2>1, <3>1, <3>2, <3>4, <3>7 DEF MapsInv
    <3> QED
      BY <3>3, <3>5, <3>6, <3>7 DEF MapsInv
  <2> QED
    BY <1>3, <2>3, <2>4 DEF Track
<1>4. CASE ErrorEvent(t) \/ CloseTimedOut(t) \/ ReadEvent(t)
  <2>1. UNCHANGED <<pc, new_fd>>
    BY <1>4, EndingStep DEF Serves
  <2>2. ASSUME NEW m \in Fds, NEW f \in Fds, Ends(t, m, f) PROVE KernelInv' /\ MapsInv'
    BY <2>1, <2>2, EndConnection DEF Ends
  <2>3. ASSUME NEW f \in Fds, Spares(t, f) PROVE KernelInv' /\ MapsInv'
    <3> DEFINE m == At(client_to_timer[t], f)
    <3>1. KernelInv'
      BY <2>1, <2>3 DEF KernelInv, Spares
    <3>2. m = client_to_timer[t][f] \/ (client_to_timer[t][f] = NoFd /\ m = Stdin)
      BY DEF At
    <3>3. m \in Fds
      BY DEF At, TypeOK
    <3>4. ASSUME NEW u \in Threads, NEW n \in Fds, NEW g \in Fds
          PROVE  client_to_timer'[u][g] = n <=>
                   \/ client_to_timer[u][g] = n
                   \/ u = t /\ g = f /\ n = m
      BY <2>3, <3>2, <3>3 DEF Spares, TypeOK
    <3>5. MapsInv'
      BY <2>3, <3>2, <3>4 DEF MapsInv, Spares
    <3> QED
      BY <3>1, <3>5
  <2> QED
    BY <1>4, <2>2, <2>3, EndingStep
<1>5. ASSUME UNCHANGED <<kind, ep, maps, new_fd>>,
             \A u \in Threads : pc'[u] = "track" => pc[u] = "track"
      PROVE  KernelInv' /\ MapsInv'
  BY <1>5 DEF KernelInv, MapsInv, maps
<1>6. CASE \/ EpollWait(t) \/ EpollWaitTimesOut(t) \/ BatchDone(t) \/ Disconnect(t)
           \/ TimeoutEvent(t) \/ TimeoutsDone(t) \/ AcceptLock(t) \/ AcceptBusy(t)
           \/ AcceptFails(t) \/ AcceptUnlock(t)
  BY <1>5, <1>6
  DEF EpollWait, EpollWaitTimesOut, BatchDone, Disconnect, TimeoutEvent, TimeoutsDone,
      AcceptLock, AcceptBusy, AcceptFails, AcceptUnlock, kernel, TypeOK
<1> QED
  BY <1>1, <1>2, <1>3, <1>4, <1>6 DEF Step

\* Only this thread closes the timers that were reported to it.
LEMMA TimeoutsStep ==
    ASSUME OneCause, LinkInv, NEW t \in Threads, Step(t)
    PROVE  TimeoutsInv'
<1> USE ConstantsAssumption DEF LinkInv
<1>1. ASSUME UNCHANGED <<kind, ep, timeouts>>,
             \A u \in Threads : pc[u] = "timeouts" => pc'[u] = "timeouts"
      PROVE  TimeoutsInv'
  BY <1>1 DEF TimeoutsInv
<1>2. ASSUME NEW m \in Fds, NEW f \in Fds, timer_to_client[t][m] = f,
             KernelClose({m, f}), UNCHANGED pc,
             \A u \in Threads : timeouts'[u] \subseteq timeouts[u],
             m \notin timeouts'[t]
      PROVE  TimeoutsInv'
  <2>1. kind[m] = "timer" /\ ep[m] = t /\ kind[f] = "client"
    BY <1>2 DEF MapsInv
  <2>2. \A u \in Threads : \A n \in timeouts'[u] : n \in Fds /\ n \notin {m, f}
    BY <1>2, <2>1 DEF TimeoutsInv, TypeOK
  <2> QED
    BY <1>2, <2>2 DEF TimeoutsInv, KernelClose
<1>3. CASE TimeoutEvent(t)
  BY <1>3 DEF TimeoutEvent, Handling, Harvest, ExpiredTimers, TimeoutsInv, TypeOK, kernel
<1>4. CASE ErrorEvent(t) \/ CloseTimedOut(t) \/ ReadEvent(t)
  <2>1. UNCHANGED pc /\ \A u \in Threads : timeouts'[u] \subseteq timeouts[u]
    BY <1>4, EndingStep DEF Serves
  <2>2. ASSUME NEW m \in Fds, NEW f \in Fds, Ends(t, m, f) PROVE TimeoutsInv'
    BY <1>2, <2>1, <2>2 DEF Ends
  <2>3. ASSUME NEW f \in Fds, Spares(t, f) PROVE TimeoutsInv'
    BY <2>1, <2>3 DEF Spares, TimeoutsInv
  <2> QED
    BY <1>4, <2>2, <2>3, EndingStep
<1>5. CASE AcceptClient(t) \/ Track(t)
  <2>1. /\ UNCHANGED timeouts
        /\ \A u \in Threads : pc[u] = "timeouts" => pc'[u] = "timeouts"
    BY <1>5 DEF AcceptClient, Track, TypeOK, events
  <2>2. \A n \in Fds : kind[n] = "timer" => kind'[n] = "timer"
    BY <1>5 DEF AcceptClient, Track, FreeFds, TypeOK
  <2>3. \A n \in Fds : kind[n] = "timer" => ep'[n] = ep[n]
    <3>1. CASE AcceptClient(t)
      BY <3>1 DEF AcceptClient
    <3>2. CASE Track(t)
      <4>1. kind[new_fd[t]] = "client"
        BY <3>2 DEF Track, KernelInv
      <4>2. \/ ep' = [ep EXCEPT ![new_fd[t]] = t]
            \/ \E m \in Fds : kind[m] = "free" /\ ep' = [ep EXCEPT ![new_fd[t]] = t, ![m] = t]
        BY <3>2 DEF Track, FreeFds
      <4> QED
        BY <4>1, <4>2 DEF TypeOK
    <3> QED
      BY <1>5, <3>1, <3>2
  <2> QED
    BY <2>1, <2>2, <2>3 DEF TimeoutsInv, TypeOK
<1>6. CASE ContinuationFails(t)
  <2>1. pc[t] = "track" /\ new_fd[t] \in Fds /\ kind[new_fd[t]] = "client"
    BY <1>6 DEF ContinuationFails, KernelInv, AcceptInv
  <2>2. \A n \in Fds : n # new_fd[t] => kind'[n] = kind[n] /\ ep'[n] = ep[n]
    BY <1>6 DEF ContinuationFails, KernelClose
  <2> QED
    BY <1>6, <2>1, <2>2 DEF ContinuationFails, TimeoutsInv, TypeOK, events
<1>7. CASE TimeoutsDone(t)
  BY <1>7 DEF TimeoutsDone, TimeoutsInv, TypeOK, kernel, events
<1>8. CASE \/ EpollWait(t) \/ EpollWaitTimesOut(t) \/ BatchDone(t) \/ Disconnect(t)
            \/ AcceptLock(t) \/ AcceptBusy(t) \/ AcceptFails(t) \/ AcceptUnlock(t)
  BY <1>1, <1>8
  DEF EpollWait, EpollWaitTimesOut, BatchDone, Disconnect, Handling, AcceptLock,
      AcceptBusy, AcceptFails, AcceptUnlock, kernel, events, TypeOK
<1> QED
  BY <1>3, <1>4, <1>5, <1>6, <1>7, <1>8 DEF Step

\* Track makes the accepted client, which no thread watched, one of its thread's.
LEMMA TrackClients ==
    ASSUME LinkInv, NEW t \in Threads, Track(t)
    PROVE  /\ new_fd[t] \in Fds /\ closing[t] = NoFd /\ UNCHANGED closing
           /\ \A u \in Threads : new_fd[t] \notin Clients(u)
           /\ Clients(t)' = Clients(t) \cup {new_fd[t]}
           /\ \A u \in Threads \ {t} : Clients(u)' = Clients(u)
<1> USE ConstantsAssumption DEF LinkInv
<1> DEFINE f == new_fd[t]
<1>1. /\ f \in Fds /\ kind[f] = "client" /\ ep[f] = NoThread
      /\ closing[t] = NoFd /\ UNCHANGED closing
  BY DEF Track, KernelInv, AcceptInv, Accepting
<1>2. /\ kind'[f] = "client" /\ ep'[f] = t
      /\ \A g \in Fds \ {f} :
           \/ kind'[g] = kind[g] /\ ep'[g] = ep[g]
           \/ kind[g] = "free" /\ kind'[g] = "timer"
  <2>1. CASE UNCHANGED kind /\ ep' = [ep EXCEPT ![f] = t]
    BY <1>1, <2>1 DEF TypeOK
  <2>2. ASSUME NEW m \in FreeFds, kind' = [kind EXCEPT ![m] = "timer"],
               ep' = [ep EXCEPT ![f] = t, ![m] = t]
        PROVE  /\ kind'[f] = "client" /\ ep'[f] = t
               /\ \A g \in Fds \ {f} :
                    \/ kind'[g] = kind[g] /\ ep'[g] = ep[g]
                    \/ kind[g] = "free" /\ kind'[g] = "timer"
    BY <1>1, <2>2 DEF TypeOK, FreeFds
  <2> QED
    BY <2>1, <2>2 DEF Track
<1>3. \A u \in Threads \ {t} : Clients(u)' = Clients(u)
  BY <1>1, <1>2 DEF Clients
<1>4. Clients(t)' = Clients(t) \cup {f}
  BY <1>1, <1>2 DEF Clients
<1>5. \A u \in Threads : f \notin Clients(u)
  BY <1>1 DEF Clients
<1> QED
  BY <1>1, <1>3, <1>4, <1>5

\* A handler ends one connection, makes one client its own, or leaves the clients of
\* every thread alone; only the callback then changes what is counted.
LEMMA ClientsStep ==
    ASSUME OneCause, LinkInv, NEW t \in Threads, Step(t)
    PROVE  \/ Serves(t) /\ \E m, f \in Fds : Ends(t, m, f)
           \/ Track(t)
           \/ /\ \A u \in Threads : Clients(u)' = Clients(u)
              /\ UNCHANGED maps \/ \E f \in Fds : Spares(t, f)
              /\ Disconnect(t) \/ UNCHANGED <<closing, num_connections, sessions>>
<1> USE ConstantsAssumption DEF LinkInv
<1>1. CASE ErrorEvent(t) \/ CloseTimedOut(t) \/ ReadEvent(t)
  <2>1. ASSUME NEW f \in Fds, Spares(t, f)
        PROVE  (\A u \in Threads : Clients(u)' = Clients(u)) /\ UNCHANGED closing
    BY <2>1 DEF Spares, Clients
  <2> QED
    BY <1>1, <2>1, EndingStep DEF Serves
<1>2. CASE AcceptClient(t) \/ ContinuationFails(t)
  <2>1. PICK f \in Fds :
          /\ ep[f] = NoThread /\ ep'[f] = NoThread
          /\ \A g \in Fds \ {f} : kind'[g] = kind[g] /\ ep'[g] = ep[g]
    <3>1. CASE AcceptClient(t)
      BY <3>1 DEF AcceptClient, FreeFds, KernelInv, TypeOK
    <3>2. CASE ContinuationFails(t)
      BY <3>2 DEF ContinuationFails, KernelClose, KernelInv, AcceptInv
    <3> QED
      BY <1>2, <3>1, <3>2
  <2>2. \A u \in Threads : Clients(u)' = Clients(u)
    BY <2>1 DEF Clients
  <2> QED
    BY <1>2, <2>2 DEF AcceptClient, ContinuationFails, maps
<1>3. ASSUME UNCHANGED <<kind, ep>> PROVE \A u \in Threads : Clients(u)' = Clients(u)
  BY <1>3 DEF Clients
<1>4. CASE \/ EpollWait(t) \/ EpollWaitTimesOut(t) \/ BatchDone(t) \/ TimeoutEvent(t)
           \/ TimeoutsDone(t) \/ AcceptLock(t) \/ AcceptBusy(t) \/ AcceptFails(t)
           \/ AcceptUnlock(t) \/ Disconnect(t)
  BY <1>3, <1>4
  DEF EpollWait, EpollWaitTimesOut, BatchDone, TimeoutEvent, TimeoutsDone, AcceptLock,
      AcceptBusy, AcceptFails, AcceptUnlock, Disconnect, kernel, maps
<1> QED
  BY <1>1, <1>2, <1>4 DEF Step

\* The batch of a thread holds what its own epoll_wait reported, and loses what a
\* handler closes.
LEMMA EventsStep ==
    ASSUME OneCause, LinkInv, NEW t \in Threads, Step(t)
    PROVE  EventsInv'
<1> USE ConstantsAssumption DEF LinkInv
<1>1. /\ \A f \in Fds : peer'[f] \in {peer[f], "quiet"}
      /\ expired' \subseteq expired
  <2>1. CASE ErrorEvent(t) \/ CloseTimedOut(t) \/ ReadEvent(t)
    BY <2>1, EndingStep DEF Serves
  <2>2. CASE ContinuationFails(t)
    BY <2>2 DEF ContinuationFails, KernelClose
  <2>3. CASE UNCHANGED <<peer, expired>>
    BY <2>3
  <2> QED
    BY <2>1, <2>2, <2>3
    DEF Step, EpollWait, EpollWaitTimesOut, BatchDone, Disconnect, TimeoutEvent,
        TimeoutsDone, AcceptLock, AcceptBusy, AcceptClient, AcceptFails, Track,
        AcceptUnlock, kernel
<1>2. \A f \in Fds : peer'[f] = "rst" => Resets
  BY <1>1 DEF EventsInv
<1>3. ~Timeouts => expired' = {}
  BY <1>1 DEF EventsInv
<1>4. /\ ~Timeouts => \A u \in Threads : timeouts'[u] = {}
      /\ \A u \in Threads : errs'[u] \subseteq batch'[u] /\ (errs'[u] # {} => Resets)
  <2>1. CASE ErrorEvent(t) \/ CloseTimedOut(t) \/ ReadEvent(t)
    BY <2>1, EndingStep DEF Serves, EventsInv
  <2>2. CASE EpollWait(t)
    BY <2>2 DEF EpollWait, EventsInv, TypeOK
  <2>3. CASE TimeoutEvent(t)
    BY <2>3 DEF TimeoutEvent, Harvest, ExpiredTimers, EventsInv, TypeOK
  <2>4. CASE UNCHANGED events
    BY <2>4 DEF events, EventsInv
  <2> QED
    BY <2>1, <2>2, <2>3, <2>4
    DEF Step, EpollWaitTimesOut, BatchDone, Disconnect, TimeoutsDone, AcceptLock,
        AcceptBusy, AcceptClient, AcceptFails, ContinuationFails, Track, AcceptUnlock
<1>5. ASSUME ~Timeouts, NEW u \in Threads PROVE batch'[u] \subseteq Clients(u)'
  <2>1. batch[u] \subseteq Clients(u)
    BY <1>5 DEF EventsInv
  <2>2. CASE EpollWait(t)
    <3>1. batch'[u] = batch[u] \/ (u = t /\ batch'[u] \subseteq Ready(t) \cap Fds)
      BY <2>2 DEF EpollWait, Harvest, TypeOK
    <3>2. Ready(t) \cap Fds \subseteq Clients(t)
      BY DEF Ready, ReadyClients, Clients
    <3>3. Clients(u)' = Clients(u)
      BY <2>2 DEF EpollWait, Clients
    <3> QED
      BY <2>1, <3>1, <3>2, <3>3
  <2>3. ASSUME NEW m \in Fds, NEW f \in Fds, Ends(t, m, f), Serves(t)
        PROVE  batch'[u] \subseteq Clients(u)'
    <3>1. /\ Clients(t)' = Clients(t) \ {f}
          /\ \A v \in Threads \ {t} : Clients(v)' = Clients(v)
      BY <2>3, EndConnectionCount DEF Ends
    <3> QED
      BY <1>5, <2>1, <2>3, <3>1 DEF Ends, Serves
  <2>4. CASE Track(t)
    <3>1. UNCHANGED batch
      BY <2>4 DEF Track, events
    <3>2. Clients(u) \subseteq Clients(u)'
      <4>1. CASE u = t
        BY <2>4, <4>1, TrackClients
      <4>2. CASE u # t
        BY <2>4, <4>2, TrackClients
      <4> QED
        BY <4>1, <4>2
    <3> QED
      BY <2>1, <3>1, <3>2
  <2>5. ASSUME ~EpollWait(t) PROVE batch'[u] \subseteq batch[u]
    <3>1. CASE ErrorEvent(t) \/ CloseTimedOut(t) \/ ReadEvent(t)
      BY <3>1, EndingStep DEF Serves
    <3>2. CASE UNCHANGED batch
      BY <3>2
    <3> QED
      BY <2>5, <3>1, <3>2
      DEF Step, EpollWaitTimesOut, BatchDone, Disconnect, TimeoutEvent, TimeoutsDone,
          AcceptLock, AcceptBusy, AcceptClient, AcceptFails, ContinuationFails, Track,
          AcceptUnlock, events
  <2> QED
    BY <2>1, <2>2, <2>3, <2>4, <2>5, ClientsStep
<1> QED
  BY <1>2, <1>3, <1>4, <1>5 DEF EventsInv

\* What the rest of the process has open changes only by its own hand.
LEMMA ElsewhereStep ==
    ASSUME OneCause, LinkInv, NEW t \in Threads, Step(t)
    PROVE  ElsewhereInv'
<1> USE ConstantsAssumption DEF LinkInv
<1>1. ASSUME NEW S, KernelClose(S) PROVE Elsewhere' \subseteq Elsewhere
  BY <1>1 DEF KernelClose, Elsewhere
<1>6. Elsewhere' \subseteq Elsewhere
  <2>1. CASE ErrorEvent(t) \/ CloseTimedOut(t) \/ ReadEvent(t)
    BY <1>1, <2>1, EndingStep DEF Ends, Spares, Elsewhere
  <2>2. CASE ContinuationFails(t)
    BY <1>1, <2>2 DEF ContinuationFails
  <2>3. CASE AcceptClient(t) \/ Track(t)
    BY <2>3 DEF AcceptClient, Track, FreeFds, Elsewhere, TypeOK
  <2>4. CASE UNCHANGED kind
    BY <2>4 DEF Elsewhere
  <2> QED
    BY <2>1, <2>2, <2>3, <2>4
    DEF Step, EpollWait, EpollWaitTimesOut, BatchDone, Disconnect, TimeoutEvent,
        TimeoutsDone, AcceptLock, AcceptBusy, AcceptFails, AcceptUnlock, kernel
<1>7. IsFiniteSet(Elsewhere) /\ Elsewhere \in SUBSET Fds
  BY FS_Subset DEF Elsewhere
<1>8. /\ Cardinality(Elsewhere') <= Cardinality(Elsewhere)
      /\ Cardinality(Elsewhere') \in Nat /\ Cardinality(Elsewhere) \in Nat
  BY <1>6, <1>7, FS_Subset, FS_CardinalityType
<1>9. Cardinality(Elsewhere)' = Cardinality(Elsewhere')
  OBVIOUS
<1> QED
  BY <1>8, <1>9 DEF ElsewhereInv

\* Nor does it touch what the server has open.
LEMMA ElsewhereClients ==
    ASSUME TypeOK, NEW f \in Fds, OpenElsewhere(f) \/ CloseElsewhere(f)
    PROVE  /\ \A u \in Threads : Clients(u)' = Clients(u)
           /\ \A g \in Fds : g # f => kind'[g] = kind[g]
           /\ kind[f] \in {"free", "elsewhere"} /\ kind'[f] \in {"free", "elsewhere"}
           /\ UNCHANGED <<ep, armed, peer, expired, backlog, registrations, accept_mutex,
                          running, sessions, pc, events, closing, new_fd,
                          num_connections, maps>>
<1>1. /\ \A g \in Fds : g # f => kind'[g] = kind[g]
      /\ kind[f] \in {"free", "elsewhere"} /\ kind'[f] \in {"free", "elsewhere"}
  BY DEF OpenElsewhere, CloseElsewhere, TypeOK
<1>2. UNCHANGED <<ep, armed, peer, expired, backlog, registrations, accept_mutex,
                  running, sessions, pc, events, closing, new_fd, num_connections, maps>>
  BY DEF OpenElsewhere, CloseElsewhere
<1>3. \A u \in Threads : Clients(u)' = Clients(u)
  BY <1>1, <1>2 DEF Clients
<1> QED
  BY <1>1, <1>2, <1>3

\* It stays within its bound.
LEMMA ElsewhereBounded ==
    ASSUME LinkInv, NEW f \in Fds, OpenElsewhere(f) \/ CloseElsewhere(f)
    PROVE  ElsewhereInv'
<1> USE ConstantsAssumption DEF LinkInv
<1>1. IsFiniteSet(Elsewhere) /\ Cardinality(Elsewhere) \in Nat
  BY FS_Subset, FS_CardinalityType DEF Elsewhere
<1>2. CASE OpenElsewhere(f)
  <2>1. Elsewhere' = Elsewhere \cup {f} /\ f \notin Elsewhere
    BY <1>2 DEF OpenElsewhere, Elsewhere, TypeOK
  <2>2. Cardinality(Elsewhere') = Cardinality(Elsewhere) + 1
    BY <1>1, <2>1, FS_AddElement
  <2>3. Cardinality(Elsewhere) < MaxElsewhere
    BY <1>2 DEF OpenElsewhere
  <2> QED
    BY <1>1, <2>2, <2>3 DEF ElsewhereInv
<1>3. CASE CloseElsewhere(f)
  <2>1. Elsewhere' = Elsewhere \ {f} /\ f \in Elsewhere
    BY <1>3 DEF CloseElsewhere, Elsewhere, TypeOK
  <2>2. Cardinality(Elsewhere') = Cardinality(Elsewhere) - 1
    BY <1>1, <2>1, FS_RemoveElement
  <2> QED
    BY <1>1, <2>2 DEF ElsewhereInv
<1> QED
  BY <1>2, <1>3
-----------------------------------------------------------------------------
(* num_connections counts the watched clients *)

\* No thread holds more clients than max_connections.
LimitInv == \A t \in Threads : num_connections[t] <= MaxConnections

CountInv == LinkInv /\ CountMatches /\ LimitInv

\* Every handler of run_thread keeps num_connections equal to the number of
\* clients the thread watches: what it closes it calls back about, what it tracks
\* it counts, and the callback counts down.
LEMMA CountStep ==
    ASSUME OneCause, CountInv, NEW t \in Threads, Step(t)
    PROVE  CountMatches' /\ LimitInv'
<1> USE ConstantsAssumption DEF CountInv, LinkInv
<1>1. CASE Disconnect(t)
  <2>1. UNCHANGED <<kind, ep>> /\ closing[t] # NoFd
    BY <1>1 DEF Disconnect, kernel
  <2>2. \A u \in Threads : Clients(u)' = Clients(u)
    BY <2>1 DEF Clients
  <2>3. num_connections[t] = Cardinality(Clients(t)) + 1
    BY <2>1 DEF CountMatches
  <2>4. num_connections'[t] = Cardinality(Clients(t)) /\ closing'[t] = NoFd
    <3>1. Cardinality(Clients(t)) \in Nat
      BY CountType
    <3>2. num_connections[t] # 0 /\ num_connections[t] - 1 = Cardinality(Clients(t))
      BY <2>3, <3>1
    <3>3. num_connections'[t] = num_connections[t] - 1 /\ closing'[t] = NoFd
      BY <1>1, <3>2 DEF Disconnect, CountDown, TypeOK
    <3> QED
      BY <3>2, <3>3
  <2>5. \A u \in Threads \ {t} :
          num_connections'[u] = num_connections[u] /\ closing'[u] = closing[u]
    BY <1>1 DEF Disconnect, TypeOK
  <2>6. CountMatches'
    BY <2>2, <2>4, <2>5, CountType DEF CountMatches
  <2>7. num_connections'[t] <= MaxConnections
    BY <2>3, <2>4, CountType DEF LimitInv
  <2> QED
    BY <2>5, <2>6, <2>7 DEF LimitInv
<1>2. CASE Track(t)
  <2> DEFINE f == new_fd[t]
  <2>1. /\ closing[t] = NoFd /\ UNCHANGED closing
        /\ Clients(t)' = Clients(t) \cup {f} /\ f \notin Clients(t)
        /\ \A u \in Threads \ {t} : Clients(u)' = Clients(u)
    BY <1>2, TrackClients
  <2>2. Cardinality(Clients(t)') = Cardinality(Clients(t)) + 1
    BY <2>1, CountType, FS_AddElement
  <2>3. /\ num_connections'[t] = num_connections[t] + 1
        /\ \A u \in Threads \ {t} : num_connections'[u] = num_connections[u]
    BY <1>2 DEF Track, TypeOK
  <2>4. num_connections'[t] = Cardinality(Clients(t)') + 0
    BY <2>1, <2>2, <2>3, CountType DEF CountMatches
  <2>5. num_connections[t] < MaxConnections /\ num_connections[t] \in Nat
    BY <1>2 DEF Track, AcceptInv, HasRoom, TypeOK
  <2>6. LimitInv'
    BY <2>3, <2>5 DEF LimitInv
  <2>7. CountMatches'
    BY <2>1, <2>3, <2>4 DEF CountMatches
  <2> QED
    BY <2>6, <2>7
<1>3. ASSUME NEW m \in Fds, NEW f \in Fds, Ends(t, m, f), Serves(t)
      PROVE  CountMatches' /\ LimitInv'
  <2>1. /\ Cardinality(Clients(t)') = Cardinality(Clients(t)) - 1
        /\ \A u \in Threads \ {t} : Clients(u)' = Clients(u)
    BY <1>3, EndConnectionCount DEF Ends
  <2>2. /\ closing[t] = NoFd /\ closing'[t] = f /\ f # NoFd
        /\ \A u \in Threads \ {t} : closing'[u] = closing[u]
        /\ UNCHANGED num_connections
    BY <1>3 DEF Ends, Serves, TypeOK
  <2>3. num_connections[t] = Cardinality(Clients(t)) + 0
    BY <2>2 DEF CountMatches
  <2>4. num_connections'[t] = Cardinality(Clients(t)') + 1
    BY <2>1, <2>2, <2>3, CountType
  <2> QED
    BY <2>1, <2>2, <2>4 DEF CountMatches, LimitInv
<1>4. ASSUME \A u \in Threads : Clients(u)' = Clients(u),
             UNCHANGED <<closing, num_connections>>
      PROVE  CountMatches' /\ LimitInv'
  BY <1>4 DEF CountMatches, LimitInv
<1> QED
  BY <1>1, <1>2, <1>3, <1>4, ClientsStep

\* A client is watched by a thread or is being accepted: none is forgotten.
OwnedInv ==
    \A f \in Fds : kind[f] = "client" =>
      ep[f] \in Threads \/ \E t \in Threads : pc[t] = "track" /\ new_fd[t] = f

\* Every accepted client is tracked or closed, and stays watched until it is closed.
LEMMA OwnedStep ==
    ASSUME OneCause, LinkInv, OwnedInv, NEW t \in Threads, Step(t)
    PROVE  OwnedInv'
<1> USE ConstantsAssumption DEF LinkInv
<1>1. CASE AcceptClient(t)
  <2>1. PICK f \in FreeFds : /\ kind' = [kind EXCEPT ![f] = "client"]
                             /\ new_fd' = [new_fd EXCEPT ![t] = f]
    BY <1>1 DEF AcceptClient
  <2>2. /\ pc[t] = "accept" /\ pc' = [pc EXCEPT ![t] = "track"] /\ UNCHANGED ep
    BY <1>1 DEF AcceptClient
  <2>3. pc'[t] = "track" /\ new_fd'[t] = f
    BY <2>1, <2>2 DEF TypeOK
  <2>4. \A u \in Threads : pc[u] = "track" => pc'[u] = "track" /\ new_fd'[u] = new_fd[u]
    BY <2>1, <2>2 DEF TypeOK
  <2> QED
    BY <2>1, <2>2, <2>3, <2>4 DEF OwnedInv, TypeOK
<1>2. CASE ContinuationFails(t)
  <2> DEFINE f == new_fd[t]
  <2>1. /\ pc[t] = "track" /\ f \in Fds
        /\ pc' = [pc EXCEPT ![t] = "unlock"] /\ new_fd' = [new_fd EXCEPT ![t] = NoFd]
    BY <1>2 DEF ContinuationFails, AcceptInv
  <2>2. /\ kind'[f] = "free"
        /\ \A g \in Fds \ {f} : kind'[g] = kind[g] /\ ep'[g] = ep[g]
    BY <1>2, <2>1 DEF ContinuationFails, KernelClose
  <2>3. \A u \in Threads \ {t} : pc'[u] = pc[u] /\ new_fd'[u] = new_fd[u]
    BY <2>1 DEF TypeOK
  <2> QED
    BY <2>2, <2>3 DEF OwnedInv
<1>3. CASE Track(t)
  <2> DEFINE f == new_fd[t]
  <2>1. /\ f \in Fds /\ ep'[f] = t
        /\ \A g \in Fds : kind'[g] = "client" => kind[g] = "client"
        /\ \A g \in Fds \ {f} : kind'[g] = "client" => ep'[g] = ep[g]
    <3>1. f \in Fds /\ kind[f] = "client" /\ ep[f] = NoThread
      BY <1>3 DEF Track, KernelInv, AcceptInv
    <3>2. CASE UNCHANGED kind /\ ep' = [ep EXCEPT ![f] = t]
      BY <3>1, <3>2 DEF TypeOK
    <3>3. ASSUME NEW m \in FreeFds, kind' = [kind EXCEPT ![m] = "timer"],
                 ep' = [ep EXCEPT ![f] = t, ![m] = t]
          PROVE  /\ f \in Fds /\ ep'[f] = t
                 /\ \A g \in Fds : kind'[g] = "client" => kind[g] = "client"
                 /\ \A g \in Fds \ {f} : kind'[g] = "client" => ep'[g] = ep[g]
      BY <3>1, <3>3 DEF TypeOK, FreeFds
    <3> QED
      BY <1>3, <3>2, <3>3 DEF Track
  <2>2. \A u \in Threads \ {t} : pc'[u] = pc[u] /\ new_fd'[u] = new_fd[u]
    BY <1>3 DEF Track, TypeOK
  <2> QED
    BY <2>1, <2>2 DEF OwnedInv
<1>4. CASE ErrorEvent(t) \/ CloseTimedOut(t) \/ ReadEvent(t)
  <2>1. UNCHANGED <<pc, new_fd>>
    BY <1>4, EndingStep DEF Serves
  <2>2. \A g \in Fds : kind'[g] = "client" => kind[g] = "client" /\ ep'[g] = ep[g]
    <3>1. ASSUME NEW S, KernelClose(S)
          PROVE  \A g \in Fds : kind'[g] = "client" => kind[g] = "client" /\ ep'[g] = ep[g]
      BY <3>1 DEF KernelClose
    <3> QED
      BY <1>4, <3>1, EndingStep DEF Ends, Spares
  <2> QED
    BY <2>1, <2>2 DEF OwnedInv
<1>5. ASSUME UNCHANGED <<kind, ep, new_fd>>,
             \A u \in Threads : pc[u] = "track" => pc'[u] = "track"
      PROVE  OwnedInv'
  BY <1>5 DEF OwnedInv
<1>6. CASE \/ EpollWait(t) \/ EpollWaitTimesOut(t) \/ BatchDone(t) \/ Disconnect(t)
           \/ TimeoutEvent(t) \/ TimeoutsDone(t) \/ AcceptLock(t) \/ AcceptBusy(t)
           \/ AcceptFails(t) \/ AcceptUnlock(t)
  BY <1>5, <1>6
  DEF EpollWait, EpollWaitTimesOut, BatchDone, Disconnect, Handling, TimeoutEvent,
      TimeoutsDone, AcceptLock, AcceptBusy, AcceptFails, AcceptUnlock, kernel, TypeOK
<1> QED
  BY <1>1, <1>2, <1>3, <1>4, <1>6 DEF Step
-----------------------------------------------------------------------------
(* Enough descriptors *)

\* The elements of a set of at most n elements can be numbered from 1 to n.
LEMMA Numbering ==
    ASSUME NEW X, IsFiniteSet(X), NEW n \in Nat, Cardinality(X) <= n
    PROVE  \E g : g \in Injection(X, 1 .. n)
<1> DEFINE k == Cardinality(X)
<1>1. k \in Nat /\ ExistsBijection(1 .. k, X)
  BY FS_CardinalityType
<1>2. PICK b : b \in Bijection(1 .. k, X)
  BY <1>1 DEF ExistsBijection
<1>3. PICK g : g \in Bijection(X, 1 .. k)
  BY <1>2, Fun_BijInverse
<1>4. g \in [X -> 1 .. k] /\ \A a, c \in X : g[a] = g[c] => a = c
  BY <1>3 DEF Bijection, Injection, IsInjective
<1>5. g \in [X -> 1 .. n]
  BY <1>1, <1>4
<1> QED
  BY <1>4, <1>5, Fun_IsInj

\* A set covered by one set of at most n elements for each member of S has at most
\* Cardinality(S) * n elements.
LEMMA CoverBound ==
    ASSUME NEW S, IsFiniteSet(S), NEW n \in Nat, NEW C, NEW cover,
           \A c \in C : \E s \in S : c \in cover[s],
           \A s \in S : IsFiniteSet(cover[s]) /\ Cardinality(cover[s]) <= n
    PROVE  IsFiniteSet(C) /\ Cardinality(C) <= Cardinality(S) * n
<1> DEFINE place == [s \in S |-> CHOOSE g : g \in Injection(cover[s], 1 .. n)]
           owner == [c \in C |-> CHOOSE s \in S : c \in cover[s]]
           spot == [c \in C |-> <<owner[c], place[owner[c]][c]>>]
<1>1. ASSUME NEW s \in S PROVE place[s] \in Injection(cover[s], 1 .. n)
  <2>1. \E g : g \in Injection(cover[s], 1 .. n)
    BY Numbering
  <2> QED
    BY <2>1
<1>2. ASSUME NEW c \in C
      PROVE  owner[c] \in S /\ c \in cover[owner[c]] /\ place[owner[c]][c] \in 1 .. n
  <2>1. owner[c] \in S /\ c \in cover[owner[c]]
    OBVIOUS
  <2>2. place[owner[c]] \in [cover[owner[c]] -> 1 .. n]
    BY <1>1, <2>1, Fun_InjectionProperties
  <2> QED
    BY <2>1, <2>2
<1> HIDE DEF owner, place
<1>3. spot \in Injection(C, S \X (1 .. n))
  <2>1. spot \in [C -> S \X (1 .. n)]
    BY <1>2
  <2>2. ASSUME NEW a \in C, NEW c \in C, spot[a] = spot[c] PROVE a = c
    <3>1. owner[a] = owner[c] /\ place[owner[a]][a] = place[owner[a]][c]
      BY <2>2
    <3> QED
      BY <1>1, <1>2, <3>1, Fun_InjectionProperties
  <2> QED
    BY <2>1, <2>2, Fun_IsInj
<1>4. IsFiniteSet(1 .. n) /\ Cardinality(1 .. n) = n
  <2>1. Cardinality(1 .. n) = IF 1 > n THEN 0 ELSE n - 1 + 1
    BY FS_Interval
  <2> QED
    BY <2>1, FS_Interval
<1>5. IsFiniteSet(S \X (1 .. n)) /\ Cardinality(S \X (1 .. n)) = Cardinality(S) * n
  BY <1>4, FS_Product
<1> QED
  BY <1>3, <1>5, FS_Injection

\* A thread that has just accepted a client always finds a descriptor for its timer:
\* every other one is standard input, a client within the limits, its timer, or one of
\* those the rest of the process may have.
LEMMA TimerFound ==
    ASSUME EnoughFds, CountInv, OwnedInv, NEW t \in Threads, pc[t] = "track"
    PROVE  FreeFds # {}
<1> SUFFICES ASSUME FreeFds = {} PROVE FALSE
  OBVIOUS
<1> USE ConstantsAssumption DEF CountInv, LinkInv
<1> DEFINE new == new_fd[t]
           cover == [u \in Threads |-> IF u = t THEN Clients(u) \cup {new} ELSE Clients(u)]
           C == {f \in Fds : kind[f] = "client"}
           W == {f \in C : ep[f] \in Threads}
           timers == {m \in Fds : kind[m] = "timer"}
           pair == [m \in timers |-> timer_to_client[ep[m]][m]]
<1>1. new \in C /\ ep[new] = NoThread /\ num_connections[t] < MaxConnections
      /\ closing[t] = NoFd
  BY DEF AcceptInv, KernelInv, HasRoom, Accepting
<1>2. \A f \in C : \E u \in Threads : f \in cover[u]
  <2>1. ASSUME NEW f \in C, ep[f] \in Threads PROVE f \in cover[ep[f]]
    BY <2>1 DEF Clients
  <2>2. ASSUME NEW f \in C, NEW u \in Threads, pc[u] = "track", new_fd[u] = f
        PROVE  f \in cover[t]
    <3>1. u = t
      BY <2>2 DEF MutexInv, Accepting
    <3> QED
      BY <2>2, <3>1
  <2> QED
    BY <2>1, <2>2 DEF OwnedInv
<1>3. ASSUME NEW u \in Threads
      PROVE  IsFiniteSet(cover[u]) /\ Cardinality(cover[u]) <= MaxConnections
  <2>1. /\ IsFiniteSet(Clients(u)) /\ Cardinality(Clients(u)) \in Nat
        /\ num_connections[u] \in Nat /\ Cardinality(Clients(u)) <= num_connections[u]
    <3>1. num_connections[u] = Cardinality(Clients(u)) + (IF closing[u] = NoFd THEN 0 ELSE 1)
      BY DEF CountMatches
    <3> QED
      BY <3>1, CountType
  <2>2. CASE u = t
    <3>1. /\ IsFiniteSet(Clients(t) \cup {new})
          /\ Cardinality(Clients(t) \cup {new}) <= Cardinality(Clients(t)) + 1
      <4>1. /\ IsFiniteSet(Clients(t) \cup {new})
            /\ \/ Cardinality(Clients(t) \cup {new}) = Cardinality(Clients(t))
               \/ Cardinality(Clients(t) \cup {new}) = Cardinality(Clients(t)) + 1
        BY <2>1, <2>2, FS_AddElement
      <4>2. Cardinality(Clients(t)) \in Nat
        BY <2>1, <2>2
      <4> QED
        BY <4>1, <4>2
    <3>2. cover[u] = Clients(t) \cup {new}
      BY <2>2
    <3>3. Cardinality(Clients(t) \cup {new}) \in Nat
      BY <3>1, FS_CardinalityType
    <3> HIDE DEF cover
    <3> QED
      BY <1>1, <2>1, <2>2, <3>1, <3>2, <3>3
  <2>3. CASE u # t
    BY <2>1, <2>3 DEF LimitInv
  <2> QED
    BY <2>2, <2>3
<1> HIDE DEF cover
<1>4. IsFiniteSet(C) /\ Cardinality(C) <= Cardinality(Threads) * MaxConnections
  BY <1>2, <1>3, CoverBound
<1>5. Cardinality(W) <= Cardinality(C) - 1 /\ IsFiniteSet(W)
  <2>1. IsFiniteSet(C \ {new}) /\ Cardinality(C \ {new}) = Cardinality(C) - 1
    BY <1>1, <1>4, FS_RemoveElement
  <2>2. W \in SUBSET (C \ {new})
    BY <1>1
  <2> QED
    BY <2>1, <2>2, FS_Subset
<1>6. pair \in Injection(timers, W)
  <2>1. \A m \in timers : /\ m \in Fds /\ ep[m] \in Threads /\ pair[m] \in Fds
                          /\ kind[pair[m]] = "client" /\ ep[pair[m]] = ep[m]
                          /\ client_to_timer[ep[m]][pair[m]] = m
    BY DEF MapsInv
  <2>2. pair \in [timers -> W]
    BY <2>1
  <2> HIDE DEF timers, pair
  <2>3. ASSUME NEW m \in timers, NEW n \in timers, pair[m] = pair[n] PROVE m = n
    <3>1. ep[m] = ep[n]
      BY <2>1, <2>3
    <3> QED
      BY <2>1, <2>3, <3>1
  <2> QED
    BY <2>2, <2>3, Fun_IsInj
<1>7. IsFiniteSet(timers) /\ Cardinality(timers) <= Cardinality(W)
  BY <1>5, <1>6, FS_Injection
<1>8. Fds \subseteq (C \cup timers) \cup (Elsewhere \cup {Stdin})
  BY DEF TypeOK, Kinds, FreeFds, KernelInv, Elsewhere
<1>14. IsFiniteSet(Elsewhere)
  BY FS_Subset DEF Elsewhere
<1> HIDE DEF C, W, timers, pair
<1>9. /\ Cardinality(C) \in Nat /\ Cardinality(timers) \in Nat /\ Cardinality(W) \in Nat
      /\ Cardinality(Fds) \in Nat /\ Cardinality(Threads) \in Nat
      /\ Cardinality(Elsewhere) \in Nat
  BY <1>4, <1>5, <1>7, <1>14, FS_CardinalityType
<1>10. ASSUME NEW A, NEW B, IsFiniteSet(A), IsFiniteSet(B)
       PROVE  /\ IsFiniteSet(A \cup B) /\ Cardinality(A \cup B) \in Nat
              /\ Cardinality(A \cup B) <= Cardinality(A) + Cardinality(B)
  <2>1. /\ IsFiniteSet(A \cup B)
        /\ Cardinality(A \cup B) = Cardinality(A) + Cardinality(B) - Cardinality(A \cap B)
    BY <1>10, FS_Union
  <2>2. /\ Cardinality(A \cap B) \in Nat /\ Cardinality(A) \in Nat
        /\ Cardinality(B) \in Nat /\ Cardinality(A \cup B) \in Nat
    BY <1>10, <2>1, FS_Intersection, FS_CardinalityType
  <2> QED
    BY <2>1, <2>2
<1>11. Cardinality(Fds) <= Cardinality(C) + Cardinality(timers) + MaxElsewhere + 1
  <2> DEFINE served == C \cup timers
             rest == Elsewhere \cup {Stdin}
  <2>1. /\ IsFiniteSet(served) /\ Cardinality(served) \in Nat
        /\ Cardinality(served) <= Cardinality(C) + Cardinality(timers)
    BY <1>4, <1>7, <1>10
  <2>2. /\ IsFiniteSet(rest) /\ Cardinality(rest) \in Nat
        /\ Cardinality(rest) <= Cardinality(Elsewhere) + 1
    BY <1>10, <1>14, FS_Singleton
  <2> HIDE DEF served, rest
  <2>3. /\ IsFiniteSet(served \cup rest) /\ Cardinality(served \cup rest) \in Nat
        /\ Cardinality(served \cup rest) <= Cardinality(served) + Cardinality(rest)
    BY <1>10, <2>1, <2>2
  <2>4. Cardinality(Fds) <= Cardinality(served \cup rest)
    BY <1>8, <2>3, FS_Subset DEF served, rest
  <2>5. Cardinality(Elsewhere) <= MaxElsewhere
    BY DEF ElsewhereInv
  <2> QED
    BY <1>9, <2>1, <2>2, <2>3, <2>4, <2>5
<1> DEFINE all == Cardinality(Threads) * MaxConnections
<1>12. all \in Nat /\ 2 * MaxConnections * Cardinality(Threads) = 2 * all
  BY <1>9
<1> HIDE DEF all
<1>13. Cardinality(Fds) <= 2 * all + MaxElsewhere
  <2>1. Cardinality(C) <= all
    BY <1>4 DEF all
  <2> QED
    BY <1>5, <1>7, <1>9, <1>11, <1>12, <2>1
<1> QED
  BY <1>9, <1>12, <1>13 DEF EnoughFds

\* With enough descriptors every client that a thread tracks gets a timer, and keeps it
\* until it is closed.
LEMMA TimedStep ==
    ASSUME OneCause, CountInv, OwnedInv, NEW t \in Threads, Step(t)
    PROVE  TimedInv'
<1> SUFFICES ASSUME EnoughFds, NEW u \in Threads, NEW g \in Clients(u)'
             PROVE  client_to_timer'[u][g] \in Fds \ {Stdin}
  BY DEF TimedInv, EnoughFds
<1> USE ConstantsAssumption DEF CountInv, LinkInv
<1>1. \A v \in Threads : \A f \in Clients(v) : client_to_timer[v][f] \in Fds \ {Stdin}
  BY DEF TimedInv
<1>2. g \in Fds
  BY DEF Clients
<1>3. ASSUME NEW m \in Fds, NEW f \in Fds, Ends(t, m, f), Serves(t)
      PROVE  client_to_timer'[u][g] \in Fds \ {Stdin}
  <2>1. g \in Clients(u) /\ (u = t => g # f)
    BY <1>3, EndConnectionCount DEF Ends
  <2>2. client_to_timer'[u][g] = client_to_timer[u][g]
    BY <1>2, <1>3, <2>1 DEF Ends, TypeOK
  <2> QED
    BY <1>1, <2>1, <2>2
<1>4. CASE Track(t)
  <2> DEFINE f == new_fd[t]
  <2>1. pc[t] = "track" /\ f \in Fds /\ (g \in Clients(u) \/ (u = t /\ g = f))
    BY <1>4, TrackClients DEF Track
  <2>2. FreeFds # {}
    BY <2>1, TimerFound
  <2>3. PICK m \in FreeFds : client_to_timer' = [client_to_timer EXCEPT ![t][f] = m]
    BY <1>4, <2>2 DEF Track
  <2>4. m \in Fds \ {Stdin}
    BY DEF FreeFds, KernelInv
  <2>5. client_to_timer'[u][g] = IF u = t /\ g = f THEN m ELSE client_to_timer[u][g]
    BY <1>2, <2>1, <2>3 DEF TypeOK
  <2> QED
    BY <1>1, <2>1, <2>4, <2>5
<1>5. ASSUME \A v \in Threads : Clients(v)' = Clients(v),
             UNCHANGED maps \/ \E f \in Fds : Spares(t, f)
      PROVE  client_to_timer'[u][g] \in Fds \ {Stdin}
  <2>1. client_to_timer[u][g] \in Fds \ {Stdin}
    BY <1>1, <1>5
  <2>2. client_to_timer'[u][g] = client_to_timer[u][g]
    <3>1. ASSUME NEW f \in Fds, Spares(t, f)
          PROVE  client_to_timer'[u][g] = client_to_timer[u][g]
      <4>1. At(client_to_timer[u], g) = client_to_timer[u][g]
        BY <2>1 DEF At
      <4> QED
        BY <1>2, <3>1, <4>1 DEF Spares, TypeOK
    <3> QED
      BY <1>5, <3>1 DEF maps
  <2> QED
    BY <2>1, <2>2
<1> QED
  BY <1>3, <1>4, <1>5, ClientsStep
-----------------------------------------------------------------------------
(* What the runs check *)

ServerInv == CountInv /\ OwnedInv

\* The setup of run_thread establishes it: no client, no timer.
LEMMA ServerInit == Init => ServerInv
<1> SUFFICES ASSUME Init PROVE ServerInv
  OBVIOUS
<1>1. TypeInv
  BY TypeInit
<1>2. MutexInv /\ KernelInv /\ MapsInv /\ TimeoutsInv /\ OwnedInv
  BY ConstantsAssumption
  DEF Init, MutexInv, Accepting, KernelInv, MapsInv, TimeoutsInv, OwnedInv
<1>3. \A t \in Threads : Clients(t) = {}
  BY ConstantsAssumption DEF Init, Clients
<1>4. EventsInv /\ TimedInv
  BY <1>3 DEF Init, EventsInv, TimedInv
<1>7. ElsewhereInv
  <2>1. Elsewhere = {}
    BY DEF Init, Elsewhere
  <2> QED
    BY <2>1, FS_EmptySet, ConstantsAssumption DEF ElsewhereInv
<1>5. \A t \in Threads :
        /\ num_connections[t] = 0 /\ closing[t] = NoFd
        /\ Cardinality(Clients(t)) = 0
  BY <1>3, FS_EmptySet DEF Init
<1>6. CountMatches /\ LimitInv
  BY <1>5, ConstantsAssumption DEF CountMatches, LimitInv
<1> QED
  BY <1>1, <1>2, <1>4, <1>6, <1>7 DEF ServerInv, CountInv, LinkInv, TypeInv

\* ServerInv is inductive, whatever the peers and the clock do.
LEMMA ServerNext == OneCause /\ ServerInv /\ [Next]_vars => ServerInv'
<1> SUFFICES ASSUME OneCause, ServerInv, [Next]_vars PROVE ServerInv'
  OBVIOUS
<1> USE DEF ServerInv, CountInv, LinkInv
<1>1. TypeInv /\ TypeInv'
  BY TypeNext DEF TypeInv
<1>2. CASE \E t \in Threads : Step(t)
  <2>1. PICK t \in Threads : Step(t)
    BY <1>2
  <2>2. TypeOK' /\ AcceptInv' /\ MutexInv' /\ KernelInv' /\ MapsInv' /\ TimeoutsInv'
    BY <1>1, <2>1, MutexStep, KernelMapsStep, TimeoutsStep DEF TypeInv
  <2>3. EventsInv' /\ TimedInv' /\ ElsewhereInv' /\ CountMatches' /\ LimitInv' /\ OwnedInv'
    BY <2>1, EventsStep, TimedStep, ElsewhereStep, CountStep, OwnedStep
  <2> QED
    BY <2>2, <2>3
<1>3. ASSUME UNCHANGED <<kind, ep, srv, accept_mutex, pc, batch, errs, timeouts, closing,
                         new_fd, num_connections, maps>>,
             \A f \in Fds : peer'[f] = "rst" => peer[f] = "rst" \/ Resets,
             expired' = expired \/ Timeouts
      PROVE  ServerInv'
  <2>1. \A u \in Threads : Clients(u)' = Clients(u)
    BY <1>3 DEF Clients
  <2>2. MutexInv' /\ KernelInv' /\ MapsInv' /\ TimeoutsInv' /\ OwnedInv'
    BY <1>3 DEF MutexInv, KernelInv, MapsInv, TimeoutsInv, OwnedInv, maps
  <2>3. EventsInv'
    BY <1>3, <2>1 DEF EventsInv
  <2>4. TimedInv'
    BY <1>3, <2>1 DEF TimedInv, EnoughFds, maps
  <2>5. CountMatches' /\ LimitInv' /\ ElsewhereInv'
    BY <1>3, <2>1 DEF CountMatches, LimitInv, ElsewhereInv, Elsewhere
  <2> QED
    BY <1>1, <2>2, <2>3, <2>4, <2>5 DEF TypeInv
<1>4. CASE Connect \/ UNCHANGED vars
  BY <1>3, <1>4 DEF Connect, vars, kernel, registrations, events
<1>5. ASSUME NEW f \in Fds, PeerActs(f) PROVE ServerInv'
  <2>1. \A g \in Fds : peer'[g] = "rst" => peer[g] = "rst" \/ Resets
    BY <1>5 DEF PeerActs, TypeOK
  <2> QED
    BY <1>3, <1>5, <2>1 DEF PeerActs, registrations, events
<1>6. ASSUME NEW f \in Fds, TimerFires(f) PROVE ServerInv'
  BY <1>3, <1>6 DEF TimerFires, registrations, events
<1>7. ASSUME NEW f \in Fds, OpenElsewhere(f) \/ CloseElsewhere(f) PROVE ServerInv'
  <2>1. /\ \A u \in Threads : Clients(u)' = Clients(u)
        /\ \A g \in Fds : g # f => kind'[g] = kind[g]
        /\ kind[f] \in {"free", "elsewhere"} /\ kind'[f] \in {"free", "elsewhere"}
        /\ UNCHANGED <<ep, peer, expired, srv, accept_mutex, pc, batch, errs, timeouts,
                       closing, new_fd, num_connections, maps>>
    BY <1>7, ElsewhereClients DEF registrations, events
  <2>2. MutexInv' /\ EventsInv' /\ CountMatches' /\ LimitInv'
    BY <2>1 DEF MutexInv, EventsInv, CountMatches, LimitInv
  <2>3. KernelInv'
    <3>1. \A t \in Threads : pc[t] = "track" => new_fd[t] \in Fds /\ new_fd[t] # f
      BY <2>1 DEF KernelInv, AcceptInv
    <3> QED
      BY <2>1, <3>1 DEF KernelInv
  <2>4. MapsInv'
    BY <2>1 DEF MapsInv, maps
  <2>5. TimeoutsInv' /\ OwnedInv'
    <3>1. \A t \in Threads : \A m \in timeouts[t] : m \in Fds /\ m # f
      BY <2>1 DEF TimeoutsInv, TypeOK
    <3>2. TimeoutsInv'
      BY <2>1, <3>1 DEF TimeoutsInv
    <3>3. \A g \in Fds : kind'[g] = "client" => kind[g] = "client"
      BY <2>1
    <3> QED
      BY <2>1, <3>2, <3>3 DEF OwnedInv
  <2>6. TimedInv'
    BY <2>1 DEF TimedInv, EnoughFds, maps
  <2>7. ElsewhereInv'
    BY <1>7, ElsewhereBounded
  <2> QED
    BY <1>1, <2>2, <2>3, <2>4, <2>5, <2>6, <2>7 DEF TypeInv
<1> QED
  BY <1>2, <1>4, <1>5, <1>6, <1>7 DEF Next, AllExited

LEMMA ServerCorrect == OneCause => (Spec => []ServerInv)
<1>1. ASSUME OneCause PROVE Spec => []ServerInv
  <2>1. ServerInv /\ [Next]_vars => ServerInv'
    BY <1>1, ServerNext
  <2> QED
    BY <2>1, ServerInit, PTL DEF Spec
<1> QED
  BY <1>1

\* Unless resets and idle timeouts meet, the count by which every thread decides
\* whether to accept is exact, whatever timeouts or resets, stale events, failed
\* handshakes and exhausted descriptors do.
THEOREM CountCorrect == OneCause => (Spec => []CountMatches)
<1>1. ServerInv => CountMatches
  BY DEF ServerInv, CountInv
<1>2. ASSUME OneCause PROVE Spec => []CountMatches
  <2>1. Spec => []ServerInv
    BY <1>2, ServerCorrect
  <2> QED
    BY <1>1, <2>1, PTL
<1> QED
  BY <1>2

\* Unless resets and idle timeouts meet, no descriptor leaks: a timer is open only while
\* the maps of its thread pair it with a client of that thread, and a client is open
\* only while a thread watches it or is accepting it.
THEOREM DescriptorsCorrect == OneCause => (Spec => []DescriptorsAccounted)
<1>1. ServerInv => DescriptorsAccounted
  <2> SUFFICES ASSUME ServerInv PROVE DescriptorsAccounted
    OBVIOUS
  <2> USE DEF ServerInv, CountInv, LinkInv
  <2>1. ASSUME NEW m \in Fds, kind[m] = "timer"
        PROVE  \E t \in Threads, f \in Fds :
                 /\ ep[m] = t /\ timer_to_client[t][m] = f
                 /\ kind[f] = "client" /\ ep[f] = t /\ client_to_timer[t][f] = m
    <3>1. ep[m] \in Threads /\ timer_to_client[ep[m]][m] \in Fds
      BY <2>1 DEF MapsInv
    <3> QED
      BY <3>1 DEF MapsInv
  <2>2. ASSUME NEW f \in Fds, kind[f] = "client"
        PROVE  \E t \in Threads : ep[f] = t \/ (pc[t] = "track" /\ new_fd[t] = f)
    BY <2>2 DEF OwnedInv
  <2> QED
    BY <2>1, <2>2 DEF DescriptorsAccounted
<1>2. ASSUME OneCause PROVE Spec => []DescriptorsAccounted
  <2>1. Spec => []ServerInv
    BY <1>2, ServerCorrect
  <2> QED
    BY <1>1, <2>1, PTL
<1> QED
  BY <1>2

\* With descriptors for every client and its timer, a client never stays without the
\* timer that ends it when it is idle.
THEOREM TimersCorrect == OneCause /\ EnoughFds => (Spec => []ClientsTimed)
<1>1. EnoughFds /\ ServerInv => ClientsTimed
  <2> SUFFICES ASSUME EnoughFds, ServerInv, NEW t \in Threads, NEW f \in Clients(t)
               PROVE  Timed(f)
    BY DEF ClientsTimed
  <2> USE DEF ServerInv, CountInv, LinkInv
  <2> DEFINE m == client_to_timer[t][f]
  <2>1. f \in Fds /\ ep[f] = t /\ m \in Fds \ {Stdin}
    BY DEF TimedInv, Clients
  <2>2. timer_to_client[t][m] = f
    BY <2>1 DEF MapsInv
  <2>3. ep[m] = t /\ kind[m] = "timer"
    BY <2>1, <2>2 DEF MapsInv
  <2> QED
    BY <2>1, <2>2, <2>3 DEF Timed
<1>2. ASSUME OneCause, EnoughFds PROVE Spec => []ClientsTimed
  <2>1. Spec => []ServerInv
    BY <1>2, ServerCorrect
  <2>2. ServerInv => ClientsTimed
    BY <1>1, <1>2
  <2> QED
    BY <2>1, <2>2, PTL
<1> QED
  BY <1>2

\* A thread gives up server_fd when it becomes full and takes it back at the
\* disconnect that makes room: the callback's count is exact, so it sees that.
LEMMA ListenerStep ==
    ASSUME CountInv, ListenerMatches, NEW t \in Threads, Step(t)
    PROVE  ListenerMatches'
<1> USE ConstantsAssumption DEF CountInv, LinkInv, HasRoom
<1>1. CASE Disconnect(t)
  <2>1. accept_mutex # t
    BY <1>1 DEF Disconnect, MutexInv, AcceptInv
  <2>2. num_connections[t] > 0
    BY <1>1, CountType DEF Disconnect, CountMatches, TypeOK
  <2>3. num_connections' = [num_connections EXCEPT ![t] = num_connections[t] - 1]
    <3>1. CountDown(num_connections[t]) = num_connections[t] - 1
      BY <2>2 DEF CountDown
    <3> QED
      BY <1>1, <3>1 DEF Disconnect
  <2> QED
    BY <1>1, <2>1, <2>2, <2>3 DEF Disconnect, ListenerMatches, TypeOK
<1>2. CASE EpollWait(t)
  <2>1. srv'[t] = srv[t] \/ (srv[t] = "armed" /\ srv'[t] = "fired")
    <3>1. "server" \notin Fds
      OBVIOUS
    <3>2. "server" \in Ready(t) => srv[t] = "armed"
      BY <3>1 DEF Ready, ReadyClients, TypeOK
    <3>3. srv'[t] = srv[t] \/ ("server" \in Ready(t) /\ srv'[t] = "fired")
      BY <1>2 DEF EpollWait, Harvest, TypeOK
    <3> QED
      BY <3>2, <3>3
  <2> QED
    BY <1>2, <2>1 DEF EpollWait, ListenerMatches, TypeOK
<1>3. CASE AcceptBusy(t)
  BY <1>3 DEF AcceptBusy, ListenerMatches, TypeOK
<1>4. CASE AcceptLock(t)
  BY <1>4 DEF AcceptLock, ListenerMatches, TypeOK, registrations
<1>5. CASE Track(t)
  <2>1. accept_mutex = t /\ num_connections[t] < MaxConnections
    BY <1>5 DEF Track, MutexInv, Accepting, AcceptInv
  <2> QED
    BY <1>5, <2>1 DEF Track, ListenerMatches, TypeOK, registrations
<1>6. CASE AcceptUnlock(t)
  BY <1>6 DEF AcceptUnlock, Rearm, MutexInv, Accepting, ListenerMatches, TypeOK
<1>7. CASE UNCHANGED <<srv, accept_mutex, num_connections>>
  BY <1>7 DEF ListenerMatches
<1> QED
  BY <1>1, <1>2, <1>3, <1>4, <1>5, <1>6, <1>7
  DEF Step, EpollWaitTimesOut, BatchDone, TimeoutEvent, TimeoutsDone, ErrorEvent,
      CloseTimedOut, ReadEvent, AcceptClient, AcceptFails, ContinuationFails, registrations

\* Unless resets and idle timeouts meet, a thread never exceeds max_connections and
\* stops watching server_fd exactly while it is full: the EPOLL_CTL_DEL after the accept
\* loop and the EPOLL_CTL_ADD of close_client_callback always pair up.
THEOREM ListenerCorrect == OneCause => (Spec => []ListenerMatches)
<1>1. Init => ListenerMatches
  BY ConstantsAssumption DEF Init, ListenerMatches, HasRoom
<1>2. ServerInv /\ ListenerMatches /\ [Next]_vars => ListenerMatches'
  <2> SUFFICES ASSUME ServerInv, ListenerMatches, [Next]_vars PROVE ListenerMatches'
    OBVIOUS
  <2>1. CASE UNCHANGED <<srv, accept_mutex, num_connections>>
    BY <2>1 DEF ListenerMatches, HasRoom
  <2> QED
    BY <2>1, ListenerStep
    DEF ServerInv, Next, AllExited, Connect, PeerActs, TimerFires, OpenElsewhere,
        CloseElsewhere, vars, registrations
<1>3. ASSUME OneCause PROVE Spec => []ListenerMatches
  <2>1. Spec => []ServerInv
    BY <1>3, ServerCorrect
  <2> QED
    BY <1>1, <1>2, <2>1, PTL DEF Spec
<1> QED
  BY <1>3

\* The threads that watch descriptor f, and those that still owe its on_disconnect.
Watchers(f) == {t \in Threads : f \in Clients(t)}
Closers(f) == {t \in Threads : closing[t] = f}

\* There are finitely many of either.
LEMMA ThreadCounts ==
    ASSUME NEW f
    PROVE  /\ IsFiniteSet(Watchers(f)) /\ Cardinality(Watchers(f)) \in Nat
           /\ IsFiniteSet(Closers(f)) /\ Cardinality(Closers(f)) \in Nat
<1>1. Watchers(f) \in SUBSET Threads /\ Closers(f) \in SUBSET Threads
  BY DEF Watchers, Closers
<1> QED
  BY <1>1, ConstantsAssumption, FS_Subset, FS_CardinalityType

\* on_connect is called where a thread starts watching, on_disconnect where it has
\* stopped: every handler moves the sessions with the two sets.
LEMMA SessionsStep ==
    ASSUME OneCause, ServerInv, SessionsMatch, NEW t \in Threads, Step(t)
    PROVE  SessionsMatch'
<1> USE ConstantsAssumption DEF ServerInv, CountInv, LinkInv
<1>1. \A f \in Fds : sessions[f] = Cardinality(Watchers(f)) + Cardinality(Closers(f))
  BY DEF SessionsMatch, Watchers, Closers
<1> SUFFICES ASSUME NEW g \in Fds
             PROVE  sessions'[g] = Cardinality(Watchers(g)') + Cardinality(Closers(g)')
  BY DEF SessionsMatch, Watchers, Closers
<1>2. ASSUME NEW m \in Fds, NEW f \in Fds, Ends(t, m, f), Serves(t)
      PROVE  sessions'[g] = Cardinality(Watchers(g)') + Cardinality(Closers(g)')
  <2>1. /\ f \in Clients(t) /\ Clients(t)' = Clients(t) \ {f}
        /\ \A u \in Threads \ {t} : Clients(u)' = Clients(u)
    BY <1>2, EndConnectionCount DEF Ends
  <2>2. /\ closing[t] = NoFd /\ closing'[t] = f /\ f # NoFd /\ g # NoFd
        /\ \A u \in Threads \ {t} : closing'[u] = closing[u]
        /\ UNCHANGED sessions
    BY <1>2 DEF Ends, Serves, TypeOK
  <2>3. CASE g = f
    <3>1. Watchers(g)' = Watchers(g) \ {t} /\ t \in Watchers(g)
      <4>1. \A u \in Threads : g \in Clients(u)' <=> g \in Clients(u) /\ u # t
        BY <2>1, <2>3
      <4>2. Watchers(g)' = {u \in Threads : g \in Clients(u)'}
        BY DEF Watchers
      <4> QED
        BY <2>1, <2>3, <4>1, <4>2 DEF Watchers
    <3>2. Closers(g)' = Closers(g) \cup {t} /\ t \notin Closers(g)
      BY <2>2, <2>3 DEF Closers
    <3>3. Cardinality(Watchers(g)') = Cardinality(Watchers(g)) - 1
      <4>1. IsFiniteSet(Watchers(g)) /\ t \in Watchers(g)
        BY <3>1, ThreadCounts
      <4>2. Cardinality(Watchers(g) \ {t}) = Cardinality(Watchers(g)) - 1
        BY <4>1, FS_RemoveElement
      <4> QED
        BY <3>1, <4>2
    <3>4. Cardinality(Closers(g)') = Cardinality(Closers(g)) + 1
      BY <3>2, ThreadCounts, FS_AddElement
    <3> QED
      BY <1>1, <2>2, <3>3, <3>4, ThreadCounts
  <2>4. CASE g # f
    <3>1. Watchers(g)' = Watchers(g)
      <4>1. \A u \in Threads : g \in Clients(u)' <=> g \in Clients(u)
        BY <2>1, <2>4
      <4> QED
        BY <4>1 DEF Watchers
    <3>2. Closers(g)' = Closers(g)
      BY <2>2, <2>4 DEF Closers
    <3> QED
      BY <1>1, <2>2, <3>1, <3>2
  <2> QED
    BY <2>3, <2>4
<1>3. CASE Track(t)
  <2> DEFINE f == new_fd[t]
  <2>1. /\ f \in Fds /\ f \notin Clients(t) /\ Clients(t)' = Clients(t) \cup {f}
        /\ \A u \in Threads \ {t} : Clients(u)' = Clients(u)
        /\ Closers(g)' = Closers(g)
    BY <1>3, TrackClients DEF Closers
  <2>2. sessions' = [sessions EXCEPT ![f] = @ + 1]
    BY <1>3 DEF Track
  <2>3. CASE g = f
    <3>1. Watchers(g)' = Watchers(g) \cup {t} /\ t \notin Watchers(g)
      <4>1. \A u \in Threads : g \in Clients(u)' <=> g \in Clients(u) \/ u = t
        BY <2>1, <2>3
      <4> QED
        BY <2>1, <2>3, <4>1 DEF Watchers
    <3>2. Cardinality(Watchers(g)') = Cardinality(Watchers(g)) + 1
      BY <3>1, ThreadCounts, FS_AddElement
    <3>3. sessions'[g] = sessions[g] + 1
      BY <2>1, <2>2, <2>3 DEF TypeOK
    <3> QED
      BY <1>1, <2>1, <3>2, <3>3, ThreadCounts
  <2>4. CASE g # f
    <3>1. Watchers(g)' = Watchers(g)
      <4>1. \A u \in Threads : g \in Clients(u)' <=> g \in Clients(u)
        BY <2>1, <2>4
      <4> QED
        BY <4>1 DEF Watchers
    <3>2. sessions'[g] = sessions[g]
      BY <2>2, <2>4 DEF TypeOK
    <3> QED
      BY <1>1, <2>1, <3>1, <3>2
  <2> QED
    BY <2>3, <2>4
<1>4. ASSUME \A u \in Threads : Clients(u)' = Clients(u) PROVE Watchers(g)' = Watchers(g)
  BY <1>4 DEF Watchers
<1>5. CASE Disconnect(t)
  <2> DEFINE f == closing[t]
  <2>1. Watchers(g)' = Watchers(g)
    BY <1>4, <1>5 DEF Disconnect, kernel, Clients
  <2>2. /\ f \in Fds /\ closing'[t] = NoFd /\ g # NoFd
        /\ \A u \in Threads \ {t} : closing'[u] = closing[u]
        /\ sessions' = [sessions EXCEPT ![f] = @ - 1]
    BY <1>5 DEF Disconnect, TypeOK
  <2>3. CASE g = f
    <3>1. Closers(g)' = Closers(g) \ {t} /\ t \in Closers(g)
      BY <2>2, <2>3 DEF Closers
    <3>2. Cardinality(Closers(g)') = Cardinality(Closers(g)) - 1
      BY ZenonT(60), <3>1, ThreadCounts, FS_RemoveElement
    <3>3. sessions'[g] = sessions[g] - 1
      BY <2>2, <2>3 DEF TypeOK
    <3> QED
      BY <1>1, <2>1, <3>2, <3>3, ThreadCounts
  <2>4. CASE g # f
    <3>1. Closers(g)' = Closers(g)
      BY <2>2, <2>4 DEF Closers
    <3>2. sessions'[g] = sessions[g]
      BY <2>2, <2>4 DEF TypeOK
    <3> QED
      BY <1>1, <2>1, <3>1, <3>2
  <2> QED
    BY <2>3, <2>4
<1>6. ASSUME \A u \in Threads : Clients(u)' = Clients(u), UNCHANGED <<closing, sessions>>
      PROVE  sessions'[g] = Cardinality(Watchers(g)') + Cardinality(Closers(g)')
  BY <1>1, <1>4, <1>6 DEF Closers
<1> QED
  BY <1>2, <1>3, <1>5, <1>6, ClientsStep

\* Unless resets and idle timeouts meet, every on_connect gets exactly one on_disconnect,
\* even when another thread has accepted the same number before it is called.
THEOREM SessionsCorrect == OneCause => (Spec => []SessionsMatch)
<1>1. Init => SessionsMatch
  <2> SUFFICES ASSUME Init PROVE SessionsMatch
    OBVIOUS
  <2>1. \A f \in Fds : Watchers(f) = {} /\ Closers(f) = {} /\ sessions[f] = 0
    BY ConstantsAssumption DEF Init, Watchers, Closers, Clients
  <2> QED
    BY <2>1, FS_EmptySet DEF SessionsMatch, Watchers, Closers
<1>2. ServerInv /\ OneCause /\ SessionsMatch /\ [Next]_vars => SessionsMatch'
  <2> SUFFICES ASSUME ServerInv, OneCause, SessionsMatch, [Next]_vars PROVE SessionsMatch'
    OBVIOUS
  <2> USE DEF ServerInv, CountInv, LinkInv
  <2>1. CASE UNCHANGED <<kind, ep, closing, sessions>>
    BY <2>1 DEF SessionsMatch, Clients
  <2>2. ASSUME NEW f \in Fds, OpenElsewhere(f) \/ CloseElsewhere(f) PROVE SessionsMatch'
    <3>1. (\A u \in Threads : Clients(u)' = Clients(u)) /\ UNCHANGED <<closing, sessions>>
      BY <2>2, ElsewhereClients
    <3> QED
      BY <3>1 DEF SessionsMatch
  <2> QED
    BY <2>1, <2>2, SessionsStep DEF Next, AllExited, Connect, PeerActs, TimerFires, vars, kernel
<1>3. ASSUME OneCause PROVE Spec => []SessionsMatch
  <2>1. Spec => []ServerInv
    BY <1>3, ServerCorrect
  <2>2. ServerInv /\ SessionsMatch /\ [Next]_vars => SessionsMatch'
    BY <1>2, <1>3
  <2> QED
    BY <1>1, <2>1, <2>2, PTL DEF Spec
<1> QED
  BY <1>3
=============================================================================
