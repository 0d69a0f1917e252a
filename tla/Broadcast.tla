----------------------------- MODULE Broadcast -----------------------------
(***************************************************************************)
(* Broadcasting in EpollServer: what is sent to broadcast_fd() is written   *)
(* to a packet-mode pipe whose read end every thread watches one-shot.      *)
(* A thread that gets the event reads one packet and sends it to every      *)
(* client in its own client_to_timer_map.                                   *)
(***************************************************************************)
EXTENDS Naturals, Sequences, FiniteSets, SequencesExt

CONSTANTS
    Threads,      \* the threads of the server
    NoThread,     \* nobody
    Clients,      \* clients that may be connected
    Slow,         \* clients whose socket buffer may be full when written to
    PipeSize,     \* packets the pipe holds before write() would block
    MaxMessages   \* bound on the messages ever broadcast

ASSUME BroadcastAssumption ==
    /\ IsFiniteSet(Threads) /\ Threads # {} /\ NoThread \notin Threads
    /\ Slow \subseteq Clients
    /\ PipeSize \in Nat \ {0} /\ MaxMessages \in Nat

VARIABLES
    pipe,        \* packets written to broadcast_pipe[1] and not read yet
    written,     \* number of messages accepted so far; message n is the n-th
    reg,         \* each thread's registration of broadcast_pipe[0]
    tracked,     \* each thread's client_to_timer_map keys
    delivered,   \* messages sent to each client, in order
    audience,    \* clients connected when a message was written and still
    reader       \* the thread that read each message, or NoThread

vars == <<pipe, written, reg, tracked, delivered, audience, reader>>

Init ==
    /\ pipe = <<>> /\ written = 0
    /\ reg = [t \in Threads |-> "armed"]
    /\ tracked = [t \in Threads |-> {}]
    /\ delivered = [c \in Clients |-> <<>>]
    /\ audience = [n \in 1 .. MaxMessages |-> {}]
    /\ reader = [n \in 1 .. MaxMessages |-> NoThread]

Connected == UNION {tracked[t] : t \in Threads}

\* send(broadcast_fd(), data): fails, and tells its caller so, on a full pipe.
Send ==
    /\ written < MaxMessages
    /\ Len(pipe) < PipeSize
    /\ written' = written + 1
    /\ pipe' = Append(pipe, written + 1)
    /\ audience' = [audience EXCEPT ![written + 1] = Connected]
    /\ UNCHANGED <<reg, tracked, delivered, reader>>

\* The accept branch puts a client into this thread's map.  A client stands for one
\* connection: what it was sent before never comes back with another one.
Accept(t, c) ==
    /\ c \notin Connected
    /\ delivered[c] = <<>>
    /\ tracked' = [tracked EXCEPT ![t] = @ \cup {c}]
    /\ UNCHANGED <<pipe, written, reg, delivered, audience, reader>>

\* Any of the branches that close a client takes it out again.
Leave(t, c) ==
    /\ c \in tracked[t]
    /\ tracked' = [tracked EXCEPT ![t] = @ \ {c}]
    /\ audience' = [n \in DOMAIN audience |-> audience[n] \ {c}]
    /\ UNCHANGED <<pipe, written, reg, delivered, reader>>

\* epoll_wait reports the pipe, and disarms it in this thread's epoll instance.
EpollWait(t) ==
    /\ reg[t] = "armed" /\ pipe # <<>>
    /\ reg' = [reg EXCEPT ![t] = "fired"]
    /\ UNCHANGED <<pipe, written, tracked, delivered, audience, reader>>

\* Mutant: the packet stays in the pipe, as if peeked at.
PeekPacket == pipe

\* What read() of one packet leaves in the pipe.
ReadPacket == Tail(pipe)

\* Mutant: the loop over the map stops before its last entry.
RecipientsButOne(t) == tracked[t] \ {c \in tracked[t] : tracked[t] = {c}}

\* The keys the loop over client_to_timer_map visits.
Recipients(t) == tracked[t]

\* Mutant: the registration of the pipe is not renewed.
NotRearmed == "off"

\* EPOLL_CTL_MOD of broadcast_pipe[0].
Rearmed == "armed"

\* The broadcast branch.  Send errors are thrown away.  On an empty pipe read()
\* returns -1, and every send of -1 bytes fails: nothing is delivered.
BroadcastEvent(t) ==
    /\ reg[t] = "fired"
    /\ \/ /\ pipe # <<>>
          /\ pipe' = ReadPacket
          /\ reader' = [reader EXCEPT ![Head(pipe)] = t]
          /\ \E failed \in SUBSET (Recipients(t) \cap Slow) :
               delivered' = [c \in Clients |->
                 IF c \in Recipients(t) \ failed THEN Append(delivered[c], Head(pipe))
                 ELSE delivered[c]]
       \/ /\ pipe = <<>>
          /\ UNCHANGED <<pipe, delivered, reader>>
    /\ reg' = [reg EXCEPT ![t] = Rearmed]
    /\ UNCHANGED <<written, tracked, audience>>

\* Nobody has anything left to do.
Quiescent ==
    /\ written = MaxMessages /\ pipe = <<>>
    /\ \A t \in Threads : reg[t] = "armed"
    /\ UNCHANGED vars

Next ==
    \/ Send
    \/ \E t \in Threads : EpollWait(t) \/ BroadcastEvent(t)
    \/ \E t \in Threads, c \in Clients : Accept(t, c) \/ Leave(t, c)
    \/ Quiescent

Spec == Init /\ [][Next]_vars

\* Threads are scheduled; senders and clients promise nothing.
FairSpec == Spec /\ \A t \in Threads : WF_vars(EpollWait(t) \/ BroadcastEvent(t))

-----------------------------------------------------------------------------
(* Properties *)

\* Every variable holds a value of its type.
TypeOK ==
    /\ pipe \in Seq(1 .. MaxMessages) /\ Len(pipe) <= PipeSize
    /\ written \in 0 .. MaxMessages
    /\ reg \in [Threads -> {"armed", "fired"}]
    /\ tracked \in [Threads -> SUBSET Clients]
    /\ delivered \in [Clients -> Seq(1 .. MaxMessages)]
    /\ audience \in [1 .. MaxMessages -> SUBSET Clients]
    /\ reader \in [1 .. MaxMessages -> Threads \cup {NoThread}]

\* However the threads interleave, a client gets the messages it does get in the
\* order they were broadcast, and none twice.
DeliveredInOrder ==
    \A c \in Clients : \A i, j \in DOMAIN delivered[c] :
      i < j => delivered[c][i] < delivered[c][j]

\* The comment in the broadcast branch: "each thread will receive a new event
\* landing here", the data being "written to each currently tracked client fd".
\* So a message that has been read has reached every client that was connected
\* when it was written, has stayed, and can be written to.
ReachesEveryClient ==
    \A n \in 1 .. written :
      n \notin ToSet(pipe) => \A c \in audience[n] \ Slow : n \in ToSet(delivered[c])

\* What does hold with several threads: a message reaches every client of the thread
\* that read it that was connected when it was written, has stayed, and can be
\* written to.  With one thread that is every client.
ReachesReadersClients ==
    \A n \in 1 .. written, t \in Threads : reader[n] = t =>
      \A c \in (audience[n] \cap tracked[t]) \ Slow : n \in ToSet(delivered[c])

\* Every message that entered the pipe is read by some thread.
PipeDrains == \A n \in 1 .. MaxMessages : n \in ToSet(pipe) ~> n \notin ToSet(pipe)
=============================================================================
