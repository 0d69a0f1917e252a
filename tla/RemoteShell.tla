---------------------------- MODULE RemoteShell ----------------------------
(***************************************************************************)
(* comd, its Shell (shell.hpp) and the runs of com that use it one after    *)
(* the other (examples/comd.cpp, examples/com.cpp).  comd has two threads:  *)
(* the server's, which runs the callbacks, and the main thread, which       *)
(* relays the shell's output.  They share the shell and the connection's    *)
(* number, which the next connection gets again.  A connection is a pair of *)
(* ordered channels of whole messages, as SymmetricChannel shows.  bash and *)
(* the commands it starts are the environment: a command may outlive bash,  *)
(* holds the pipes meanwhile, and writes at most one piece of output.       *)
(***************************************************************************)
EXTENDS Naturals, Sequences

CONSTANTS
    MaxSessions,   \* bound on the runs of com
    MaxCommands,   \* of each run: bound on its commands
    MaxShells      \* bound on the shells comd opens

Sessions == 1 .. MaxSessions
Shells == 1 .. MaxShells
Threads == {"server", "main"}

ASSUME RemoteAssumption ==
    MaxSessions \in Nat /\ MaxShells \in Nat /\ MaxCommands \in [Sessions -> Nat]

VARIABLES
    com,        \* of each session: the state of its com, "none" before and "ended" after
    identity,   \* whether it has the IDENTITY this comd knows
    routine,    \* the routine it asks for
    typed,      \* the commands it has sent
    c2s, s2c,   \* its connection; s2c holds 0 for an answer, a shell for its output
    accepted,   \* how many connections comd has accepted, in order
    conn,       \* the session whose connection is open, 0 if none
    comd,       \* comd's state
    exchange,   \* shell_client_fd has been given the connection's number
    opened,     \* shell.opened
    shell,      \* the shell that pid, input and output name; the last one opened
    bash,       \* of each shell: "none", "alive" or "dead"
    jobs,       \* how many of its commands have not ended
    inputs, outputs,         \* how many commands and pieces of output are in its pipes
    inputOpen, outputOpen,   \* whether comd's end of each is open
    owner,      \* the session that opened it
    pc,         \* where the two threads are
    holds,      \* the shell each one found when it began to close or read it
    late        \* history: the shells main still waited for when on_disconnect's sleep ended

comVars == <<com, identity, routine, typed>>
shellVars == <<opened, shell, bash, jobs, inputs, outputs, inputOpen, outputOpen, owner>>
comdVars == <<accepted, conn, comd, exchange>>
threadVars == <<pc, holds, late>>
remoteVars == <<comVars, c2s, s2c, shellVars, comdVars, threadVars>>

RemoteInit ==
    /\ com = [n \in Sessions |-> "none"] /\ typed = [n \in Sessions |-> 0]
    /\ identity \in [Sessions -> BOOLEAN]
    /\ routine \in [Sessions -> {"SHELL", "SEND_FILE"}]
    /\ \A n \in Sessions : ~identity[n] => routine[n] = "SHELL"    \* it is never asked
    /\ c2s = [n \in Sessions |-> <<>>] /\ s2c = [n \in Sessions |-> <<>>]
    /\ accepted = 0 /\ conn = 0 /\ comd = "VERIFY_IDENTITY" /\ exchange = FALSE
    /\ opened = FALSE /\ shell = 0
    /\ bash = [s \in Shells |-> "none"] /\ owner = [s \in Shells |-> 0]
    /\ jobs = [s \in Shells |-> 0] /\ late = {}
    /\ inputs = [s \in Shells |-> 0] /\ outputs = [s \in Shells |-> 0]
    /\ inputOpen = [s \in Shells |-> FALSE] /\ outputOpen = [s \in Shells |-> FALSE]
    /\ pc = [server |-> "poll", main |-> "check"]
    /\ holds = [t \in Threads |-> 0]

At(t, place) == pc[t] = place
Goto(t, place) == pc' = [pc EXCEPT ![t] = place]

---------------------------------------------------------------------------
(* com *)

Running(n) == com[n] \notin {"none", "ended"}
Sends(n, m) == c2s' = [c2s EXCEPT ![n] = Append(@, m)]
ComGoto(n, state) == com' = [com EXCEPT ![n] = state]

\* Connects and sends IDENTITY (on_connect); comd may accept it later.
ComStart(n) ==
    /\ com[n] = "none" /\ \A k \in 1 .. n - 1 : com[k] # "none"
    /\ ComGoto(n, "VERIFY_IDENTITY") /\ Sends(n, "IDENTITY")
    /\ UNCHANGED <<identity, routine, typed, s2c, shellVars, comdVars, threadVars>>

\* on_read: any answer moves it on, VERIFIED or not, START_ROUTINE or BAD_ROUTINE.
ComRead(n) ==
    /\ Running(n) /\ s2c[n] # <<>>
    /\ s2c' = [s2c EXCEPT ![n] = Tail(@)]
    /\ \/ com[n] = "VERIFY_IDENTITY" /\ Sends(n, routine[n]) /\ ComGoto(n, "SELECT_ROUTINE")
       \/ com[n] = "SELECT_ROUTINE" /\ ComGoto(n, "EXCHANGE_PACKETS") /\ UNCHANGED c2s
       \/ com[n] = "EXCHANGE_PACKETS" /\ UNCHANGED <<com, c2s>>
    /\ UNCHANGED <<identity, routine, typed, shellVars, comdVars, threadVars>>

\* on_event_loop: a line of the terminal, which com sends once SHELL was selected.
ComType(n) ==
    /\ com[n] = "EXCHANGE_PACKETS" /\ routine[n] = "SHELL" /\ typed[n] < MaxCommands[n]
    /\ typed' = [typed EXCEPT ![n] = @ + 1] /\ Sends(n, "command")
    /\ UNCHANGED <<com, identity, routine, s2c, shellVars, comdVars, threadVars>>

\* The terminal ends, a signal is caught, or comd has closed the connection.
ComEnd(n) ==
    /\ Running(n) /\ ComGoto(n, "ended")
    /\ UNCHANGED <<identity, routine, typed, c2s, s2c, shellVars, comdVars, threadVars>>

---------------------------------------------------------------------------
(* Shell *)

\* sopen, when it is not open: the pipes and bash.
Sopen(s) ==
    /\ ~opened /\ s = shell + 1
    /\ shell' = s /\ opened' = TRUE
    /\ bash' = [bash EXCEPT ![s] = "alive"] /\ owner' = [owner EXCEPT ![s] = conn]
    /\ inputOpen' = [inputOpen EXCEPT ![s] = TRUE]
    /\ outputOpen' = [outputOpen EXCEPT ![s] = TRUE]
    /\ UNCHANGED <<jobs, inputs, outputs>>

\* sclose, one system call at a time; what follows it is `next`.  It uses the
\* members of the moment, which the other thread may have changed.
ScloseTest(t, next) ==
    /\ At(t, "sclose")
    /\ Goto(t, IF opened THEN "kill" ELSE next)
    /\ holds' = [holds EXCEPT ![t] = shell]
    /\ UNCHANGED <<comVars, c2s, s2c, shellVars, comdVars, late>>

ScloseKill(t) ==
    /\ At(t, "kill") /\ Goto(t, "closeInput")
    /\ bash' = [bash EXCEPT ![shell] = "dead"]
    /\ UNCHANGED <<comVars, c2s, s2c, opened, shell, jobs, inputs, outputs, inputOpen, outputOpen,
                   owner, comdVars, holds, late>>

ScloseInput(t) ==
    /\ At(t, "closeInput") /\ Goto(t, "closeOutput")
    /\ inputOpen' = [inputOpen EXCEPT ![shell] = FALSE]
    /\ UNCHANGED <<comVars, c2s, s2c, opened, shell, bash, jobs, inputs, outputs, outputOpen,
                   owner, comdVars, holds, late>>

ScloseOutput(t) ==
    /\ At(t, "closeOutput") /\ Goto(t, "clear")
    /\ outputOpen' = [outputOpen EXCEPT ![shell] = FALSE]
    /\ UNCHANGED <<comVars, c2s, s2c, opened, shell, bash, jobs, inputs, outputs, inputOpen,
                   owner, comdVars, holds, late>>

ScloseClear(t, next) ==
    /\ At(t, "clear") /\ Goto(t, next)
    /\ opened' = FALSE
    /\ UNCHANGED <<comVars, c2s, s2c, shell, bash, jobs, inputs, outputs, inputOpen, outputOpen,
                   owner, comdVars, holds, late>>

Sclose(t, next) == ScloseTest(t, next) \/ ScloseKill(t) \/ ScloseInput(t) \/ ScloseOutput(t)
                   \/ ScloseClear(t, next)

\* A process of the shell is there to read its input and to write its output.
Peopled(s) == bash[s] = "alive" \/ jobs[s] > 0

\* A command is read and runs, or ends bash; a command that runs may read the next
\* ones; and it ends, with output or none.
BashStep(s) ==
    /\ \/ /\ Peopled(s) /\ inputs[s] > 0
          /\ inputs' = [inputs EXCEPT ![s] = @ - 1]
          /\ \/ jobs' = [jobs EXCEPT ![s] = @ + 1] /\ UNCHANGED bash
             \/ bash' = [bash EXCEPT ![s] = "dead"] /\ UNCHANGED jobs
          /\ UNCHANGED outputs
       \/ /\ jobs[s] > 0
          /\ jobs' = [jobs EXCEPT ![s] = @ - 1]
          /\ outputs' \in {outputs, [outputs EXCEPT ![s] = @ + 1]}
          /\ UNCHANGED <<bash, inputs>>
    /\ UNCHANGED <<comVars, c2s, s2c, opened, shell, inputOpen, outputOpen, owner, comdVars,
                   threadVars>>

---------------------------------------------------------------------------
(* comd: the server's thread *)

\* Its own accept takes the next connection; on_connect starts the protocol anew.
Accept ==
    /\ At("server", "poll") /\ conn = 0 /\ accepted < MaxSessions
    /\ com[accepted + 1] # "none"
    /\ accepted' = accepted + 1 /\ conn' = accepted + 1
    /\ comd' = "VERIFY_IDENTITY"
    /\ UNCHANGED <<exchange, comVars, c2s, s2c, shellVars, threadVars>>

\* server.send to the connection: it fails only if the client has gone.
Answered(ok) ==
    \/ ok /\ s2c' = [s2c EXCEPT ![conn] = Append(@, 0)]
    \/ ~ok /\ ~Running(conn) /\ UNCHANGED s2c

\* Mutant: on_disconnect leaves the shell alone.
ReadReturnsOnly(ok) ==
    /\ Goto("server", IF ok THEN "poll" ELSE "sleep")
    /\ conn' = IF ok THEN conn ELSE 0
    /\ UNCHANGED <<accepted, holds, late>>

\* on_read returns: a negative result closes the connection, and on_disconnect
\* begins.
ReadReturns(ok) ==
    /\ Goto("server", IF ok THEN "poll" ELSE "sclose")
    /\ conn' = IF ok THEN conn ELSE 0
    /\ UNCHANGED <<accepted, holds, late>>

Receives(state) ==
    /\ At("server", "poll") /\ conn # 0 /\ comd = state /\ c2s[conn] # <<>>
    /\ c2s' = [c2s EXCEPT ![conn] = Tail(@)]
    /\ UNCHANGED comVars

\* case VERIFY_IDENTITY.
VerifyIdentity ==
    /\ Receives("VERIFY_IDENTITY")
    /\ \E ok \in BOOLEAN :
         /\ ok => identity[conn]
         /\ IF identity[conn] THEN Answered(ok) ELSE UNCHANGED s2c
         /\ ReadReturns(ok)
         /\ comd' = IF ok THEN "SELECT_ROUTINE" ELSE comd
    /\ UNCHANGED <<exchange, shellVars>>

\* case SELECT_ROUTINE: only SHELL goes on; a file routine is answered and closed.
SelectRoutine ==
    /\ Receives("SELECT_ROUTINE")
    /\ LET isShell == Head(c2s[conn]) = "SHELL"
       IN \E sent \in BOOLEAN :
            /\ Answered(sent) /\ ReadReturns(sent /\ isShell)
            /\ comd' = IF sent /\ isShell THEN "EXCHANGE_PACKETS" ELSE comd
            /\ exchange' = (exchange \/ (sent /\ isShell))
    /\ UNCHANGED shellVars

\* case EXCHANGE_PACKETS: the shell is opened unless it is, or cannot be.
ExchangePackets ==
    /\ Receives("EXCHANGE_PACKETS")
    /\ \/ /\ opened /\ UNCHANGED <<shellVars, conn>> /\ Goto("server", "write")
       \/ \E s \in Shells : Sopen(s) /\ UNCHANGED conn /\ Goto("server", "write")
       \/ ~opened /\ conn' = 0 /\ UNCHANGED shellVars /\ Goto("server", "sclose")
    /\ UNCHANGED <<s2c, accepted, comd, exchange, holds, late>>

\* write(shell.input): it fails when the main thread has closed it, and when nobody
\* is left to read it.
WriteInput ==
    /\ At("server", "write")
    /\ LET ok == inputOpen[shell] /\ Peopled(shell)
       IN /\ ReadReturns(ok)
          /\ inputs' = IF ok THEN [inputs EXCEPT ![shell] = @ + 1] ELSE inputs
    /\ UNCHANGED <<comVars, c2s, s2c, opened, shell, bash, jobs, outputs, inputOpen, outputOpen, owner,
                   comd, exchange>>

\* The end of the client's stream, an error on it, or its timeout.
Dropped ==
    /\ At("server", "poll") /\ conn # 0
    /\ ReadReturns(FALSE)
    /\ UNCHANGED <<comVars, c2s, s2c, shellVars, comd, exchange>>

\* The main thread is in a read of output that nobody has written yet.
Waits == At("main", "reading") /\ outputs[holds["main"]] = 0 /\ Peopled(holds["main"])

\* The connection is over, whether or not main has let go of its shell.
Forgets == late' = IF Waits THEN late \cup {holds["main"]} ELSE late

\* Mutant: on_disconnect does not sleep.
AwakeAtOnce ==
    /\ At("server", "sleep") /\ Goto("server", "poll") /\ Forgets
    /\ UNCHANGED <<comVars, c2s, s2c, shellVars, comdVars, holds>>

\* sleep(10) of on_disconnect ends: long enough for every call of the main thread,
\* except a read that waits for a command that has outlived bash.
Awake ==
    /\ At("server", "sleep") /\ (At("main", "check") \/ Waits)
    /\ Goto("server", "poll") /\ Forgets
    /\ UNCHANGED <<comVars, c2s, s2c, shellVars, comdVars, holds>>

ServerThread == Accept \/ VerifyIdentity \/ SelectRoutine \/ ExchangePackets \/ WriteInput
                \/ Dropped \/ Awake \/ Sclose("server", "sleep")

---------------------------------------------------------------------------
(* comd: the main thread *)

\* while(true) spins until a shell is opened.
SeeOpened ==
    /\ At("main", "check") /\ opened /\ Goto("main", "read")
    /\ UNCHANGED <<comVars, c2s, s2c, shellVars, comdVars, holds, late>>

\* read(shell.output) of a descriptor that is still open may wait; of one that
\* was closed it fails.
CallRead ==
    /\ At("main", "read")
    /\ Goto("main", IF outputOpen[shell] THEN "reading" ELSE "sclose")
    /\ holds' = [holds EXCEPT !["main"] = shell]
    /\ UNCHANGED <<comVars, c2s, s2c, shellVars, comdVars, late>>

\* It returns output, or 0 when no process holds the pipe's other end; a close by
\* the server's thread does not end it.
ReadOutput ==
    /\ At("main", "reading")
    /\ LET s == holds["main"]
       IN \/ /\ outputs[s] > 0 /\ Goto("main", "send")
             /\ outputs' = [outputs EXCEPT ![s] = @ - 1]
          \/ outputs[s] = 0 /\ ~Peopled(s) /\ Goto("main", "sclose") /\ UNCHANGED outputs
    /\ UNCHANGED <<comVars, c2s, s2c, opened, shell, bash, jobs, inputs, inputOpen, outputOpen, owner,
                   comdVars, holds, late>>

\* server.send(shell_client_fd): to whatever connection has the number now.
SendOutput ==
    /\ At("main", "send")
    /\ \/ /\ conn # 0 /\ exchange /\ Goto("main", "check")
          /\ s2c' = [s2c EXCEPT ![conn] = Append(@, holds["main"])]
       \/ (conn # 0 => ~Running(conn)) /\ Goto("main", "sclose") /\ UNCHANGED s2c
    /\ UNCHANGED <<comVars, c2s, shellVars, comdVars, holds, late>>

MainThread == SeeOpened \/ CallRead \/ ReadOutput \/ SendOutput \/ Sclose("main", "check")

---------------------------------------------------------------------------

ComStep == \E n \in Sessions : ComStart(n) \/ ComRead(n) \/ ComType(n) \/ ComEnd(n)

RemoteNext == ComStep \/ ServerThread \/ MainThread \/ \E s \in Shells : BashStep(s)

\* Every variable holds a value of its type.
RemoteTypeOK ==
    /\ com \in [Sessions -> {"none", "VERIFY_IDENTITY", "SELECT_ROUTINE", "EXCHANGE_PACKETS", "ended"}]
    /\ \A n \in Sessions : typed[n] \in 0 .. MaxCommands[n]
    /\ c2s \in [Sessions -> Seq({"IDENTITY", "SHELL", "SEND_FILE", "command"})]
    /\ s2c \in [Sessions -> Seq(0 .. MaxShells)]
    /\ conn \in {0, accepted} /\ accepted \in 0 .. MaxSessions
    /\ comd \in {"VERIFY_IDENTITY", "SELECT_ROUTINE", "EXCHANGE_PACKETS"}
    /\ exchange \in BOOLEAN /\ opened \in BOOLEAN /\ shell \in 0 .. MaxShells
    /\ bash \in [Shells -> {"none", "alive", "dead"}] /\ owner \in [Shells -> 0 .. MaxSessions]
    /\ jobs \in [Shells -> Nat] /\ inputs \in [Shells -> Nat] /\ outputs \in [Shells -> Nat]
    /\ inputOpen \in [Shells -> BOOLEAN] /\ outputOpen \in [Shells -> BOOLEAN]
    /\ holds \in [Threads -> 0 .. MaxShells] /\ late \subseteq 0 .. MaxShells

\* comd's state, its shell and the number of its connection are not per client, and
\* what keeps the sessions apart all the same is on_disconnect's sleep: a shell was
\* opened by a client that gave the identity and asked for SHELL, no thread closes a
\* shell it did not find open, and a shell's output goes to its own client alone and
\* never while the server's thread answers on the same connection, unless a command
\* of that shell was still running when the sleep after its session ended.
SessionsKeptApart ==
    /\ \A s \in Shells : owner[s] # 0 => identity[owner[s]] /\ routine[owner[s]] = "SHELL"
    /\ \A n \in Sessions : \A i \in DOMAIN s2c[n] :
         s2c[n][i] # 0 => owner[s2c[n][i]] = n \/ s2c[n][i] \in late
    /\ \A t \in Threads : pc[t] \in {"kill", "closeInput", "closeOutput", "clear"} => holds[t] = shell
    /\ conn # 0 /\ At("main", "send") => comd = "EXCHANGE_PACKETS" \/ holds["main"] \in late

\* A shell is killed and its pipes closed once its client has gone.
ShellReleased ==
    \A n \in Sessions : com[n] = "ended" ~>
        \A s \in Shells : owner[s] = n => bash[s] = "dead" /\ ~inputOpen[s] /\ ~outputOpen[s]
=============================================================================
