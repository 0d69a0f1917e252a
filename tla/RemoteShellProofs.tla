------------------------- MODULE RemoteShellProofs -------------------------
(***************************************************************************)
(* Machine-checked lemmas about comd, its Shell and the runs of com: the    *)
(* inductive invariant that keeps the sessions apart.  ProgramsProofs draws *)
(* the theorem from it.                                                     *)
(***************************************************************************)
EXTENDS RemoteShell, SequenceTheorems, TLAPS

Requests == {"IDENTITY", "SHELL", "SEND_FILE", "command"}
Closing == {"kill", "closeInput", "closeOutput", "clear"}

\* What follows sclose in each thread.
After(t) == IF t = "server" THEN "sleep" ELSE "check"

\* Every variable holds a value of its type, those that RemoteTypeOK leaves to the
\* others included.
RemoteTypes ==
    /\ RemoteTypeOK
    /\ identity \in [Sessions -> BOOLEAN] /\ routine \in [Sessions -> {"SHELL", "SEND_FILE"}]
    /\ typed \in [Sessions -> Nat]
    /\ pc \in [Threads -> {"poll", "write", "sleep", "check", "read", "reading", "send", "sclose"}
                          \cup Closing]
    /\ pc["server"] \in {"poll", "write", "sleep", "sclose"} \cup Closing
    /\ pc["main"] \in {"check", "read", "reading", "send", "sclose"} \cup Closing

\* The main thread is busy with a shell that it could not let go of in time.
Belated == pc["main"] \in {"reading", "send", "sclose"} /\ holds["main"] \in late

\* While a connection is open the server's thread closes nothing, and what the main
\* thread is busy with is the shell of that connection, or one it was late with:
\* on_disconnect closes the shell and gives the main thread time to let go of it
\* before the next connection is accepted.
PlacesInv ==
    /\ conn # 0 => pc["server"] \in {"poll", "write"}
    /\ pc["server"] = "write" => conn # 0 /\ comd = "EXCHANGE_PACKETS"
    /\ pc["server"] = "poll" /\ conn = 0 => ~opened /\ (pc["main"] = "check" \/ Belated)
    /\ pc["server"] = "sleep" => ~opened
    /\ opened => shell \in Shells
    /\ conn # 0 /\ opened => owner[shell] = conn /\ comd = "EXCHANGE_PACKETS"
    /\ conn # 0 /\ pc["main"] # "check" => opened \/ Belated
    /\ conn # 0 /\ pc["main"] \in {"reading", "send"} => holds["main"] = shell \/ holds["main"] \in late
    /\ \A s \in Shells : owner[s] # 0 => s <= shell

\* com asks for the routine it was started with, and comd has moved on only with a
\* client that gave the identity and then asked for SHELL.
ProtocolInv ==
    /\ \A n \in Sessions : \A i \in DOMAIN c2s[n] : c2s[n][i] = "SHELL" => routine[n] = "SHELL"
    /\ conn # 0 /\ comd # "VERIFY_IDENTITY" => identity[conn]
    /\ conn # 0 /\ comd = "EXCHANGE_PACKETS" => routine[conn] = "SHELL"

RemoteInv == RemoteTypes /\ PlacesInv /\ ProtocolInv /\ SessionsKeptApart

\* What was in a channel is followed by what is sent, and what is received leaves it.
LEMMA AppendElements ==
    ASSUME NEW T, NEW seq \in Seq(T), NEW elt \in T
    PROVE  /\ Append(seq, elt) \in Seq(T)
           /\ \A i \in DOMAIN Append(seq, elt) :
                Append(seq, elt)[i] = elt \/ (i \in DOMAIN seq /\ Append(seq, elt)[i] = seq[i])
<1>1. Append(seq, elt) \in Seq(T)
  BY AppendProperties
<1>2. DOMAIN Append(seq, elt) = 1 .. Len(seq) + 1 /\ DOMAIN seq = 1 .. Len(seq) /\ Len(seq) \in Nat
  BY AppendProperties, LenProperties
<1>3. \A i \in 1 .. Len(seq) : Append(seq, elt)[i] = seq[i]
  BY AppendProperties
<1>4. Append(seq, elt)[Len(seq) + 1] = elt
  BY AppendProperties
<1> QED
  BY <1>1, <1>2, <1>3, <1>4

LEMMA TailElements ==
    ASSUME NEW T, NEW seq \in Seq(T), seq # <<>>
    PROVE  /\ Tail(seq) \in Seq(T) /\ Head(seq) \in T
           /\ 1 \in DOMAIN seq /\ Head(seq) = seq[1]
           /\ \A i \in DOMAIN Tail(seq) : i + 1 \in DOMAIN seq /\ Tail(seq)[i] = seq[i + 1]
<1>1. Tail(seq) \in Seq(T) /\ Head(seq) \in T /\ Len(Tail(seq)) = Len(seq) - 1
  BY HeadTailProperties
<1>2. \A i \in 1 .. Len(Tail(seq)) : Tail(seq)[i] = seq[i + 1]
  BY HeadTailProperties
<1>3. /\ DOMAIN Tail(seq) = 1 .. Len(Tail(seq)) /\ DOMAIN seq = 1 .. Len(seq)
      /\ Len(seq) \in Nat /\ Len(seq) # 0
  BY <1>1, LenProperties, EmptySeq
<1> QED
  BY <1>1, <1>2, <1>3

\* What com sends is its own routine, and what comd sends of a shell is for the
\* session that opened it, or late.
AsksItsRoutine(q) ==
    /\ q \in [Sessions -> Seq(Requests)]
    /\ \A n \in Sessions : \A i \in DOMAIN q[n] : q[n][i] = "SHELL" => routine[n] = "SHELL"
BringsItsOutput(q) ==
    /\ q \in [Sessions -> Seq(0 .. MaxShells)]
    /\ \A n \in Sessions : \A i \in DOMAIN q[n] :
         q[n][i] # 0 => owner[q[n][i]] = n \/ q[n][i] \in late

LEMMA RequestSent ==
    ASSUME NEW q, AsksItsRoutine(q), NEW n \in Sessions, NEW m \in Requests,
           m = "SHELL" => routine[n] = "SHELL"
    PROVE  AsksItsRoutine([q EXCEPT ![n] = Append(@, m)])
<1> DEFINE new == [q EXCEPT ![n] = Append(@, m)]
<1>1. q[n] \in Seq(Requests)
  BY DEF AsksItsRoutine
<1>2. /\ Append(q[n], m) \in Seq(Requests)
      /\ \A i \in DOMAIN Append(q[n], m) :
           Append(q[n], m)[i] = m \/ (i \in DOMAIN q[n] /\ Append(q[n], m)[i] = q[n][i])
  BY <1>1, AppendElements
<1>3. new \in [Sessions -> Seq(Requests)]
  BY <1>2 DEF AsksItsRoutine
<1>4. \A k \in Sessions : new[k] = IF k = n THEN Append(q[n], m) ELSE q[k]
  BY DEF AsksItsRoutine
<1> HIDE DEF new
<1> QED
  BY <1>2, <1>3, <1>4 DEF AsksItsRoutine

LEMMA RequestTaken ==
    ASSUME NEW q, AsksItsRoutine(q), NEW n \in Sessions, q[n] # <<>>
    PROVE  /\ AsksItsRoutine([q EXCEPT ![n] = Tail(@)])
           /\ Head(q[n]) = "SHELL" => routine[n] = "SHELL"
<1> DEFINE new == [q EXCEPT ![n] = Tail(@)]
<1>1. q[n] \in Seq(Requests)
  BY DEF AsksItsRoutine
<1>2. /\ Tail(q[n]) \in Seq(Requests) /\ 1 \in DOMAIN q[n] /\ Head(q[n]) = q[n][1]
      /\ \A i \in DOMAIN Tail(q[n]) : i + 1 \in DOMAIN q[n] /\ Tail(q[n])[i] = q[n][i + 1]
  BY <1>1, TailElements
<1>3. new \in [Sessions -> Seq(Requests)]
  BY <1>2 DEF AsksItsRoutine
<1>4. \A k \in Sessions : new[k] = IF k = n THEN Tail(q[n]) ELSE q[k]
  BY DEF AsksItsRoutine
<1> HIDE DEF new
<1> QED
  BY <1>2, <1>3, <1>4 DEF AsksItsRoutine

LEMMA OutputSent ==
    ASSUME NEW q, BringsItsOutput(q), NEW n \in Sessions, NEW x \in 0 .. MaxShells,
           x # 0 => owner[x] = n \/ x \in late
    PROVE  BringsItsOutput([q EXCEPT ![n] = Append(@, x)])
<1> DEFINE new == [q EXCEPT ![n] = Append(@, x)]
<1>1. q[n] \in Seq(0 .. MaxShells)
  BY DEF BringsItsOutput
<1>2. /\ Append(q[n], x) \in Seq(0 .. MaxShells)
      /\ \A i \in DOMAIN Append(q[n], x) :
           Append(q[n], x)[i] = x \/ (i \in DOMAIN q[n] /\ Append(q[n], x)[i] = q[n][i])
  BY <1>1, AppendElements
<1>3. new \in [Sessions -> Seq(0 .. MaxShells)]
  BY <1>2 DEF BringsItsOutput
<1>4. \A k \in Sessions : new[k] = IF k = n THEN Append(q[n], x) ELSE q[k]
  BY DEF BringsItsOutput
<1> HIDE DEF new
<1> QED
  BY <1>2, <1>3, <1>4 DEF BringsItsOutput

LEMMA OutputTaken ==
    ASSUME NEW q, BringsItsOutput(q), NEW n \in Sessions, q[n] # <<>>
    PROVE  BringsItsOutput([q EXCEPT ![n] = Tail(@)])
<1> DEFINE new == [q EXCEPT ![n] = Tail(@)]
<1>1. q[n] \in Seq(0 .. MaxShells)
  BY DEF BringsItsOutput
<1>2. /\ Tail(q[n]) \in Seq(0 .. MaxShells)
      /\ \A i \in DOMAIN Tail(q[n]) : i + 1 \in DOMAIN q[n] /\ Tail(q[n])[i] = q[n][i + 1]
  BY <1>1, TailElements
<1>3. new \in [Sessions -> Seq(0 .. MaxShells)]
  BY <1>2 DEF BringsItsOutput
<1>4. \A k \in Sessions : new[k] = IF k = n THEN Tail(q[n]) ELSE q[k]
  BY DEF BringsItsOutput
<1> HIDE DEF new
<1> QED
  BY <1>2, <1>3, <1>4 DEF BringsItsOutput

LEMMA Channels == RemoteInv => AsksItsRoutine(c2s) /\ BringsItsOutput(s2c)
BY DEF RemoteInv, RemoteTypes, RemoteTypeOK, ProtocolInv, SessionsKeptApart, AsksItsRoutine,
       BringsItsOutput, Requests

\* A connection is one of a session.
LEMMA OpenSession == RemoteInv /\ conn # 0 => conn \in Sessions
BY RemoteAssumption DEF RemoteInv, RemoteTypes, RemoteTypeOK, Sessions

\* Nobody has connected.
LEMMA RemoteInitial == RemoteInit => RemoteInv
<1> SUFFICES ASSUME RemoteInit PROVE RemoteInv
  OBVIOUS
<1>1. \A T : <<>> \in Seq(T)
  BY EmptySeq
<1>2. RemoteTypes
  <2>1. /\ c2s \in [Sessions -> Seq({"IDENTITY", "SHELL", "SEND_FILE", "command"})]
        /\ s2c \in [Sessions -> Seq(0 .. MaxShells)]
    BY <1>1 DEF RemoteInit
  <2>2. \A n \in Sessions : 0 \in 0 .. MaxCommands[n]
    BY RemoteAssumption
  <2>3. 0 \in 0 .. MaxSessions /\ 0 \in 0 .. MaxShells
    BY RemoteAssumption
  <2>4. /\ typed \in [Sessions -> Nat] /\ \A n \in Sessions : typed[n] \in 0 .. MaxCommands[n]
        /\ com \in [Sessions -> {"none", "VERIFY_IDENTITY", "SELECT_ROUTINE", "EXCHANGE_PACKETS", "ended"}]
    BY <2>2 DEF RemoteInit
  <2>5. /\ inputs \in [Shells -> Nat] /\ outputs \in [Shells -> Nat] /\ jobs \in [Shells -> Nat]
        /\ inputOpen \in [Shells -> BOOLEAN] /\ outputOpen \in [Shells -> BOOLEAN]
        /\ bash \in [Shells -> {"none", "alive", "dead"}] /\ owner \in [Shells -> 0 .. MaxSessions]
        /\ holds \in [Threads -> 0 .. MaxShells]
    BY <2>3 DEF RemoteInit
  <2>6. /\ pc \in [Threads -> {"poll", "write", "sleep", "check", "read", "reading", "send", "sclose"}
                              \cup Closing]
        /\ pc["server"] = "poll" /\ pc["main"] = "check"
    BY DEF RemoteInit, Threads
  <2>7. RemoteTypeOK
    BY <2>1, <2>3, <2>4, <2>5 DEF RemoteInit, RemoteTypeOK
  <2>8. routine \in [Sessions -> {"SHELL", "SEND_FILE"}] /\ identity \in [Sessions -> BOOLEAN]
    BY DEF RemoteInit
  <2> QED
    BY <2>4, <2>6, <2>7, <2>8 DEF RemoteTypes
<1>3. PlacesInv
  BY DEF RemoteInit, PlacesInv
<1>4. ProtocolInv /\ SessionsKeptApart
  BY EmptySeq DEF RemoteInit, ProtocolInv, SessionsKeptApart, At, Threads
<1> QED
  BY <1>2, <1>3, <1>4 DEF RemoteInv

\* A step of com, of one of comd's threads or of bash leaves the invariant.
LEMMA RemoteStep == RemoteInv /\ RemoteNext => RemoteInv'
<1> SUFFICES ASSUME RemoteInv, RemoteNext PROVE RemoteInv'
  OBVIOUS
<1> USE RemoteAssumption DEF comVars, shellVars, comdVars, threadVars, At, Goto, Threads
<1>1. ASSUME NEW n \in Sessions, ComStart(n) PROVE RemoteInv'
  <2>1. RemoteTypes'
    BY SMTT(30), <1>1 DEF RemoteInv, RemoteTypes, RemoteTypeOK, Closing, ComStart, Sends, ComGoto
  <2>2. PlacesInv'
    BY <1>1 DEF RemoteInv, RemoteTypes, RemoteTypeOK, PlacesInv, Belated, SessionsKeptApart, Closing, ComStart, Sends, ComGoto
  <2>3. ProtocolInv'
    BY <1>1 DEF RemoteInv, RemoteTypes, RemoteTypeOK, ProtocolInv, ComStart, Sends, ComGoto
  <2>4. SessionsKeptApart'
    BY <1>1 DEF RemoteInv, RemoteTypes, RemoteTypeOK, PlacesInv, Belated, ProtocolInv, SessionsKeptApart, ComStart, Sends, ComGoto
  <2> QED
    BY <2>1, <2>2, <2>3, <2>4 DEF RemoteInv
<1>2. ASSUME NEW n \in Sessions, ComRead(n) PROVE RemoteInv'
  <2>5. AsksItsRoutine(c2s') /\ BringsItsOutput(s2c')
    <3>1. routine[n] \in Requests
      BY DEF RemoteInv, RemoteTypes, Requests
    <3>2. s2c' = [s2c EXCEPT ![n] = Tail(@)] /\ s2c[n] # <<>>
      BY <1>2 DEF ComRead
    <3>3. c2s' = c2s \/ c2s' = [c2s EXCEPT ![n] = Append(@, routine[n])]
      BY <1>2 DEF ComRead, Sends
    <3>4. AsksItsRoutine([c2s EXCEPT ![n] = Append(@, routine[n])])
      BY <3>1, Channels, RequestSent
    <3>5. BringsItsOutput([s2c EXCEPT ![n] = Tail(@)])
      BY <3>2, Channels, OutputTaken
    <3> QED
      BY <3>2, <3>3, <3>4, <3>5, Channels
  <2>1. RemoteTypes'
    <3>1. com' \in [Sessions -> {"none", "VERIFY_IDENTITY", "SELECT_ROUTINE", "EXCHANGE_PACKETS", "ended"}]
      BY <1>2 DEF RemoteInv, RemoteTypes, RemoteTypeOK, ComRead, ComGoto
    <3>2. UNCHANGED <<identity, routine, typed, shellVars, comdVars, threadVars>>
      BY <1>2 DEF ComRead
    <3>3. /\ c2s' \in [Sessions -> Seq(Requests)] /\ s2c' \in [Sessions -> Seq(0 .. MaxShells)]
      BY <2>5 DEF AsksItsRoutine, BringsItsOutput
    <3>4. RemoteTypeOK'
      BY <3>1, <3>2, <3>3 DEF RemoteInv, RemoteTypes, RemoteTypeOK, Requests
    <3> QED
      BY <3>2, <3>4 DEF RemoteInv, RemoteTypes
  <2>2. PlacesInv'
    BY <1>2 DEF RemoteInv, RemoteTypes, RemoteTypeOK, PlacesInv, Belated, SessionsKeptApart, Closing, ComRead, Sends, ComGoto, Running
  <2>3. ProtocolInv'
    BY <1>2, <2>5 DEF RemoteInv, ProtocolInv, AsksItsRoutine, ComRead
  <2>4. SessionsKeptApart'
    BY <1>2, <2>5 DEF RemoteInv, SessionsKeptApart, BringsItsOutput, ComRead
  <2> QED
    BY <2>1, <2>2, <2>3, <2>4 DEF RemoteInv
<1>3. ASSUME NEW n \in Sessions, ComType(n) PROVE RemoteInv'
  <2>1. RemoteTypes'
    BY SMTT(30), <1>3 DEF RemoteInv, RemoteTypes, RemoteTypeOK, Closing, ComType, Sends
  <2>2. PlacesInv'
    BY <1>3 DEF RemoteInv, RemoteTypes, RemoteTypeOK, PlacesInv, Belated, SessionsKeptApart, Closing, ComType, Sends
  <2>3. ProtocolInv'
    BY <1>3 DEF RemoteInv, RemoteTypes, RemoteTypeOK, ProtocolInv, ComType, Sends
  <2>4. SessionsKeptApart'
    BY <1>3 DEF RemoteInv, RemoteTypes, RemoteTypeOK, PlacesInv, Belated, ProtocolInv, SessionsKeptApart, ComType, Sends
  <2> QED
    BY <2>1, <2>2, <2>3, <2>4 DEF RemoteInv
<1>4. ASSUME NEW n \in Sessions, ComEnd(n) PROVE RemoteInv'
  <2>1. RemoteTypes'
    BY SMTT(30), <1>4 DEF RemoteInv, RemoteTypes, RemoteTypeOK, Closing, ComEnd, ComGoto, Running
  <2>2. PlacesInv'
    BY <1>4 DEF RemoteInv, RemoteTypes, RemoteTypeOK, PlacesInv, Belated, SessionsKeptApart, Closing, ComEnd, ComGoto, Running
  <2>3. ProtocolInv'
    BY <1>4 DEF RemoteInv, RemoteTypes, RemoteTypeOK, ProtocolInv, ComEnd, ComGoto, Running
  <2>4. SessionsKeptApart'
    BY <1>4 DEF RemoteInv, RemoteTypes, RemoteTypeOK, PlacesInv, Belated, ProtocolInv, SessionsKeptApart, ComEnd, ComGoto, Running
  <2> QED
    BY <2>1, <2>2, <2>3, <2>4 DEF RemoteInv
<1>5. CASE Accept
  <2>1. RemoteTypes'
    BY <1>5 DEF RemoteInv, RemoteTypes, RemoteTypeOK, Closing, Accept
  <2>2. PlacesInv'
    BY <1>5 DEF RemoteInv, RemoteTypes, RemoteTypeOK, PlacesInv, Belated, SessionsKeptApart, Closing, Accept
  <2>3. ProtocolInv'
    BY <1>5 DEF RemoteInv, RemoteTypes, RemoteTypeOK, ProtocolInv, Accept
  <2>4. SessionsKeptApart'
    BY <1>5 DEF RemoteInv, RemoteTypes, RemoteTypeOK, PlacesInv, Belated, ProtocolInv, SessionsKeptApart, Accept
  <2> QED
    BY <2>1, <2>2, <2>3, <2>4 DEF RemoteInv
<1>6. CASE VerifyIdentity
  <2>5. AsksItsRoutine(c2s') /\ BringsItsOutput(s2c') /\ (Head(c2s[conn]) = "SHELL" => routine[conn] = "SHELL")
    <3>1. conn \in Sessions
      BY <1>6, OpenSession DEF VerifyIdentity, Receives
    <3>2. c2s' = [c2s EXCEPT ![conn] = Tail(@)] /\ c2s[conn] # <<>>
      BY <1>6 DEF VerifyIdentity, Receives
    <3>3. s2c' = s2c \/ s2c' = [s2c EXCEPT ![conn] = Append(@, 0)]
      BY <1>6 DEF VerifyIdentity, Answered
    <3>4. 0 \in 0 .. MaxShells
      BY RemoteAssumption
    <3>5. /\ AsksItsRoutine([c2s EXCEPT ![conn] = Tail(@)])
          /\ Head(c2s[conn]) = "SHELL" => routine[conn] = "SHELL"
      BY <3>1, <3>2, Channels, RequestTaken
    <3>6. BringsItsOutput([s2c EXCEPT ![conn] = Append(@, 0)])
      BY <3>1, <3>4, Channels, OutputSent
    <3> QED
      BY <3>2, <3>3, <3>5, <3>6, Channels
  <2>1. RemoteTypes'
    <3>1. UNCHANGED <<comVars, shellVars, accepted, holds, late>>
      BY <1>6 DEF VerifyIdentity, Receives, ReadReturns
    <3>2. conn' \in {0, accepted} /\ pc' \in {[pc EXCEPT !["server"] = x] : x \in {"poll", "sclose"}}
      BY <1>6 DEF RemoteInv, RemoteTypes, RemoteTypeOK, VerifyIdentity, Receives, ReadReturns
    <3>3. comd' \in {"VERIFY_IDENTITY", "SELECT_ROUTINE", "EXCHANGE_PACKETS"} /\ exchange' \in BOOLEAN
      BY <1>6 DEF RemoteInv, RemoteTypes, RemoteTypeOK, VerifyIdentity, Receives
    <3>4. c2s' \in [Sessions -> Seq(Requests)] /\ s2c' \in [Sessions -> Seq(0 .. MaxShells)]
      BY <2>5 DEF AsksItsRoutine, BringsItsOutput
    <3>5. RemoteTypeOK'
      BY <3>1, <3>2, <3>3, <3>4 DEF RemoteInv, RemoteTypes, RemoteTypeOK, Requests
    <3> QED
      BY <3>1, <3>2, <3>5 DEF RemoteInv, RemoteTypes
  <2>2. PlacesInv'
    BY <1>6 DEF RemoteInv, RemoteTypes, RemoteTypeOK, PlacesInv, Belated, SessionsKeptApart, Closing, VerifyIdentity, Receives, Answered, ReadReturns
  <2>3. ProtocolInv'
    BY <1>6, <2>5 DEF RemoteInv, RemoteTypes, RemoteTypeOK, ProtocolInv, AsksItsRoutine, VerifyIdentity, Receives, ReadReturns
  <2>4. SessionsKeptApart'
    BY <1>6, <2>5 DEF RemoteInv, RemoteTypes, RemoteTypeOK, PlacesInv, SessionsKeptApart, BringsItsOutput, VerifyIdentity, Receives, ReadReturns
  <2> QED
    BY <2>1, <2>2, <2>3, <2>4 DEF RemoteInv
<1>7. CASE SelectRoutine
  <2>5. AsksItsRoutine(c2s') /\ BringsItsOutput(s2c') /\ (Head(c2s[conn]) = "SHELL" => routine[conn] = "SHELL")
    <3>1. conn \in Sessions
      BY <1>7, OpenSession DEF SelectRoutine, Receives
    <3>2. c2s' = [c2s EXCEPT ![conn] = Tail(@)] /\ c2s[conn] # <<>>
      BY <1>7 DEF SelectRoutine, Receives
    <3>3. s2c' = s2c \/ s2c' = [s2c EXCEPT ![conn] = Append(@, 0)]
      BY <1>7 DEF SelectRoutine, Answered
    <3>4. 0 \in 0 .. MaxShells
      BY RemoteAssumption
    <3>5. /\ AsksItsRoutine([c2s EXCEPT ![conn] = Tail(@)])
          /\ Head(c2s[conn]) = "SHELL" => routine[conn] = "SHELL"
      BY <3>1, <3>2, Channels, RequestTaken
    <3>6. BringsItsOutput([s2c EXCEPT ![conn] = Append(@, 0)])
      BY <3>1, <3>4, Channels, OutputSent
    <3> QED
      BY <3>2, <3>3, <3>5, <3>6, Channels
  <2>1. RemoteTypes'
    <3>1. UNCHANGED <<comVars, shellVars, accepted, holds, late>>
      BY <1>7 DEF SelectRoutine, Receives, ReadReturns
    <3>2. conn' \in {0, accepted} /\ pc' \in {[pc EXCEPT !["server"] = x] : x \in {"poll", "sclose"}}
      BY <1>7 DEF RemoteInv, RemoteTypes, RemoteTypeOK, SelectRoutine, Receives, ReadReturns
    <3>3. comd' \in {"VERIFY_IDENTITY", "SELECT_ROUTINE", "EXCHANGE_PACKETS"} /\ exchange' \in BOOLEAN
      BY <1>7 DEF RemoteInv, RemoteTypes, RemoteTypeOK, SelectRoutine, Receives
    <3>4. c2s' \in [Sessions -> Seq(Requests)] /\ s2c' \in [Sessions -> Seq(0 .. MaxShells)]
      BY <2>5 DEF AsksItsRoutine, BringsItsOutput
    <3>5. RemoteTypeOK'
      BY <3>1, <3>2, <3>3, <3>4 DEF RemoteInv, RemoteTypes, RemoteTypeOK, Requests
    <3> QED
      BY <3>1, <3>2, <3>5 DEF RemoteInv, RemoteTypes
  <2>2. PlacesInv'
    BY <1>7 DEF RemoteInv, RemoteTypes, RemoteTypeOK, PlacesInv, Belated, SessionsKeptApart, Closing, SelectRoutine, Receives, Answered, ReadReturns
  <2>3. ProtocolInv'
    BY <1>7, <2>5 DEF RemoteInv, RemoteTypes, RemoteTypeOK, ProtocolInv, AsksItsRoutine, SelectRoutine, Receives, ReadReturns
  <2>4. SessionsKeptApart'
    BY <1>7, <2>5 DEF RemoteInv, RemoteTypes, RemoteTypeOK, PlacesInv, SessionsKeptApart, BringsItsOutput, SelectRoutine, Receives, ReadReturns
  <2> QED
    BY <2>1, <2>2, <2>3, <2>4 DEF RemoteInv
<1>8. CASE ExchangePackets
  <2>1. /\ conn \in Sessions /\ conn # 0 /\ pc["server"] = "poll" /\ comd = "EXCHANGE_PACKETS"
        /\ conn = accepted
        /\ UNCHANGED <<comVars, s2c, accepted, comd, exchange, holds, late>>
    BY <1>8, OpenSession DEF RemoteInv, RemoteTypes, RemoteTypeOK, ExchangePackets, Receives
  <2>2. AsksItsRoutine(c2s')
    <3>1. c2s' = [c2s EXCEPT ![conn] = Tail(@)] /\ c2s[conn] # <<>>
      BY <1>8 DEF ExchangePackets, Receives
    <3> QED
      BY <2>1, <3>1, Channels, RequestTaken
  <2>3. CASE \E s \in Shells : Sopen(s) /\ UNCHANGED conn /\ Goto("server", "write")
    <3>1. PICK s \in Shells : Sopen(s) /\ UNCHANGED conn /\ Goto("server", "write")
      BY <2>3
    <3>2. /\ s = shell + 1 /\ ~opened /\ shell' = s /\ opened' /\ opened' \in BOOLEAN
          /\ bash' = [bash EXCEPT ![s] = "alive"] /\ owner' = [owner EXCEPT ![s] = conn]
          /\ inputOpen' = [inputOpen EXCEPT ![s] = TRUE] /\ outputOpen' = [outputOpen EXCEPT ![s] = TRUE]
          /\ UNCHANGED <<jobs, inputs, outputs, conn>> /\ pc' = [pc EXCEPT !["server"] = "write"]
      BY <3>1 DEF Sopen
    <3>3. /\ owner[s] = 0 /\ (pc["main"] = "check" \/ Belated)
          /\ shell \in Nat /\ s \in 0 .. MaxShells
      BY <2>1, <3>2 DEF RemoteInv, RemoteTypes, RemoteTypeOK, PlacesInv, Shells
    <3>4. /\ inputOpen' \in [Shells -> BOOLEAN] /\ outputOpen' \in [Shells -> BOOLEAN]
          /\ bash' \in [Shells -> {"none", "alive", "dead"}]
      BY <3>2 DEF RemoteInv, RemoteTypes, RemoteTypeOK
    <3>5. owner' \in [Shells -> 0 .. MaxSessions]
      BY <2>1, <3>2 DEF RemoteInv, RemoteTypes, RemoteTypeOK
    <3>6. \A u \in Shells : owner'[u] = IF u = s THEN conn ELSE owner[u]
      BY <3>2 DEF RemoteInv, RemoteTypes, RemoteTypeOK
    <3>7. RemoteTypeOK'
      BY <2>1, <2>2, <3>2, <3>3, <3>4, <3>5
         DEF RemoteInv, RemoteTypes, RemoteTypeOK, AsksItsRoutine, Requests
    <3>8. RemoteTypes'
      BY <2>1, <3>2, <3>7 DEF RemoteInv, RemoteTypes
    <3>9. pc'["server"] = "write" /\ pc'["main"] = pc["main"] /\ (Belated => Belated')
      BY <2>1, <3>2 DEF RemoteInv, RemoteTypes, Belated
    <3>10. PlacesInv'
      BY <2>1, <3>2, <3>3, <3>6, <3>9 DEF RemoteInv, PlacesInv, Belated, Shells
    <3>11. ProtocolInv'
      BY <2>1, <2>2, <3>2 DEF RemoteInv, ProtocolInv, AsksItsRoutine
    <3>12. \A n \in Sessions : \A i \in DOMAIN s2c[n] : s2c[n][i] # 0 => owner'[s2c[n][i]] = n \/ s2c[n][i] \in late'
      <4>1. SUFFICES ASSUME NEW n \in Sessions, NEW i \in DOMAIN s2c[n], s2c[n][i] # 0
                     PROVE owner'[s2c[n][i]] = n \/ s2c[n][i] \in late'
        OBVIOUS
      <4>2. s2c[n] \in Seq(0 .. MaxShells) /\ (owner[s2c[n][i]] = n \/ s2c[n][i] \in late)
        BY <4>1 DEF RemoteInv, RemoteTypes, RemoteTypeOK, SessionsKeptApart
      <4>3. s2c[n][i] \in Shells
        BY <4>1, <4>2, ElementOfSeq, LenProperties DEF Shells
      <4>4. late' = late /\ 0 \notin Sessions
        BY <2>1 DEF Sessions
      <4>5. CASE s2c[n][i] \in late
        BY <4>4, <4>5
      <4>6. CASE owner[s2c[n][i]] = n
        <5>1. s2c[n][i] # s
          BY <3>3, <4>4, <4>6
        <5> QED
          BY <3>6, <4>3, <4>6, <5>1
      <4> QED
        BY <4>2, <4>5, <4>6
    <3>13. SessionsKeptApart'
      BY <2>1, <3>2, <3>3, <3>6, <3>9, <3>12 DEF RemoteInv, ProtocolInv, SessionsKeptApart, Belated
    <3> QED
      BY <3>8, <3>10, <3>11, <3>13 DEF RemoteInv
  <2>4. CASE \/ opened /\ UNCHANGED <<shellVars, conn>> /\ Goto("server", "write")
             \/ ~opened /\ conn' = 0 /\ UNCHANGED shellVars /\ Goto("server", "sclose")
    <3>1. UNCHANGED shellVars /\ conn' \in {0, accepted}
      BY <2>1, <2>4
    <3>2. pc' \in {[pc EXCEPT !["server"] = x] : x \in {"write", "sclose"}}
      BY <2>4
    <3>3. RemoteTypeOK'
      BY <2>1, <2>2, <3>1 DEF RemoteInv, RemoteTypes, RemoteTypeOK, AsksItsRoutine, Requests
    <3>4. RemoteTypes'
      BY <2>1, <3>2, <3>3 DEF RemoteInv, RemoteTypes
    <3>5. PlacesInv'
      BY <2>1, <2>4, <3>1, <3>4 DEF RemoteInv, RemoteTypes, PlacesInv, Belated
    <3>6. ProtocolInv'
      BY <2>1, <2>2, <2>4 DEF RemoteInv, ProtocolInv, AsksItsRoutine
    <3>7. SessionsKeptApart'
      BY <2>1, <2>4, <3>1, <3>2 DEF RemoteInv, RemoteTypes, SessionsKeptApart
    <3> QED
      BY <3>4, <3>5, <3>6, <3>7 DEF RemoteInv
  <2> QED
    BY <1>8, <2>3, <2>4 DEF ExchangePackets
<1>9. CASE WriteInput
  <2>1. RemoteTypes'
    <3>1. UNCHANGED <<comVars, c2s, s2c, opened, shell, bash, jobs, outputs, inputOpen, outputOpen, owner,
                      accepted, holds, late, comd, exchange>>
      BY <1>9 DEF WriteInput, ReadReturns
    <3>2. conn' \in {0, accepted} /\ pc' \in {[pc EXCEPT !["server"] = x] : x \in {"poll", "sclose"}}
      BY <1>9 DEF RemoteInv, RemoteTypes, RemoteTypeOK, WriteInput, ReadReturns
    <3>3. inputs' \in [Shells -> Nat]
      <4>1. inputs' = inputs \/ inputs' = [inputs EXCEPT ![shell] = @ + 1]
        BY <1>9 DEF WriteInput
      <4>2. inputs \in [Shells -> Nat] /\ \A s \in Shells : inputs[s] + 1 \in Nat
        BY DEF RemoteInv, RemoteTypes, RemoteTypeOK
      <4> QED
        BY <4>1, <4>2
    <3>4. RemoteTypeOK'
      BY <3>1, <3>2, <3>3 DEF RemoteInv, RemoteTypes, RemoteTypeOK
    <3> QED
      BY <3>1, <3>2, <3>4 DEF RemoteInv, RemoteTypes
  <2>2. PlacesInv'
    BY <1>9 DEF RemoteInv, RemoteTypes, RemoteTypeOK, PlacesInv, Belated, SessionsKeptApart, Closing, WriteInput, ReadReturns
  <2>3. ProtocolInv'
    BY <1>9 DEF RemoteInv, RemoteTypes, RemoteTypeOK, ProtocolInv, WriteInput, ReadReturns
  <2>4. SessionsKeptApart'
    BY <1>9 DEF RemoteInv, RemoteTypes, RemoteTypeOK, PlacesInv, Belated, ProtocolInv, SessionsKeptApart, WriteInput, ReadReturns
  <2> QED
    BY <2>1, <2>2, <2>3, <2>4 DEF RemoteInv
<1>10. CASE Dropped
  <2>1. RemoteTypes'
    BY <1>10 DEF RemoteInv, RemoteTypes, RemoteTypeOK, Closing, Dropped, ReadReturns
  <2>2. PlacesInv'
    BY <1>10 DEF RemoteInv, RemoteTypes, RemoteTypeOK, PlacesInv, Belated, SessionsKeptApart, Closing, Dropped, ReadReturns
  <2>3. ProtocolInv'
    BY <1>10 DEF RemoteInv, RemoteTypes, RemoteTypeOK, ProtocolInv, Dropped, ReadReturns
  <2>4. SessionsKeptApart'
    BY <1>10 DEF RemoteInv, RemoteTypes, RemoteTypeOK, PlacesInv, Belated, ProtocolInv, SessionsKeptApart, Dropped, ReadReturns
  <2> QED
    BY <2>1, <2>2, <2>3, <2>4 DEF RemoteInv
<1>11. CASE Awake
  <2>1. RemoteTypes'
    BY <1>11 DEF RemoteInv, RemoteTypes, RemoteTypeOK, Closing, Awake, Waits, Forgets
  <2>2. PlacesInv'
    BY <1>11 DEF RemoteInv, RemoteTypes, RemoteTypeOK, PlacesInv, Belated, SessionsKeptApart, Closing, Awake, Waits, Forgets
  <2>3. ProtocolInv'
    BY <1>11 DEF RemoteInv, RemoteTypes, RemoteTypeOK, ProtocolInv, Awake, Waits, Forgets
  <2>4. SessionsKeptApart'
    BY <1>11 DEF RemoteInv, RemoteTypes, RemoteTypeOK, PlacesInv, Belated, ProtocolInv, SessionsKeptApart, Awake, Waits, Forgets
  <2> QED
    BY <2>1, <2>2, <2>3, <2>4 DEF RemoteInv
<1>12. ASSUME NEW t \in Threads, NEW next, next = After(t), ScloseTest(t, next) PROVE RemoteInv'
  <2>1. RemoteTypes'
    BY <1>12 DEF RemoteInv, RemoteTypes, RemoteTypeOK, Closing, After, ScloseTest
  <2>2. PlacesInv'
    BY <1>12 DEF RemoteInv, RemoteTypes, RemoteTypeOK, PlacesInv, Belated, SessionsKeptApart, Closing, After, ScloseTest
  <2>3. ProtocolInv'
    BY <1>12 DEF RemoteInv, RemoteTypes, RemoteTypeOK, ProtocolInv, ScloseTest
  <2>4. SessionsKeptApart'
    BY <1>12 DEF RemoteInv, RemoteTypes, RemoteTypeOK, PlacesInv, Belated, ProtocolInv, SessionsKeptApart, After, ScloseTest
  <2> QED
    BY <2>1, <2>2, <2>3, <2>4 DEF RemoteInv
<1>13. ASSUME NEW t \in Threads, ScloseKill(t) PROVE RemoteInv'
  <2>1. RemoteTypes'
    BY <1>13 DEF RemoteInv, RemoteTypes, RemoteTypeOK, Closing, ScloseKill
  <2>2. PlacesInv'
    BY <1>13 DEF RemoteInv, RemoteTypes, RemoteTypeOK, PlacesInv, Belated, SessionsKeptApart, Closing, ScloseKill
  <2>3. ProtocolInv'
    BY <1>13 DEF RemoteInv, RemoteTypes, RemoteTypeOK, ProtocolInv, ScloseKill
  <2>4. SessionsKeptApart'
    BY <1>13 DEF RemoteInv, RemoteTypes, RemoteTypeOK, PlacesInv, Belated, ProtocolInv, SessionsKeptApart, ScloseKill
  <2> QED
    BY <2>1, <2>2, <2>3, <2>4 DEF RemoteInv
<1>14. ASSUME NEW t \in Threads, ScloseInput(t) PROVE RemoteInv'
  <2>1. RemoteTypes'
    BY <1>14 DEF RemoteInv, RemoteTypes, RemoteTypeOK, Closing, ScloseInput
  <2>2. PlacesInv'
    BY <1>14 DEF RemoteInv, RemoteTypes, RemoteTypeOK, PlacesInv, Belated, SessionsKeptApart, Closing, ScloseInput
  <2>3. ProtocolInv'
    BY <1>14 DEF RemoteInv, RemoteTypes, RemoteTypeOK, ProtocolInv, ScloseInput
  <2>4. SessionsKeptApart'
    BY <1>14 DEF RemoteInv, RemoteTypes, RemoteTypeOK, PlacesInv, Belated, ProtocolInv, SessionsKeptApart, ScloseInput
  <2> QED
    BY <2>1, <2>2, <2>3, <2>4 DEF RemoteInv
<1>15. ASSUME NEW t \in Threads, ScloseOutput(t) PROVE RemoteInv'
  <2>1. RemoteTypes'
    BY <1>15 DEF RemoteInv, RemoteTypes, RemoteTypeOK, Closing, ScloseOutput
  <2>2. PlacesInv'
    BY <1>15 DEF RemoteInv, RemoteTypes, RemoteTypeOK, PlacesInv, Belated, SessionsKeptApart, Closing, ScloseOutput
  <2>3. ProtocolInv'
    BY <1>15 DEF RemoteInv, RemoteTypes, RemoteTypeOK, ProtocolInv, ScloseOutput
  <2>4. SessionsKeptApart'
    BY <1>15 DEF RemoteInv, RemoteTypes, RemoteTypeOK, PlacesInv, Belated, ProtocolInv, SessionsKeptApart, ScloseOutput
  <2> QED
    BY <2>1, <2>2, <2>3, <2>4 DEF RemoteInv
<1>16. ASSUME NEW t \in Threads, NEW next, next = After(t), ScloseClear(t, next) PROVE RemoteInv'
  <2>1. RemoteTypes'
    BY <1>16 DEF RemoteInv, RemoteTypes, RemoteTypeOK, Closing, After, ScloseClear
  <2>2. PlacesInv'
    BY <1>16 DEF RemoteInv, RemoteTypes, RemoteTypeOK, PlacesInv, Belated, SessionsKeptApart, Closing, After, ScloseClear
  <2>3. ProtocolInv'
    BY <1>16 DEF RemoteInv, RemoteTypes, RemoteTypeOK, ProtocolInv, ScloseClear
  <2>4. SessionsKeptApart'
    BY <1>16 DEF RemoteInv, RemoteTypes, RemoteTypeOK, PlacesInv, Belated, ProtocolInv, SessionsKeptApart, After, ScloseClear
  <2> QED
    BY <2>1, <2>2, <2>3, <2>4 DEF RemoteInv
<1>17. CASE SeeOpened
  <2>1. RemoteTypes'
    BY <1>17 DEF RemoteInv, RemoteTypes, RemoteTypeOK, Closing, SeeOpened
  <2>2. PlacesInv'
    BY <1>17 DEF RemoteInv, RemoteTypes, RemoteTypeOK, PlacesInv, Belated, SessionsKeptApart, Closing, SeeOpened
  <2>3. ProtocolInv'
    BY <1>17 DEF RemoteInv, RemoteTypes, RemoteTypeOK, ProtocolInv, SeeOpened
  <2>4. SessionsKeptApart'
    BY <1>17 DEF RemoteInv, RemoteTypes, RemoteTypeOK, PlacesInv, Belated, ProtocolInv, SessionsKeptApart, SeeOpened
  <2> QED
    BY <2>1, <2>2, <2>3, <2>4 DEF RemoteInv
<1>18. CASE CallRead
  <2>1. RemoteTypes'
    BY <1>18 DEF RemoteInv, RemoteTypes, RemoteTypeOK, Closing, CallRead
  <2>2. PlacesInv'
    BY <1>18 DEF RemoteInv, RemoteTypes, RemoteTypeOK, PlacesInv, Belated, SessionsKeptApart, Closing, CallRead
  <2>3. ProtocolInv'
    BY <1>18 DEF RemoteInv, RemoteTypes, RemoteTypeOK, ProtocolInv, CallRead
  <2>4. SessionsKeptApart'
    BY <1>18 DEF RemoteInv, RemoteTypes, RemoteTypeOK, PlacesInv, Belated, ProtocolInv, SessionsKeptApart, CallRead
  <2> QED
    BY <2>1, <2>2, <2>3, <2>4 DEF RemoteInv
<1>19. CASE ReadOutput
  <2>1. RemoteTypes'
    <3>1. /\ UNCHANGED <<comVars, c2s, s2c, opened, shell, bash, jobs, inputs, inputOpen, outputOpen,
                         owner, comdVars, holds, late>>
          /\ pc' \in {[pc EXCEPT !["main"] = x] : x \in {"send", "sclose"}}
      BY <1>19 DEF ReadOutput
    <3>2. outputs' \in [Shells -> Nat]
      <4>1. \/ outputs' = outputs
            \/ outputs[holds["main"]] > 0 /\ outputs' = [outputs EXCEPT ![holds["main"]] = @ - 1]
        BY <1>19 DEF ReadOutput
      <4>2. outputs \in [Shells -> Nat]
        BY DEF RemoteInv, RemoteTypes, RemoteTypeOK
      <4> QED
        BY <4>1, <4>2
    <3>3. RemoteTypeOK'
      BY <3>1, <3>2 DEF RemoteInv, RemoteTypes, RemoteTypeOK
    <3> QED
      BY <3>1, <3>3 DEF RemoteInv, RemoteTypes
  <2>2. PlacesInv'
    BY <1>19 DEF RemoteInv, RemoteTypes, RemoteTypeOK, PlacesInv, Belated, SessionsKeptApart, Closing, ReadOutput
  <2>3. ProtocolInv'
    BY <1>19 DEF RemoteInv, RemoteTypes, RemoteTypeOK, ProtocolInv, ReadOutput
  <2>4. SessionsKeptApart'
    BY <1>19 DEF RemoteInv, RemoteTypes, RemoteTypeOK, PlacesInv, Belated, ProtocolInv, SessionsKeptApart, ReadOutput
  <2> QED
    BY <2>1, <2>2, <2>3, <2>4 DEF RemoteInv
<1>20. CASE SendOutput
  <2>5. BringsItsOutput(s2c')
    <3>1. CASE UNCHANGED s2c
      BY <3>1, Channels DEF BringsItsOutput
    <3>2. CASE conn # 0 /\ s2c' = [s2c EXCEPT ![conn] = Append(@, holds["main"])]
      <4>1. /\ conn \in Sessions /\ holds["main"] \in 0 .. MaxShells
            /\ owner[holds["main"]] = conn \/ holds["main"] \in late
        BY <1>20, <3>2, OpenSession DEF SendOutput, RemoteInv, RemoteTypes, RemoteTypeOK, PlacesInv, Belated
      <4> QED
        BY <3>2, <4>1, Channels, OutputSent
    <3> QED
      BY <1>20, <3>1, <3>2 DEF SendOutput
  <2>1. RemoteTypes'
    BY <1>20, <2>5 DEF RemoteInv, RemoteTypes, RemoteTypeOK, Closing, BringsItsOutput, SendOutput
  <2>2. PlacesInv'
    BY <1>20 DEF RemoteInv, RemoteTypes, RemoteTypeOK, PlacesInv, Belated, SessionsKeptApart, Closing, SendOutput
  <2>3. ProtocolInv'
    BY <1>20 DEF RemoteInv, RemoteTypes, RemoteTypeOK, ProtocolInv, SendOutput
  <2>4. SessionsKeptApart'
    BY <1>20, <2>5 DEF RemoteInv, RemoteTypes, RemoteTypeOK, PlacesInv, SessionsKeptApart, BringsItsOutput, SendOutput
  <2> QED
    BY <2>1, <2>2, <2>3, <2>4 DEF RemoteInv
<1>21. ASSUME NEW s \in Shells, BashStep(s) PROVE RemoteInv'
  <2>1. RemoteTypes'
    <3>1. UNCHANGED <<comVars, c2s, s2c, opened, shell, inputOpen, outputOpen, owner, comdVars,
                      threadVars>>
      BY <1>21 DEF BashStep
    <3>2. bash' \in [Shells -> {"none", "alive", "dead"}]
      BY <1>21 DEF RemoteInv, RemoteTypes, RemoteTypeOK, BashStep
    <3>3. /\ inputs' \in [Shells -> Nat] /\ outputs' \in [Shells -> Nat]
          /\ jobs' \in [Shells -> Nat]
      <4>1. /\ inputs' = inputs \/ (inputs[s] > 0 /\ inputs' = [inputs EXCEPT ![s] = @ - 1])
            /\ outputs' = outputs \/ outputs' = [outputs EXCEPT ![s] = @ + 1]
            /\ \/ jobs' = jobs \/ jobs' = [jobs EXCEPT ![s] = @ + 1]
               \/ jobs[s] > 0 /\ jobs' = [jobs EXCEPT ![s] = @ - 1]
        BY <1>21 DEF BashStep
      <4>2. inputs \in [Shells -> Nat] /\ outputs \in [Shells -> Nat] /\ jobs \in [Shells -> Nat]
        BY DEF RemoteInv, RemoteTypes, RemoteTypeOK
      <4>3. /\ outputs[s] + 1 \in Nat /\ (inputs[s] > 0 => inputs[s] - 1 \in Nat)
            /\ jobs[s] + 1 \in Nat /\ (jobs[s] > 0 => jobs[s] - 1 \in Nat)
        BY <4>2
      <4> QED
        BY <4>1, <4>2, <4>3
    <3>4. RemoteTypeOK'
      BY <3>1, <3>2, <3>3 DEF RemoteInv, RemoteTypes, RemoteTypeOK
    <3> QED
      BY <3>1, <3>4 DEF RemoteInv, RemoteTypes
  <2>2. PlacesInv'
    BY <1>21 DEF RemoteInv, RemoteTypes, RemoteTypeOK, PlacesInv, Belated, SessionsKeptApart, Closing, BashStep
  <2>3. ProtocolInv'
    BY <1>21 DEF RemoteInv, RemoteTypes, RemoteTypeOK, ProtocolInv, BashStep
  <2>4. SessionsKeptApart'
    BY <1>21 DEF RemoteInv, RemoteTypes, RemoteTypeOK, PlacesInv, Belated, ProtocolInv, SessionsKeptApart, BashStep
  <2> QED
    BY <2>1, <2>2, <2>3, <2>4 DEF RemoteInv
<1> QED
  BY <1>1, <1>2, <1>3, <1>4, <1>5, <1>6, <1>7, <1>8, <1>9, <1>10, <1>11, <1>12, <1>13, <1>14, <1>15, <1>16, <1>17, <1>18, <1>19, <1>20, <1>21
     DEF RemoteNext, ComStep, ServerThread, MainThread, Sclose, After

\* Nor does another program's.
LEMMA RemoteStutters == RemoteInv /\ UNCHANGED remoteVars => RemoteInv'
<1> SUFFICES ASSUME RemoteInv, UNCHANGED remoteVars PROVE RemoteInv'
  OBVIOUS
<1> USE DEF remoteVars, comVars, shellVars, comdVars, threadVars
<1>1. RemoteTypes'
  BY DEF RemoteInv, RemoteTypes, RemoteTypeOK
<1>2. PlacesInv' /\ ProtocolInv'
  BY DEF RemoteInv, PlacesInv, Belated, ProtocolInv
<1>3. SessionsKeptApart'
  BY DEF RemoteInv, SessionsKeptApart, At
<1> QED
  BY <1>1, <1>2, <1>3 DEF RemoteInv
=============================================================================
