----------------------------- MODULE RpcChannel -----------------------------
(***************************************************************************)
(* What SymmetricTcpClient::communicate promises its caller: a request is   *)
(* executed at most once, an answered one was executed and got its own      *)
(* answer, and one that failed (an empty string) may or may not have been   *)
(* executed, perhaps later.                                                 *)
(***************************************************************************)
EXTENDS Naturals

CONSTANTS Requests, NoAnswer

VARIABLES
    status,     \* of each request: "new", "called", "answered" or "failed"
    executed,   \* how often the server's on_read has handled each request
    answer      \* the request whose answer communicate returned

rpcVars == <<status, executed, answer>>

RpcInit ==
    /\ status = [r \in Requests |-> "new"]
    /\ executed = [r \in Requests |-> 0]
    /\ answer = [r \in Requests |-> NoAnswer]

Call(r) ==
    /\ status[r] = "new"
    /\ status' = [status EXCEPT ![r] = "called"]
    /\ UNCHANGED <<executed, answer>>

Execute(r) ==
    /\ status[r] \in {"called", "failed"} /\ executed[r] = 0
    /\ executed' = [executed EXCEPT ![r] = 1]
    /\ UNCHANGED <<status, answer>>

Answer(r) ==
    /\ status[r] = "called" /\ executed[r] = 1
    /\ status' = [status EXCEPT ![r] = "answered"]
    /\ answer' = [answer EXCEPT ![r] = r]
    /\ UNCHANGED executed

Fail(r) ==
    /\ status[r] = "called"
    /\ status' = [status EXCEPT ![r] = "failed"]
    /\ UNCHANGED <<executed, answer>>

RpcNext == \E r \in Requests : Call(r) \/ Execute(r) \/ Answer(r) \/ Fail(r)

RpcSpec == RpcInit /\ [][RpcNext]_rpcVars
=============================================================================
