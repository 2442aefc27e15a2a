--------------------------- MODULE CommandService ---------------------------
(***************************************************************************)
(* What the methods of VMWSharedFolders promise the file-system hooks that *)
(* call them, from any number of threads: a call is executed by the host   *)
(* at most once, never when its request does not fit the buffer, and it    *)
(* returns either a transport failure or what the method makes of the      *)
(* host's answer to that very call.                                        *)
(***************************************************************************)
EXTENDS RpcCommands

CONSTANT Threads

VARIABLES
  phase,     \* "idle", "called", "executed" or "returned"
  req,       \* the request of each call in progress
  answer,    \* the host's answer to it, once the host executed it
  result     \* what the call returns

vars == <<phase, req, answer, result>>

NoRequest == [command |-> "none", size |-> 0]
NoAnswer == [ok |-> FALSE, length |-> -1, status |-> 0, value |-> 0]
NoResult == Outcome("none", NoValue)

TypeOK ==
  /\ phase \in [Threads -> {"idle", "called", "executed", "returned"}]
  /\ req \in [Threads -> Requests \cup {NoRequest}]
  /\ answer \in [Threads -> Answers \cup {NoAnswer}]
  /\ result \in [Threads -> Outcomes \cup {NoResult}]

Init ==
  /\ phase = [t \in Threads |-> "idle"]
  /\ req = [t \in Threads |-> NoRequest]
  /\ answer = [t \in Threads |-> NoAnswer]
  /\ result = [t \in Threads |-> NoResult]

Call(t) ==
  /\ phase[t] = "idle"
  /\ \E r \in Requests : req' = [req EXCEPT ![t] = r]
  /\ phase' = [phase EXCEPT ![t] = "called"]
  /\ UNCHANGED <<answer, result>>

Execute(t) ==
  /\ phase[t] = "called"
  /\ FitsBuffer(req[t])
  /\ \E a \in Answers : answer' = [answer EXCEPT ![t] = a]
  /\ phase' = [phase EXCEPT ![t] = "executed"]
  /\ UNCHANGED <<req, result>>

Return(t, o) ==
  /\ result' = [result EXCEPT ![t] = o]
  /\ phase' = [phase EXCEPT ![t] = "returned"]
  /\ UNCHANGED <<req, answer>>

\* Any call may fail on the way to the host or back.
Fail(t) ==
  /\ phase[t] \in {"called", "executed"}
  /\ Return(t, Outcome("B_ERROR", NoValue))

\* The request, or the reply, does not fit the buffer.
Overflow(t) ==
  /\ \/ phase[t] = "called" /\ ~FitsBuffer(req[t])
     \/ phase[t] = "executed" /\ answer[t].length > fRPCBufferSize
  /\ Return(t, Outcome("B_BUFFER_OVERFLOW", NoValue))

\* The caller's buffer is not readable (before anything is sent), or not
\* writable (when the bytes read are copied out).
Fault(t) ==
  /\ \/ phase[t] = "called" /\ req[t].command = "WriteFile"
     \/ phase[t] = "executed" /\ req[t].command = "ReadFile" /\ answer[t].ok
  /\ Return(t, Outcome("B_BAD_ADDRESS", NoValue))

Complete(t) ==
  /\ phase[t] = "executed"
  /\ answer[t].ok
  /\ answer[t].length \in 1 .. fRPCBufferSize
  /\ Return(t, MethodResult(req[t], answer[t].length, answer[t]))

Leave(t) ==
  /\ phase[t] = "returned"
  /\ phase' = [phase EXCEPT ![t] = "idle"]
  /\ req' = [req EXCEPT ![t] = NoRequest]
  /\ answer' = [answer EXCEPT ![t] = NoAnswer]
  /\ result' = [result EXCEPT ![t] = NoResult]

Next == \E t \in Threads :
  \/ Call(t) \/ Execute(t)
  \/ Fail(t) \/ Overflow(t) \/ Fault(t) \/ Complete(t)
  \/ Leave(t)

Spec == Init /\ [][Next]_vars
=============================================================================
