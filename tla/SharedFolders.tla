--------------------------- MODULE SharedFolders ---------------------------
(***************************************************************************)
(* VMWSharedFolders at work: the methods through which every vnode hook of *)
(* the file system sends one command to the host and waits for its reply.  *)
(* All of them share one buffer, fRPCBuffer, guarded by the semaphore      *)
(* fLock, and one RPC channel of VMWCoreBackdoor, whose SendAndGet holds   *)
(* the semaphore fBackdoorAccess during its five backdoor calls.           *)
(*                                                                         *)
(* One instance exists while a volume is mounted: Init is the state its    *)
(* constructor leaves when it succeeds, and a semaphore that exists cannot *)
(* fail to be acquired (it is deleted at unmount, when no hook runs).      *)
(*                                                                         *)
(* The host is outside the repository.  It is a party that may refuse any  *)
(* backdoor call, executes a command when it has all of its data, keeps    *)
(* the reply until it is acknowledged and drops an unread reply when the   *)
(* next command is announced.                                              *)
(***************************************************************************)
EXTENDS RpcCommands

CONSTANTS Threads, NoThread

ASSUME NoThreadAssumption == NoThread \notin Threads

VARIABLES
  pc,               \* where each thread stands in the method it called
  req,              \* the arguments of that method
  length,           \* its local: the command's length, then the reply's
  sent,             \* the status SendAndGet leaves it with
  result,           \* what the method returns
  fLock,            \* semaphore of VMWSharedFolders
  fBackdoorAccess,  \* semaphore of VMWCoreBackdoor
  fRPCBuffer,       \* what the shared buffer holds, and of whose call
  waiting,          \* the host: the reply waiting to be fetched
  answer            \* history: the host's answer to each call in progress

vars == <<pc, req, length, sent, result, fLock, fBackdoorAccess, fRPCBuffer,
          waiting, answer>>

NoRequest == [command |-> "none", size |-> 0]
NoAnswer == [ok |-> FALSE, length |-> -1, status |-> 0, value |-> 0]
NoResult == Outcome("none", NoValue)
NoReply == [of |-> NoThread, answer |-> NoAnswer]

\* The buffer holds a command, a reply, or neither: part of one of them.
Garbage == [kind |-> "partial", of |-> NoThread, answer |-> NoAnswer]
CommandOf(t) == [kind |-> "command", of |-> t, answer |-> NoAnswer]
ReplyIn(w) == [kind |-> "reply", of |-> w.of, answer |-> w.answer]

Locations ==
  {"idle", "called", "locked", "built", "sendLength", "sendData", "getLength",
   "getData", "ack", "replied", "returned"}

TypeOK ==
  /\ pc \in [Threads -> Locations]
  /\ req \in [Threads -> Requests \cup {NoRequest}]
  /\ length \in [Threads -> Nat]
  /\ sent \in [Threads -> {"B_OK", "B_ERROR", "B_BUFFER_OVERFLOW"}]
  /\ result \in [Threads -> Outcomes \cup {NoResult}]
  /\ fLock \in {0, 1}
  /\ fBackdoorAccess \in {0, 1}
  /\ fRPCBuffer \in [kind : {"partial", "command", "reply"},
                     of : Threads \cup {NoThread},
                     answer : Answers \cup {NoAnswer}]
  /\ waiting \in [of : Threads \cup {NoThread}, answer : Answers \cup {NoAnswer}]
  /\ answer \in [Threads -> Answers \cup {NoAnswer}]

Init ==
  /\ pc = [t \in Threads |-> "idle"]
  /\ req = [t \in Threads |-> NoRequest]
  /\ length = [t \in Threads |-> 0]
  /\ sent = [t \in Threads |-> "B_OK"]
  /\ result = [t \in Threads |-> NoResult]
  /\ fLock = 1
  /\ fBackdoorAccess = 1
  /\ fRPCBuffer = Garbage
  /\ waiting = NoReply
  /\ answer = [t \in Threads |-> NoAnswer]

Go(t, from, to) == pc[t] = from /\ pc' = [pc EXCEPT ![t] = to]

-----------------------------------------------------------------------------
(* The method, up to SendAndGet.                                           *)

Call(t) ==
  /\ Go(t, "idle", "called")
  /\ \E r \in Requests :
       /\ req' = [req EXCEPT ![t] = r]
       /\ length' = [length EXCEPT ![t] = CommandLength(r)]
  /\ UNCHANGED <<sent, result, fLock, fBackdoorAccess, fRPCBuffer, waiting,
                 answer>>

\* Mutant: the early return goes through the release at the end of the method.
TooLong_Releases(t) ==
  /\ Go(t, "called", "returned")
  /\ ~FitsBuffer(req[t])
  /\ result' = [result EXCEPT ![t] = Outcome("B_BUFFER_OVERFLOW", NoValue)]
  /\ fLock' = fLock + 1
  /\ UNCHANGED <<req, length, sent, fBackdoorAccess, fRPCBuffer, waiting, answer>>

TooLong(t) ==
  /\ Go(t, "called", "returned")
  /\ ~FitsBuffer(req[t])
  /\ result' = [result EXCEPT ![t] = Outcome("B_BUFFER_OVERFLOW", NoValue)]
  /\ UNCHANGED <<req, length, sent, fLock, fBackdoorAccess, fRPCBuffer,
                 waiting, answer>>

\* Mutant: the method relies on the lock inside SendAndGet.
AcquireLock_None(t) ==
  /\ Go(t, "called", "locked")
  /\ FitsBuffer(req[t])
  /\ UNCHANGED <<req, length, sent, result, fLock, fBackdoorAccess, fRPCBuffer,
                 waiting, answer>>

AcquireLock(t) ==
  /\ Go(t, "called", "locked")
  /\ FitsBuffer(req[t])
  /\ fLock > 0
  /\ fLock' = fLock - 1
  /\ UNCHANGED <<req, length, sent, result, fBackdoorAccess, fRPCBuffer,
                 waiting, answer>>

BuildCommand(t) ==
  /\ Go(t, "locked", "built")
  /\ fRPCBuffer' = CommandOf(t)
  /\ UNCHANGED <<req, length, sent, result, fLock, fBackdoorAccess, waiting,
                 answer>>

\* Mutant: the error path of user_memcpy forgets the semaphore.
FaultWhileBuilding_KeepsLock(t) ==
  /\ Go(t, "locked", "returned")
  /\ req[t].command = "WriteFile"
  /\ fRPCBuffer' = Garbage
  /\ result' = [result EXCEPT ![t] = Outcome("B_BAD_ADDRESS", NoValue)]
  /\ UNCHANGED <<req, length, sent, fLock, fBackdoorAccess, waiting, answer>>

\* WriteFile copies the data from the caller's memory, which may be unmapped.
FaultWhileBuilding(t) ==
  /\ Go(t, "locked", "returned")
  /\ req[t].command = "WriteFile"
  /\ fRPCBuffer' = Garbage
  /\ fLock' = fLock + 1
  /\ result' = [result EXCEPT ![t] = Outcome("B_BAD_ADDRESS", NoValue)]
  /\ UNCHANGED <<req, length, sent, fBackdoorAccess, waiting, answer>>

-----------------------------------------------------------------------------
(* SendAndGet, and the host's side of each of its backdoor calls.          *)

EnterBackdoor(t) ==
  /\ Go(t, "built", "sendLength")
  /\ fBackdoorAccess > 0
  /\ fBackdoorAccess' = fBackdoorAccess - 1
  /\ UNCHANGED <<req, length, sent, result, fLock, fRPCBuffer, waiting, answer>>

SendLength(t) ==
  /\ Go(t, "sendLength", "sendData")
  /\ waiting' = NoReply
  /\ UNCHANGED <<req, length, sent, result, fLock, fBackdoorAccess, fRPCBuffer,
                 answer>>

\* The host executes the command it finds in the buffer.
SendData(t) ==
  /\ Go(t, "sendData", "getLength")
  /\ fRPCBuffer.kind = "command"
  /\ \E a \in Answers :
       /\ answer' = [answer EXCEPT ![fRPCBuffer.of] = a]
       /\ waiting' = [of |-> fRPCBuffer.of, answer |-> a]
  /\ UNCHANGED <<req, length, sent, result, fLock, fBackdoorAccess, fRPCBuffer>>

GetLength(t) ==
  /\ waiting # NoReply
  /\ length' = [length EXCEPT ![t] = waiting.answer.length]
  /\ \/ /\ waiting.answer.length <= fRPCBufferSize
        /\ Go(t, "getLength", "getData")
        /\ UNCHANGED <<sent, fBackdoorAccess>>
     \/ /\ waiting.answer.length > fRPCBufferSize
        /\ Go(t, "getLength", "replied")
        /\ sent' = [sent EXCEPT ![t] = "B_BUFFER_OVERFLOW"]
        /\ fBackdoorAccess' = fBackdoorAccess + 1
  /\ UNCHANGED <<req, result, fLock, fRPCBuffer, waiting, answer>>

GetData(t) ==
  /\ Go(t, "getData", "ack")
  /\ fRPCBuffer' = ReplyIn(waiting)
  /\ UNCHANGED <<req, length, sent, result, fLock, fBackdoorAccess, waiting,
                 answer>>

Ack(t) ==
  /\ Go(t, "ack", "replied")
  /\ waiting' = NoReply
  /\ fBackdoorAccess' = fBackdoorAccess + 1
  /\ UNCHANGED <<req, length, sent, result, fLock, fRPCBuffer, answer>>

\* Mutant: a refused exchange is started again, as often as it is refused.
Refused_Retries(t) ==
  /\ \E l \in {"sendLength", "sendData", "getLength", "getData", "ack"} :
       Go(t, l, "sendLength")
  /\ UNCHANGED <<req, length, sent, result, fLock, fBackdoorAccess, fRPCBuffer,
                 waiting, answer>>

\* The host may refuse any of the five calls; refused while the reply is being
\* copied, it leaves part of it in the buffer.
Refused(t) ==
  /\ \E l \in {"sendLength", "sendData", "getLength", "getData", "ack"} :
       Go(t, l, "replied")
  /\ sent' = [sent EXCEPT ![t] = "B_ERROR"]
  /\ fRPCBuffer' = IF pc[t] = "getData" THEN Garbage ELSE fRPCBuffer
  /\ fBackdoorAccess' = fBackdoorAccess + 1
  /\ UNCHANGED <<req, length, result, fLock, waiting, answer>>

-----------------------------------------------------------------------------
(* The method again: the reply is read after fBackdoorAccess is released,  *)
(* and still under fLock.                                                  *)

\* Mutant: the first byte of the reply is not looked at.
SendAndGetStatus_AnyReply(t) == sent[t]

\* The value of SendAndGet, and then of the method.
SendAndGetStatus(t) ==
  IF sent[t] = "B_OK"
    THEN IF length[t] > 0 /\ fRPCBuffer.answer.ok THEN "B_OK" ELSE "B_ERROR"
    ELSE sent[t]

ReplyOutcome(t) ==
  IF SendAndGetStatus(t) = "B_OK"
    THEN MethodResult(req[t], length[t], fRPCBuffer.answer)
    ELSE Outcome(SendAndGetStatus(t), NoValue)

Finish(t) ==
  /\ Go(t, "replied", "returned")
  /\ result' = [result EXCEPT ![t] = ReplyOutcome(t)]
  /\ fLock' = fLock + 1
  /\ UNCHANGED <<req, length, sent, fBackdoorAccess, fRPCBuffer, waiting, answer>>

\* ReadFile copies the bytes to the caller's memory, which may be unmapped.
FaultWhileCopying(t) ==
  /\ Go(t, "replied", "returned")
  /\ req[t].command = "ReadFile"
  /\ ReplyOutcome(t).status = "B_OK"
  /\ result' = [result EXCEPT ![t] = Outcome("B_BAD_ADDRESS", NoValue)]
  /\ fLock' = fLock + 1
  /\ UNCHANGED <<req, length, sent, fBackdoorAccess, fRPCBuffer, waiting, answer>>

\* The method is left: its arguments and locals are gone.
Return(t) ==
  /\ Go(t, "returned", "idle")
  /\ req' = [req EXCEPT ![t] = NoRequest]
  /\ length' = [length EXCEPT ![t] = 0]
  /\ sent' = [sent EXCEPT ![t] = "B_OK"]
  /\ result' = [result EXCEPT ![t] = NoResult]
  /\ answer' = [answer EXCEPT ![t] = NoAnswer]
  /\ UNCHANGED <<fLock, fBackdoorAccess, fRPCBuffer, waiting>>

Step(t) ==
  \/ TooLong(t) \/ AcquireLock(t) \/ BuildCommand(t) \/ FaultWhileBuilding(t)
  \/ EnterBackdoor(t) \/ SendLength(t) \/ SendData(t) \/ GetLength(t)
  \/ GetData(t) \/ Ack(t) \/ Refused(t)
  \/ Finish(t) \/ FaultWhileCopying(t) \/ Return(t)

Next == \E t \in Threads : Call(t) \/ Step(t)

Spec == Init /\ [][Next]_vars

\* A thread in a method goes on, and every backdoor call comes back: it is one
\* instruction.  A thread waiting for fLock is served in its turn, as Haiku's
\* semaphores queue their waiters: strong fairness.
Fairness ==
  \A t \in Threads : WF_vars(Step(t)) /\ SF_vars(AcquireLock(t))

FairSpec == Spec /\ Fairness

-----------------------------------------------------------------------------
(* Properties.                                                             *)

\* The threads between the acquisition of fLock and its release, and those
\* between the acquisition of fBackdoorAccess and its release.
HoldsLock(t) ==
  pc[t] \in {"locked", "built", "sendLength", "sendData", "getLength",
             "getData", "ack", "replied"}

InBackdoor(t) ==
  pc[t] \in {"sendLength", "sendData", "getLength", "getData", "ack"}

\* Each semaphore is down exactly while one thread is inside, over every early
\* return of the twelve methods and of SendAndGet: none leaves one down, none
\* raises it twice.
LocksBalanced ==
  /\ fLock = 0 <=> \E t \in Threads : HoldsLock(t)
  /\ fBackdoorAccess = 0 <=> \E t \in Threads : InBackdoor(t)
  /\ \A t, u \in Threads : HoldsLock(t) /\ HoldsLock(u) => t = u

\* What a thread finds in the shared buffer and on the shared channel is its
\* own: the command it built until the reply is fetched, then the reply of the
\* host to that command, with the length it was announced with.
ExchangeIsMine ==
  \A t \in Threads :
    /\ pc[t] \in {"built", "sendLength", "sendData", "getLength", "getData"}
         => fRPCBuffer = CommandOf(t)
    /\ pc[t] \in {"getLength", "getData", "ack"}
         => waiting = [of |-> t, answer |-> answer[t]]
    /\ pc[t] = "ack" \/ (pc[t] = "replied" /\ sent[t] = "B_OK")
         => fRPCBuffer = [kind |-> "reply", of |-> t, answer |-> answer[t]]
    /\ pc[t] \in {"getData", "ack"} \/ (pc[t] = "replied" /\ sent[t] = "B_OK")
         => length[t] = answer[t].length /\ length[t] <= fRPCBufferSize

\* SendAndGet ends the reply with a null byte at offset length.  The method's
\* size checks leave room for it whenever the host keeps to the protocol.
TerminatorInBounds ==
  \A t \in Threads :
    pc[t] = "ack" /\ ProtocolReply(req[t], fRPCBuffer.answer)
      => length[t] < fRPCBufferSize

\* Every call of a method returns, whatever the host refuses.
EveryCallReturns ==
  \A t \in Threads : pc[t] = "called" ~> pc[t] = "returned"

\* Calls from any number of threads behave as the specification of the service
\* promises: the host executes each at most once, and each returns a transport
\* failure or what the method makes of the answer to that call.
phase ==
  [t \in Threads |-> IF pc[t] \in {"idle", "returned"} THEN pc[t]
                      ELSE IF answer[t] = NoAnswer THEN "called" ELSE "executed"]

Service == INSTANCE CommandService

ImplementsService == Service!Spec
=============================================================================
