------------------------ MODULE SharedFolders_proof ------------------------
(***************************************************************************)
(* Theorems about SharedFolders, for any set of threads, any requests and  *)
(* any answers of the host: the two semaphores are balanced, a thread only *)
(* meets its own exchange in the shared buffer and on the shared channel,  *)
(* and the methods implement CommandService.                               *)
(***************************************************************************)
EXTENDS SharedFolders, TLAPS

\* What the refinement needs besides: which calls the host has executed, and
\* that only requests that fit the buffer go further than the size check.
Progress ==
  \A t \in Threads :
    /\ pc[t] = "idle" => req[t] = NoRequest /\ result[t] = NoResult
    /\ pc[t] # "idle" => req[t] \in Requests
    /\ pc[t] \in {"idle", "called", "locked", "built", "sendLength", "sendData"}
         => answer[t] = NoAnswer
    /\ HoldsLock(t) => FitsBuffer(req[t])
    /\ pc[t] \notin {"replied", "returned"} => sent[t] = "B_OK"
    /\ pc[t] \in {"getLength", "getData", "ack"} => answer[t] \in Answers
    /\ pc[t] = "replied" /\ sent[t] = "B_OK" => answer[t] \in Answers
    /\ pc[t] = "replied" /\ sent[t] = "B_BUFFER_OVERFLOW"
         => answer[t] \in Answers /\ answer[t].length > fRPCBufferSize

IInv == TypeOK /\ LocksBalanced /\ ExchangeIsMine /\ Progress

-----------------------------------------------------------------------------

\* The absent answer is no answer.
LEMMA NoAnswerIsNone == NoAnswer \notin Answers
  <1>1. \A a \in Answers : a.length \in Nat
    BY AnswersAssumption
  <1>2. NoAnswer.length = -1
    BY DEF NoAnswer
  <1> QED BY <1>1, <1>2

\* What a method is described by.
LEMMA MethodType ==
  ASSUME NEW c \in Commands
  PROVE  Methods[c] \in
           [fixed : Nat, carries : {"path", "data", "asked", "nothing"},
            reply : {"value", "bytes", "entry", "attributes", "status", "none"}]
  BY DEF Commands, Methods, Method, OpenFile, ReadFile, WriteFile, CloseFile,
         OpenDir, ReadDir, CloseDir, GetAttributes, SetAttributes, CreateDir,
         Delete, Move

\* Only ReadFile asks for bytes.
LEMMA ReadFileCarries ==
  ASSUME NEW c \in Commands, Methods[c].reply = "bytes"
  PROVE  Methods[c].fixed = 26 /\ Methods[c].carries = "asked"
  BY DEF Commands, Methods, Method, OpenFile, ReadFile, WriteFile, CloseFile,
         OpenDir, ReadDir, CloseDir, GetAttributes, SetAttributes, CreateDir,
         Delete, Move

\* A command has a length.
LEMMA CommandLengthIsNat ==
  ASSUME NEW r \in Requests
  PROVE  CommandLength(r) \in Nat
  <1>1. r.command \in Commands /\ r.size \in Nat
    BY RequestsAssumption
  <1>2. Methods[r.command].fixed \in Nat
    BY <1>1, MethodType
  <1> QED BY <1>1, <1>2 DEF CommandLength

\* Whatever the reply, the method's outcome is a status and a value.
LEMMA MethodResultType ==
  ASSUME NEW r \in Requests, NEW a \in Answers, NEW l \in Nat
  PROVE  MethodResult(r, l, a) \in Outcomes
  <1>1. r.command \in Commands /\ r.size \in Nat
    BY RequestsAssumption
  <1>2. a.value \in Nat /\ a.status \in Nat
    BY AnswersAssumption
  <1>3. ConvertStatus(a.status) \in Statuses
    BY DEF ConvertStatus, Statuses
  <1>4. ASSUME NEW s \in Statuses, NEW v \in Nat \cup {NoValue}
        PROVE  Outcome(s, v) \in Outcomes
    BY DEF Outcome, Outcomes
  <1>5. ValueResult(l, a) \in Outcomes
    BY <1>2, <1>3, <1>4 DEF ValueResult, Statuses
  <1>6. StatusResult(l, a) \in Outcomes
    BY <1>2, <1>3, <1>4 DEF StatusResult, Statuses
  <1>7. ReadFileResult(r, l, a) \in Outcomes
    BY <1>2, <1>3, <1>4 DEF ReadFileResult, Statuses
  <1>8. ReadDirResult(r, l, a) \in Outcomes
    BY <1>1, <1>2, <1>4 DEF ReadDirResult, Statuses
  <1>9. GetAttributesResult(l, a) \in Outcomes
    BY <1>2, <1>3, <1>4 DEF GetAttributesResult, Statuses
  <1>10. Outcome("B_OK", NoValue) \in Outcomes
    BY <1>4 DEF Statuses
  <1> QED
    BY <1>1, <1>5, <1>6, <1>7, <1>8, <1>9, <1>10, MethodType DEF MethodResult

-----------------------------------------------------------------------------

LEMMA InitInvariant == Init => IInv
  <1> SUFFICES ASSUME Init PROVE IInv
    OBVIOUS
  <1>1. TypeOK
    BY DEF Init, TypeOK, Locations, Garbage, NoReply
  <1>2. LocksBalanced
    BY DEF Init, LocksBalanced, HoldsLock, InBackdoor
  <1>3. ExchangeIsMine
    BY DEF Init, ExchangeIsMine
  <1>4. Progress
    BY DEF Init, Progress, HoldsLock
  <1> QED BY <1>1, <1>2, <1>3, <1>4 DEF IInv

\* Every step of a method preserves the invariant: one step per action, and
\* under it one per conjunct.
LEMMA CallPreserves ==
  ASSUME IInv, NEW t \in Threads, Call(t)
  PROVE  IInv'
  <1> PICK r \in Requests : /\ req' = [req EXCEPT ![t] = r]
                            /\ length' = [length EXCEPT ![t] = CommandLength(r)]
    BY DEF Call
  <1> USE DEF IInv, Call, Go
  <1>1. TypeOK'
    BY CommandLengthIsNat DEF TypeOK, Locations
  <1>2. LocksBalanced'
    BY DEF LocksBalanced, HoldsLock, InBackdoor, TypeOK
  <1>3. ExchangeIsMine'
    BY DEF ExchangeIsMine, TypeOK
  <1>4. Progress'
    BY DEF Progress, HoldsLock, TypeOK
  <1> QED BY <1>1, <1>2, <1>3, <1>4

LEMMA TooLongPreserves ==
  ASSUME IInv, NEW t \in Threads, TooLong(t)
  PROVE  IInv'
  <1> USE DEF IInv, TooLong, Go
  <1>1. TypeOK'
    BY DEF TypeOK, Locations, Outcome, Outcomes, Statuses
  <1>2. LocksBalanced'
    BY DEF LocksBalanced, HoldsLock, InBackdoor, TypeOK
  <1>3. ExchangeIsMine'
    BY DEF ExchangeIsMine, TypeOK
  <1>4. Progress'
    BY DEF Progress, HoldsLock, TypeOK
  <1> QED BY <1>1, <1>2, <1>3, <1>4

LEMMA AcquireLockPreserves ==
  ASSUME IInv, NEW t \in Threads, AcquireLock(t)
  PROVE  IInv'
  <1> USE DEF IInv, AcquireLock, Go
  <1>1. TypeOK'
    BY DEF TypeOK, Locations
  <1>2. LocksBalanced'
    BY DEF LocksBalanced, HoldsLock, InBackdoor, TypeOK
  <1>3. ExchangeIsMine'
    BY DEF ExchangeIsMine, LocksBalanced, HoldsLock, TypeOK
  <1>4. Progress'
    BY DEF Progress, HoldsLock, TypeOK
  <1> QED BY <1>1, <1>2, <1>3, <1>4

LEMMA BuildCommandPreserves ==
  ASSUME IInv, NEW t \in Threads, BuildCommand(t)
  PROVE  IInv'
  <1> USE DEF IInv, BuildCommand, Go
  <1>1. TypeOK'
    BY DEF TypeOK, Locations, CommandOf
  <1>2. LocksBalanced'
    BY DEF LocksBalanced, HoldsLock, InBackdoor, TypeOK
  <1>3. ExchangeIsMine'
    BY DEF ExchangeIsMine, LocksBalanced, HoldsLock, TypeOK
  <1>4. Progress'
    BY DEF Progress, HoldsLock, TypeOK
  <1> QED BY <1>1, <1>2, <1>3, <1>4

LEMMA FaultWhileBuildingPreserves ==
  ASSUME IInv, NEW t \in Threads, FaultWhileBuilding(t)
  PROVE  IInv'
  <1> USE DEF IInv, FaultWhileBuilding, Go
  <1>1. TypeOK'
    BY DEF TypeOK, LocksBalanced, HoldsLock, Locations, Garbage, Outcome, Outcomes, Statuses
  <1>2. LocksBalanced'
    BY DEF LocksBalanced, HoldsLock, InBackdoor, TypeOK
  <1>3. ExchangeIsMine'
    BY DEF ExchangeIsMine, LocksBalanced, HoldsLock, TypeOK
  <1>4. Progress'
    BY DEF Progress, HoldsLock, TypeOK
  <1> QED BY <1>1, <1>2, <1>3, <1>4

LEMMA EnterBackdoorPreserves ==
  ASSUME IInv, NEW t \in Threads, EnterBackdoor(t)
  PROVE  IInv'
  <1> USE DEF IInv, EnterBackdoor, Go
  <1>1. TypeOK'
    BY DEF TypeOK, Locations
  <1>2. LocksBalanced'
    BY DEF LocksBalanced, HoldsLock, InBackdoor, TypeOK
  <1>3. ExchangeIsMine'
    BY DEF ExchangeIsMine, TypeOK
  <1>4. Progress'
    BY DEF Progress, HoldsLock, TypeOK
  <1> QED BY <1>1, <1>2, <1>3, <1>4

LEMMA SendLengthPreserves ==
  ASSUME IInv, NEW t \in Threads, SendLength(t)
  PROVE  IInv'
  <1> USE DEF IInv, SendLength, Go
  <1>1. TypeOK'
    BY DEF TypeOK, Locations, NoReply
  <1>2. LocksBalanced'
    BY DEF LocksBalanced, HoldsLock, InBackdoor, TypeOK
  <1>3. ExchangeIsMine'
    BY DEF ExchangeIsMine, LocksBalanced, HoldsLock, TypeOK
  <1>4. Progress'
    BY DEF Progress, HoldsLock, TypeOK
  <1> QED BY <1>1, <1>2, <1>3, <1>4

LEMMA SendDataPreserves ==
  ASSUME IInv, NEW t \in Threads, SendData(t)
  PROVE  IInv'
  <1>0. fRPCBuffer.of = t
    BY DEF IInv, SendData, Go, ExchangeIsMine, CommandOf
  <1> PICK a \in Answers : /\ answer' = [answer EXCEPT ![t] = a]
                           /\ waiting' = [of |-> t, answer |-> a]
    BY <1>0 DEF SendData
  <1> USE DEF IInv, SendData, Go
  <1>1. TypeOK'
    BY DEF TypeOK, Locations
  <1>2. LocksBalanced'
    BY DEF LocksBalanced, HoldsLock, InBackdoor, TypeOK
  <1>3. ExchangeIsMine'
    BY DEF ExchangeIsMine, LocksBalanced, HoldsLock, TypeOK
  <1>4. Progress'
    BY DEF Progress, HoldsLock, TypeOK
  <1> QED BY <1>1, <1>2, <1>3, <1>4

LEMMA GetLengthPreserves ==
  ASSUME IInv, NEW t \in Threads, GetLength(t)
  PROVE  IInv'
  <1>0. /\ waiting = [of |-> t, answer |-> answer[t]]
        /\ answer[t] \in Answers /\ answer[t].length \in Nat
        /\ fRPCBufferSize \in Nat
    BY AnswersAssumption, SizeAssumption
    DEF IInv, GetLength, Go, ExchangeIsMine, Progress, fRPCBufferSize
  <1> USE DEF IInv, GetLength, Go
  <1>1. TypeOK'
    BY <1>0 DEF TypeOK, Locations, LocksBalanced, InBackdoor
  <1>2. LocksBalanced'
    BY <1>0 DEF LocksBalanced, HoldsLock, InBackdoor, TypeOK
  <1>3. ExchangeIsMine'
    BY <1>0 DEF ExchangeIsMine, LocksBalanced, HoldsLock, TypeOK
  <1>4. Progress'
    BY <1>0 DEF Progress, HoldsLock, TypeOK
  <1> QED BY <1>1, <1>2, <1>3, <1>4

LEMMA GetDataPreserves ==
  ASSUME IInv, NEW t \in Threads, GetData(t)
  PROVE  IInv'
  <1> USE DEF IInv, GetData, Go
  <1>1. TypeOK'
    BY DEF TypeOK, Locations, ReplyIn
  <1>2. LocksBalanced'
    BY DEF LocksBalanced, HoldsLock, InBackdoor, TypeOK
  <1>3. ExchangeIsMine'
    BY DEF ExchangeIsMine, LocksBalanced, HoldsLock, TypeOK, ReplyIn
  <1>4. Progress'
    BY DEF Progress, HoldsLock, TypeOK
  <1> QED BY <1>1, <1>2, <1>3, <1>4

LEMMA AckPreserves ==
  ASSUME IInv, NEW t \in Threads, Ack(t)
  PROVE  IInv'
  <1> USE DEF IInv, Ack, Go
  <1>1. TypeOK'
    BY DEF TypeOK, Locations, LocksBalanced, InBackdoor, NoReply
  <1>2. LocksBalanced'
    BY DEF LocksBalanced, HoldsLock, InBackdoor, TypeOK
  <1>3. ExchangeIsMine'
    BY DEF ExchangeIsMine, LocksBalanced, HoldsLock, TypeOK
  <1>4. Progress'
    BY DEF Progress, HoldsLock, TypeOK
  <1> QED BY <1>1, <1>2, <1>3, <1>4

LEMMA RefusedPreserves ==
  ASSUME IInv, NEW t \in Threads, Refused(t)
  PROVE  IInv'
  <1>0. /\ pc[t] \in {"sendLength", "sendData", "getLength", "getData", "ack"}
        /\ pc' = [pc EXCEPT ![t] = "replied"]
        /\ \A u \in Threads \ {t} : ~HoldsLock(u)
    BY DEF IInv, Refused, Go, LocksBalanced, HoldsLock
  <1> USE DEF IInv, Refused
  <1>1. TypeOK'
    BY <1>0 DEF TypeOK, Locations, LocksBalanced, InBackdoor, Garbage
  <1>2. LocksBalanced'
    BY <1>0 DEF LocksBalanced, HoldsLock, InBackdoor, TypeOK
  <1>3. ExchangeIsMine'
    BY <1>0 DEF ExchangeIsMine, HoldsLock, TypeOK
  <1>4. Progress'
    BY <1>0 DEF Progress, HoldsLock, TypeOK
  <1> QED BY <1>1, <1>2, <1>3, <1>4

\* What a method makes of a reply it has under fLock.
LEMMA ReplyOutcomeType ==
  ASSUME IInv, NEW t \in Threads, pc[t] = "replied"
  PROVE  ReplyOutcome(t) \in Outcomes
  <1>1. CASE SendAndGetStatus(t) = "B_OK"
    <2>1. sent[t] = "B_OK"
      BY <1>1 DEF SendAndGetStatus
    <2>2. fRPCBuffer.answer \in Answers /\ length[t] \in Nat /\ req[t] \in Requests
      BY <2>1 DEF IInv, ExchangeIsMine, Progress, TypeOK
    <2> QED BY <1>1, <2>2, MethodResultType DEF ReplyOutcome
  <1>2. CASE SendAndGetStatus(t) # "B_OK"
    <2>1. SendAndGetStatus(t) \in Statuses
      BY DEF IInv, TypeOK, SendAndGetStatus, Statuses
    <2> QED BY <1>2, <2>1 DEF ReplyOutcome, Outcome, Outcomes
  <1> QED BY <1>1, <1>2

LEMMA FinishPreserves ==
  ASSUME IInv, NEW t \in Threads, Finish(t)
  PROVE  IInv'
  <1>0. ReplyOutcome(t) \in Outcomes
    BY ReplyOutcomeType DEF Finish, Go
  <1> USE DEF IInv, Finish, Go
  <1>1. TypeOK'
    BY <1>0 DEF TypeOK, Locations, LocksBalanced, HoldsLock
  <1>2. LocksBalanced'
    BY DEF LocksBalanced, HoldsLock, InBackdoor, TypeOK
  <1>3. ExchangeIsMine'
    BY DEF ExchangeIsMine, TypeOK
  <1>4. Progress'
    BY DEF Progress, HoldsLock, TypeOK
  <1> QED BY <1>1, <1>2, <1>3, <1>4

LEMMA FaultWhileCopyingPreserves ==
  ASSUME IInv, NEW t \in Threads, FaultWhileCopying(t)
  PROVE  IInv'
  <1> USE DEF IInv, FaultWhileCopying, Go
  <1>1. TypeOK'
    BY DEF TypeOK, Locations, LocksBalanced, HoldsLock, Outcome, Outcomes, Statuses
  <1>2. LocksBalanced'
    BY DEF LocksBalanced, HoldsLock, InBackdoor, TypeOK
  <1>3. ExchangeIsMine'
    BY DEF ExchangeIsMine, TypeOK
  <1>4. Progress'
    BY DEF Progress, HoldsLock, TypeOK
  <1> QED BY <1>1, <1>2, <1>3, <1>4

LEMMA ReturnPreserves ==
  ASSUME IInv, NEW t \in Threads, Return(t)
  PROVE  IInv'
  <1> USE DEF IInv, Return, Go
  <1>1. TypeOK'
    BY DEF TypeOK, Locations
  <1>2. LocksBalanced'
    BY DEF LocksBalanced, HoldsLock, InBackdoor, TypeOK
  <1>3. ExchangeIsMine'
    BY DEF ExchangeIsMine, TypeOK
  <1>4. Progress'
    BY DEF Progress, HoldsLock, TypeOK
  <1> QED BY <1>1, <1>2, <1>3, <1>4

LEMMA StepInvariant == IInv /\ [Next]_vars => IInv'
  <1> SUFFICES ASSUME IInv, [Next]_vars PROVE IInv'
    OBVIOUS
  <1>1. CASE UNCHANGED vars
    BY <1>1 DEF vars, IInv, TypeOK, LocksBalanced, ExchangeIsMine, Progress,
                HoldsLock, InBackdoor
  <1>2. ASSUME NEW t \in Threads, Call(t) \/ Step(t)
        PROVE  IInv'
    BY <1>2, CallPreserves, TooLongPreserves, AcquireLockPreserves,
       BuildCommandPreserves, FaultWhileBuildingPreserves, EnterBackdoorPreserves,
       SendLengthPreserves, SendDataPreserves, GetLengthPreserves,
       GetDataPreserves, AckPreserves, RefusedPreserves, FinishPreserves,
       FaultWhileCopyingPreserves, ReturnPreserves
    DEF Step
  <1> QED BY <1>1, <1>2 DEF Next

LEMMA Invariance == Spec => []IInv
  BY InitInvariant, StepInvariant, PTL DEF Spec

-----------------------------------------------------------------------------

\* Every variable keeps to its type: in particular neither semaphore is ever
\* raised above one, which would let two threads into the shared buffer.
THEOREM Typing == Spec => []TypeOK
  BY Invariance, PTL DEF IInv

\* Each semaphore is down exactly while one thread is inside, over every early
\* return of the methods and of SendAndGet, whatever the host refuses.
THEOREM SemaphoresBalanced == Spec => []LocksBalanced
  BY Invariance, PTL DEF IInv

\* Between acquiring fLock and releasing it, a thread finds in the shared buffer
\* and on the channel its own command, then the host's reply to that command.
THEOREM ExchangeIsolated == Spec => []ExchangeIsMine
  BY Invariance, PTL DEF IInv

\* The null byte SendAndGet writes behind a reply stays in the buffer if the
\* reply keeps to the protocol and the buffer was made for at least the longest
\* entry ReadDir can return: 59 bytes and a name of 255.
THEOREM TerminatorFits ==
  ASSUME maxIOSize >= 288
  PROVE  Spec => []TerminatorInBounds
  <1>1. IInv => TerminatorInBounds
    <2> SUFFICES ASSUME IInv, NEW t \in Threads, pc[t] = "ack",
                        ProtocolReply(req[t], fRPCBuffer.answer)
                 PROVE  length[t] < fRPCBufferSize
      BY DEF TerminatorInBounds
    <2> DEFINE a == fRPCBuffer.answer
    <2>1. /\ a \in Answers
          /\ length[t] = a.length
          /\ req[t] \in Requests
          /\ FitsBuffer(req[t])
      BY DEF IInv, ExchangeIsMine, Progress, HoldsLock
    <2>2. /\ a.length \in Nat /\ a.value \in Nat
          /\ req[t].command \in Commands /\ req[t].size \in Nat
          /\ maxIOSize \in Nat
      BY <2>1, AnswersAssumption, RequestsAssumption, SizeAssumption
    <2>3. fRPCBufferSize = maxIOSize + 27
      BY DEF fRPCBufferSize
    <2>4. CASE /\ Methods[req[t].command].reply = "bytes"
               /\ a.value <= req[t].size /\ a.length = 14 + a.value
      <3>1. 26 + req[t].size <= fRPCBufferSize
        BY <2>1, <2>2, <2>4, ReadFileCarries DEF FitsBuffer
      <3> QED BY <2>1, <2>2, <2>3, <2>4, <3>1
    <2>5. CASE ~ /\ Methods[req[t].command].reply = "bytes"
                 /\ a.value <= req[t].size /\ a.length = 14 + a.value
      <3>1. a.length \in {10, 14, 55} \/ (a.value <= 255 /\ a.length = 59 + a.value)
        BY <2>5 DEF ProtocolReply
      <3> QED BY <2>1, <2>2, <2>3, <3>1
    <2> QED BY <2>4, <2>5
  <1> QED BY <1>1, Invariance, PTL

-----------------------------------------------------------------------------

\* CommandService speaks of the same commands, through its own copy of them.
LEMMA SameCommands ==
  /\ Service!NoValue = NoValue
  /\ \A status, value : Service!Outcome(status, value) = Outcome(status, value)
  /\ Service!fRPCBufferSize = fRPCBufferSize
  /\ \A r : Service!FitsBuffer(r) <=> FitsBuffer(r)
  /\ \A r, l, a : Service!MethodResult(r, l, a) = MethodResult(r, l, a)
  <1>0. Service!Methods = Methods
    BY DEF Methods, Method, OpenFile, ReadFile, WriteFile, CloseFile, OpenDir,
           ReadDir, CloseDir, GetAttributes, SetAttributes, CreateDir, Delete,
           Move, Service!Methods, Service!Method, Service!OpenFile,
           Service!ReadFile, Service!WriteFile, Service!CloseFile,
           Service!OpenDir, Service!ReadDir, Service!CloseDir,
           Service!GetAttributes, Service!SetAttributes, Service!CreateDir,
           Service!Delete, Service!Move
  <1>1. /\ Service!NoValue = NoValue
        /\ \A status, value : Service!Outcome(status, value) = Outcome(status, value)
        /\ Service!fRPCBufferSize = fRPCBufferSize
    BY DEF NoValue, Service!NoValue, Outcome, Service!Outcome, fRPCBufferSize,
           Service!fRPCBufferSize
  <1>2. ASSUME NEW r PROVE Service!FitsBuffer(r) <=> FitsBuffer(r)
    BY <1>0, <1>1 DEF FitsBuffer, Service!FitsBuffer
  <1>3. ASSUME NEW s PROVE Service!ConvertStatus(s) = ConvertStatus(s)
    BY DEF ConvertStatus, Service!ConvertStatus
  <1>4. ASSUME NEW r, NEW l, NEW a
        PROVE  Service!MethodResult(r, l, a) = MethodResult(r, l, a)
    <2>1. Service!ValueResult(l, a) = ValueResult(l, a)
      BY <1>1, <1>3 DEF ValueResult, Service!ValueResult
    <2>2. Service!StatusResult(l, a) = StatusResult(l, a)
      BY <1>1, <1>3 DEF StatusResult, Service!StatusResult
    <2>3. Service!ReadFileResult(r, l, a) = ReadFileResult(r, l, a)
      BY <1>1, <1>3 DEF ReadFileResult, Service!ReadFileResult
    <2>4. Service!ReadDirResult(r, l, a) = ReadDirResult(r, l, a)
      BY <1>1 DEF ReadDirResult, Service!ReadDirResult
    <2>5. Service!GetAttributesResult(l, a) = GetAttributesResult(l, a)
      BY <1>1, <1>3 DEF GetAttributesResult, Service!GetAttributesResult
    <2> QED
      BY <1>0, <1>1, <2>1, <2>2, <2>3, <2>4, <2>5
      DEF MethodResult, Service!MethodResult
  <1> QED BY <1>1, <1>2, <1>4

\* The refinement, step by step: the call, its execution by the host and its
\* return are steps of the service, the rest of the exchange is invisible to it.
LEMMA InitImplements == Init => Service!Init
  BY SameCommands DEF Init, Service!Init, phase, NoRequest, NoAnswer, NoResult,
         Service!NoRequest, Service!NoAnswer, Service!NoResult

LEMMA CallImplements ==
  ASSUME IInv, NEW t \in Threads, Call(t)
  PROVE  Service!Call(t)
  <1>1. phase[t] = "idle"
    BY DEF Call, Go, phase
  <1>2. phase' = [phase EXCEPT ![t] = "called"]
    BY DEF Call, Go, phase, IInv, TypeOK, Progress
  <1> QED BY <1>1, <1>2 DEF Call, Service!Call

LEMMA ExecuteImplements ==
  ASSUME IInv, NEW t \in Threads, SendData(t)
  PROVE  Service!Execute(t)
  <1>1. /\ fRPCBuffer.of = t /\ answer[t] = NoAnswer
        /\ FitsBuffer(req[t])
    BY DEF IInv, SendData, Go, ExchangeIsMine, CommandOf, Progress, HoldsLock
  <1> PICK a \in Answers : answer' = [answer EXCEPT ![t] = a]
    BY <1>1 DEF SendData
  <1>2. phase[t] = "called"
    BY <1>1 DEF phase, SendData, Go
  <1>3. phase' = [phase EXCEPT ![t] = "executed"]
    BY NoAnswerIsNone DEF phase, SendData, Go, IInv, TypeOK
  <1> QED BY <1>1, <1>2, <1>3, SameCommands DEF SendData, Service!Execute

\* Any step to the location "returned" returns for the service too.
LEMMA ReturnedImplements ==
  ASSUME IInv, NEW t \in Threads, NEW o,
         pc' = [pc EXCEPT ![t] = "returned"],
         result' = [result EXCEPT ![t] = o],
         UNCHANGED <<req, answer>>
  PROVE  Service!Return(t, o)
  <1>1. phase' = [phase EXCEPT ![t] = "returned"]
    BY DEF phase, IInv, TypeOK
  <1> QED BY <1>1 DEF Service!Return

LEMMA TooLongImplements ==
  ASSUME IInv, NEW t \in Threads, TooLong(t)
  PROVE  Service!Overflow(t)
  <1>1. phase[t] = "called"
    BY DEF phase, TooLong, Go, IInv, Progress
  <1> QED BY <1>1, ReturnedImplements, SameCommands DEF TooLong, Go, Service!Overflow

LEMMA FaultWhileBuildingImplements ==
  ASSUME IInv, NEW t \in Threads, FaultWhileBuilding(t)
  PROVE  Service!Fault(t)
  <1>1. phase[t] = "called"
    BY DEF phase, FaultWhileBuilding, Go, IInv, Progress
  <1> QED BY <1>1, ReturnedImplements, SameCommands
    DEF FaultWhileBuilding, Go, Service!Fault

\* A reply that was fetched is the host's answer to this call.
LEMMA ReplyIsAnswer ==
  ASSUME IInv, NEW t \in Threads, pc[t] = "replied", sent[t] = "B_OK"
  PROVE  /\ fRPCBuffer.answer = answer[t]
         /\ answer[t] \in Answers
         /\ length[t] = answer[t].length
         /\ answer[t].length <= fRPCBufferSize
         /\ phase[t] = "executed"
  BY NoAnswerIsNone DEF IInv, ExchangeIsMine, Progress, phase

LEMMA FinishImplements ==
  ASSUME IInv, NEW t \in Threads, Finish(t)
  PROVE  Service!Fail(t) \/ Service!Overflow(t) \/ Service!Complete(t)
  <1>1. /\ pc[t] = "replied"
        /\ Service!Return(t, ReplyOutcome(t))
    BY ReturnedImplements DEF Finish, Go
  <1>2. phase[t] \in {"called", "executed"}
    BY <1>1 DEF phase
  <1>3. sent[t] \in {"B_OK", "B_ERROR", "B_BUFFER_OVERFLOW"}
    BY DEF IInv, TypeOK
  <1>4. CASE SendAndGetStatus(t) = "B_ERROR"
    BY <1>1, <1>2, <1>4, SameCommands DEF ReplyOutcome, Service!Fail
  <1>5. CASE sent[t] = "B_BUFFER_OVERFLOW"
    <2>1. phase[t] = "executed" /\ answer[t].length > fRPCBufferSize
      BY <1>1, <1>5, NoAnswerIsNone DEF IInv, Progress, phase
    <2> QED
      BY <1>1, <1>5, <2>1, SameCommands
      DEF ReplyOutcome, SendAndGetStatus, Service!Overflow
  <1>6. CASE SendAndGetStatus(t) = "B_OK"
    <2>1. sent[t] = "B_OK" /\ length[t] > 0 /\ fRPCBuffer.answer.ok
      BY <1>6 DEF SendAndGetStatus
    <2>2. answer[t].length \in Nat /\ fRPCBufferSize \in Nat
      BY <1>1, <2>1, ReplyIsAnswer, AnswersAssumption, SizeAssumption
      DEF fRPCBufferSize
    <2>3. answer[t].length \in 1 .. fRPCBufferSize
      BY <1>1, <2>1, <2>2, ReplyIsAnswer
    <2> QED
      BY <1>1, <1>6, <2>1, <2>3, ReplyIsAnswer, SameCommands
      DEF ReplyOutcome, Service!Complete
  <1> QED BY <1>3, <1>4, <1>5, <1>6 DEF SendAndGetStatus

LEMMA FaultWhileCopyingImplements ==
  ASSUME IInv, NEW t \in Threads, FaultWhileCopying(t)
  PROVE  Service!Fault(t)
  <1>1. /\ pc[t] = "replied" /\ req[t].command = "ReadFile"
        /\ Service!Return(t, Outcome("B_BAD_ADDRESS", NoValue))
    BY ReturnedImplements DEF FaultWhileCopying, Go
  <1>2. SendAndGetStatus(t) = "B_OK"
    BY DEF FaultWhileCopying, ReplyOutcome, Outcome
  <1>3. sent[t] = "B_OK" /\ fRPCBuffer.answer.ok
    BY <1>2 DEF SendAndGetStatus
  <1> QED BY <1>1, <1>3, ReplyIsAnswer, SameCommands DEF Service!Fault

LEMMA LeaveImplements ==
  ASSUME IInv, NEW t \in Threads, Return(t)
  PROVE  Service!Leave(t)
  <1>1. phase[t] = "returned"
    BY DEF phase, Return, Go
  <1>2. phase' = [phase EXCEPT ![t] = "idle"]
    BY DEF phase, Return, Go, IInv, TypeOK
  <1> QED
    BY <1>1, <1>2, SameCommands
    DEF Return, Service!Leave, NoRequest, NoAnswer, NoResult,
        Service!NoRequest, Service!NoAnswer, Service!NoResult

\* The other steps change nothing the service speaks of.
LEMMA OthersStutter ==
  ASSUME IInv, NEW t \in Threads,
         \/ AcquireLock(t) \/ BuildCommand(t) \/ EnterBackdoor(t)
         \/ SendLength(t) \/ GetLength(t) \/ GetData(t) \/ Ack(t) \/ Refused(t)
  PROVE  UNCHANGED Service!vars
  <1>1. UNCHANGED <<req, answer, result>>
    BY DEF AcquireLock, BuildCommand, EnterBackdoor, SendLength, GetLength,
           GetData, Ack, Refused
  <1>2. /\ pc[t] \notin {"idle", "returned"}
        /\ \E l \in Locations \ {"idle", "returned"} : pc' = [pc EXCEPT ![t] = l]
    BY DEF AcquireLock, BuildCommand, EnterBackdoor, SendLength, GetLength,
           GetData, Ack, Refused, Go, Locations
  <1>3. phase' = phase
    BY <1>1, <1>2 DEF phase, IInv, TypeOK
  <1> QED BY <1>1, <1>3 DEF Service!vars

LEMMA StepImplements == IInv /\ [Next]_vars => [Service!Next]_(Service!vars)
  <1> SUFFICES ASSUME IInv, [Next]_vars PROVE [Service!Next]_(Service!vars)
    OBVIOUS
  <1>1. CASE UNCHANGED vars
    BY <1>1 DEF vars, Service!vars, phase
  <1>2. ASSUME NEW t \in Threads, Call(t) \/ Step(t)
        PROVE  [Service!Next]_(Service!vars)
    BY <1>2, CallImplements, TooLongImplements, FaultWhileBuildingImplements,
       ExecuteImplements, FinishImplements, FaultWhileCopyingImplements,
       LeaveImplements, OthersStutter
    DEF Step, Service!Next
  <1> QED BY <1>1, <1>2 DEF Next

\* The methods of VMWSharedFolders, called from any number of threads, implement
\* CommandService: a call is executed at most once, never if it does not fit,
\* and returns a transport failure or the outcome of the answer to that call.
THEOREM Refinement == Spec => ImplementsService
  BY InitImplements, StepImplements, Invariance, PTL
  DEF Spec, ImplementsService, Service!Spec
=============================================================================
