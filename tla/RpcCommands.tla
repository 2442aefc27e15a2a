---------------------------- MODULE RpcCommands ----------------------------
(***************************************************************************)
(* The commands VMWSharedFolders sends to the host's shared-folder server, *)
(* as data: how long each command is, which requests are refused before    *)
(* anything is sent, and what each method makes of the host's answer.      *)
(*                                                                         *)
(* A request is a command and its size: the bytes of its path (of its two  *)
(* paths for Move), the bytes to read or write, or the room for the name   *)
(* ReadDir is given.  An answer is the host's reply: whether its first     *)
(* byte is '1', its length, the 32-bit status at offset 6, and the 32-bit  *)
(* value the command looks at (the handle, or a number of bytes).          *)
(***************************************************************************)
EXTENDS Integers

CONSTANTS
  maxIOSize,       \* the constructor's argument: IO_SIZE at the only call
  Requests,        \* the requests made of the class
  Answers          \* the replies the host may give

\* A method: the bytes of its command that do not depend on its arguments (the
\* magic, the command number, the arguments of fixed size and the null that
\* ends each path); what it carries besides; and how it reads the reply.
\*   "path", "data"  the command is longer by the request's size
\*   "asked"         the reply may be, and the same buffer receives it
\*   "nothing"       the length is not checked
Method(fixed, carries, reply) ==
  [fixed |-> fixed, carries |-> carries, reply |-> reply]

OpenFile == Method(24, "path", "value")
ReadFile == Method(26, "asked", "bytes")
WriteFile == Method(27, "data", "value")
CloseFile == Method(14, "nothing", "none")
OpenDir == Method(15, "path", "value")
ReadDir == Method(18, "nothing", "entry")
CloseDir == Method(14, "nothing", "none")
GetAttributes == Method(15, "path", "attributes")
SetAttributes == Method(61, "path", "status")
CreateDir == Method(16, "path", "status")
Delete == Method(15, "path", "status")
Move == Method(20, "path", "status")

Methods ==
  [OpenFile |-> OpenFile, ReadFile |-> ReadFile, WriteFile |-> WriteFile,
   CloseFile |-> CloseFile, OpenDir |-> OpenDir, ReadDir |-> ReadDir,
   CloseDir |-> CloseDir, GetAttributes |-> GetAttributes,
   SetAttributes |-> SetAttributes, CreateDir |-> CreateDir, Delete |-> Delete,
   Move |-> Move]

Commands == DOMAIN Methods

ASSUME SizeAssumption == maxIOSize \in Nat

ASSUME RequestsAssumption == Requests \subseteq [command : Commands, size : Nat]

ASSUME AnswersAssumption ==
  Answers \subseteq [ok : BOOLEAN, length : Nat, status : Nat, value : Nat]

-----------------------------------------------------------------------------

CommandLength(r) ==
  Methods[r.command].fixed
    + (IF Methods[r.command].carries \in {"path", "data"} THEN r.size ELSE 0)

\* Room for the longest command header (that of WriteFile) and its data.
fRPCBufferSize == maxIOSize + 27

\* Mutant: ReadFile checks its command only, not the bytes that come back.
FitsBuffer_CommandOnly(r) ==
  \/ Methods[r.command].carries = "nothing"
  \/ CommandLength(r) <= fRPCBufferSize

\* The check each method makes before it takes the lock.  ReadFile counts the
\* bytes it asks for; CloseFile, CloseDir and ReadDir check nothing.
FitsBuffer(r) ==
  \/ Methods[r.command].carries = "nothing"
  \/ Methods[r.command].fixed + r.size <= fRPCBufferSize

-----------------------------------------------------------------------------

ConvertStatus(s) ==
  CASE s \in {0, 10} -> "B_OK"
    [] s = 1 -> "B_ENTRY_NOT_FOUND"
    [] s = 3 -> "B_PERMISSION_DENIED"
    [] s = 4 -> "B_FILE_EXISTS"
    [] s = 6 -> "B_DIRECTORY_NOT_EMPTY"
    [] s = 8 -> "B_NAME_IN_USE"
    [] OTHER -> "B_ERROR"

NoValue == -1

Outcome(status, value) == [status |-> status, value |-> value]

\* ReadFile: only the bytes asked for may come back.
ReadFileResult(r, length, a) ==
  IF length < 14 THEN Outcome("B_ERROR", NoValue)
  ELSE IF ConvertStatus(a.status) # "B_OK"
    THEN Outcome(ConvertStatus(a.status), NoValue)
  ELSE IF a.value > r.size THEN Outcome("B_BUFFER_OVERFLOW", NoValue)
  ELSE Outcome("B_OK", a.value)

\* ReadDir looks at the length of the name only: an empty name is the end of
\* the directory.  The room less one is unsigned: no room at all is no limit.
ReadDirResult(r, length, a) ==
  IF length < 59 THEN Outcome("B_ERROR", NoValue)
  ELSE IF a.value = 0 THEN Outcome("B_ENTRY_NOT_FOUND", NoValue)
  ELSE IF r.size > 0 /\ a.value > r.size - 1
    THEN Outcome("B_BUFFER_OVERFLOW", NoValue)
  ELSE Outcome("B_OK", a.value)

\* A reply of 10 bytes holds a status and no attributes.
GetAttributesResult(length, a) ==
  CASE length = 10 -> Outcome("B_ENTRY_NOT_FOUND", NoValue)
    [] length = 55 /\ ConvertStatus(a.status) = "B_OK" -> Outcome("B_OK", a.value)
    [] length = 55 /\ ConvertStatus(a.status) # "B_OK"
         -> Outcome(ConvertStatus(a.status), NoValue)
    [] OTHER -> Outcome("B_ERROR", NoValue)

\* OpenFile, OpenDir and WriteFile store the handle or the length whatever the
\* status is.
ValueResult(length, a) ==
  IF length # 14 THEN Outcome("B_ERROR", NoValue)
  ELSE Outcome(ConvertStatus(a.status), a.value)

StatusResult(length, a) ==
  IF length # 10 THEN Outcome("B_ERROR", NoValue)
  ELSE Outcome(ConvertStatus(a.status), NoValue)

\* What the method returns for a reply SendAndGet reported as B_OK.
MethodResult(r, length, a) ==
  LET reply == Methods[r.command].reply
  IN  CASE reply = "value" -> ValueResult(length, a)
        [] reply = "bytes" -> ReadFileResult(r, length, a)
        [] reply = "entry" -> ReadDirResult(r, length, a)
        [] reply = "attributes" -> GetAttributesResult(length, a)
        [] reply = "status" -> StatusResult(length, a)
        [] reply = "none" -> Outcome("B_OK", NoValue)

Statuses ==
  {"B_OK", "B_ERROR", "B_ENTRY_NOT_FOUND", "B_PERMISSION_DENIED",
   "B_FILE_EXISTS", "B_DIRECTORY_NOT_EMPTY", "B_NAME_IN_USE",
   "B_BUFFER_OVERFLOW", "B_BAD_ADDRESS"}

Outcomes == [status : Statuses, value : Nat \cup {NoValue}]

\* The length of the reply to r that an implementation of the protocol sends:
\* status alone, status and value, the bytes read, one directory entry, or the
\* attributes.  A failed command may always be answered by its status alone.
ProtocolReply(r, a) ==
  LET reply == Methods[r.command].reply
  IN  \/ a.length = 10
      \/ reply = "value" /\ a.length = 14
      \/ reply = "bytes" /\ a.value <= r.size /\ a.length = 14 + a.value
      \/ reply = "entry" /\ a.value <= 255 /\ a.length = 59 + a.value
      \/ reply = "attributes" /\ a.length = 55
=============================================================================
