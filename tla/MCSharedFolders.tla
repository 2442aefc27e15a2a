-------------------------- MODULE MCSharedFolders --------------------------
(***************************************************************************)
(* Instances of SharedFolders for TLC.  maxIOSize is IO_SIZE of vmwfs.h.   *)
(***************************************************************************)
EXTENDS SharedFolders

IO_SIZE == 4096

Request(c, n) == [command |-> c, size |-> n]
Answer(ok, l, s, v) == [ok |-> ok, length |-> l, status |-> s, value |-> v]

\* A request for each way a method reads its reply, the longest data there and
\* back, and more than the buffer has room for.
SomeRequests ==
  {Request(c, 6) : c \in {"OpenFile", "GetAttributes", "Delete"}}
    \cup {Request("ReadFile", IO_SIZE + n) : n \in {0, 1, 13}}
    \cup {Request("WriteFile", IO_SIZE), Request("ReadDir", 256), Request("CloseFile", 0)}

\* A reply of each length a method tests for, with a status and a value; a
\* refusal; a file and a name that just fit; and the two lengths at the end of
\* the buffer.
SomeAnswers ==
  {Answer(TRUE, 10, 0, 0), Answer(TRUE, 14, 4, 3), Answer(FALSE, 55, 0, 1), Answer(TRUE, 55, 0, 1),
   Answer(TRUE, 14 + IO_SIZE, 0, IO_SIZE), Answer(TRUE, 59 + 255, 0, 255),
   Answer(TRUE, IO_SIZE + 27, 0, IO_SIZE + 13), Answer(TRUE, IO_SIZE + 28, 0, IO_SIZE)}
=============================================================================
