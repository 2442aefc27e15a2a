------------------------------- MODULE FileIO -------------------------------
(***************************************************************************)
(* The cookies of the shared-folder file system: files and directories     *)
(* that are open, the handles the host gave for them, the chunks a read or *)
(* write is cut into, and the entry a listing has come to.                 *)
(*                                                                         *)
(* A thread that uses a cookie is stopped between two chunks, and between  *)
(* reading and incrementing the index of a listing, so that others come    *)
(* between.  A command is one step: SharedFolders shows that it is one for *)
(* its caller.  Bytes are counted, and their origin is what a read or a    *)
(* write is judged by (moved, right).                                      *)
(*                                                                         *)
(* External: the host, which answers a read with no byte when the file     *)
(* ends and may send fewer than were asked for before, may take less of a  *)
(* write than it was sent, may refuse any command, and may give a closed   *)
(* handle's number to the next file it opens; and the VFS, which calls     *)
(* close when the last descriptor is closed, even while a thread reads,    *)
(* and free_cookie when none does.                                         *)
(***************************************************************************)
EXTENDS Integers, Sequences, FiniteSets

CONSTANTS
  Threads, Cookies,
  Handles,          \* handle numbers of the host
  rootHandle,       \* (file_handle)(-1), of the root opened as a file
  Files,            \* files of the host
  IO_SIZE,          \* bytes in a chunk
  MaxLength,        \* longest read or write
  MaxEntries,       \* names in the listed directory
  MaxOthers         \* calls under way when a transfer joins them, transfers when a listing does

ASSUME FileIOAssumption ==
  /\ rootHandle \notin Handles
  /\ Files \cap {"directory", "root", "shut"} = {}
  /\ IO_SIZE \in Nat \ {0}
  /\ {MaxLength, MaxEntries, MaxOthers} \subseteq Nat

VARIABLES
  opened,      \* host: the file or directory of each open handle
  entries,     \* host: the listed directory
  cookie,      \* what each cookie holds
  call,        \* what each thread is doing
  lost         \* handles that no cookie will ever close

vars == <<opened, entries, cookie, call, lost>>
host == <<opened, entries>>

Directory == "directory"
Shut == "shut"            \* a handle that is not open
Open(h) == h \in Handles /\ opened[h] # Shut

\* A listing's history: how many of the directory's entries it has returned, in
\* order and without a gap; or that it did otherwise (Wrong); or that the directory
\* changed or two calls overlapped meanwhile (Excused).
Excused == -1
Wrong == -2

NoCookie == [state |-> "none"]
FileCookie(h, f) == [state |-> "open", of |-> f, handle |-> h]
DirCookie(h) == [state |-> "open", of |-> Directory, handle |-> h,
                 index |-> 0, seen |-> 0]

FileCookies ==
  [state : {"open", "closed"}, of : Files \cup {"root"}, handle : Handles \cup {rootHandle}]
DirCookies ==
  [state : {"open", "closed"}, of : {Directory}, handle : Handles, index : Nat,
   seen : 0 .. MaxEntries \cup {Excused, Wrong}]

Idle == [op |-> "idle"]

TransferCalls ==
  [op : {"read", "write"}, c : Cookies, length : Nat, done : Nat, moved : Nat,
   right : BOOLEAN, status : {"ok", "error"}, over : BOOLEAN, atEnd : BOOLEAN]
ListingCalls == [op : {"read_dir"}, c : Cookies, entry : 0 .. MaxEntries]

TypeOK ==
  /\ opened \in [Handles -> Files \cup {Directory, Shut}]
  /\ entries \in Seq(1 .. MaxEntries)
  /\ cookie \in [Cookies -> {NoCookie} \cup FileCookies \cup DirCookies]
  /\ call \in [Threads -> {Idle} \cup TransferCalls \cup ListingCalls]
  /\ lost \subseteq Handles
  /\ \A t \in Threads : call[t].op \in {"read", "write"} => call[t].done <= call[t].length

Init ==
  /\ opened = [h \in Handles |-> Shut]
  /\ entries = [i \in 1 .. MaxEntries |-> i]
  /\ cookie = [c \in Cookies |-> NoCookie]
  /\ call = [t \in Threads |-> Idle]
  /\ lost = {}

Transfers(t) == call[t].op \in {"read", "write"}
Busy(c) == \E t \in Threads : call[t].op = "read_dir" /\ call[t].c = c
Uses(t, c) == call[t] # Idle /\ call[t].c = c
Is(c, state) == cookie[c].state = state
IsFile(c) == Is(c, "open") /\ cookie[c].of # Directory
IsDir(c) == Is(c, "open") /\ cookie[c].of = Directory
Put(c, k) == cookie' = [cookie EXCEPT ![c] = k]
Do(t, r) == call' = [call EXCEPT ![t] = r]

-----------------------------------------------------------------------------
(* The host.                                                               *)

\* The host opens f: any number that is not in use.
Grants(h, f) ==
  /\ opened[h] = Shut
  /\ opened' = [opened EXCEPT ![h] = f]
  /\ UNCHANGED entries

\* Somebody on the host removes the first entry.
HostChangesDir ==
  /\ Len(entries) = MaxEntries
  /\ entries' = Tail(entries)
  /\ cookie' = [c \in Cookies |->
                  IF ~Is(c, "none") /\ cookie[c].of = Directory
                  THEN [cookie[c] EXCEPT !.seen = Excused] ELSE cookie[c]]
  /\ UNCHANGED <<opened, call, lost>>

-----------------------------------------------------------------------------
(* open, create, open_dir: a hook that fails leaves nothing behind, except *)
(* create, whose get_vnode comes after the file is open.                   *)

OpenHook(c) ==
  /\ Is(c, "none")
  /\ \E h \in Handles, f \in Files : Grants(h, f) /\ Put(c, FileCookie(h, f))
  /\ UNCHANGED <<call, lost>>

\* The root can be opened as a file; no command is sent.
OpenRoot(c) ==
  /\ Is(c, "none")
  /\ Put(c, FileCookie(rootHandle, "root"))
  /\ UNCHANGED <<host, call, lost>>

OpenDirHook(c) ==
  /\ Is(c, "none")
  /\ \E h \in Handles : Grants(h, Directory) /\ Put(c, DirCookie(h))
  /\ UNCHANGED <<call, lost>>

Create(c) ==
  /\ Is(c, "none")
  /\ \E h \in Handles, f \in Files :
       /\ Grants(h, f)
       /\ \/ Put(c, FileCookie(h, f)) /\ UNCHANGED lost
          \/ lost' = lost \cup {h} /\ UNCHANGED cookie
  /\ UNCHANGED call

-----------------------------------------------------------------------------
(* close, close_dir, free_cookie and free_dir_cookie.                      *)

\* CloseFile or CloseDir: executed by the host, or refused.
CloseHandle(h) ==
  \/ opened' = [opened EXCEPT ![h] = Shut] /\ UNCHANGED lost
  \/ lost' = lost \cup {h} /\ UNCHANGED opened

\* Mutant: the root's handle is closed like the others.
Close_RootToo(c) ==
  /\ Is(c, "open")
  /\ cookie' = [cookie EXCEPT ![c].state = "closed"]
  /\ CloseHandle(cookie[c].handle)
  /\ UNCHANGED <<entries, call>>

Close(c) ==
  /\ Is(c, "open")
  /\ cookie' = [cookie EXCEPT ![c].state = "closed"]
  /\ IF cookie[c].handle = rootHandle THEN UNCHANGED <<opened, lost>> ELSE CloseHandle(cookie[c].handle)
  /\ UNCHANGED <<entries, call>>

\* Mutant: the handle is closed here once more.
FreeCookie_ClosesToo(c) ==
  /\ Is(c, "closed")
  /\ \A t \in Threads : ~Uses(t, c)
  /\ Put(c, NoCookie)
  /\ IF cookie[c].handle = rootHandle THEN UNCHANGED <<opened, lost>> ELSE CloseHandle(cookie[c].handle)
  /\ UNCHANGED <<entries, call>>

FreeCookie(c) ==
  /\ Is(c, "closed")
  /\ \A t \in Threads : ~Uses(t, c)
  /\ Put(c, NoCookie)
  /\ UNCHANGED <<host, call, lost>>

-----------------------------------------------------------------------------
(* read and write: chunk after chunk.                                      *)

Least(a, b) == IF a < b THEN a ELSE b

\* Bound: MaxOthers, which may be 0: transfers and listings have nothing in common
\* but handles, which closing and opening already changes.  Offsets count from the
\* caller's pos; a negative pos is refused without a command.
Begin(t, c) ==
  /\ call[t] = Idle /\ IsFile(c)
  /\ Cardinality({u \in Threads : call[u] # Idle}) <= MaxOthers
  /\ \E op \in {"read", "write"}, length \in 0 .. MaxLength :
       Do(t, [op |-> op, c |-> c, length |-> length, done |-> 0,
              moved |-> 0, right |-> TRUE, status |-> "ok",
              over |-> op = "write" /\ length = 0, atEnd |-> FALSE])
  /\ UNCHANGED <<host, cookie, lost>>

\* The next chunk of r: how much, and where in the file.
Wanted(r) == Least(r.length - r.done, IO_SIZE)
Offset(r) == r.done

\* n more bytes went over, between the offset and the place in the buffer that
\* the code gave.
Moves(r, n, f) ==
  [r EXCEPT !.done = @ + n, !.moved = @ + n,
            !.right = @ /\ (n > 0 => f = cookie[r.c].of /\ Offset(r) = r.moved)]

OfFile(h) == Open(h) /\ opened[h] # Directory

\* Where the file ends it goes on ending while the call lasts.
Sent(r) == IF r.atEnd THEN {0} ELSE 0 .. Wanted(r)

\* Mutant: a chunk shorter than asked for is taken for the end.
ReadChunk_StopsShort(t) ==
  LET r == call[t]  h == cookie[r.c].handle
  IN  /\ r.op = "read" /\ ~r.over
      /\ OfFile(h)
      /\ \E n \in Sent(r) :
           Do(t, [Moves(r, n, opened[h]) EXCEPT !.over = n < Wanted(r) \/ r.done + n >= r.length,
                                                 !.atEnd = n = 0])
      /\ UNCHANGED <<host, cookie, lost>>

\* Mutant: the end of the file does not end the loop.
ReadChunk_NoEnd(t) ==
  LET r == call[t]  h == cookie[r.c].handle
  IN  /\ r.op = "read" /\ ~r.over
      /\ OfFile(h)
      /\ \E n \in Sent(r) :
           Do(t, [Moves(r, n, opened[h]) EXCEPT !.over = r.done + n >= r.length, !.atEnd = n = 0])
      /\ UNCHANGED <<host, cookie, lost>>

\* toRead == 0 means EOF.
ReadChunk(t) ==
  LET r == call[t]  h == cookie[r.c].handle
  IN  /\ r.op = "read" /\ ~r.over
      /\ OfFile(h)
      /\ \E n \in Sent(r) :
           Do(t, [Moves(r, n, opened[h]) EXCEPT !.over = n = 0 \/ r.done + n >= r.length,
                                                 !.atEnd = n = 0])
      /\ UNCHANGED <<host, cookie, lost>>

WriteChunk(t) ==
  LET r == call[t]  h == cookie[r.c].handle
  IN  /\ r.op = "write" /\ ~r.over
      /\ OfFile(h)
      /\ \E n \in 0 .. Wanted(r) :
           Do(t, [Moves(r, n, opened[h]) EXCEPT !.over = r.done + n >= r.length])
      /\ UNCHANGED <<host, cookie, lost>>

\* The command is refused, or its handle is not open, or the caller's memory
\* faults.  toRead and toWrite are then what they were set to before, or, for a
\* fault and a failed write, what the host said, and are counted all the same.
ChunkFails(t) ==
  LET r == call[t]
  IN  /\ Transfers(t) /\ ~r.over
      /\ \E n \in (IF r.op = "read" THEN Least(1, Wanted(r)) ELSE 0) .. Wanted(r) :
           Do(t, [r EXCEPT !.done = @ + n, !.status = "error", !.over = TRUE])
      /\ UNCHANGED <<host, cookie, lost>>

RefusesShutHandle(t) ==
  Transfers(t) /\ ~OfFile(cookie[call[t].c].handle) /\ ChunkFails(t)

Return(t) ==
  /\ Transfers(t) /\ call[t].over
  /\ Do(t, Idle)
  /\ UNCHANGED <<host, cookie, lost>>

-----------------------------------------------------------------------------
(* read_dir and rewind_dir.  A read_dir that fails leaves everything alone. *)

\* ReadDir asks for the entry at the cookie's index; entry 0 is the end.
ReadDirEntry(t, c) ==
  /\ call[t] = Idle /\ IsDir(c)
  /\ Cardinality({u \in Threads : Transfers(u)}) <= MaxOthers
  /\ LET i == cookie[c].index + 1
     IN  Do(t, [op |-> "read_dir", c |-> c, entry |-> IF i <= Len(entries) THEN entries[i] ELSE 0])
  /\ cookie' = [cookie EXCEPT ![c].seen = IF Busy(c) THEN Excused ELSE @]
  /\ UNCHANGED <<host, lost>>

\* The entry is copied to the caller: the next call will ask for the next one.
NextEntry(t) ==
  /\ call[t].op = "read_dir"
  /\ LET c == call[t].c
     IN  IF call[t].entry = 0 THEN UNCHANGED cookie
         ELSE cookie' = [cookie EXCEPT ![c].index = @ + 1,
                                       ![c].seen = CASE @ = Excused -> Excused
                                                     [] @ >= 0 /\ call[t].entry = entries[@ + 1] -> @ + 1
                                                     [] OTHER -> Wrong]
  /\ Do(t, Idle)
  /\ UNCHANGED <<host, lost>>

\* Mutant: a fault moves on to the next entry.
EntryFaults_MovesOn(t) ==
  /\ call[t].op = "read_dir" /\ call[t].entry # 0
  /\ cookie' = [cookie EXCEPT ![call[t].c].index = @ + 1]
  /\ Do(t, Idle)
  /\ UNCHANGED <<host, lost>>

\* The copy faults.
EntryFaults(t) ==
  /\ call[t].op = "read_dir" /\ call[t].entry # 0
  /\ Do(t, Idle)
  /\ UNCHANGED <<host, cookie, lost>>

RewindDir(c) ==
  /\ IsDir(c)
  /\ cookie' = [cookie EXCEPT ![c].index = 0, ![c].seen = IF Busy(c) THEN Excused ELSE 0]
  /\ UNCHANGED <<host, call, lost>>

-----------------------------------------------------------------------------
CookieStep(c) ==
  \/ OpenHook(c) \/ OpenRoot(c) \/ OpenDirHook(c) \/ Create(c)
  \/ Close(c) \/ FreeCookie(c) \/ RewindDir(c)

Progress(t) == ReadChunk(t) \/ WriteChunk(t) \/ ChunkFails(t) \/ Return(t)

ThreadStep(t) ==
  \/ \E c \in Cookies : Begin(t, c) \/ ReadDirEntry(t, c)
  \/ Progress(t)
  \/ NextEntry(t) \/ EntryFaults(t)

Next ==
  \/ \E c \in Cookies : CookieStep(c)
  \/ \E t \in Threads : ThreadStep(t)
  \/ HostChangesDir

Spec == Init /\ [][Next]_vars

\* A chunk is one command, which returns.  Assumed of the host: it does not
\* answer a write for ever that it took nothing, for which the loop has no exit;
\* and it refuses the commands on a handle that is not open.
FairSpec ==
  Spec /\ \A t \in Threads :
            WF_vars(ReadChunk(t) \/ WriteChunk(t) \/ RefusesShutHandle(t) \/ Return(t))

-----------------------------------------------------------------------------
(* Properties.                                                             *)

\* Every handle that is open on the host is in one cookie, which will close it
\* and names the file it was opened for, or has been given up: by a create whose
\* get_vnode failed, or by a close the host refused.  So no hook closes another
\* cookie's handle, nor forgets one on another way.
HandlesHaveOneOwner ==
  LET Owned == {c \in Cookies : Is(c, "open") /\ cookie[c].handle # rootHandle}
  IN  /\ {h \in Handles : Open(h)} = lost \cup {cookie[c].handle : c \in Owned}
      /\ \A c \in Owned : cookie[c].handle \notin lost /\ opened[cookie[c].handle] = cookie[c].of
      /\ \A c, d \in Owned : cookie[c].handle = cookie[d].handle => c = d

\* A read or write that returns B_OK has moved the bytes it says, all of them in
\* place in the file that was opened, whatever pieces the host took; it is
\* shorter than asked only when a read came to the end of the file.  One during
\* which the file was closed is not promised anything: its later chunks may go to
\* another file, which got the same handle.
TransfersWhatItSays ==
  \A t \in Threads : Transfers(t) /\ call[t].over /\ Is(call[t].c, "open") =>
    LET r == call[t]
    IN  /\ r.right /\ r.done <= r.length
        /\ r.status = "ok" =>
             /\ r.moved = r.done
             /\ r.done = r.length \/ (r.op = "read" /\ r.atEnd)

\* A listing that has come to the end has returned every entry once, in order,
\* whatever calls failed on the way, if the host did not change the directory and
\* no two calls on the cookie overlapped since it began.
ListingIsWhole ==
  \A t \in Threads : call[t].op = "read_dir" /\ call[t].entry = 0 =>
    cookie[call[t].c].seen \in {Excused, Len(entries)}

\* A read or write returns, however small the pieces the host takes.
EveryTransferReturns == \A t \in Threads : Transfers(t) ~> call[t] = Idle
=============================================================================
