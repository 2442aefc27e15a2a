----------------------------- MODULE FileIO_proof -----------------------------
(***************************************************************************)
(* Handles, transfers and listings for any threads, cookies and handles,   *)
(* any chunk size and any length.                                          *)
(***************************************************************************)
EXTENDS FileIO, SequenceTheorems, TLAPS

\* A call uses a cookie of its kind, which is not freed under it.
CookiesInUse ==
  \A t \in Threads :
    /\ call[t] \in TransferCalls => cookie[call[t].c] \in FileCookies
    /\ call[t] \in ListingCalls => cookie[call[t].c] \in DirCookies

\* What is known of a transfer between two chunks, while its file is open.
InPlace(r) ==
  /\ ~r.over => r.status = "ok"
  /\ r.done <= r.length
  /\ cookie[r.c].state = "open" =>
       /\ r.right
       /\ r.status = "ok" => r.moved = r.done
       /\ r.status = "ok" /\ r.over => r.done = r.length \/ (r.op = "read" /\ r.atEnd)

TransfersInPlace == \A t \in Threads : call[t] \in TransferCalls => InPlace(call[t])

\* The entry at a place of the directory, 0 after the last.
EntryAt(i) == IF i <= Len(entries) THEN entries[i] ELSE 0

\* A listing that is not excused has one call at a time, which has read the entry
\* after those returned.
ListingsInOrder ==
  /\ Len(entries) <= MaxEntries
  /\ \A c \in Cookies :
       cookie[c] \in DirCookies /\ cookie[c].seen # Excused =>
         cookie[c].seen = cookie[c].index /\ cookie[c].index <= Len(entries)
  /\ \A t \in Threads :
       call[t] \in ListingCalls /\ cookie[call[t].c].seen # Excused =>
         /\ call[t].entry = EntryAt(cookie[call[t].c].index + 1)
         /\ \A u \in Threads : call[u] \in ListingCalls /\ call[u].c = call[t].c => u = t

IInv == TypeOK /\ HandlesHaveOneOwner /\ CookiesInUse /\ TransfersInPlace /\ ListingsInOrder

-----------------------------------------------------------------------------
(* Kinds of cookies and calls.                                             *)

LEMMA CallKinds ==
  ASSUME TypeOK, NEW t \in Threads
  PROVE  /\ call[t] = Idle \/ call[t] \in TransferCalls \/ call[t] \in ListingCalls
         /\ call[t].op = "idle" <=> call[t] = Idle
         /\ call[t].op \in {"read", "write"} <=> call[t] \in TransferCalls
         /\ call[t].op = "read_dir" <=> call[t] \in ListingCalls
  BY DEF TypeOK, Idle, TransferCalls, ListingCalls

LEMMA IdleIsNoCall == Idle \notin TransferCalls /\ Idle \notin ListingCalls
  BY DEF Idle, TransferCalls, ListingCalls

LEMMA CallsDiffer == ASSUME NEW r \in TransferCalls PROVE r \notin ListingCalls
  BY DEF TransferCalls, ListingCalls

LEMMA CookieKinds ==
  ASSUME TypeOK, NEW c \in Cookies
  PROVE  /\ cookie[c] = NoCookie \/ cookie[c] \in FileCookies \/ cookie[c] \in DirCookies
         /\ cookie[c].state = "none" <=> cookie[c] = NoCookie
  BY DEF TypeOK, NoCookie, FileCookies, DirCookies

LEMMA CookiesDiffer ==
  /\ NoCookie \notin FileCookies /\ NoCookie \notin DirCookies
  /\ \A k \in FileCookies : k \notin DirCookies /\ k.of # Directory
  /\ \A k \in DirCookies : k.of = Directory /\ k.handle \in Handles
  BY FileIOAssumption DEF NoCookie, FileCookies, DirCookies, Directory

-----------------------------------------------------------------------------
(* Steps of a call that leave the cookies alone.                           *)

LEMMA CallEnds ==
  ASSUME IInv, NEW t \in Threads, Do(t, Idle), UNCHANGED <<host, cookie, lost>>
  PROVE  IInv'
  <1> USE DEF host
  <1>1. call'[t] = Idle /\ \A u \in Threads \ {t} : call'[u] = call[u]
    BY DEF Do, IInv, TypeOK
  <1>2. TypeOK'
    BY <1>1, IdleIsNoCall DEF IInv, TypeOK, Do, Idle
  <1>3. HandlesHaveOneOwner'
    BY DEF IInv, HandlesHaveOneOwner, Open, Is
  <1>4. CookiesInUse' /\ TransfersInPlace'
    BY <1>1, IdleIsNoCall DEF IInv, CookiesInUse, TransfersInPlace, InPlace
  <1>5. ListingsInOrder'
    BY <1>1, IdleIsNoCall DEF IInv, ListingsInOrder, EntryAt
  <1> QED BY <1>2, <1>3, <1>4, <1>5 DEF IInv

\* A transfer begins, or goes on.
LEMMA TransferGoesOn ==
  ASSUME IInv, NEW t \in Threads, NEW r \in TransferCalls, Do(t, r),
         UNCHANGED <<host, cookie, lost>>,
         cookie[r.c] \in FileCookies, InPlace(r)
  PROVE  IInv'
  <1> USE DEF host
  <1>1. call'[t] = r /\ \A u \in Threads \ {t} : call'[u] = call[u]
    BY DEF Do, IInv, TypeOK
  <1>2. TypeOK'
    <2>1. call' \in [Threads -> {Idle} \cup TransferCalls \cup ListingCalls]
      BY DEF Do, IInv, TypeOK
    <2> QED BY <1>1, <2>1 DEF IInv, TypeOK, InPlace
  <1>3. HandlesHaveOneOwner'
    BY DEF IInv, HandlesHaveOneOwner, Open, Is
  <1>4. CookiesInUse' /\ TransfersInPlace'
    BY <1>1, CallsDiffer DEF IInv, CookiesInUse, TransfersInPlace, InPlace
  <1>5. ListingsInOrder'
    BY <1>1, CallsDiffer DEF IInv, ListingsInOrder, EntryAt
  <1> QED BY <1>2, <1>3, <1>4, <1>5 DEF IInv

LEMMA BeginPreserves ==
  ASSUME IInv, NEW t \in Threads, NEW c \in Cookies, Begin(t, c)
  PROVE  IInv'
  <1>1. PICK op \in {"read", "write"}, length \in 0 .. MaxLength :
          Do(t, [op |-> op, c |-> c, length |-> length, done |-> 0,
                 moved |-> 0, right |-> TRUE, status |-> "ok",
                 over |-> op = "write" /\ length = 0, atEnd |-> FALSE])
    BY DEF Begin
  <1> DEFINE r == [op |-> op, c |-> c, length |-> length, done |-> 0,
                   moved |-> 0, right |-> TRUE, status |-> "ok",
                   over |-> op = "write" /\ length = 0, atEnd |-> FALSE]
  <1>2. r \in TransferCalls
    BY FileIOAssumption DEF TransferCalls
  <1>3. cookie[c] \in FileCookies
    BY CookieKinds, CookiesDiffer DEF Begin, IsFile, Is, IInv, NoCookie
  <1>4. InPlace(r)
    <2>1. /\ r.c = c /\ r.op = op /\ r.length = length /\ r.done = 0 /\ r.moved = 0
          /\ r.right /\ r.status = "ok" /\ (r.over <=> op = "write" /\ length = 0)
      OBVIOUS
    <2> HIDE DEF r
    <2> QED BY <2>1 DEF InPlace
  <1>5. UNCHANGED <<host, cookie, lost>>
    BY DEF Begin
  <1> QED BY <1>1, <1>2, <1>3, <1>4, <1>5, TransferGoesOn

\* The chunk of a transfer that goes on, and the file that its handle is open for.
LEMMA Chunk ==
  ASSUME IInv, NEW t \in Threads, Transfers(t), ~call[t].over
  PROVE  /\ call[t] \in TransferCalls /\ cookie[call[t].c] \in FileCookies
         /\ call[t].c \in Cookies
         /\ call[t].done \in Nat /\ call[t].length \in Nat /\ call[t].done <= call[t].length
         /\ call[t].status = "ok" /\ InPlace(call[t])
         /\ Wanted(call[t]) \in Nat /\ call[t].done + Wanted(call[t]) <= call[t].length
         /\ cookie[call[t].c].state = "open" /\ OfFile(cookie[call[t].c].handle) =>
              opened[cookie[call[t].c].handle] = cookie[call[t].c].of
  <1>1. call[t] \in TransferCalls
    BY CallKinds DEF IInv, Transfers
  <1>2. cookie[call[t].c] \in FileCookies /\ call[t].c \in Cookies
    BY <1>1 DEF IInv, CookiesInUse, TransferCalls
  <1>3. InPlace(call[t])
    BY <1>1 DEF IInv, TransfersInPlace
  <1>4. /\ call[t].done \in Nat /\ call[t].length \in Nat
        /\ call[t].done <= call[t].length /\ call[t].status = "ok"
    BY <1>1, <1>3 DEF TransferCalls, InPlace
  <1>5. Wanted(call[t]) \in Nat /\ call[t].done + Wanted(call[t]) <= call[t].length
    BY <1>4, FileIOAssumption DEF Wanted, Least
  <1>6. ASSUME cookie[call[t].c].state = "open", OfFile(cookie[call[t].c].handle)
        PROVE  opened[cookie[call[t].c].handle] = cookie[call[t].c].of
    <2>1. cookie[call[t].c].handle \in Handles
      BY <1>6 DEF OfFile, Open
    <2>2. cookie[call[t].c].handle # rootHandle
      BY <2>1, FileIOAssumption
    <2> QED BY <1>2, <1>6, <2>2 DEF IInv, HandlesHaveOneOwner, Is
  <1> QED BY <1>1, <1>2, <1>3, <1>4, <1>5, <1>6


\* What Moves and the marking of the end change in a transfer.
LEMMA Moved ==
  ASSUME NEW r \in TransferCalls, NEW n \in Nat, NEW f
  PROVE  LET q == Moves(r, n, f)
         IN  /\ q \in TransferCalls
             /\ q.op = r.op /\ q.c = r.c /\ q.length = r.length
             /\ q.status = r.status /\ q.over = r.over /\ q.atEnd = r.atEnd
             /\ q.done = r.done + n /\ q.moved = r.moved + n
             /\ q.right <=> r.right /\ (n > 0 => f = cookie[r.c].of /\ r.done = r.moved)
  <1> DEFINE b == r.right /\ (n > 0 => f = cookie[r.c].of /\ r.done = r.moved)
             q(d, m, x) == [r EXCEPT !.done = d, !.moved = m, !.right = x]
  <1>1. Moves(r, n, f) = q(r.done + n, r.moved + n, b)
    BY DEF Moves, Offset
  <1>2. r.done + n \in Nat /\ r.moved + n \in Nat /\ b \in BOOLEAN
    BY DEF TransferCalls
  <1>3. ASSUME NEW d \in Nat, NEW m \in Nat, NEW x \in BOOLEAN
        PROVE  /\ q(d, m, x) \in TransferCalls
               /\ q(d, m, x).op = r.op /\ q(d, m, x).c = r.c /\ q(d, m, x).length = r.length
               /\ q(d, m, x).status = r.status /\ q(d, m, x).over = r.over
               /\ q(d, m, x).atEnd = r.atEnd
               /\ q(d, m, x).done = d /\ q(d, m, x).moved = m /\ q(d, m, x).right = x
    BY DEF TransferCalls
  <1> HIDE DEF q, b
  <1>4. LET k == q(r.done + n, r.moved + n, b)
        IN  /\ k \in TransferCalls
            /\ k.op = r.op /\ k.c = r.c /\ k.length = r.length
            /\ k.status = r.status /\ k.over = r.over /\ k.atEnd = r.atEnd
            /\ k.done = r.done + n /\ k.moved = r.moved + n /\ k.right = b
    BY <1>2, <1>3
  <1> QED BY <1>1, <1>4 DEF b

Mark(r, o, e) == [r EXCEPT !.over = o, !.atEnd = e]

LEMMA Marked ==
  ASSUME NEW r \in TransferCalls, NEW o \in BOOLEAN, NEW e \in BOOLEAN
  PROVE  LET q == Mark(r, o, e)
         IN  /\ q \in TransferCalls
             /\ q.op = r.op /\ q.c = r.c /\ q.length = r.length /\ q.done = r.done
             /\ q.moved = r.moved /\ q.right = r.right /\ q.status = r.status
             /\ q.over = o /\ q.atEnd = e
  BY DEF TransferCalls, Mark

LEMMA MarkedOver ==
  ASSUME NEW r \in TransferCalls, NEW o \in BOOLEAN
  PROVE  LET q == [r EXCEPT !.over = o]
         IN  /\ q \in TransferCalls
             /\ q.op = r.op /\ q.c = r.c /\ q.length = r.length /\ q.done = r.done
             /\ q.moved = r.moved /\ q.right = r.right /\ q.status = r.status
             /\ q.over = o /\ q.atEnd = r.atEnd
  BY DEF TransferCalls

LEMMA MarkedFailed ==
  ASSUME NEW r \in TransferCalls, NEW n \in Nat
  PROVE  LET q == [r EXCEPT !.done = @ + n, !.status = "error", !.over = TRUE]
         IN  /\ q \in TransferCalls
             /\ q.op = r.op /\ q.c = r.c /\ q.length = r.length /\ q.done = r.done + n
             /\ q.right = r.right /\ q.status = "error" /\ q.over = TRUE
  <1> DEFINE q(d) == [r EXCEPT !.done = d, !.status = "error", !.over = TRUE]
  <1>1. r.done + n \in Nat
    BY DEF TransferCalls
  <1>2. ASSUME NEW d \in Nat
        PROVE  /\ q(d) \in TransferCalls
               /\ q(d).op = r.op /\ q(d).c = r.c /\ q(d).length = r.length /\ q(d).done = d
               /\ q(d).right = r.right /\ q(d).status = "error" /\ q(d).over = TRUE
    BY DEF TransferCalls
  <1> HIDE DEF q
  <1>3. /\ q(r.done + n) \in TransferCalls
        /\ q(r.done + n).op = r.op /\ q(r.done + n).c = r.c
        /\ q(r.done + n).length = r.length /\ q(r.done + n).done = r.done + n
        /\ q(r.done + n).right = r.right /\ q(r.done + n).status = "error"
        /\ q(r.done + n).over = TRUE
    BY <1>1, <1>2
  <1> QED BY <1>3 DEF q

\* A chunk went over, and may have been the last.
LEMMA ChunkInPlace ==
  ASSUME IInv, NEW t \in Threads, Transfers(t), ~call[t].over,
         OfFile(cookie[call[t].c].handle), NEW n \in 0 .. Wanted(call[t]),
         NEW q \in TransferCalls,
         LET r == call[t]  m == Moves(r, n, opened[cookie[r.c].handle])
         IN  /\ q.op = m.op /\ q.c = m.c /\ q.length = m.length /\ q.done = m.done
             /\ q.moved = m.moved /\ q.right = m.right /\ q.status = m.status,
         q.over => q.done >= q.length \/ (q.op = "read" /\ q.atEnd)
  PROVE  InPlace(q) /\ cookie[q.c] \in FileCookies
  <1> DEFINE r == call[t]  f == opened[cookie[call[t].c].handle]
  <1>1. r \in TransferCalls /\ n \in Nat
    BY Chunk
  <1> DEFINE m == Moves(r, n, f)
  <1>2. /\ q.op = r.op /\ q.c = r.c /\ q.length = r.length /\ q.status = r.status
        /\ q.done = r.done + n /\ q.moved = r.moved + n
        /\ q.right <=> r.right /\ (n > 0 => f = cookie[r.c].of /\ r.done = r.moved)
    BY <1>1, Moved
  <1>3. q.status = "ok" /\ q.done <= q.length /\ q.done \in Nat /\ q.length \in Nat
    BY <1>2, Chunk
  <1>4. CASE cookie[r.c].state = "open"
    <2>1. f = cookie[r.c].of
      BY <1>4, Chunk
    <2>2. r.right /\ r.moved = r.done
      BY <1>4, Chunk DEF InPlace
    <2>3. q.right
      BY <1>2, <2>1, <2>2, Zenon
    <2>4. q.moved = q.done
      BY <1>2, <2>2
    <2>5. q.over => q.done = q.length \/ (q.op = "read" /\ q.atEnd)
      BY <1>3
    <2> QED BY <1>2, <1>3, <2>3, <2>4, <2>5, Chunk DEF InPlace
  <1>5. CASE cookie[r.c].state # "open"
    BY <1>2, <1>3, <1>5, Chunk DEF InPlace
  <1> QED BY <1>4, <1>5

LEMMA ReadChunkPreserves ==
  ASSUME IInv, NEW t \in Threads, ReadChunk(t)
  PROVE  IInv'
  <1> DEFINE r == call[t]  f == opened[cookie[call[t].c].handle]
  <1>1. Transfers(t) /\ ~r.over /\ OfFile(cookie[r.c].handle) /\ r.op = "read"
    BY DEF ReadChunk, Transfers
  <1>2. UNCHANGED <<host, cookie, lost>>
    BY DEF ReadChunk
  <1>3. PICK n \in Sent(r) :
          Do(t, [Moves(r, n, f) EXCEPT !.over = n = 0 \/ r.done + n >= r.length,
                                       !.atEnd = n = 0])
    BY DEF ReadChunk
  <1>4. n \in 0 .. Wanted(r) /\ n \in Nat
    BY <1>1, Chunk DEF Sent
  <1> DEFINE m == Moves(r, n, f)  o == n = 0 \/ r.done + n >= r.length  e == n = 0
             q == Mark(m, o, e)
  <1>5. r \in TransferCalls
    BY <1>1, Chunk
  <1>6. m \in TransferCalls /\ m.op = "read" /\ m.length = r.length /\ m.done = r.done + n
    BY <1>1, <1>4, <1>5, Moved
  <1>7. /\ q \in TransferCalls
        /\ q.op = m.op /\ q.c = m.c /\ q.length = m.length /\ q.done = m.done
        /\ q.moved = m.moved /\ q.right = m.right /\ q.status = m.status
        /\ (q.over <=> o) /\ (q.atEnd <=> e)
    <2> HIDE DEF m, o, e
    <2>1. o \in BOOLEAN /\ e \in BOOLEAN
      BY DEF o, e
    <2>2. /\ q \in TransferCalls
          /\ q.op = m.op /\ q.c = m.c /\ q.length = m.length /\ q.done = m.done
          /\ q.moved = m.moved /\ q.right = m.right /\ q.status = m.status
          /\ q.over = o /\ q.atEnd = e
      BY <1>6, <2>1, Marked, Zenon
    <2> HIDE DEF q
    <2> QED BY <2>2, Zenon
  <1>8. q.over => q.done >= q.length \/ (q.op = "read" /\ q.atEnd)
    <2> HIDE DEF q, m
    <2> QED BY <1>6, <1>7
  <1>9. Do(t, q)
    BY <1>3 DEF Mark
  <1>10. InPlace(q) /\ cookie[q.c] \in FileCookies
    <2> HIDE DEF q
    <2> QED BY <1>1, <1>4, <1>7, <1>8, ChunkInPlace
  <1> HIDE DEF q
  <1> QED BY <1>2, <1>7, <1>9, <1>10, TransferGoesOn

LEMMA WriteChunkPreserves ==
  ASSUME IInv, NEW t \in Threads, WriteChunk(t)
  PROVE  IInv'
  <1> DEFINE r == call[t]  f == opened[cookie[call[t].c].handle]
  <1>1. Transfers(t) /\ ~r.over /\ OfFile(cookie[r.c].handle)
    BY DEF WriteChunk, Transfers
  <1>2. UNCHANGED <<host, cookie, lost>>
    BY DEF WriteChunk
  <1>3. PICK n \in 0 .. Wanted(r) :
          Do(t, [Moves(r, n, f) EXCEPT !.over = r.done + n >= r.length])
    BY DEF WriteChunk
  <1>4. n \in Nat /\ r \in TransferCalls
    BY <1>1, Chunk
  <1> DEFINE m == Moves(r, n, f)  o == r.done + n >= r.length  q == [m EXCEPT !.over = o]
  <1>5. m \in TransferCalls /\ m.length = r.length /\ m.done = r.done + n
    BY <1>4, Moved
  <1>6. /\ q \in TransferCalls
        /\ q.op = m.op /\ q.c = m.c /\ q.length = m.length /\ q.done = m.done
        /\ q.moved = m.moved /\ q.right = m.right /\ q.status = m.status
        /\ (q.over <=> o)
    <2> HIDE DEF m, o
    <2>1. o \in BOOLEAN
      BY DEF o
    <2> QED BY <1>5, <2>1, MarkedOver
  <1>7. q.over => q.done >= q.length \/ (q.op = "read" /\ q.atEnd)
    <2> HIDE DEF q, m
    <2> QED BY <1>5, <1>6
  <1>8. Do(t, q)
    BY <1>3
  <1>9. InPlace(q) /\ cookie[q.c] \in FileCookies
    <2> HIDE DEF q
    <2> QED BY <1>1, <1>6, <1>7, ChunkInPlace
  <1> HIDE DEF q
  <1> QED BY <1>2, <1>6, <1>8, <1>9, TransferGoesOn

LEMMA ChunkFailsPreserves ==
  ASSUME IInv, NEW t \in Threads, ChunkFails(t)
  PROVE  IInv'
  <1> DEFINE r == call[t]
  <1>1. Transfers(t) /\ ~r.over /\ UNCHANGED <<host, cookie, lost>>
    BY DEF ChunkFails
  <1>2. PICK n \in (IF r.op = "read" THEN Least(1, Wanted(r)) ELSE 0) .. Wanted(r) :
          Do(t, [r EXCEPT !.done = @ + n, !.status = "error", !.over = TRUE])
    BY DEF ChunkFails
  <1>3. n \in Nat /\ r.done + n <= r.length
    <2>1. Wanted(r) \in Nat /\ r.done \in Nat /\ r.length \in Nat /\ r.done + Wanted(r) <= r.length
      BY <1>1, Chunk
    <2> HIDE DEF r
    <2>2. Least(1, Wanted(r)) \in Nat
      BY <2>1 DEF Least
    <2> QED BY <1>2, <2>1, <2>2
  <1> DEFINE q == [r EXCEPT !.done = @ + n, !.status = "error", !.over = TRUE]
  <1>4. /\ q \in TransferCalls
        /\ q.op = r.op /\ q.c = r.c /\ q.length = r.length /\ q.done = r.done + n
        /\ q.right = r.right /\ q.status = "error" /\ q.over
    <2>1. r \in TransferCalls
      BY <1>1, Chunk
    <2> HIDE DEF r
    <2> QED BY <1>3, <2>1, MarkedFailed, Zenon
  <1>5. Do(t, q)
    BY <1>2
  <1> HIDE DEF q
  <1>6. InPlace(q) /\ cookie[q.c] \in FileCookies
    BY <1>1, <1>3, <1>4, Chunk DEF InPlace
  <1> QED BY <1>1, <1>4, <1>5, <1>6, TransferGoesOn

-----------------------------------------------------------------------------
(* Hooks that fill or empty a cookie nobody uses.                          *)

LEMMA NobodyUsesNone ==
  ASSUME IInv, NEW c \in Cookies, Is(c, "none")
  PROVE  \A t \in Threads : ~Uses(t, c)
  <1> SUFFICES ASSUME NEW t \in Threads, Uses(t, c)
               PROVE  FALSE
    OBVIOUS
  <1>1. call[t] \in TransferCalls \/ call[t] \in ListingCalls
    BY CallKinds DEF Uses, IInv
  <1>2. cookie[c] \in FileCookies \/ cookie[c] \in DirCookies
    BY <1>1 DEF Uses, IInv, CookiesInUse
  <1> QED BY <1>2 DEF Is, FileCookies, DirCookies

\* What the calls do is not about a cookie that nobody uses.
LEMMA PutPreservesCalls ==
  ASSUME IInv, NEW c \in Cookies, NEW k, Put(c, k),
         \A t \in Threads : ~Uses(t, c),
         k \in DirCookies => k.seen = 0 /\ k.index = 0,
         UNCHANGED <<entries, call>>
  PROVE  CookiesInUse' /\ TransfersInPlace' /\ ListingsInOrder'
  <1>1. cookie'[c] = k /\ \A d \in Cookies \ {c} : cookie'[d] = cookie[d]
    BY DEF Put, IInv, TypeOK
  <1>2. ASSUME NEW t \in Threads, call[t] \in TransferCalls \/ call[t] \in ListingCalls
        PROVE  call[t].c \in Cookies /\ cookie'[call[t].c] = cookie[call[t].c]
    <2>1. call[t].c \in Cookies
      BY <1>2 DEF TransferCalls, ListingCalls
    <2>2. call[t].c # c
      BY <1>2, IdleIsNoCall DEF Uses
    <2> QED BY <1>1, <2>1, <2>2
  <1>3. CookiesInUse'
    BY <1>2 DEF IInv, CookiesInUse
  <1>4. TransfersInPlace'
    BY <1>2 DEF IInv, TransfersInPlace, InPlace
  <1>5. ListingsInOrder'
    <2>1. Len(entries) \in Nat
      BY DEF IInv, TypeOK
    <2>2. \A d \in Cookies :
            cookie'[d] \in DirCookies /\ cookie'[d].seen # Excused =>
              cookie'[d].seen = cookie'[d].index /\ cookie'[d].index <= Len(entries)
      BY <1>1, <2>1 DEF IInv, ListingsInOrder
    <2>3. \A t \in Threads :
            call[t] \in ListingCalls /\ cookie'[call[t].c].seen # Excused =>
              /\ call[t].entry = EntryAt(cookie'[call[t].c].index + 1)
              /\ \A u \in Threads : call[u] \in ListingCalls /\ call[u].c = call[t].c => u = t
      BY <1>2 DEF IInv, ListingsInOrder
    <2> QED BY <2>2, <2>3 DEF IInv, ListingsInOrder, EntryAt
  <1> QED BY <1>3, <1>4, <1>5

LEMMA NewCookies ==
  /\ \A h \in Handles, f \in Files : FileCookie(h, f) \in FileCookies
  /\ FileCookie(rootHandle, "root") \in FileCookies
  /\ \A h \in Handles : DirCookie(h) \in DirCookies
  BY FileIOAssumption DEF FileCookie, DirCookie, FileCookies, DirCookies

\* A handle that was not open gets an owner.
LEMMA OpenPreserves ==
  ASSUME IInv, NEW c \in Cookies, Is(c, "none"),
         NEW h \in Handles, NEW f \in Files \cup {Directory}, Grants(h, f),
         NEW k \in FileCookies \cup DirCookies, Put(c, k), UNCHANGED <<call, lost>>,
         k.state = "open", k.handle = h, k.of = f,
         k \in DirCookies => k.seen = 0 /\ k.index = 0
  PROVE  IInv'
  <1>1. cookie'[c] = k /\ \A d \in Cookies \ {c} : cookie'[d] = cookie[d]
    BY DEF Put, IInv, TypeOK
  <1>2. opened'[h] = f /\ \A g \in Handles \ {h} : opened'[g] = opened[g]
    BY DEF Grants, IInv, TypeOK
  <1>3. TypeOK'
    <2>1. cookie' \in [Cookies -> {NoCookie} \cup FileCookies \cup DirCookies]
      BY DEF Put, IInv, TypeOK
    <2>2. opened' \in [Handles -> Files \cup {Directory, Shut}]
      BY DEF Grants, IInv, TypeOK
    <2> QED BY <2>1, <2>2 DEF IInv, TypeOK, Grants
  <1>4. CookiesInUse' /\ TransfersInPlace' /\ ListingsInOrder'
    BY NobodyUsesNone, PutPreservesCalls DEF Grants
  <1>5. HandlesHaveOneOwner'
    <2> DEFINE Owned == {d \in Cookies : Is(d, "open") /\ cookie[d].handle # rootHandle}
               OwnedN == {d \in Cookies : cookie'[d].state = "open"
                                          /\ cookie'[d].handle # rootHandle}
    <2>1. h # rootHandle /\ f # Shut
      BY FileIOAssumption DEF Directory, Shut
    <2>2. OwnedN = Owned \cup {c} /\ c \notin Owned
      BY <1>1, <2>1 DEF Is
    <2>3. {g \in Handles : Open(g)} = lost \cup {cookie[d].handle : d \in Owned}
      BY DEF IInv, HandlesHaveOneOwner
    <2>4. /\ \A d \in Owned : /\ cookie[d].handle \notin lost
                              /\ opened[cookie[d].handle] = cookie[d].of
          /\ \A d, e \in Owned : cookie[d].handle = cookie[e].handle => d = e
      BY DEF IInv, HandlesHaveOneOwner
    <2>5. h \notin lost /\ \A d \in Owned : cookie[d].handle \in Handles \ {h}
      BY <2>3 DEF Open, Grants
    <2>6. {g \in Handles : Open(g)}' = {g \in Handles : Open(g)} \cup {h}
      BY <1>2, <2>1 DEF Open
    <2>7. {cookie'[d].handle : d \in OwnedN} = {cookie[d].handle : d \in Owned} \cup {h}
      BY <1>1, <2>2
    <2>8. {g \in Handles : Open(g)}' = lost' \cup {cookie'[d].handle : d \in OwnedN}
      BY <2>3, <2>6, <2>7
    <2>9. \A d \in OwnedN : /\ cookie'[d].handle \notin lost'
                            /\ opened'[cookie'[d].handle] = cookie'[d].of
      BY <1>1, <1>2, <2>2, <2>4, <2>5
    <2>10. \A d, e \in OwnedN : cookie'[d].handle = cookie'[e].handle => d = e
      BY <1>1, <2>2, <2>4, <2>5
    <2> HIDE DEF Owned
    <2> QED BY <2>8, <2>9, <2>10 DEF HandlesHaveOneOwner, Is
  <1> QED BY <1>3, <1>4, <1>5 DEF IInv

LEMMA OpenHookPreserves ==
  ASSUME IInv, NEW c \in Cookies, OpenHook(c)
  PROVE  IInv'
  <1>1. PICK h \in Handles, f \in Files : Grants(h, f) /\ Put(c, FileCookie(h, f))
    BY DEF OpenHook
  <1>2. FileCookie(h, f) \in FileCookies
    BY NewCookies
  <1>3. FileCookie(h, f).state = "open" /\ FileCookie(h, f).handle = h /\ FileCookie(h, f).of = f
    BY DEF FileCookie
  <1> QED BY <1>1, <1>2, <1>3, CookiesDiffer, OpenPreserves DEF OpenHook

LEMMA OpenDirHookPreserves ==
  ASSUME IInv, NEW c \in Cookies, OpenDirHook(c)
  PROVE  IInv'
  <1>1. PICK h \in Handles : Grants(h, Directory) /\ Put(c, DirCookie(h))
    BY DEF OpenDirHook
  <1>2. DirCookie(h) \in DirCookies
    BY NewCookies
  <1>3. /\ DirCookie(h).state = "open" /\ DirCookie(h).handle = h
        /\ DirCookie(h).of = Directory /\ DirCookie(h).seen = 0 /\ DirCookie(h).index = 0
    BY DEF DirCookie
  <1> QED BY <1>1, <1>2, <1>3, OpenPreserves DEF OpenDirHook

LEMMA OpenRootPreserves ==
  ASSUME IInv, NEW c \in Cookies, OpenRoot(c)
  PROVE  IInv'
  <1> DEFINE k == FileCookie(rootHandle, "root")
  <1>1. k \in FileCookies /\ k.handle = rootHandle
    BY NewCookies DEF FileCookie
  <1>2. Is(c, "none") /\ Put(c, k) /\ UNCHANGED <<host, call, lost>>
    BY DEF OpenRoot
  <1> HIDE DEF k
  <1>3. cookie'[c] = k /\ \A d \in Cookies \ {c} : cookie'[d] = cookie[d]
    BY <1>2 DEF Put, IInv, TypeOK
  <1>4. TypeOK'
    <2>1. cookie' \in [Cookies -> {NoCookie} \cup FileCookies \cup DirCookies]
      BY <1>1, <1>2 DEF Put, IInv, TypeOK
    <2> QED BY <1>2, <2>1 DEF IInv, TypeOK, host
  <1>5. CookiesInUse' /\ TransfersInPlace' /\ ListingsInOrder'
    BY <1>1, <1>2, CookiesDiffer, NobodyUsesNone, PutPreservesCalls DEF host
  <1>6. HandlesHaveOneOwner'
    BY <1>1, <1>2, <1>3 DEF IInv, HandlesHaveOneOwner, Open, Is, host
  <1> QED BY <1>4, <1>5, <1>6 DEF IInv

LEMMA CreatePreserves ==
  ASSUME IInv, NEW c \in Cookies, Create(c)
  PROVE  IInv'
  <1>1. PICK h \in Handles, f \in Files :
          /\ Grants(h, f)
          /\ \/ Put(c, FileCookie(h, f)) /\ UNCHANGED lost
             \/ lost' = lost \cup {h} /\ UNCHANGED cookie
    BY DEF Create
  <1>2. CASE Put(c, FileCookie(h, f)) /\ UNCHANGED lost
    BY <1>1, <1>2, OpenHookPreserves DEF Create, OpenHook
  <1>3. CASE lost' = lost \cup {h} /\ UNCHANGED cookie
    <2>1. opened'[h] = f /\ \A g \in Handles \ {h} : opened'[g] = opened[g]
      BY <1>1 DEF Grants, IInv, TypeOK
    <2>2. UNCHANGED <<entries, call>>
      BY <1>1 DEF Grants, Create
    <2>3. TypeOK'
      <3>1. opened' \in [Handles -> Files \cup {Directory, Shut}]
        BY <1>1 DEF Grants, IInv, TypeOK
      <3> QED BY <1>3, <2>2, <3>1 DEF IInv, TypeOK
    <2>4. CookiesInUse' /\ TransfersInPlace' /\ ListingsInOrder'
      BY <1>3, <2>2
         DEF IInv, CookiesInUse, TransfersInPlace, InPlace, ListingsInOrder, EntryAt
    <2>5. HandlesHaveOneOwner'
      <3> DEFINE Owned == {d \in Cookies : Is(d, "open") /\ cookie[d].handle # rootHandle}
      <3>1. {g \in Handles : Open(g)} = lost \cup {cookie[d].handle : d \in Owned}
        BY DEF IInv, HandlesHaveOneOwner
      <3>2. \A d \in Owned : cookie[d].handle \in Handles \ {h}
        BY <1>1, <3>1 DEF Open, Grants
      <3>3. {g \in Handles : Open(g)}' = {g \in Handles : Open(g)} \cup {h}
        BY <2>1, FileIOAssumption DEF Open, Shut
      <3>4. {g \in Handles : Open(g)}' = lost' \cup {cookie[d].handle : d \in Owned}
        BY <1>3, <3>1, <3>3
      <3>5. /\ \A d \in Owned : /\ cookie[d].handle \notin lost'
                                /\ opened'[cookie[d].handle] = cookie[d].of
            /\ \A d, e \in Owned : cookie[d].handle = cookie[e].handle => d = e
        BY <1>3, <2>1, <3>2 DEF IInv, HandlesHaveOneOwner
      <3>6. cookie' = cookie
        BY <1>3
      <3> QED BY <3>4, <3>5, <3>6 DEF HandlesHaveOneOwner, Is
    <2> QED BY <2>3, <2>4, <2>5 DEF IInv
  <1> QED BY <1>1, <1>2, <1>3

LEMMA ClosePreserves ==
  ASSUME IInv, NEW c \in Cookies, Close(c)
  PROVE  IInv'
  <1> DEFINE k == [cookie[c] EXCEPT !.state = "closed"]  h == cookie[c].handle
  <1>1. cookie[c].state = "open" /\ UNCHANGED <<entries, call>>
    BY DEF Close, Is
  <1>2. cookie[c] \in FileCookies \/ cookie[c] \in DirCookies
    BY <1>1, CookieKinds DEF IInv, NoCookie
  <1>3. /\ cookie[c] \in FileCookies => k \in FileCookies
        /\ cookie[c] \in DirCookies =>
             k \in DirCookies /\ k.seen = cookie[c].seen /\ k.index = cookie[c].index
        /\ k.state = "closed"
    BY <1>2 DEF FileCookies, DirCookies
  <1>4. cookie'[c] = k /\ \A d \in Cookies \ {c} : cookie'[d] = cookie[d]
    BY DEF Close, IInv, TypeOK
  <1>5. cookie' \in [Cookies -> {NoCookie} \cup FileCookies \cup DirCookies]
    BY <1>2, <1>3 DEF Close, IInv, TypeOK
  <1> HIDE DEF k
  <1>6. CookiesInUse'
    BY <1>1, <1>3, <1>4 DEF IInv, CookiesInUse, TransferCalls, ListingCalls
  <1>7. TransfersInPlace'
    <2>1. \A t \in Threads : call[t] \in TransferCalls => call[t].c \in Cookies
      BY DEF TransferCalls
    <2>2. \A d \in Cookies : cookie'[d].state = "open" => cookie[d].state = "open"
      BY <1>3, <1>4
    <2> QED BY <1>1, <2>1, <2>2 DEF IInv, TransfersInPlace, InPlace
  <1>8. ListingsInOrder'
    <2>1. \A d \in Cookies : cookie'[d] \in DirCookies =>
             /\ cookie[d] \in DirCookies
             /\ cookie'[d].seen = cookie[d].seen /\ cookie'[d].index = cookie[d].index
      BY <1>2, <1>3, <1>4, CookiesDiffer
    <2>2. \A t \in Threads : call[t] \in ListingCalls =>
             call[t].c \in Cookies /\ cookie'[call[t].c] \in DirCookies
      BY <1>1, <1>6 DEF CookiesInUse, ListingCalls
    <2> QED BY <1>1, <2>1, <2>2 DEF IInv, ListingsInOrder, EntryAt
  <1>9. CASE h = rootHandle
    <2>1. UNCHANGED <<opened, lost>>
      BY <1>9 DEF Close
    <2>2. TypeOK'
      BY <1>1, <1>5, <2>1 DEF IInv, TypeOK
    <2>3. HandlesHaveOneOwner'
      BY <1>3, <1>4, <1>9, <2>1 DEF IInv, HandlesHaveOneOwner, Open, Is
    <2> QED BY <1>6, <1>7, <1>8, <2>2, <2>3 DEF IInv
  <1>10. CASE h # rootHandle
    <2> DEFINE Owned == {d \in Cookies : Is(d, "open") /\ cookie[d].handle # rootHandle}
               OwnedN == {d \in Cookies : cookie'[d].state = "open"
                                          /\ cookie'[d].handle # rootHandle}
    <2>1. OwnedN = Owned \ {c} /\ c \in Owned
      BY <1>1, <1>3, <1>4, <1>10 DEF Is
    <2>2. {g \in Handles : Open(g)} = lost \cup {cookie[d].handle : d \in Owned}
      BY DEF IInv, HandlesHaveOneOwner
    <2>3. /\ \A d \in Owned : /\ cookie[d].handle \notin lost
                              /\ opened[cookie[d].handle] = cookie[d].of
          /\ \A d, e \in Owned : cookie[d].handle = cookie[e].handle => d = e
      BY DEF IInv, HandlesHaveOneOwner
    <2>4. h \in Handles /\ h \notin lost
      BY <2>1, <2>2, <2>3
    <2>5. {cookie'[d].handle : d \in OwnedN} = {cookie[d].handle : d \in Owned} \ {h}
      BY <1>4, <2>1, <2>3
    <2>6. \A d \in OwnedN : cookie'[d] = cookie[d] /\ d \in Owned /\ cookie[d].handle # h
      BY <1>4, <2>1, <2>3
    <2>7. CASE opened' = [opened EXCEPT ![h] = Shut] /\ UNCHANGED lost
      <3>1. opened'[h] = Shut /\ \A g \in Handles \ {h} : opened'[g] = opened[g]
        BY <2>4, <2>7 DEF IInv, TypeOK
      <3>2. TypeOK'
        BY <1>1, <1>5, <2>7 DEF IInv, TypeOK
      <3>3. {g \in Handles : Open(g)}' = {g \in Handles : Open(g)} \ {h}
        BY <3>1 DEF Open
      <3>4. {g \in Handles : Open(g)}' = lost' \cup {cookie'[d].handle : d \in OwnedN}
        BY <2>2, <2>4, <2>5, <2>7, <3>3
      <3>5. \A d \in OwnedN : cookie[d].handle \in Handles
        BY <2>2, <2>6
      <3>6. /\ \A d \in OwnedN : /\ cookie'[d].handle \notin lost'
                                 /\ opened'[cookie'[d].handle] = cookie'[d].of
            /\ \A d, e \in OwnedN : cookie'[d].handle = cookie'[e].handle => d = e
        BY <2>3, <2>6, <2>7, <3>1, <3>5
      <3>7. HandlesHaveOneOwner'
        BY <3>4, <3>6 DEF HandlesHaveOneOwner, Is
      <3> QED BY <1>6, <1>7, <1>8, <3>2, <3>7 DEF IInv
    <2>8. CASE lost' = lost \cup {h} /\ UNCHANGED opened
      <3>1. TypeOK'
        BY <1>1, <1>5, <2>4, <2>8 DEF IInv, TypeOK
      <3>2. {g \in Handles : Open(g)}' = {g \in Handles : Open(g)}
        BY <2>8 DEF Open
      <3>3. h \in {cookie[d].handle : d \in Owned}
        BY <2>1
      <3>4. {g \in Handles : Open(g)}' = lost' \cup {cookie'[d].handle : d \in OwnedN}
        BY <2>2, <2>5, <2>8, <3>2, <3>3
      <3>5. /\ \A d \in OwnedN : /\ cookie'[d].handle \notin lost'
                                 /\ opened'[cookie'[d].handle] = cookie'[d].of
            /\ \A d, e \in OwnedN : cookie'[d].handle = cookie'[e].handle => d = e
        BY <2>3, <2>6, <2>8
      <3>6. HandlesHaveOneOwner'
        BY <3>4, <3>5 DEF HandlesHaveOneOwner, Is
      <3> QED BY <1>6, <1>7, <1>8, <3>1, <3>6 DEF IInv
    <2> QED BY <1>10, <2>7, <2>8 DEF Close, CloseHandle
  <1> QED BY <1>9, <1>10

LEMMA FreeCookiePreserves ==
  ASSUME IInv, NEW c \in Cookies, FreeCookie(c)
  PROVE  IInv'
  <1>1. /\ cookie[c].state = "closed" /\ Put(c, NoCookie) /\ UNCHANGED <<host, call, lost>>
        /\ \A t \in Threads : ~Uses(t, c)
    BY DEF FreeCookie, Is
  <1>2. cookie'[c] = NoCookie /\ \A d \in Cookies \ {c} : cookie'[d] = cookie[d]
    BY <1>1 DEF Put, IInv, TypeOK
  <1>3. TypeOK'
    <2>1. cookie' \in [Cookies -> {NoCookie} \cup FileCookies \cup DirCookies]
      BY <1>1 DEF Put, IInv, TypeOK
    <2> QED BY <1>1, <2>1 DEF IInv, TypeOK, host
  <1>4. CookiesInUse' /\ TransfersInPlace' /\ ListingsInOrder'
    BY <1>1, CookiesDiffer, PutPreservesCalls DEF host
  <1>5. HandlesHaveOneOwner'
    <2>1. \A d \in Cookies : cookie'[d].state = "open" <=> cookie[d].state = "open"
      BY <1>1, <1>2 DEF NoCookie
    <2>2. \A d \in Cookies : cookie'[d].state = "open" => cookie'[d] = cookie[d]
      BY <1>2 DEF NoCookie
    <2>3. {d \in Cookies : cookie'[d].state = "open" /\ cookie'[d].handle # rootHandle}
            = {d \in Cookies : cookie[d].state = "open" /\ cookie[d].handle # rootHandle}
      BY <2>1, <2>2
    <2> QED BY <1>1, <2>2, <2>3 DEF IInv, HandlesHaveOneOwner, Open, Is, host
  <1> QED BY <1>3, <1>4, <1>5 DEF IInv

-----------------------------------------------------------------------------
(* Listings.                                                               *)

\* What a step that moves the listing of one cookie leaves alone.
LEMMA ListingKeeps ==
  ASSUME IInv, NEW c \in Cookies, cookie[c] \in DirCookies,
         NEW k \in DirCookies, k.state = cookie[c].state, k.handle = cookie[c].handle,
         cookie' = [cookie EXCEPT ![c] = k], UNCHANGED <<host, lost>>
  PROVE  /\ cookie'[c] = k /\ \A d \in Cookies \ {c} : cookie'[d] = cookie[d]
         /\ cookie' \in [Cookies -> {NoCookie} \cup FileCookies \cup DirCookies]
         /\ HandlesHaveOneOwner'
         /\ \A d \in Cookies : cookie[d] \in FileCookies => cookie'[d] = cookie[d]
         /\ \A d \in Cookies : cookie[d] \in DirCookies <=> cookie'[d] \in DirCookies
  <1>1. cookie'[c] = k /\ \A d \in Cookies \ {c} : cookie'[d] = cookie[d]
    BY DEF IInv, TypeOK
  <1>2. cookie' \in [Cookies -> {NoCookie} \cup FileCookies \cup DirCookies]
    BY DEF IInv, TypeOK
  <1>3. k.of = cookie[c].of
    BY DEF DirCookies
  <1>4. \A d \in Cookies : /\ cookie'[d].state = cookie[d].state
                           /\ cookie'[d].handle = cookie[d].handle
                           /\ cookie'[d].of = cookie[d].of
    BY <1>1, <1>3
  <1>5. HandlesHaveOneOwner'
    BY <1>4 DEF IInv, HandlesHaveOneOwner, Open, Is, host
  <1>6. \A d \in Cookies : cookie[d] \in FileCookies => cookie'[d] = cookie[d]
    BY <1>1, CookiesDiffer
  <1> QED BY <1>1, <1>2, <1>5, <1>6

LEMMA DirIsDirCookie ==
  ASSUME IInv, NEW c \in Cookies, IsDir(c)
  PROVE  cookie[c] \in DirCookies
  BY CookieKinds, CookiesDiffer DEF IInv, IsDir, Is, NoCookie

LEMMA Seen ==
  ASSUME NEW k \in DirCookies, NEW s \in 0 .. MaxEntries \cup {Excused, Wrong}
  PROVE  LET q == [k EXCEPT !.seen = s]
         IN  /\ q \in DirCookies /\ q.state = k.state /\ q.handle = k.handle
             /\ q.index = k.index /\ q.seen = s
  BY DEF DirCookies

At(k, i, s) == [k EXCEPT !.index = i, !.seen = s]

LEMMA SeenAt ==
  ASSUME NEW k \in DirCookies, NEW i \in Nat, NEW s \in 0 .. MaxEntries \cup {Excused, Wrong}
  PROVE  LET q == At(k, i, s)
         IN  /\ q \in DirCookies /\ q.state = k.state /\ q.handle = k.handle
             /\ q.index = i /\ q.seen = s
  BY DEF DirCookies, At

LEMMA EntryTyped ==
  ASSUME TypeOK, NEW i \in Nat
  PROVE  EntryAt(i + 1) \in 0 .. MaxEntries
  <1>1. entries \in Seq(1 .. MaxEntries)
    BY DEF TypeOK
  <1>2. CASE i + 1 <= Len(entries)
    <2>1. i + 1 \in 1 .. Len(entries)
      BY <1>1, <1>2
    <2>2. entries[i + 1] \in 1 .. MaxEntries
      BY <1>1, <2>1, ElementOfSeq
    <2> QED BY <1>2, <2>2, FileIOAssumption DEF EntryAt
  <1>3. CASE ~(i + 1 <= Len(entries))
    BY <1>3, FileIOAssumption DEF EntryAt
  <1> QED BY <1>2, <1>3

LEMMA ReadDirEntryPreserves ==
  ASSUME IInv, NEW t \in Threads, NEW c \in Cookies, ReadDirEntry(t, c)
  PROVE  IInv'
  <1> DEFINE s == IF Busy(c) THEN Excused ELSE cookie[c].seen
             k == [cookie[c] EXCEPT !.seen = s]
             i == cookie[c].index + 1
             r == [op |-> "read_dir", c |-> c,
                   entry |-> IF i <= Len(entries) THEN entries[i] ELSE 0]
  <1>1. call[t] = Idle /\ cookie[c] \in DirCookies /\ UNCHANGED <<host, lost>>
    BY DirIsDirCookie DEF ReadDirEntry
  <1>2. cookie[c].seen \in 0 .. MaxEntries \cup {Excused, Wrong} /\ cookie[c].index \in Nat
    BY <1>1 DEF DirCookies
  <1>3. s \in 0 .. MaxEntries \cup {Excused, Wrong}
    BY <1>2
  <1>4. /\ k \in DirCookies /\ k.state = cookie[c].state /\ k.handle = cookie[c].handle
        /\ k.index = cookie[c].index /\ k.seen = s
    <2> HIDE DEF s
    <2> QED BY <1>1, <1>3, <1>2, Seen
  <1>5. cookie' = [cookie EXCEPT ![c] = k]
    BY DEF ReadDirEntry
  <1>6. call' = [call EXCEPT ![t] = r]
    BY DEF ReadDirEntry, Do
  <1>7. r \in ListingCalls /\ r.c = c /\ r.entry = EntryAt(i)
    <2>1. EntryAt(i) \in 0 .. MaxEntries
      BY <1>2, EntryTyped DEF IInv
    <2> QED BY <2>1 DEF ListingCalls, EntryAt
  <1> HIDE DEF k, r, i, s
  <1>8. call'[t] = r /\ \A u \in Threads \ {t} : call'[u] = call[u]
    BY <1>6 DEF IInv, TypeOK
  <1>9. /\ cookie'[c] = k /\ \A d \in Cookies \ {c} : cookie'[d] = cookie[d]
        /\ cookie' \in [Cookies -> {NoCookie} \cup FileCookies \cup DirCookies]
        /\ HandlesHaveOneOwner'
        /\ \A d \in Cookies : cookie[d] \in FileCookies => cookie'[d] = cookie[d]
        /\ \A d \in Cookies : cookie[d] \in DirCookies <=> cookie'[d] \in DirCookies
    BY <1>1, <1>4, <1>5, ListingKeeps
  <1>10. TypeOK'
    <2>1. call' \in [Threads -> {Idle} \cup TransferCalls \cup ListingCalls]
      BY <1>6, <1>7 DEF IInv, TypeOK
    <2>2. \A u \in Threads : call'[u].op \in {"read", "write"} => call'[u].done <= call'[u].length
      BY <1>7, <1>8 DEF IInv, TypeOK, ListingCalls
    <2> QED BY <1>1, <1>9, <2>1, <2>2 DEF IInv, TypeOK, host
  <1>11. \A u \in Threads : call'[u] \in TransferCalls => call'[u] = call[u]
    BY <1>7, <1>8, CallsDiffer
  <1>12. CookiesInUse'
    BY <1>1, <1>7, <1>8, <1>9, <1>11 DEF IInv, CookiesInUse, TransferCalls, ListingCalls
  <1>13. TransfersInPlace'
    <2>1. \A u \in Threads : call'[u] \in TransferCalls =>
            call[u].c \in Cookies /\ cookie'[call[u].c] = cookie[call[u].c]
      BY <1>9, <1>11 DEF IInv, CookiesInUse, TransferCalls
    <2> QED BY <1>11, <2>1 DEF IInv, TransfersInPlace, InPlace
  <1>14. ListingsInOrder'
    <2>1. \A d \in Cookies : cookie'[d] \in DirCookies /\ cookie'[d].seen # Excused =>
            /\ cookie[d] \in DirCookies /\ cookie'[d].seen = cookie[d].seen
            /\ cookie'[d].index = cookie[d].index
      BY <1>1, <1>4, <1>9 DEF s
    <2>2. Busy(c) => cookie'[c].seen = Excused
      BY <1>4, <1>9 DEF s
    <2>3. ASSUME NEW u \in Threads, call'[u] \in ListingCalls, cookie'[call'[u].c].seen # Excused
          PROVE  /\ call'[u].entry = EntryAt(cookie'[call'[u].c].index + 1)
                 /\ \A v \in Threads : call'[v] \in ListingCalls /\ call'[v].c = call'[u].c => v = u
      <3>1. CASE u = t
        <4>1. \A v \in Threads : call[v] \in ListingCalls => call[v].c # c
          BY <1>7, <1>8, <2>2, <2>3, <3>1, CallKinds DEF Busy, IInv
        <4>2. call'[u].entry = EntryAt(cookie'[call'[u].c].index + 1)
          BY <1>4, <1>7, <1>8, <1>9, <3>1 DEF i
        <4> QED BY <1>7, <1>8, <3>1, <4>1, <4>2
      <3>2. CASE u # t
        <4>1. call'[u] = call[u] /\ call[u].c \in Cookies /\ cookie[call[u].c] \in DirCookies
          BY <1>8, <2>3, <3>2 DEF IInv, CookiesInUse, ListingCalls
        <4>2. call[u].c # c
          BY <2>2, <2>3, <4>1, CallKinds DEF Busy, IInv
        <4>3. cookie'[call[u].c] = cookie[call[u].c]
          BY <1>9, <4>1, <4>2
        <4> QED BY <1>7, <1>8, <2>3, <4>1, <4>2, <4>3 DEF IInv, ListingsInOrder
      <3> QED BY <3>1, <3>2
    <2> QED BY <1>1, <2>1, <2>3 DEF IInv, ListingsInOrder, EntryAt, host
  <1> QED BY <1>9, <1>10, <1>12, <1>13, <1>14 DEF IInv

\* A thread leaves the listing it moved or found at its end.
LEMMA ListingCallEnds ==
  ASSUME IInv, NEW t \in Threads, call[t] \in ListingCalls, Do(t, Idle),
         UNCHANGED <<host, lost>>,
         NEW k \in DirCookies,
         LET o == cookie[call[t].c]
         IN  /\ k.state = o.state /\ k.handle = o.handle
             /\ o.seen = Excused => k.seen = Excused
             /\ o.seen # Excused /\ k.seen # Excused =>
                  k.seen = k.index /\ k.index <= Len(entries),
         cookie' = [cookie EXCEPT ![call[t].c] = k]
  PROVE  IInv'
  <1> DEFINE c == call[t].c
  <1>1. c \in Cookies /\ cookie[c] \in DirCookies
    BY DEF IInv, CookiesInUse, ListingCalls
  <1>2. /\ cookie'[c] = k /\ \A d \in Cookies \ {c} : cookie'[d] = cookie[d]
        /\ cookie' \in [Cookies -> {NoCookie} \cup FileCookies \cup DirCookies]
        /\ HandlesHaveOneOwner'
        /\ \A d \in Cookies : cookie[d] \in FileCookies => cookie'[d] = cookie[d]
        /\ \A d \in Cookies : cookie[d] \in DirCookies <=> cookie'[d] \in DirCookies
    BY <1>1, ListingKeeps
  <1>3. call'[t] = Idle /\ \A u \in Threads \ {t} : call'[u] = call[u]
    BY DEF Do, IInv, TypeOK
  <1>4. TypeOK'
    <2>1. call' \in [Threads -> {Idle} \cup TransferCalls \cup ListingCalls]
      BY DEF Do, IInv, TypeOK
    <2>2. \A u \in Threads : call'[u].op \in {"read", "write"} => call'[u].done <= call'[u].length
      BY <1>3 DEF IInv, TypeOK, Idle
    <2> QED BY <1>2, <2>1, <2>2 DEF IInv, TypeOK, host
  <1>5. \A u \in Threads : call'[u] \in TransferCalls \/ call'[u] \in ListingCalls =>
          u # t /\ call'[u] = call[u]
    BY <1>3, IdleIsNoCall
  <1>6. CookiesInUse'
    BY <1>2, <1>5 DEF IInv, CookiesInUse, TransferCalls, ListingCalls
  <1>7. TransfersInPlace'
    <2>1. \A u \in Threads : call'[u] \in TransferCalls =>
            call[u].c \in Cookies /\ cookie'[call[u].c] = cookie[call[u].c]
      BY <1>2, <1>5 DEF IInv, CookiesInUse, TransferCalls
    <2> QED BY <1>5, <2>1 DEF IInv, TransfersInPlace, InPlace
  <1>8. ListingsInOrder'
    <2>1. \A d \in Cookies : cookie'[d] \in DirCookies /\ cookie'[d].seen # Excused =>
            cookie'[d].seen = cookie'[d].index /\ cookie'[d].index <= Len(entries)
      BY <1>1, <1>2 DEF IInv, ListingsInOrder
    <2>2. ASSUME NEW u \in Threads, call'[u] \in ListingCalls, cookie'[call'[u].c].seen # Excused
          PROVE  /\ call'[u].entry = EntryAt(cookie'[call'[u].c].index + 1)
                 /\ \A v \in Threads : call'[v] \in ListingCalls /\ call'[v].c = call'[u].c => v = u
      <3>1. u # t /\ call'[u] = call[u] /\ call[u].c \in Cookies
        BY <1>5, <2>2 DEF ListingCalls
      <3>2. call[u].c # c
        BY <1>1, <1>2, <2>2, <3>1 DEF IInv, ListingsInOrder
      <3>3. cookie'[call[u].c] = cookie[call[u].c]
        BY <1>2, <3>1, <3>2
      <3> QED BY <1>5, <2>2, <3>1, <3>3 DEF IInv, ListingsInOrder
    <2> QED BY <2>1, <2>2 DEF IInv, ListingsInOrder, EntryAt, host
  <1> QED BY <1>2, <1>4, <1>6, <1>7, <1>8 DEF IInv

LEMMA NextEntryPreserves ==
  ASSUME IInv, NEW t \in Threads, NextEntry(t)
  PROVE  IInv'
  <1> DEFINE c == call[t].c
             i == cookie[c].index + 1
             s == CASE cookie[c].seen = Excused -> Excused
                    [] cookie[c].seen >= 0 /\ call[t].entry = entries[cookie[c].seen + 1]
                         -> cookie[c].seen + 1
                    [] OTHER -> Wrong
             k == At(cookie[c], i, s)
  <1>1. call[t] \in ListingCalls /\ UNCHANGED <<host, lost>> /\ Do(t, Idle)
    BY CallKinds DEF NextEntry, IInv
  <1>2. cookie[c] \in DirCookies /\ c \in Cookies /\ call[t].entry \in 0 .. MaxEntries
    BY <1>1 DEF IInv, CookiesInUse, ListingCalls
  <1>3. CASE call[t].entry = 0
    BY <1>1, <1>3, CallEnds DEF NextEntry, host
  <1>4. CASE call[t].entry # 0
    <2>1. cookie[c].index \in Nat /\ cookie[c].seen \in 0 .. MaxEntries \cup {Excused, Wrong}
      BY <1>2 DEF DirCookies
    <2>2. Len(entries) \in Nat /\ Len(entries) <= MaxEntries
      BY DEF IInv, TypeOK, ListingsInOrder
    <2>3. ASSUME cookie[c].seen # Excused
          PROVE  cookie[c].seen = cookie[c].index /\ i <= Len(entries) /\ s = i
      <3>1. cookie[c].seen = cookie[c].index /\ call[t].entry = EntryAt(i)
        BY <1>1, <1>2, <2>3 DEF IInv, ListingsInOrder
      <3>2. i <= Len(entries) /\ call[t].entry = entries[i]
        BY <1>4, <3>1 DEF EntryAt
      <3> QED BY <2>1, <2>3, <3>1, <3>2
    <2>4. s \in 0 .. MaxEntries \cup {Excused, Wrong} /\ i \in Nat
      <3>1. CASE cookie[c].seen = Excused
        BY <2>1, <3>1 DEF Excused
      <3>2. CASE cookie[c].seen # Excused
        <4> HIDE DEF s
        <4> QED BY <2>1, <2>2, <2>3, <3>2, FileIOAssumption
      <3> QED BY <3>1, <3>2
    <2>5. cookie[c].seen = Excused => s = Excused
      BY DEF Excused
    <2>6. cookie' = [cookie EXCEPT ![c] = k]
      BY <1>2, <1>4 DEF NextEntry, IInv, TypeOK, At
    <2> HIDE DEF i, s
    <2>7. /\ k \in DirCookies /\ k.state = cookie[c].state /\ k.handle = cookie[c].handle
          /\ k.index = i /\ k.seen = s
      BY <1>2, <2>4, SeenAt, Zenon
    <2> HIDE DEF k
    <2> QED BY <1>1, <2>3, <2>5, <2>6, <2>7, ListingCallEnds
  <1> QED BY <1>3, <1>4

LEMMA RewindDirPreserves ==
  ASSUME IInv, NEW c \in Cookies, RewindDir(c)
  PROVE  IInv'
  <1> DEFINE s == IF Busy(c) THEN Excused ELSE 0
             k == At(cookie[c], 0, s)
  <1>1. cookie[c] \in DirCookies /\ UNCHANGED <<host, call, lost>>
    BY DirIsDirCookie DEF RewindDir
  <1>2. s \in 0 .. MaxEntries \cup {Excused, Wrong}
    BY FileIOAssumption
  <1>3. cookie' = [cookie EXCEPT ![c] = k]
    BY DEF RewindDir, IInv, TypeOK, At
  <1>4. /\ k \in DirCookies /\ k.state = cookie[c].state /\ k.handle = cookie[c].handle
        /\ k.index = 0 /\ k.seen = s
    <2> HIDE DEF s
    <2>1. 0 \in Nat
      OBVIOUS
    <2> QED BY <1>1, <1>2, <2>1, SeenAt, Zenon
  <1> HIDE DEF k, s
  <1>5. /\ cookie'[c] = k /\ \A d \in Cookies \ {c} : cookie'[d] = cookie[d]
        /\ cookie' \in [Cookies -> {NoCookie} \cup FileCookies \cup DirCookies]
        /\ HandlesHaveOneOwner'
        /\ \A d \in Cookies : cookie[d] \in FileCookies => cookie'[d] = cookie[d]
        /\ \A d \in Cookies : cookie[d] \in DirCookies <=> cookie'[d] \in DirCookies
    BY <1>1, <1>3, <1>4, ListingKeeps
  <1>6. TypeOK'
    BY <1>1, <1>5 DEF IInv, TypeOK, host
  <1>7. CookiesInUse'
    BY <1>1, <1>5 DEF IInv, CookiesInUse, TransferCalls, ListingCalls
  <1>8. TransfersInPlace'
    <2>1. \A u \in Threads : call[u] \in TransferCalls =>
            call[u].c \in Cookies /\ cookie'[call[u].c] = cookie[call[u].c]
      BY <1>5 DEF IInv, CookiesInUse, TransferCalls
    <2> QED BY <1>1, <2>1 DEF IInv, TransfersInPlace, InPlace
  <1>9. ListingsInOrder'
    <2>1. s # Excused => ~Busy(c) /\ s = 0
      BY DEF s
    <2>2. Len(entries) \in Nat
      BY DEF IInv, TypeOK
    <2>3. \A d \in Cookies : cookie'[d] \in DirCookies /\ cookie'[d].seen # Excused =>
            cookie'[d].seen = cookie'[d].index /\ cookie'[d].index <= Len(entries)
      BY <1>4, <1>5, <2>1, <2>2 DEF IInv, ListingsInOrder
    <2>4. ASSUME NEW u \in Threads, call[u] \in ListingCalls, cookie'[call[u].c].seen # Excused
          PROVE  /\ call[u].entry = EntryAt(cookie'[call[u].c].index + 1)
                 /\ \A v \in Threads : call[v] \in ListingCalls /\ call[v].c = call[u].c => v = u
      <3>1. call[u].c \in Cookies /\ call[u].op = "read_dir"
        BY <2>4 DEF ListingCalls
      <3>2. call[u].c # c
        BY <1>4, <1>5, <2>1, <2>2, <2>4, <3>1 DEF Busy
      <3> QED BY <1>5, <2>4, <3>1, <3>2 DEF IInv, ListingsInOrder
    <2> QED BY <1>1, <2>3, <2>4 DEF IInv, ListingsInOrder, EntryAt, host
  <1> QED BY <1>5, <1>6, <1>7, <1>8, <1>9 DEF IInv

LEMMA HostChangesDirPreserves ==
  ASSUME IInv, HostChangesDir
  PROVE  IInv'
  <1> DEFINE k(c) == IF ~Is(c, "none") /\ cookie[c].of = Directory
                     THEN [cookie[c] EXCEPT !.seen = Excused] ELSE cookie[c]
  <1>1. /\ cookie' = [c \in Cookies |-> k(c)] /\ UNCHANGED <<opened, call, lost>>
        /\ Len(entries) = MaxEntries /\ entries' = Tail(entries)
    BY DEF HostChangesDir
  <1>2. ASSUME NEW c \in Cookies
        PROVE  /\ cookie[c] \in DirCookies =>
                    /\ k(c) \in DirCookies /\ k(c).seen = Excused
                    /\ k(c).state = cookie[c].state /\ k(c).handle = cookie[c].handle
                    /\ k(c).of = cookie[c].of
               /\ cookie[c] \notin DirCookies => k(c) = cookie[c]
    <2>1. ASSUME NEW d \in DirCookies
          PROVE  LET e == [d EXCEPT !.seen = Excused]
                 IN  /\ e \in DirCookies /\ e.seen = Excused /\ e.state = d.state
                     /\ e.handle = d.handle /\ e.of = d.of
      BY DEF DirCookies
    <2>2. cookie[c] \in DirCookies => ~Is(c, "none") /\ cookie[c].of = Directory
      BY DEF DirCookies, Is
    <2>3. ~Is(c, "none") /\ cookie[c].of = Directory => cookie[c] \in DirCookies
      BY CookieKinds, CookiesDiffer DEF IInv, Is
    <2> QED BY <2>1, <2>2, <2>3
  <1> HIDE DEF k
  <1>3. ASSUME NEW c \in Cookies
        PROVE  /\ cookie'[c].state = cookie[c].state
               /\ cookie'[c] \in {NoCookie} \cup FileCookies \cup DirCookies
               /\ cookie[c] \in FileCookies => cookie'[c] = cookie[c]
               /\ cookie[c] \in DirCookies => cookie'[c] \in DirCookies /\ cookie'[c].seen = Excused
               /\ cookie'[c] \in DirCookies => cookie[c] \in DirCookies
               /\ cookie'[c].handle = cookie[c].handle /\ cookie'[c].of = cookie[c].of
    BY <1>1, <1>2, CookiesDiffer DEF IInv, TypeOK
  <1>4. entries' \in Seq(1 .. MaxEntries) /\ Len(entries') <= MaxEntries
    <2>1. entries \in Seq(1 .. MaxEntries)
      BY DEF IInv, TypeOK
    <2>2. CASE entries = <<>>
      BY <1>1, <2>2
    <2>3. CASE entries # <<>>
      BY <1>1, <2>1, <2>3, HeadTailProperties
    <2> QED BY <2>2, <2>3
  <1>5. TypeOK'
    BY <1>1, <1>3, <1>4 DEF IInv, TypeOK
  <1>6. HandlesHaveOneOwner'
    BY <1>1, <1>3 DEF IInv, HandlesHaveOneOwner, Open, Is
  <1>7. CookiesInUse'
    BY <1>1, <1>3 DEF IInv, CookiesInUse, TransferCalls, ListingCalls
  <1>8. TransfersInPlace'
    <2>1. \A u \in Threads : call[u] \in TransferCalls =>
            call[u].c \in Cookies /\ cookie'[call[u].c] = cookie[call[u].c]
      BY <1>3 DEF IInv, CookiesInUse, TransferCalls
    <2> QED BY <1>1, <2>1 DEF IInv, TransfersInPlace, InPlace
  <1>9. ListingsInOrder'
    <2>1. \A u \in Threads : call[u] \in ListingCalls =>
            call[u].c \in Cookies /\ cookie'[call[u].c].seen = Excused
      BY <1>3 DEF IInv, CookiesInUse, ListingCalls
    <2>2. \A c \in Cookies : cookie'[c] \in DirCookies => cookie'[c].seen = Excused
      BY <1>3
    <2> QED BY <1>1, <1>4, <2>1, <2>2 DEF ListingsInOrder
  <1> QED BY <1>5, <1>6, <1>7, <1>8, <1>9 DEF IInv

-----------------------------------------------------------------------------
(* The invariant.                                                          *)

LEMMA InitInvariant == Init => IInv
  <1> SUFFICES ASSUME Init PROVE IInv
    OBVIOUS
  <1>1. entries \in Seq(1 .. MaxEntries) /\ Len(entries) = MaxEntries
    BY FileIOAssumption DEF Init
  <1>2. TypeOK
    BY <1>1 DEF Init, TypeOK, Idle
  <1>3. HandlesHaveOneOwner
    BY DEF Init, HandlesHaveOneOwner, Open, Is, NoCookie
  <1>4. CookiesInUse /\ TransfersInPlace
    BY IdleIsNoCall DEF Init, CookiesInUse, TransfersInPlace
  <1>5. ListingsInOrder
    BY <1>1, IdleIsNoCall, CookiesDiffer, FileIOAssumption DEF Init, ListingsInOrder
  <1> QED BY <1>2, <1>3, <1>4, <1>5 DEF IInv

LEMMA StepInvariant == IInv /\ [Next]_vars => IInv'
  <1> SUFFICES ASSUME IInv, [Next]_vars PROVE IInv'
    OBVIOUS
  <1>1. CASE UNCHANGED vars
    BY <1>1 DEF vars, IInv, TypeOK, HandlesHaveOneOwner, CookiesInUse, TransfersInPlace, InPlace,
                ListingsInOrder, EntryAt, Open, Is
  <1>2. ASSUME NEW c \in Cookies, CookieStep(c)
        PROVE  IInv'
    BY <1>2, OpenHookPreserves, OpenRootPreserves, OpenDirHookPreserves, CreatePreserves,
       ClosePreserves, FreeCookiePreserves, RewindDirPreserves DEF CookieStep
  <1>3. ASSUME NEW t \in Threads, ThreadStep(t)
        PROVE  IInv'
    <2>1. ASSUME NEW c \in Cookies, Begin(t, c) \/ ReadDirEntry(t, c)
          PROVE  IInv'
      BY <2>1, BeginPreserves, ReadDirEntryPreserves
    <2>2. CASE Progress(t)
      BY <2>2, ReadChunkPreserves, WriteChunkPreserves, ChunkFailsPreserves, CallEnds
         DEF Progress, Return
    <2>3. CASE NextEntry(t) \/ EntryFaults(t)
      BY <2>3, NextEntryPreserves, CallEnds DEF EntryFaults
    <2> QED BY <1>3, <2>1, <2>2, <2>3 DEF ThreadStep
  <1>4. CASE HostChangesDir
    BY <1>4, HostChangesDirPreserves
  <1> QED BY <1>1, <1>2, <1>3, <1>4 DEF Next

LEMMA Invariant == Spec => []IInv
  BY InitInvariant, StepInvariant, PTL DEF Spec

LEMMA TransfersFollow == IInv => TransfersWhatItSays
  <1> SUFFICES ASSUME IInv, NEW t \in Threads,
                      Transfers(t), call[t].over, Is(call[t].c, "open")
               PROVE  LET r == call[t]
                      IN  /\ r.right /\ r.done <= r.length
                          /\ r.status = "ok" =>
                               /\ r.moved = r.done
                               /\ r.done = r.length \/ (r.op = "read" /\ r.atEnd)
    BY DEF TransfersWhatItSays
  <1>1. call[t] \in TransferCalls
    BY CallKinds DEF IInv, Transfers
  <1>2. InPlace(call[t])
    BY <1>1 DEF IInv, TransfersInPlace
  <1> QED BY <1>2 DEF InPlace, Is

LEMMA ListingFollows == IInv => ListingIsWhole
  <1> SUFFICES ASSUME IInv, NEW t \in Threads, call[t].op = "read_dir", call[t].entry = 0,
                      cookie[call[t].c].seen # Excused
               PROVE  cookie[call[t].c].seen = Len(entries)
    BY DEF ListingIsWhole
  <1> DEFINE c == call[t].c
  <1>1. call[t] \in ListingCalls
    BY CallKinds DEF IInv
  <1>2. c \in Cookies /\ cookie[c] \in DirCookies
    BY <1>1 DEF IInv, CookiesInUse, ListingCalls
  <1>3. cookie[c].seen = cookie[c].index /\ cookie[c].index <= Len(entries)
    BY <1>2 DEF IInv, ListingsInOrder
  <1>4. EntryAt(cookie[c].index + 1) = 0
    BY <1>1 DEF IInv, ListingsInOrder
  <1>5. cookie[c].index \in Nat /\ entries \in Seq(1 .. MaxEntries)
    BY <1>2 DEF DirCookies, IInv, TypeOK
  <1>6. ~(cookie[c].index + 1 <= Len(entries))
    <2> SUFFICES ASSUME cookie[c].index + 1 <= Len(entries) PROVE FALSE
      OBVIOUS
    <2>1. cookie[c].index + 1 \in 1 .. Len(entries)
      BY <1>5
    <2>2. entries[cookie[c].index + 1] \in 1 .. MaxEntries
      BY <1>5, <2>1, ElementOfSeq
    <2> QED BY <1>4, <2>2 DEF EntryAt
  <1> QED BY <1>3, <1>5, <1>6

\* The state is of its type: no call counts more bytes than it was asked for.
THEOREM TypeCorrect == Spec => []TypeOK
  BY Invariant, PTL DEF IInv

\* Whatever calls of any number of threads are cut short, fail or race, every handle
\* the host has open is in one open cookie or has been given up by a failed create or
\* a refused close.
THEOREM HandlesAreOwned == Spec => []HandlesHaveOneOwner
  BY Invariant, PTL DEF IInv

\* read and write account for every chunk, for any chunk size and any length: a read
\* or write of a file that stays open moves the bytes it says, in place.
THEOREM TransfersAreExact == Spec => []TransfersWhatItSays
  BY Invariant, TransfersFollow, PTL

\* A listing that was left alone returns every entry once, for any directory.
THEOREM ListingsAreWhole == Spec => []ListingIsWhole
  BY Invariant, ListingFollows, PTL

=============================================================================
