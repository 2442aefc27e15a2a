-------------------------------- MODULE Fifo --------------------------------
(***************************************************************************)
(* The command FIFO of the video driver: a ring of words in device memory  *)
(* that the accelerant fills (Fifo.c) and the SVGA device empties.  A      *)
(* writer takes fifoLock, writes the words of its commands one by one at   *)
(* fifoNext, publishes them all at once by moving NEXT_CMD there, and      *)
(* releases the lock; the device reads from STOP up to NEXT_CMD.  A word   *)
(* is written only after a test for a full FIFO, which waits for the       *)
(* device to catch up.                                                     *)
(*                                                                         *)
(* The writers are the threads of the accelerant: the update thread, which *)
(* sends a full-screen update and goes on, and those of the app_server,    *)
(* which blit and then wait for the device.  (The hook that defines the    *)
(* cursor is never exported.)  Offsets are in words from MIN.  A word is   *)
(* known by its writer, its place in its command and the command's length, *)
(* which is what the device goes by.                                       *)
(* The device is outside the repository: it reads one word at a time.      *)
(***************************************************************************)
EXTENDS Integers

CONSTANTS
  Writers,
  Batches,      \* the batches each writer sends
  fifoCapacity  \* words between MIN and MAX

\* A batch is a number of commands of the same length, after which the writer
\* waits for the device or not.
ASSUME BatchesAssumption ==
  Batches \in [Writers -> SUBSET [count : Nat \ {0}, words : Nat \ {0},
                                  syncs : BOOLEAN]]

ASSUME CapacityAssumption == fifoCapacity \in Nat \ {0, 1}

VARIABLES
  fifo,       \* the words of the ring
  NEXT_CMD,   \* where the published words end
  STOP,       \* the word the device reads next
  fifoNext,   \* where the next word is written
  lock,       \* fifoLock: the writer inside, if any
  pc,         \* where each writer stands
  batch,      \* the batch it sends
  written,    \* how many of its words it has written
  last,       \* the device: the last word it read
  overrun     \* history: a word was written to a full ring

vars == <<fifo, NEXT_CMD, STOP, fifoNext, lock, pc, batch, written, last,
          overrun>>

Offsets == 0 .. fifoCapacity - 1

Word(w, i, n) == [by |-> w, i |-> i, n |-> n]

NoBatch == [count |-> 0, words |-> 0, syncs |-> FALSE]

Length(b) == b.count * b.words

TypeOK ==
  /\ DOMAIN fifo = Offsets
  /\ NEXT_CMD \in Offsets /\ STOP \in Offsets /\ fifoNext \in Offsets
  /\ lock \subseteq Writers
  /\ pc \in [Writers -> {"idle", "begin", "write", "full", "drain"}]
  /\ \A w \in Writers : batch[w] \in Batches[w] \cup {NoBatch}
  /\ \A w \in Writers : written[w] \in 0 .. Length(batch[w])
  /\ overrun \in BOOLEAN

\* FifoInit has just set the registers up; nothing has been written yet.
Init ==
  /\ \E w \in Writers :
       /\ fifo = [o \in Offsets |-> Word(w, 0, 0)]
       /\ last = Word(w, 0, 0)
  /\ NEXT_CMD = 0 /\ STOP = 0 /\ fifoNext = 0
  /\ lock = {}
  /\ pc = [w \in Writers |-> "idle"]
  /\ batch = [w \in Writers |-> NoBatch]
  /\ written = [w \in Writers |-> 0]
  /\ overrun = FALSE

FifoLock == INSTANCE Mutex WITH Threads <- Writers, inside <- lock

Go(w, from, to) == pc[w] = from /\ pc' = [pc EXCEPT ![w] = to]

-----------------------------------------------------------------------------
(* The writers.                                                            *)

\* FifoUpdateFullscreen or SCREEN_TO_SCREEN_BLIT is called.
Start(w) ==
  /\ Go(w, "idle", "begin")
  /\ \E b \in Batches[w] : batch' = [batch EXCEPT ![w] = b]
  /\ UNCHANGED <<fifo, NEXT_CMD, STOP, fifoNext, lock, written, last, overrun>>

\* Mutant: the writer goes in without waiting for the one inside.
FifoBeginWrite_Unlocked(w) ==
  /\ Go(w, "begin", "write")
  /\ lock' = lock \cup {w}
  /\ UNCHANGED <<fifo, NEXT_CMD, STOP, fifoNext, batch, written, last, overrun>>

FifoBeginWrite(w) ==
  /\ Go(w, "begin", "write")
  /\ FifoLock!Enter(w)
  /\ UNCHANGED <<fifo, NEXT_CMD, STOP, fifoNext, batch, written, last, overrun>>

\* The test of FifoWrite, on the published end of the words.
Full == STOP = NEXT_CMD + 1 \/ STOP + fifoCapacity = NEXT_CMD + 1

\* Mutant: the offset wraps one word late.
Successor_WrapsLate(o) == (o + 1) % (fifoCapacity + 1)

Successor(o) == (o + 1) % fifoCapacity

WriteWord(w) ==
  /\ written[w] < Length(batch[w])
  /\ fifo' = [fifo EXCEPT ![fifoNext] =
                Word(w, (written[w] % batch[w].words) + 1, batch[w].words)]
  /\ fifoNext' = Successor(fifoNext)
  /\ written' = [written EXCEPT ![w] = @ + 1]
  /\ overrun' = (overrun \/ Successor(fifoNext) = STOP)

FifoWrite(w) ==
  /\ Go(w, "write", "write")
  /\ ~Full
  /\ WriteWord(w)
  /\ UNCHANGED <<NEXT_CMD, STOP, lock, batch, last>>

\* Mutant: a writer that finds the FIFO full gives way and starts its batch over.
FifoWriteFull_StartsOver(w) ==
  /\ Go(w, "write", "begin")
  /\ Full
  /\ written[w] < Length(batch[w])
  /\ fifoNext' = NEXT_CMD
  /\ written' = [written EXCEPT ![w] = 0]
  /\ FifoLock!Leave(w)
  /\ UNCHANGED <<fifo, NEXT_CMD, STOP, batch, last, overrun>>

\* The FIFO is full: FifoWrite syncs it before it writes its word.
FifoWriteFull(w) ==
  /\ Go(w, "write", "full")
  /\ Full
  /\ written[w] < Length(batch[w])
  /\ UNCHANGED <<fifo, NEXT_CMD, STOP, fifoNext, lock, batch, written, last,
                 overrun>>

FifoWriteSynced(w) ==
  /\ Go(w, "full", "write")
  /\ STOP = NEXT_CMD
  /\ WriteWord(w)
  /\ UNCHANGED <<NEXT_CMD, STOP, lock, batch, last>>

FifoEndWrite(w) ==
  /\ Go(w, "write", IF batch[w].syncs THEN "drain" ELSE "idle")
  /\ written[w] = Length(batch[w])
  /\ NEXT_CMD' = fifoNext
  /\ FifoLock!Leave(w)
  /\ written' = [written EXCEPT ![w] = 0]
  /\ batch' = [batch EXCEPT ![w] = NoBatch]
  /\ UNCHANGED <<fifo, STOP, fifoNext, last, overrun>>

\* The FifoSync that ends a blit, outside the lock.
FifoSync(w) ==
  /\ Go(w, "drain", "idle")
  /\ STOP = NEXT_CMD
  /\ UNCHANGED <<fifo, NEXT_CMD, STOP, fifoNext, lock, batch, written, last,
                 overrun>>

-----------------------------------------------------------------------------
(* The device.                                                             *)

\* Word v continues the stream after u: it begins a command if u ended one, and
\* otherwise it is the next word of the same command.
Follows(u, v) == IF u.i = u.n THEN v.i = 1 ELSE v = [u EXCEPT !.i = @ + 1]

DeviceRead ==
  /\ STOP # NEXT_CMD
  /\ last' = fifo[STOP]
  /\ STOP' = Successor(STOP)
  /\ UNCHANGED <<fifo, NEXT_CMD, fifoNext, lock, pc, batch, written, overrun>>

Write(w) ==
  \/ FifoBeginWrite(w) \/ FifoWrite(w) \/ FifoWriteFull(w)
  \/ FifoWriteSynced(w) \/ FifoEndWrite(w)

Next == \/ \E w \in Writers : Start(w) \/ Write(w) \/ FifoSync(w)
        \/ DeviceRead

Spec == Init /\ [][Next]_vars

\* The device empties the FIFO, and a writer goes on with what it is doing.
\* Polling BUSY sees the FIFO drained if it stays so: weak fairness.
Fairness ==
  /\ WF_vars(DeviceRead)
  /\ \A w \in Writers : WF_vars(FifoWrite(w) \/ FifoWriteFull(w)
                                  \/ FifoWriteSynced(w) \/ FifoEndWrite(w))
                          /\ WF_vars(FifoSync(w)) /\ SF_vars(FifoBeginWrite(w))

FairSpec == Spec /\ Fairness

-----------------------------------------------------------------------------
(* Properties.                                                             *)

\* The place j words after o.
Place(o, j) == (o + j) % fifoCapacity

\* How many published words the device has not read, and the k-th of them: it has
\* read the last one before the first.
Pending == (NEXT_CMD - STOP) % fifoCapacity
Ahead(k) == IF k = 0 THEN last ELSE fifo[Place(STOP, k - 1)]

\* The published words are whole commands that continue what the device has
\* read, never the words of two writers mixed or part of a batch, as long as
\* the ring was not overrun: the device loses the stream in no other way.
PublishedDecodes ==
  ~overrun =>
    /\ \A k \in 1 .. Pending : Follows(Ahead(k - 1), Ahead(k))
    /\ Ahead(Pending).i = Ahead(Pending).n

\* No word is written to a full FIFO, that is when it is one word before STOP.
\* It holds when every writer waits for the device after its batch and the ring
\* is larger than all the batches together.
NeverOverrun == ~overrun

\* A writer that starts a batch gets it published.
EveryBatchPublished ==
  \A w \in Writers : pc[w] = "begin" ~> pc[w] \in {"idle", "drain"}
=============================================================================
