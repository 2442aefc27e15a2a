------------------------------ MODULE Fifo_proof ------------------------------
(***************************************************************************)
(* The published words decode, for a ring of any size, any writers and any *)
(* batches.                                                                *)
(***************************************************************************)
EXTENDS Fifo, FiniteSetTheorems, TLAPS

Inside(w) == pc[w] \in {"write", "full"}

\* Who holds fifoLock is where the code holds it, and only that one has a batch
\* half written.
AtTheLock ==
  /\ DOMAIN batch = Writers /\ DOMAIN written = Writers
  /\ \A w \in Writers : Inside(w) <=> w \in lock
  /\ \A v, w \in lock : v = w
  /\ \A w \in Writers : ~ Inside(w) => written[w] = 0

\* What has been published decodes.
Stream ==
  /\ \A k \in 1 .. Pending : Follows(Ahead(k - 1), Ahead(k))
  /\ Ahead(Pending).i = Ahead(Pending).n

\* The j-th word of a batch.
WordOf(w, j) == Word(w, (j % batch[w].words) + 1, batch[w].words)

\* What w has written of its batch stands after NEXT_CMD, up to fifoNext.
Unpublished(w) ==
  /\ Pending + written[w] < fifoCapacity
  /\ fifoNext = Place(NEXT_CMD, written[w])
  /\ \A j \in 0 .. written[w] - 1 : fifo[Place(NEXT_CMD, j)] = WordOf(w, j)

InOrder ==
  /\ Stream
  /\ \A w \in lock : Unpublished(w)
  /\ lock = {} => fifoNext = NEXT_CMD

IInv == TypeOK /\ AtTheLock /\ (~ overrun => InOrder)

-----------------------------------------------------------------------------
(* Places in the ring, and the words of a batch.                           *)

LEMMA Ring ==
  ASSUME NEW o \in Offsets, NEW j \in 0 .. fifoCapacity
  PROVE  /\ Place(o, j) \in Offsets
         /\ o + j < fifoCapacity => Place(o, j) = o + j
         /\ o + j >= fifoCapacity => Place(o, j) = o + j - fifoCapacity
  BY CapacityAssumption DEF Offsets, Place

LEMMA Distance ==
  ASSUME TypeOK
  PROVE  /\ Pending \in 0 .. fifoCapacity - 1
         /\ NEXT_CMD >= STOP => NEXT_CMD = STOP + Pending
         /\ NEXT_CMD < STOP => NEXT_CMD + fifoCapacity = STOP + Pending
  BY CapacityAssumption DEF TypeOK, Offsets, Pending

LEMMA SuccessorOfPlace ==
  ASSUME NEW o \in Offsets
  PROVE  /\ Successor(o) \in Offsets
         /\ o + 1 < fifoCapacity => Successor(o) = o + 1
         /\ o + 1 >= fifoCapacity => Successor(o) = 0
  <1>1. Successor(o) = Place(o, 1) /\ 1 \in 0 .. fifoCapacity
    BY CapacityAssumption DEF Successor, Place
  <1> QED BY <1>1, Ring, CapacityAssumption DEF Offsets

\* Places less than a ring apart are different.
LEMMA Apart ==
  ASSUME NEW o \in Offsets, NEW i \in 0 .. fifoCapacity - 1, NEW j \in 0 .. fifoCapacity - 1,
         i # j
  PROVE  Place(o, i) # Place(o, j)
  <1>1. i \in 0 .. fifoCapacity /\ j \in 0 .. fifoCapacity /\ fifoCapacity \in Nat
    BY CapacityAssumption
  <1>2. /\ o + i < fifoCapacity => Place(o, i) = o + i
        /\ o + i >= fifoCapacity => Place(o, i) = o + i - fifoCapacity
    BY <1>1, Ring
  <1>3. /\ o + j < fifoCapacity => Place(o, j) = o + j
        /\ o + j >= fifoCapacity => Place(o, j) = o + j - fifoCapacity
    BY <1>1, Ring
  <1> QED BY <1>1, <1>2, <1>3 DEF Offsets

\* The place j words after NEXT_CMD, counted from STOP.
LEMMA FromStop ==
  ASSUME TypeOK, NEW j \in Nat, Pending + j <= fifoCapacity
  PROVE  Place(NEXT_CMD, j) = Place(STOP, Pending + j)
  <1>1. /\ NEXT_CMD \in Offsets /\ STOP \in Offsets /\ fifoCapacity \in Nat
        /\ j \in 0 .. fifoCapacity /\ Pending + j \in 0 .. fifoCapacity
    BY Distance, CapacityAssumption DEF TypeOK
  <1>2. /\ NEXT_CMD + j < fifoCapacity => Place(NEXT_CMD, j) = NEXT_CMD + j
        /\ NEXT_CMD + j >= fifoCapacity => Place(NEXT_CMD, j) = NEXT_CMD + j - fifoCapacity
    BY <1>1, Ring
  <1> DEFINE i == Pending + j
  <1>3. /\ STOP + i < fifoCapacity => Place(STOP, i) = STOP + i
        /\ STOP + i >= fifoCapacity => Place(STOP, i) = STOP + i - fifoCapacity
    BY <1>1, Ring
  <1> QED BY <1>1, <1>2, <1>3, Distance DEF Offsets

\* And the next one.
LEMMA SuccessorFromStop ==
  ASSUME TypeOK, NEW i \in 0 .. fifoCapacity - 1
  PROVE  Successor(Place(STOP, i)) = Place(STOP, i + 1)
  <1>1. /\ STOP \in Offsets /\ fifoCapacity \in Nat \ {0, 1}
        /\ i \in 0 .. fifoCapacity /\ i + 1 \in 0 .. fifoCapacity
    BY CapacityAssumption DEF TypeOK
  <1>2. /\ Place(STOP, i) \in Offsets
        /\ STOP + i < fifoCapacity => Place(STOP, i) = STOP + i
        /\ STOP + i >= fifoCapacity => Place(STOP, i) = STOP + i - fifoCapacity
    BY <1>1, Ring
  <1> DEFINE k == i + 1
  <1>3. /\ STOP + k < fifoCapacity => Place(STOP, k) = STOP + k
        /\ STOP + k >= fifoCapacity => Place(STOP, k) = STOP + k - fifoCapacity
    BY <1>1, Ring
  <1>4. /\ Place(STOP, i) + 1 < fifoCapacity => Successor(Place(STOP, i)) = Place(STOP, i) + 1
        /\ Place(STOP, i) + 1 >= fifoCapacity => Successor(Place(STOP, i)) = 0
    BY <1>2, SuccessorOfPlace
  <1> QED BY <1>1, <1>2, <1>3, <1>4 DEF Offsets

\* The distance from o of a place after it.
LEMMA DistanceOfPlace ==
  ASSUME NEW o \in Offsets, NEW i \in 0 .. fifoCapacity - 1
  PROVE  (Place(o, i) - o) % fifoCapacity = i
  <1>1. i \in 0 .. fifoCapacity /\ fifoCapacity \in Nat \ {0, 1}
    BY CapacityAssumption
  <1>2. /\ o + i < fifoCapacity => Place(o, i) = o + i
        /\ o + i >= fifoCapacity => Place(o, i) = o + i - fifoCapacity
    BY <1>1, Ring
  <1>3. Place(o, i) - o = i \/ Place(o, i) - o = i - fifoCapacity
    BY <1>1, <1>2 DEF Offsets
  <1>4. i % fifoCapacity = i /\ (i - fifoCapacity) % fifoCapacity = i
    BY <1>1
  <1> QED BY <1>3, <1>4

LEMMA PlaceAfterSuccessor ==
  ASSUME NEW o \in Offsets, NEW j \in 0 .. fifoCapacity - 1
  PROVE  Place(Successor(o), j) = Place(o, j + 1)
  <1> DEFINE k == j + 1
             q == Successor(o)
  <1>1. j \in 0 .. fifoCapacity /\ k \in 0 .. fifoCapacity /\ fifoCapacity \in Nat \ {0, 1}
    BY CapacityAssumption
  <1>2. /\ o + k < fifoCapacity => Place(o, k) = o + k
        /\ o + k >= fifoCapacity => Place(o, k) = o + k - fifoCapacity
    BY <1>1, Ring
  <1>3. /\ q \in Offsets
        /\ o + 1 < fifoCapacity => q = o + 1
        /\ o + 1 >= fifoCapacity => q = 0
    BY SuccessorOfPlace
  <1> HIDE DEF q
  <1>4. /\ q + j < fifoCapacity => Place(q, j) = q + j
        /\ q + j >= fifoCapacity => Place(q, j) = q + j - fifoCapacity
    BY <1>1, <1>3, Ring
  <1>5. Place(q, j) = Place(o, k)
    BY <1>1, <1>2, <1>3, <1>4 DEF Offsets
  <1> QED BY <1>5 DEF q

LEMMA BatchLength ==
  ASSUME TypeOK, NEW w \in Writers
  PROVE  /\ Length(batch[w]) \in Nat
         /\ batch[w].count \in Nat /\ batch[w].words \in Nat
         /\ Length(batch[w]) = batch[w].count * batch[w].words
         /\ batch[w].words = 0 => Length(batch[w]) = 0
  <1>1. batch[w].count \in Nat /\ batch[w].words \in Nat
    BY BatchesAssumption DEF TypeOK, NoBatch
  <1>2. \A x, y \in Nat : x * y \in Nat /\ x * 0 = 0
    OBVIOUS
  <1> QED BY <1>1, <1>2 DEF Length

LEMMA NextInCommand ==
  ASSUME NEW n \in Nat \ {0}, NEW j \in Nat \ {0}
  PROVE  /\ (j - 1) % n \in 0 .. n - 1 /\ j % n \in 0 .. n - 1
         /\ (j - 1) % n = n - 1 => j % n = 0
         /\ (j - 1) % n # n - 1 => j % n = ((j - 1) % n) + 1
  <1> DEFINE q == (j - 1) \div n
             r == (j - 1) % n
  <1>1. q \in Nat /\ r \in 0 .. n - 1 /\ j - 1 = (n * q) + r
    OBVIOUS
  <1>2. j % n \in 0 .. n - 1
    OBVIOUS
  <1> HIDE DEF q, r
  <1>3. CASE r = n - 1
    <2>1. j = n * (q + 1)
      BY <1>1, <1>3
    <2>2. (n * (q + 1)) % n = 0
      BY <1>1
    <2> QED BY <1>1, <1>2, <1>3, <2>1, <2>2 DEF r
  <1>4. CASE r # n - 1
    <2>1. j = (n * q) + (r + 1) /\ r + 1 \in 0 .. n - 1
      BY <1>1, <1>4
    <2>2. \A s \in 0 .. n - 1 : ((n * q) + s) % n = s
      BY <1>1
    <2> QED BY <1>1, <1>2, <1>4, <2>1, <2>2 DEF r
  <1> QED BY <1>3, <1>4

LEMMA Multiple ==
  ASSUME NEW n \in Nat \ {0}, NEW x \in Nat
  PROVE  (x * n) % n = 0
  OBVIOUS

LEMMA LastOfBatch ==
  ASSUME NEW n \in Nat \ {0}, NEW c \in Nat, NEW j \in Nat, j + 1 = c * n
  PROVE  (j % n) + 1 = n
  <1> DEFINE k == j + 1
  <1>1. (c * n) % n = 0
    BY Multiple
  <1>2. k % n = 0
    BY <1>1
  <1>3. k \in Nat \ {0} /\ k - 1 = j
    OBVIOUS
  <1> HIDE DEF k
  <1>4. /\ (k - 1) % n \in 0 .. n - 1
        /\ (k - 1) % n # n - 1 => k % n = ((k - 1) % n) + 1
    BY <1>3, NextInCommand
  <1>5. j % n \in 0 .. n - 1 /\ (j % n # n - 1 => k % n = (j % n) + 1)
    BY <1>3, <1>4
  <1> DEFINE r == j % n
  <1>6. r \in 0 .. n - 1 /\ (r # n - 1 => 0 = r + 1)
    BY <1>2, <1>5
  <1> HIDE DEF r
  <1>7. r + 1 = n
    BY <1>6
  <1> QED BY <1>7 DEF r

\* A word and the next one of the batch, in the same command or the next.
LEMMA CommandContinues ==
  ASSUME NEW w, NEW n \in Nat \ {0}, NEW j \in Nat \ {0}
  PROVE  Follows(Word(w, ((j - 1) % n) + 1, n), Word(w, (j % n) + 1, n))
  <1> DEFINE a == (j - 1) % n
             b == j % n
  <1>1. /\ a \in 0 .. n - 1 /\ b \in 0 .. n - 1
        /\ a = n - 1 => b = 0
        /\ a # n - 1 => b = a + 1
    BY NextInCommand
  <1> HIDE DEF a, b
  <1>2. Follows(Word(w, a + 1, n), Word(w, b + 1, n))
    <2>1. a + 1 = n => b + 1 = 1
      BY <1>1
    <2>2. a + 1 # n => b + 1 = (a + 1) + 1
      BY <1>1
    <2> QED BY <2>1, <2>2 DEF Follows, Word
  <1> QED BY <1>2 DEF a, b

-----------------------------------------------------------------------------
(* The steps.                                                              *)

LEMMA InitInvariant == Init => IInv
  <1> SUFFICES ASSUME Init PROVE IInv
    OBVIOUS
  <1>1. 0 \in Offsets
    BY CapacityAssumption DEF Offsets
  <1>2. Length(NoBatch) = 0
    BY DEF Length, NoBatch
  <1>3. TypeOK
    <2>1. DOMAIN fifo = Offsets
      BY DEF Init
    <2>2. pc \in [Writers -> {"idle", "begin", "write", "full", "drain"}]
      BY DEF Init
    <2>3. \A w \in Writers : batch[w] \in Batches[w] \cup {NoBatch}
      BY DEF Init
    <2>4. \A w \in Writers : written[w] \in 0 .. Length(batch[w])
      <3>1. \A w \in Writers : written[w] = 0 /\ batch[w] = NoBatch
        BY DEF Init
      <3>2. 0 \in 0 .. 0
        OBVIOUS
      <3> QED BY <1>2, <3>1, <3>2, Zenon
    <2>5. overrun \in BOOLEAN
      BY Zenon DEF Init
    <2> QED BY <1>1, <2>1, <2>2, <2>3, <2>4, <2>5 DEF Init, TypeOK
  <1>4. AtTheLock
    BY DEF Init, AtTheLock, Inside
  <1>5. Pending = 0
    BY <1>3, Distance, CapacityAssumption DEF Init
  <1>6. InOrder
    <2>1. Ahead(0).i = Ahead(0).n
      BY DEF Init, Ahead, Word
    <2>2. 1 .. 0 = {}
      OBVIOUS
    <2> QED BY <1>5, <2>1, <2>2 DEF Init, InOrder, Stream
  <1> QED BY <1>3, <1>4, <1>6 DEF IInv

\* What the stream depends on.
LEMMA SameStream ==
  ASSUME InOrder, UNCHANGED <<fifo, NEXT_CMD, STOP, fifoNext, lock, last, written>>,
         \A v \in lock : batch'[v] = batch[v]
  PROVE  InOrder'
  <1>1. Stream'
    BY DEF InOrder, Stream, Pending, Ahead, Follows
  <1>2. \A v \in lock : Unpublished(v)'
    BY DEF InOrder, Unpublished, Pending, WordOf
  <1> QED BY <1>1, <1>2 DEF InOrder

\* Who is inside has its words between the published ones and fifoNext.
LEMMA HalfWritten ==
  ASSUME IInv, ~ overrun, NEW w \in Writers, Inside(w)
  PROVE  /\ lock = {w} /\ Unpublished(w)
         /\ written[w] \in Nat /\ Pending \in Nat
         /\ Pending + written[w] \in 0 .. fifoCapacity - 1
         /\ fifoNext = Place(STOP, Pending + written[w])
  <1>1. lock = {w} /\ Unpublished(w)
    BY DEF IInv, AtTheLock, InOrder, TypeOK
  <1>2. written[w] \in Nat /\ Pending \in Nat /\ fifoCapacity \in Nat
    BY BatchLength, Distance, CapacityAssumption DEF IInv, TypeOK
  <1>3. Pending + written[w] \in 0 .. fifoCapacity - 1
    BY <1>1, <1>2 DEF Unpublished
  <1>4. fifoNext = Place(STOP, Pending + written[w])
    BY <1>1, <1>2, <1>3, FromStop DEF Unpublished, IInv
  <1> QED BY <1>1, <1>2, <1>3, <1>4

\* The next word overruns the ring exactly if there is no room for it.
LEMMA RoomLeft ==
  ASSUME IInv, ~ overrun, NEW w \in Writers, Inside(w)
  PROVE  /\ Successor(fifoNext) = Place(STOP, (Pending + written[w]) + 1)
         /\ Successor(fifoNext) = STOP <=> (Pending + written[w]) + 1 = fifoCapacity
  <1> DEFINE i == Pending + written[w]
  <1>1. i \in 0 .. fifoCapacity - 1 /\ fifoNext = Place(STOP, i) /\ STOP \in Offsets
    BY HalfWritten DEF IInv, TypeOK
  <1> HIDE DEF i
  <1>2. fifoCapacity \in Nat \ {0, 1}
    BY CapacityAssumption
  <1>3. Successor(fifoNext) = Place(STOP, i + 1)
    BY <1>1, SuccessorFromStop DEF IInv
  <1>4. Place(STOP, fifoCapacity) = STOP /\ Place(STOP, 0) = STOP
    <2>1. /\ fifoCapacity \in 0 .. fifoCapacity /\ STOP + fifoCapacity >= fifoCapacity
          /\ STOP + fifoCapacity - fifoCapacity = STOP
          /\ 0 \in 0 .. fifoCapacity /\ STOP + 0 < fifoCapacity /\ STOP + 0 = STOP
      BY <1>1, <1>2 DEF Offsets
    <2> QED BY <1>1, <2>1, Ring
  <1>5. ASSUME i + 1 # fifoCapacity PROVE Place(STOP, i + 1) # STOP
    <2>1. i + 1 \in 0 .. fifoCapacity - 1 /\ 0 \in 0 .. fifoCapacity - 1 /\ i + 1 # 0
      BY <1>1, <1>2, <1>5
    <2> QED BY <1>1, <1>4, <2>1, Apart
  <1> QED BY <1>3, <1>4, <1>5 DEF i

LEMMA PendingAfterEndWrite ==
  ASSUME IInv, ~ overrun, NEW w \in Writers, FifoEndWrite(w)
  PROVE  Pending' = Pending + written[w]
  <1>1. Inside(w) /\ NEXT_CMD' = fifoNext /\ STOP' = STOP /\ STOP \in Offsets
    BY DEF FifoEndWrite, Go, Inside, IInv, TypeOK
  <1>2. /\ Pending + written[w] \in 0 .. fifoCapacity - 1
        /\ fifoNext = Place(STOP, Pending + written[w])
    BY <1>1, HalfWritten
  <1> QED BY <1>1, <1>2, DistanceOfPlace DEF Pending

LEMMA PendingAfterRead ==
  ASSUME IInv, DeviceRead
  PROVE  /\ Pending \in 1 .. fifoCapacity - 1 /\ Pending' = Pending - 1
         /\ \A k \in 0 .. fifoCapacity - 1 : Place(STOP', k) = Place(STOP, k + 1)
  <1> DEFINE p == Pending
  <1>1. STOP # NEXT_CMD /\ STOP' = Successor(STOP) /\ NEXT_CMD' = NEXT_CMD
    BY DEF DeviceRead
  <1>2. STOP \in Offsets /\ STOP' \in Offsets /\ NEXT_CMD \in Offsets
    BY <1>1, SuccessorOfPlace DEF IInv, TypeOK
  <1>3. fifoCapacity \in Nat \ {0, 1}
    BY CapacityAssumption
  <1>4. p \in 1 .. fifoCapacity - 1
    <2>1. NEXT_CMD >= STOP => NEXT_CMD = STOP + p
      BY Distance DEF IInv
    <2>2. p \in 0 .. fifoCapacity - 1
      BY Distance DEF IInv
    <2>3. NEXT_CMD < STOP => NEXT_CMD + fifoCapacity = STOP + p
      BY Distance DEF IInv
    <2>4. /\ NEXT_CMD \in 0 .. fifoCapacity - 1 /\ STOP \in 0 .. fifoCapacity - 1
          /\ fifoCapacity \in Nat
      BY <1>2, <1>3 DEF Offsets
    <2> HIDE DEF p
    <2> QED BY <1>1, <2>1, <2>2, <2>3, <2>4
  <1>5. \A k \in 0 .. fifoCapacity - 1 : Place(STOP', k) = Place(STOP, k + 1)
    BY <1>1, <1>2, PlaceAfterSuccessor
  <1>6. NEXT_CMD = Place(STOP', p - 1)
    <2>1. Place(NEXT_CMD, 0) = Place(STOP, p + 0) /\ Place(NEXT_CMD, 0) = NEXT_CMD
      <3>1. /\ 0 \in Nat /\ p + 0 <= fifoCapacity /\ 0 \in 0 .. fifoCapacity
            /\ NEXT_CMD + 0 < fifoCapacity /\ NEXT_CMD + 0 = NEXT_CMD
        BY <1>2, <1>3, <1>4 DEF Offsets
      <3> QED BY <1>2, <3>1, FromStop, Ring DEF IInv
    <2>2. p + 0 = (p - 1) + 1 /\ p - 1 \in 0 .. fifoCapacity - 1
      BY <1>3, <1>4
    <2> QED BY <1>5, <2>1, <2>2
  <1>7. p - 1 \in 0 .. fifoCapacity - 1
    BY <1>3, <1>4
  <1>8. Pending' = p - 1
    BY <1>1, <1>2, <1>6, <1>7, DistanceOfPlace DEF Pending
  <1> QED BY <1>4, <1>5, <1>8

LEMMA WriteWordPreserves ==
  ASSUME IInv, NEW w \in Writers, Inside(w), WriteWord(w),
         UNCHANGED <<NEXT_CMD, STOP, lock, batch, last>>,
         pc' = [pc EXCEPT ![w] = "write"]
  PROVE  IInv'
  <1>1. w \in lock /\ \A v \in lock : v = w
    BY DEF IInv, AtTheLock
  <1>2. /\ written' = [written EXCEPT ![w] = written[w] + 1]
        /\ written[w] + 1 \in 0 .. Length(batch[w]) /\ written[w] \in Nat
        /\ batch[w].words \in Nat \ {0}
    BY BatchLength DEF IInv, TypeOK, WriteWord
  <1>3. fifoNext \in Offsets /\ fifoNext' = Successor(fifoNext)
        /\ overrun' = (overrun \/ Successor(fifoNext) = STOP)
    BY DEF IInv, TypeOK, WriteWord
  <1>4. /\ DOMAIN fifo' = Offsets
        /\ fifo'[fifoNext] = WordOf(w, written[w])
        /\ \A o \in Offsets \ {fifoNext} : fifo'[o] = fifo[o]
    BY <1>3 DEF IInv, TypeOK, WriteWord, WordOf
  <1>5. TypeOK'
    <2>1. \A v \in Writers : written'[v] \in 0 .. Length(batch[v])
      BY <1>2 DEF IInv, TypeOK, AtTheLock
    <2>2. overrun' \in BOOLEAN
      BY <1>3, Zenon DEF IInv, TypeOK
    <2>3. fifoNext' \in Offsets
      BY <1>3, SuccessorOfPlace
    <2>4. pc' \in [Writers -> {"idle", "begin", "write", "full", "drain"}]
      BY DEF IInv, TypeOK
    <2> QED BY <1>4, <2>1, <2>2, <2>3, <2>4 DEF IInv, TypeOK
  <1>6. AtTheLock'
    BY <1>1, <1>2 DEF IInv, TypeOK, AtTheLock, Inside
  <1>7. ASSUME ~ overrun' PROVE InOrder'
    <2>1. InOrder /\ Unpublished(w) /\ Successor(fifoNext) # STOP
      BY <1>1, <1>3, <1>7 DEF IInv, InOrder
    <2>2. /\ Pending \in Nat /\ Pending' = Pending
          /\ NEXT_CMD \in Offsets /\ STOP \in Offsets
          /\ fifoCapacity \in Nat \ {0, 1}
      BY Distance, CapacityAssumption DEF IInv, TypeOK, Pending
    <2> DEFINE p == Pending
               n == written[w]
    <2>3. /\ n \in Nat /\ p + n \in 0 .. fifoCapacity - 1
          /\ fifoNext = Place(STOP, p + n)
      BY <1>3, <1>7, HalfWritten
    <2>4. p + n + 1 < fifoCapacity /\ fifoNext' = Place(STOP, p + n + 1)
      <3>1. ~ overrun
        BY <1>3, <1>7
      <3>2. Successor(fifoNext) = Place(STOP, (p + n) + 1) /\ (p + n) + 1 # fifoCapacity
        BY <2>1, <3>1, RoomLeft
      <3> QED BY <1>3, <2>2, <2>3, <3>2
    <2>5. ASSUME NEW k \in 1 .. Pending
          PROVE  Place(STOP, k - 1) \in Offsets \ {fifoNext}
      <3>1. k - 1 \in 0 .. fifoCapacity - 1 /\ k - 1 \in 0 .. fifoCapacity /\ k - 1 # p + n
        BY <2>2, <2>3 DEF Offsets
      <3> HIDE DEF p, n
      <3> QED BY <2>2, <2>3, <3>1, Ring, Apart
    <2>6. \A k \in 0 .. Pending : Ahead(k)' = Ahead(k)
      BY <1>4, <2>2, <2>5 DEF Ahead
    <2>7. Stream'
      <3>1. \A k \in 1 .. Pending : k \in 0 .. Pending /\ k - 1 \in 0 .. Pending
        BY <2>2
      <3>2. Pending \in 0 .. Pending
        BY <2>2
      <3> QED BY <2>1, <2>2, <2>6, <3>1, <3>2 DEF Stream, InOrder, Follows
    <2>8. ASSUME NEW j \in 0 .. written[w] - 1
          PROVE  Place(NEXT_CMD, j) \in Offsets \ {fifoNext}
      <3>1. /\ j \in Nat /\ p + j <= fifoCapacity /\ p + j \in 0 .. fifoCapacity - 1
            /\ p + j \in 0 .. fifoCapacity /\ p + j # p + n
        BY <2>2, <2>3
      <3>2. Place(NEXT_CMD, j) = Place(STOP, p + j)
        BY <3>1, FromStop DEF IInv
      <3> HIDE DEF p, n
      <3> QED BY <2>2, <2>3, <3>1, <3>2, Ring, Apart
    <2>9. Unpublished(w)'
      <3>1. written'[w] = written[w] + 1
        BY <1>2 DEF IInv, AtTheLock
      <3>2. fifoNext' = Place(NEXT_CMD, written[w] + 1)
        <4>1. n + 1 \in Nat /\ p + (n + 1) <= fifoCapacity /\ p + n + 1 = p + (n + 1)
          BY <2>2, <2>3, <2>4
        <4>2. Place(NEXT_CMD, n + 1) = Place(STOP, p + (n + 1))
          BY <4>1, FromStop DEF IInv
        <4> QED BY <2>4, <4>1, <4>2
      <3>3. ASSUME NEW j \in 0 .. (written[w] + 1) - 1
            PROVE  fifo'[Place(NEXT_CMD, j)] = WordOf(w, j)
        <4>1. CASE j = written[w]
          BY <1>4, <2>1, <4>1 DEF Unpublished
        <4>2. CASE j # written[w]
          <5>1. j \in 0 .. written[w] - 1
            BY <1>2, <4>2
          <5> QED BY <1>4, <2>1, <2>8, <5>1 DEF Unpublished
        <4> QED BY <4>1, <4>2
      <3>4. \A j : WordOf(w, j)' = WordOf(w, j)
        BY DEF WordOf, Word
      <3> QED BY <1>2, <2>2, <2>4, <3>1, <3>2, <3>3, <3>4 DEF Unpublished
    <2> QED BY <1>1, <2>7, <2>9 DEF InOrder
  <1> QED BY <1>5, <1>6, <1>7 DEF IInv

LEMMA StartPreserves ==
  ASSUME IInv, NEW w \in Writers, Start(w)
  PROVE  IInv'
  <1>1. PICK b \in Batches[w] : batch' = [batch EXCEPT ![w] = b]
    BY DEF Start
  <1>2. /\ ~ Inside(w) /\ w \notin lock /\ written[w] = 0
        /\ pc' = [pc EXCEPT ![w] = "begin"]
        /\ UNCHANGED <<fifo, NEXT_CMD, STOP, fifoNext, lock, written, last, overrun>>
    BY DEF Start, Go, IInv, AtTheLock, Inside
  <1>3. TypeOK'
    <2>1. \A v \in Writers : batch'[v] \in Batches[v] \cup {NoBatch}
      BY <1>1 DEF IInv, TypeOK, AtTheLock
    <2>2. Length(b) \in Nat
      <3>1. b.count \in Nat /\ b.words \in Nat
        BY BatchesAssumption
      <3>2. \A x, y \in Nat : x * y \in Nat
        OBVIOUS
      <3> QED BY <3>1, <3>2 DEF Length
    <2>3. \A v \in Writers : written'[v] \in 0 .. Length(batch'[v])
      BY <1>1, <1>2, <2>2 DEF IInv, TypeOK, AtTheLock
    <2>4. pc' \in [Writers -> {"idle", "begin", "write", "full", "drain"}]
      BY <1>2 DEF IInv, TypeOK
    <2> QED BY <1>2, <2>1, <2>3, <2>4 DEF IInv, TypeOK
  <1>4. AtTheLock'
    BY <1>1, <1>2 DEF IInv, TypeOK, AtTheLock, Inside
  <1>5. \A v \in lock : batch'[v] = batch[v] /\ v \in Writers
    BY <1>1, <1>2 DEF IInv, AtTheLock, TypeOK
  <1>6. ASSUME ~ overrun' PROVE InOrder'
    BY <1>2, <1>5, <1>6, SameStream DEF IInv
  <1> QED BY <1>3, <1>4, <1>6 DEF IInv

LEMMA FifoBeginWritePreserves ==
  ASSUME IInv, NEW w \in Writers, FifoBeginWrite(w)
  PROVE  IInv'
  <1>1. /\ lock = {} /\ lock' = {w} /\ written[w] = 0
        /\ pc' = [pc EXCEPT ![w] = "write"]
        /\ UNCHANGED <<fifo, NEXT_CMD, STOP, fifoNext, batch, written, last, overrun>>
    BY DEF FifoBeginWrite, Go, FifoLock!Enter, IInv, AtTheLock, Inside
  <1>2. TypeOK'
    BY <1>1 DEF IInv, TypeOK
  <1>3. AtTheLock'
    BY <1>1 DEF IInv, TypeOK, AtTheLock, Inside
  <1>4. ASSUME ~ overrun' PROVE InOrder'
    <2>1. InOrder /\ fifoNext = NEXT_CMD
      BY <1>1, <1>4 DEF IInv, InOrder
    <2>2. Pending \in 0 .. fifoCapacity - 1 /\ fifoCapacity \in Nat \ {0}
          /\ Place(NEXT_CMD, 0) = NEXT_CMD
      BY Distance, Ring, CapacityAssumption DEF IInv, TypeOK, Offsets
    <2>3. Unpublished(w)
      BY <1>1, <2>1, <2>2 DEF Unpublished
    <2>4. Unpublished(w)' /\ Stream'
      BY <1>1, <2>1, <2>3 DEF InOrder, Unpublished, Stream, Pending, Ahead, WordOf, Follows
    <2> QED BY <1>1, <2>4 DEF InOrder
  <1> QED BY <1>2, <1>3, <1>4 DEF IInv

\* The steps of the writers that only move them.
LEMMA WaitPreserves ==
  ASSUME IInv, NEW w \in Writers, FifoWriteFull(w) \/ FifoSync(w)
  PROVE  IInv'
  <1>1. /\ \E p \in {"full", "idle"} : pc' = [pc EXCEPT ![w] = p]
        /\ UNCHANGED <<fifo, NEXT_CMD, STOP, fifoNext, lock, batch, written, last, overrun>>
        /\ \A v \in Writers : Inside(v)' <=> Inside(v)
    BY DEF FifoWriteFull, FifoSync, Go, IInv, TypeOK, Inside
  <1>2. TypeOK'
    BY <1>1 DEF IInv, TypeOK
  <1>3. AtTheLock'
    BY <1>1 DEF IInv, AtTheLock
  <1>4. ASSUME ~ overrun' PROVE InOrder'
    BY <1>1, <1>4, SameStream DEF IInv
  <1> QED BY <1>2, <1>3, <1>4 DEF IInv

LEMMA FifoEndWritePreserves ==
  ASSUME IInv, NEW w \in Writers, FifoEndWrite(w)
  PROVE  IInv'
  <1>1. /\ Inside(w) /\ lock = {w} /\ lock' = {}
        /\ written[w] = Length(batch[w]) /\ NEXT_CMD' = fifoNext
        /\ written' = [written EXCEPT ![w] = 0] /\ batch' = [batch EXCEPT ![w] = NoBatch]
        /\ \E p \in {"drain", "idle"} : pc' = [pc EXCEPT ![w] = p]
        /\ UNCHANGED <<fifo, STOP, fifoNext, last, overrun>>
    BY DEF FifoEndWrite, Go, FifoLock!Leave, IInv, AtTheLock, Inside
  <1>2. TypeOK'
    <2>1. \A v \in Writers : batch'[v] \in Batches[v] \cup {NoBatch}
      BY <1>1 DEF IInv, TypeOK, AtTheLock
    <2>2. Length(NoBatch) = 0
      BY DEF Length, NoBatch
    <2>3. \A v \in Writers : written'[v] \in 0 .. Length(batch'[v])
      BY <1>1, <2>2 DEF IInv, TypeOK, AtTheLock
    <2>4. pc' \in [Writers -> {"idle", "begin", "write", "full", "drain"}]
      BY <1>1 DEF IInv, TypeOK
    <2> QED BY <1>1, <2>1, <2>3, <2>4 DEF IInv, TypeOK
  <1>3. AtTheLock'
    BY <1>1 DEF IInv, TypeOK, AtTheLock, Inside
  <1>4. ASSUME ~ overrun' PROVE InOrder'
    <2> DEFINE p == Pending
               n == written[w]
               s == batch[w].words
    <2>1. InOrder /\ Unpublished(w) /\ Stream
      BY <1>1, <1>4 DEF IInv, InOrder
    <2>2. /\ p \in Nat /\ n \in Nat /\ p + n \in 0 .. fifoCapacity - 1
          /\ fifoNext = Place(STOP, p + n)
          /\ fifoCapacity \in Nat \ {0, 1}
      BY <1>1, <1>4, HalfWritten, CapacityAssumption
    <2>3. Pending' = p + n
      BY <1>1, <1>4, PendingAfterEndWrite
    <2>4. \A k : Ahead(k)' = Ahead(k)
      BY <1>1 DEF Ahead
    <2>5. ASSUME NEW k \in 1 .. n PROVE Ahead(p + k) = WordOf(w, k - 1)
      <3>1. k - 1 \in Nat /\ k - 1 \in 0 .. n - 1 /\ p + (k - 1) <= fifoCapacity /\ p + k # 0
            /\ (p + k) - 1 = p + (k - 1)
        BY <2>2
      <3>2. Ahead(p + k) = fifo[Place(STOP, p + (k - 1))]
        BY <3>1 DEF Ahead
      <3>3. Place(NEXT_CMD, k - 1) = Place(STOP, p + (k - 1))
        BY <3>1, FromStop DEF IInv
      <3>4. fifo[Place(NEXT_CMD, k - 1)] = WordOf(w, k - 1)
        BY <2>1, <3>1 DEF Unpublished
      <3> QED BY <3>2, <3>3, <3>4
    <2>6. n > 0 => s \in Nat \ {0} /\ batch[w].count \in Nat /\ n = batch[w].count * s
      BY <1>1, BatchLength DEF IInv
    <2>7. Ahead(p).i = Ahead(p).n /\ \A k \in 1 .. p : Follows(Ahead(k - 1), Ahead(k))
      BY <2>1 DEF Stream
    <2>8. ASSUME NEW k \in 1 .. p + n
          PROVE  Follows(Ahead(k - 1), Ahead(k))
      <3>1. CASE k \in 1 .. p
        BY <2>7, <3>1
      <3>2. CASE k = p + 1
        <4>1. 1 \in 1 .. n /\ n > 0 /\ k - 1 = p /\ 1 - 1 = 0
          BY <2>2, <3>2
        <4>2. Ahead(k) = WordOf(w, 0) /\ Ahead(k - 1) = Ahead(p)
          BY <2>5, <3>2, <4>1
        <4>3. WordOf(w, 0).i = 1
          <5>1. 0 % s = 0
            BY <2>6, <4>1
          <5> QED BY <5>1 DEF WordOf, Word
        <4> QED BY <2>7, <4>2, <4>3, Zenon DEF Follows
      <3>3. CASE k \in p + 2 .. p + n
        <4> DEFINE j == k - p - 1
        <4>1. /\ j \in Nat \ {0} /\ j \in 1 .. n /\ j + 1 \in 1 .. n /\ n > 0
              /\ k = p + (j + 1) /\ k - 1 = p + j /\ (j + 1) - 1 = j
          BY <2>2, <3>3
        <4> HIDE DEF j
        <4>2. Ahead(k) = WordOf(w, j) /\ Ahead(k - 1) = WordOf(w, j - 1)
          BY <2>5, <4>1
        <4> QED BY <2>6, <4>1, <4>2, CommandContinues DEF WordOf
      <3> QED BY <2>2, <3>1, <3>2, <3>3
    <2>9. Ahead(p + n).i = Ahead(p + n).n
      <3>1. CASE n = 0
        BY <2>2, <2>7, <3>1
      <3>2. CASE n > 0
        <4>1. n \in 1 .. n /\ n - 1 \in Nat /\ (n - 1) + 1 = n
          BY <2>2, <3>2
        <4>2. Ahead(p + n) = WordOf(w, n - 1)
          BY <2>5, <4>1
        <4>3. ((n - 1) % s) + 1 = s
          BY <2>6, <3>2, <4>1, LastOfBatch
        <4> QED BY <4>2, <4>3 DEF WordOf, Word
      <3> QED BY <2>2, <3>1, <3>2
    <2>10. Stream'
      <3>1. ASSUME NEW k \in 1 .. Pending'
            PROVE  Follows(Ahead(k - 1)', Ahead(k)')
        BY <2>3, <2>4, <2>8
      <3>2. (Ahead(Pending)').i = (Ahead(Pending)').n
        BY <1>1, <2>3, <2>9 DEF Ahead
      <3> QED BY <3>1, <3>2, Zenon DEF Stream, Follows
    <2> QED BY <1>1, <2>10 DEF InOrder
  <1> QED BY <1>2, <1>3, <1>4 DEF IInv

LEMMA DeviceReadPreserves ==
  ASSUME IInv, DeviceRead
  PROVE  IInv'
  <1>1. /\ STOP # NEXT_CMD /\ last' = fifo[STOP] /\ STOP' = Successor(STOP)
        /\ UNCHANGED <<fifo, NEXT_CMD, fifoNext, lock, pc, batch, written, overrun>>
    BY DEF DeviceRead
  <1>2. TypeOK'
    BY <1>1, SuccessorOfPlace DEF IInv, TypeOK
  <1>3. AtTheLock'
    BY <1>1 DEF IInv, AtTheLock, Inside
  <1>4. ASSUME ~ overrun' PROVE InOrder'
    <2> DEFINE p == Pending
    <2>1. InOrder /\ Stream
      BY <1>1, <1>4 DEF IInv, InOrder
    <2>2. /\ p \in 1 .. fifoCapacity - 1 /\ p \in Nat
          /\ STOP \in Offsets /\ fifoCapacity \in Nat \ {0, 1}
      BY PendingAfterRead, CapacityAssumption DEF IInv, TypeOK
    <2>3. \A k \in 0 .. fifoCapacity - 1 : Place(STOP', k) = Place(STOP, k + 1)
      BY PendingAfterRead
    <2>5. Pending' = p - 1
      BY PendingAfterRead
    <2>6. ASSUME NEW k \in 0 .. p - 1
          PROVE  Ahead(k)' = Ahead(k + 1)
      <3>1. k + 1 # 0 /\ (k + 1) - 1 = k
        BY <2>2
      <3>2. Ahead(k + 1) = fifo[Place(STOP, k)]
        BY <3>1 DEF Ahead
      <3>3. CASE k = 0
        <4>1. STOP + 0 < fifoCapacity /\ STOP + 0 = STOP /\ 0 \in 0 .. fifoCapacity
          BY <2>2 DEF Offsets
        <4>2. Place(STOP, 0) = STOP
          BY <2>2, <4>1, Ring
        <4> QED BY <1>1, <3>2, <3>3, <4>2 DEF Ahead
      <3>4. CASE k # 0
        <4>1. k - 1 \in 0 .. fifoCapacity - 1 /\ (k - 1) + 1 = k
          BY <2>2, <3>4
        <4>2. Place(STOP', k - 1) = Place(STOP, k)
          BY <2>3, <4>1
        <4>3. Ahead(k)' = fifo[Place(STOP', k - 1)]
          BY <1>1, <3>4 DEF Ahead, Place
        <4> QED BY <3>2, <4>2, <4>3
      <3> QED BY <3>3, <3>4
    <2>7. Stream'
      <3>1. ASSUME NEW k \in 1 .. Pending'
            PROVE  Follows(Ahead(k - 1)', Ahead(k)')
        <4>1. k \in 0 .. p - 1 /\ k - 1 \in 0 .. p - 1 /\ (k - 1) + 1 = k /\ k + 1 \in 1 .. p
              /\ (k + 1) - 1 = k
          BY <2>2, <2>5
        <4>2. Ahead(k - 1)' = Ahead(k) /\ Ahead(k)' = Ahead(k + 1)
          BY <2>6, <4>1
        <4>3. Follows(Ahead((k + 1) - 1), Ahead(k + 1))
          BY <2>1, <4>1 DEF Stream
        <4> QED BY <4>1, <4>2, <4>3
      <3>2. ASSUME NEW k, k = Pending' PROVE (Ahead(Pending))' = Ahead(k)'
        BY <3>2 DEF Ahead, Place
      <3>3. PICK k : k = p - 1
        OBVIOUS
      <3>4. Ahead(k)' = Ahead(p)
        <4>1. k \in 0 .. p - 1 /\ k + 1 = p
          BY <2>2, <3>3
        <4> QED BY <2>6, <4>1
      <3>5. (Ahead(Pending))' = Ahead(p)
        BY <2>5, <3>2, <3>3, <3>4
      <3>6. (Ahead(Pending)').i = (Ahead(Pending)').n
        BY <2>1, <3>5 DEF Stream
      <3> QED BY <3>1, <3>6, Zenon DEF Stream, Follows
    <2>8. ASSUME NEW v \in lock PROVE Unpublished(v)'
      <3>1. written[v] \in Nat
        BY BatchLength DEF IInv, TypeOK
      <3>2. Unpublished(v)
        BY <2>1 DEF InOrder
      <3>3. Pending' + written[v] < fifoCapacity
        BY <2>2, <2>5, <3>1, <3>2 DEF Unpublished
      <3> QED BY <1>1, <3>2, <3>3 DEF Unpublished, Place, WordOf
    <2> QED BY <1>1, <2>1, <2>7, <2>8 DEF InOrder
  <1> QED BY <1>2, <1>3, <1>4 DEF IInv

LEMMA StepInvariant == IInv /\ [Next]_vars => IInv'
  <1> SUFFICES ASSUME IInv, [Next]_vars PROVE IInv'
    OBVIOUS
  <1>1. CASE UNCHANGED vars
    <2>1. UNCHANGED <<fifo, NEXT_CMD, STOP, fifoNext, lock, pc, batch, written, last, overrun>>
      BY <1>1 DEF vars
    <2>2. TypeOK' /\ AtTheLock'
      BY <2>1 DEF IInv, TypeOK, AtTheLock, Inside
    <2>3. ~ overrun' => InOrder'
      BY <2>1, SameStream DEF IInv
    <2> QED BY <2>2, <2>3 DEF IInv
  <1>2. ASSUME NEW w \in Writers, FifoWrite(w) \/ FifoWriteSynced(w) PROVE IInv'
    <2>1. /\ Inside(w) /\ WriteWord(w) /\ pc' = [pc EXCEPT ![w] = "write"]
          /\ UNCHANGED <<NEXT_CMD, STOP, lock, batch, last>>
      BY <1>2 DEF FifoWrite, FifoWriteSynced, Go, Inside
    <2> QED BY <2>1, WriteWordPreserves
  <1>3. ASSUME NEW w \in Writers, Start(w) \/ Write(w) \/ FifoSync(w) PROVE IInv'
    BY <1>2, <1>3, StartPreserves, FifoBeginWritePreserves, WaitPreserves,
       FifoEndWritePreserves DEF Write
  <1> QED BY <1>1, <1>3, DeviceReadPreserves DEF Next

LEMMA Invariance == Spec => []IInv
  BY InitInvariant, StepInvariant, PTL DEF Spec

-----------------------------------------------------------------------------

\* The registers stay in the ring and a writer in its batch, for a ring of any
\* size: the offset wraps where FifoWrite wraps it.
THEOREM TypeCorrect == Spec => []TypeOK
  <1>1. IInv => TypeOK
    BY DEF IInv
  <1> QED BY <1>1, Invariance, PTL

\* Until a word is written to a full ring, the device decodes whole commands of one
\* writer each, whatever the sizes of the ring and of the batches: the lock keeps
\* half-written batches apart, and FifoEndWrite publishes them whole.
THEOREM StreamDecodes == Spec => []PublishedDecodes
  <1>1. IInv => PublishedDecodes
    BY DEF IInv, InOrder, Stream, PublishedDecodes
  <1> QED BY <1>1, Invariance, PTL

-----------------------------------------------------------------------------
(* When the ring cannot be overrun.                                        *)

Draining == {w \in Writers : pc[w] = "drain"}

\* Every batch waits for the device and has at most L words.
Waits(L) == \A w \in Writers : \A b \in Batches[w] : b.syncs /\ Length(b) <= L

\* What has been published is what writers wait for.
Awaited(L) == IInv /\ ~ overrun /\ Pending <= L * Cardinality(Draining)

LEMMA WriterNeedsRoom ==
  ASSUME IsFiniteSet(Writers), NEW L \in Nat, Waits(L), L * Cardinality(Writers) < fifoCapacity,
         Awaited(L), NEW w \in Writers, WriteWord(w), Inside(w)
  PROVE  ~ overrun'
  <1> DEFINE d == Cardinality(Draining)
             c == Cardinality(Writers)
             p == Pending
             n == written[w]
  <1>1. d \in Nat /\ c \in Nat /\ d + 1 <= c
    <2>1. w \notin Draining /\ Draining \cup {w} \subseteq Writers
      BY DEF Draining, Inside
    <2>2. IsFiniteSet(Draining) /\ d \in Nat /\ c \in Nat
      BY FS_Subset, FS_CardinalityType DEF Draining
    <2>3. Cardinality(Draining \cup {w}) = d + 1
      BY <2>1, <2>2, FS_AddElement
    <2>4. Cardinality(Draining \cup {w}) <= c
      BY <2>1, FS_Subset
    <2> QED BY <2>2, <2>3, <2>4
  <1>2. n \in Nat /\ p \in Nat /\ n + 1 <= L
    <2>1. IInv /\ ~ overrun
      BY DEF Awaited
    <2>2. n \in Nat /\ p \in Nat
      BY <2>1, HalfWritten
    <2>3. n < Length(batch[w]) /\ Length(batch[w]) \in Nat
      BY <2>1, BatchLength DEF WriteWord, IInv
    <2>4. Length(NoBatch) = 0
      BY DEF Length, NoBatch
    <2>5. batch[w] # NoBatch
      BY <2>2, <2>3, <2>4
    <2>6. Length(batch[w]) <= L
      BY <2>1, <2>5 DEF Waits, IInv, TypeOK
    <2> QED BY <2>2, <2>3, <2>6
  <1>3. p <= L * d /\ L * c < fifoCapacity /\ fifoCapacity \in Nat
    BY CapacityAssumption DEF Awaited
  <1>4. (p + n) + 1 < fifoCapacity
    <2> HIDE DEF d, c, p, n
    <2>1. L * (d + 1) <= L * c
      BY <1>1
    <2>2. L * (d + 1) = (L * d) + L /\ L * d \in Nat /\ L * c \in Nat
      BY <1>1
    <2> QED BY <1>2, <1>3, <2>1, <2>2
  <1>5. overrun' = (overrun \/ Successor(fifoNext) = STOP)
    BY DEF WriteWord
  <1>6. Successor(fifoNext) # STOP
    BY <1>2, <1>3, <1>4, RoomLeft DEF Awaited
  <1> QED BY <1>5, <1>6 DEF Awaited

LEMMA AwaitedStep ==
  ASSUME IsFiniteSet(Writers), NEW L \in Nat, Waits(L), L * Cardinality(Writers) < fifoCapacity,
         Awaited(L), [Next]_vars
  PROVE  Awaited(L)'
  <1>1. IInv /\ ~ overrun /\ IInv'
    BY StepInvariant DEF Awaited
  <1>2. /\ Cardinality(Draining) \in Nat /\ L * Cardinality(Draining) \in Nat
        /\ \A w \in Writers : w \notin Draining =>
             Cardinality(Draining \cup {w}) = Cardinality(Draining) + 1
        /\ Pending \in Nat /\ Pending' \in Nat /\ Pending <= L * Cardinality(Draining)
    <2>1. IsFiniteSet(Draining)
      BY FS_Subset DEF Draining
    <2>2. Cardinality(Draining) \in Nat
      BY <2>1, FS_CardinalityType
    <2>3. L * Cardinality(Draining) \in Nat
      BY <2>2
    <2>4. Pending \in Nat
      BY <1>1, Distance DEF IInv
    <2>5. Pending' \in Nat
      <3>1. NEXT_CMD' \in Offsets /\ STOP' \in Offsets
        BY <1>1 DEF IInv, TypeOK
      <3>2. NEXT_CMD' - STOP' \in Int
        BY <3>1 DEF Offsets
      <3>3. \A x \in Int : x % fifoCapacity \in Nat
        BY CapacityAssumption
      <3> QED BY <3>2, <3>3 DEF Pending
    <2> QED BY <2>1, <2>2, <2>3, <2>4, <2>5, FS_AddElement DEF Awaited
  <1>3. ASSUME UNCHANGED <<NEXT_CMD, STOP, overrun>>, Draining' = Draining
        PROVE  Awaited(L)'
    BY <1>1, <1>3 DEF Awaited, Pending
  <1>4. CASE UNCHANGED vars
    BY <1>3, <1>4 DEF vars, Draining
  <1>5. ASSUME NEW w \in Writers, Start(w) \/ FifoBeginWrite(w) \/ FifoWriteFull(w)
        PROVE  Awaited(L)'
    <2>1. UNCHANGED <<NEXT_CMD, STOP, overrun>>
      BY <1>5 DEF Start, FifoBeginWrite, FifoWriteFull
    <2>2. Draining' = Draining
      BY <1>1, <1>5 DEF Start, FifoBeginWrite, FifoWriteFull, Go, Draining, IInv, TypeOK
    <2> QED BY <1>3, <2>1, <2>2
  <1>6. ASSUME NEW w \in Writers, FifoWrite(w) \/ FifoWriteSynced(w)
        PROVE  Awaited(L)'
    <2>1. Inside(w) /\ WriteWord(w) /\ UNCHANGED <<NEXT_CMD, STOP>>
      BY <1>6 DEF FifoWrite, FifoWriteSynced, Go, Inside
    <2>2. Draining' = Draining
      BY <1>1, <1>6 DEF FifoWrite, FifoWriteSynced, Go, Draining, IInv, TypeOK
    <2>3. ~ overrun'
      BY <2>1, WriterNeedsRoom
    <2> QED BY <1>1, <2>1, <2>2, <2>3 DEF Awaited, Pending
  <1>7. ASSUME NEW w \in Writers, FifoEndWrite(w)
        PROVE  Awaited(L)'
    <2>1. Pending' = Pending + written[w] /\ overrun' = overrun /\ pc[w] = "write"
      BY <1>1, <1>7, PendingAfterEndWrite DEF FifoEndWrite, Go
    <2>2. written[w] = Length(batch[w]) /\ Length(batch[w]) \in Nat
      BY <1>1, <1>7, BatchLength DEF FifoEndWrite, IInv
    <2>3. w \notin Draining
      BY <2>1 DEF Draining
    <2>4. CASE batch[w].syncs
      <3>1. Draining' = Draining \cup {w}
        BY <1>1, <1>7, <2>4 DEF FifoEndWrite, Go, Draining, IInv, TypeOK
      <3>2. Length(batch[w]) <= L
        <4>1. Length(NoBatch) = 0
          BY DEF Length, NoBatch
        <4> QED BY <1>1, <4>1 DEF Waits, IInv, TypeOK
      <3>3. Cardinality(Draining') = Cardinality(Draining) + 1
        BY <1>2, <2>3, <3>1
      <3>4. L * (Cardinality(Draining) + 1) = (L * Cardinality(Draining)) + L
        BY <1>2
      <3>5. Pending' <= L * Cardinality(Draining')
        BY <1>2, <2>1, <2>2, <3>2, <3>3, <3>4
      <3> QED BY <1>1, <2>1, <3>5 DEF Awaited
    <2>5. CASE ~ batch[w].syncs
      <3>1. Draining' = Draining
        BY <1>1, <1>7, <2>1, <2>5 DEF FifoEndWrite, Go, Draining, IInv, TypeOK
      <3>2. batch[w] = NoBatch
        BY <1>1, <2>5 DEF Waits, IInv, TypeOK
      <3>3. written[w] = 0
        BY <2>2, <3>2 DEF Length, NoBatch
      <3>4. Pending' = Pending
        BY <1>2, <2>1, <3>3
      <3> QED BY <1>1, <1>2, <2>1, <3>1, <3>4 DEF Awaited
    <2> QED BY <2>4, <2>5
  <1>8. ASSUME NEW w \in Writers, FifoSync(w)
        PROVE  Awaited(L)'
    <2>1. UNCHANGED <<NEXT_CMD, STOP, overrun>> /\ STOP = NEXT_CMD
      BY <1>8 DEF FifoSync
    <2>2. Pending' = 0
      <3>1. NEXT_CMD - STOP = 0 /\ 0 % fifoCapacity = 0
        BY <1>1, <2>1, CapacityAssumption DEF IInv, TypeOK, Offsets
      <3> QED BY <2>1, <3>1 DEF Pending
    <2>3. Cardinality(Draining') \in Nat
      <3>1. Draining' \subseteq Writers
        BY DEF Draining
      <3>2. IsFiniteSet(Draining')
        BY <3>1, FS_Subset
      <3> QED BY <3>2, FS_CardinalityType
    <2>4. 0 <= L * Cardinality(Draining')
      BY <2>3
    <2> QED BY <1>1, <2>1, <2>2, <2>4 DEF Awaited
  <1>9. CASE DeviceRead
    <2>1. Pending' = Pending - 1 /\ overrun' = overrun /\ Draining' = Draining
      BY <1>1, <1>9, PendingAfterRead DEF DeviceRead, Draining
    <2>2. Pending' <= L * Cardinality(Draining')
      BY <1>2, <2>1
    <2> QED BY <1>1, <2>1, <2>2 DEF Awaited
  <1> QED BY <1>4, <1>5, <1>6, <1>7, <1>8, <1>9 DEF Next, Write

\* The ring is not overrun when every writer waits for the device after its batch,
\* and the ring has room for one batch of each: FifoWrite's test is then as good as
\* one on fifoNext. The update thread does not wait.
THEOREM WaitersNeverOverrun ==
  ASSUME IsFiniteSet(Writers), NEW L \in Nat, Waits(L), L * Cardinality(Writers) < fifoCapacity
  PROVE  Spec => []NeverOverrun
  <1>1. Init => Awaited(L)
    <2> SUFFICES ASSUME Init PROVE Awaited(L)
      OBVIOUS
    <2>1. IInv /\ ~ overrun
      BY InitInvariant DEF Init
    <2>2. Pending = 0
      <3>1. NEXT_CMD - STOP = 0 /\ 0 % fifoCapacity = 0
        BY CapacityAssumption DEF Init
      <3> QED BY <3>1 DEF Pending
    <2>3. Cardinality(Draining) \in Nat
      <3>1. IsFiniteSet(Draining)
        BY FS_Subset DEF Draining
      <3> QED BY <3>1, FS_CardinalityType
    <2>4. 0 <= L * Cardinality(Draining)
      BY <2>3
    <2> QED BY <2>1, <2>2, <2>4 DEF Awaited
  <1>2. Awaited(L) /\ [Next]_vars => Awaited(L)'
    BY AwaitedStep
  <1>3. Awaited(L) => NeverOverrun
    BY DEF Awaited, NeverOverrun
  <1> QED BY <1>1, <1>2, <1>3, PTL DEF Spec
=============================================================================
