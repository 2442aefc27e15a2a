-------------------------- MODULE Benaphore_proof --------------------------
(***************************************************************************)
(* The benaphore is a mutex for any finite set of threads.                 *)
(***************************************************************************)
EXTENDS Benaphore, FiniteSetTheorems, TLAPS

IInv == TypeOK /\ OneToken

\* The threads that hold the lock or wait for it, which ben counts.
Counted == Inside \cup Waiting

LEMMA CountedFinite ==
  /\ IsFiniteSet(Counted)
  /\ Cardinality(Counted) \in Nat
  /\ Cardinality(Counted) = 0 <=> Counted = {}
  <1>1. Counted \subseteq Threads
    BY DEF Counted, Inside, Waiting
  <1>2. IsFiniteSet(Counted)
    BY <1>1, ThreadsAssumption, FS_Subset
  <1> QED BY <1>2, FS_CardinalityType, FS_EmptySet

LEMMA InitInvariant == Init => IInv
  <1> SUFFICES ASSUME Init PROVE IInv
    OBVIOUS
  <1>1. Inside = {} /\ Waiting = {} /\ Posting = {}
    BY DEF Init, Inside, Waiting, Posting
  <1> QED BY <1>1, FS_EmptySet DEF Init, IInv, TypeOK, OneToken

\* One more thread holds the lock or waits for it.
LEMMA AcquirePreserves ==
  ASSUME IInv, NEW t \in Threads, Acquire(t)
  PROVE  IInv'
  <1>1. TypeOK'
    BY DEF IInv, TypeOK, Acquire
  <1>2. Counted' = Counted \cup {t} /\ t \notin Counted
    BY DEF Counted, Inside, Waiting, Acquire, IInv, TypeOK
  <1>3. ben' = Cardinality(Counted')
    BY <1>2, CountedFinite, FS_AddElement
    DEF Acquire, IInv, OneToken, Counted
  <1>4. CASE ben = 0
    <2>0. \A u \in Threads : pc[u] \notin {"in", "post"}
      BY <1>4 DEF IInv, OneToken, Inside, Posting
    <2>1. Inside' = {t} /\ Posting' = {}
      BY <1>4, <2>0 DEF Acquire, IInv, TypeOK, Inside, Posting
    <2> QED BY <1>1, <1>3, <1>4, <2>1 DEF Acquire, IInv, OneToken, Counted
  <1>5. CASE ben > 0
    <2>1. Inside' = Inside /\ Posting' = Posting
      BY <1>5 DEF Acquire, IInv, TypeOK, Inside, Posting
    <2> QED BY <1>1, <1>3, <1>5, <2>1 DEF Acquire, IInv, TypeOK, OneToken, Counted
  <1> QED BY <1>4, <1>5 DEF IInv, TypeOK

\* The token goes from the semaphore to the thread.
LEMMA AcquireSemPreserves ==
  ASSUME IInv, NEW t \in Threads, AcquireSem(t)
  PROVE  IInv'
  <1>1. TypeOK'
    BY DEF IInv, TypeOK, AcquireSem
  <1>2. Counted' = Counted
    BY DEF Counted, Inside, Waiting, AcquireSem, IInv, TypeOK
  <1>3. Inside \cup Posting = {} /\ sem = 1 /\ ben > 0
    BY DEF AcquireSem, IInv, OneToken
  <1>4. Inside' \cup Posting' = {t}
    BY <1>3 DEF Inside, Posting, AcquireSem, IInv, TypeOK
  <1> QED BY <1>1, <1>2, <1>3, <1>4 DEF AcquireSem, IInv, OneToken, Counted

\* The thread inside is the only one to hold the token: it keeps it, to post,
\* exactly if others wait.
LEMMA ReleasePreserves ==
  ASSUME IInv, NEW t \in Threads, Release(t)
  PROVE  IInv'
  <1>1. t \in Counted /\ Counted' = Counted \ {t}
    BY DEF Counted, Inside, Waiting, Release, IInv, TypeOK
  <1>2. Inside \cup Posting = {t} /\ ben > 0 /\ sem = 0
    BY DEF Release, IInv, OneToken, Inside
  <1>3. ben' = Cardinality(Counted') /\ ben' \in Nat
    <2>1. Cardinality(Counted \ {t}) = Cardinality(Counted) - 1
      BY <1>1, CountedFinite, FS_RemoveElement
    <2>2. ben = Cardinality(Counted)
      BY DEF IInv, OneToken, Counted
    <2>3. ben' = ben - 1 /\ ben \in Nat
      BY DEF Release, IInv, TypeOK
    <2> QED BY <1>1, <1>2, <2>1, <2>2, <2>3
  <1>4. TypeOK'
    BY <1>3 DEF IInv, TypeOK, Release
  <1>5. CASE ben > 1
    <2>1. Inside' \cup Posting' = {t}
      BY <1>2, <1>5 DEF Inside, Posting, Release, IInv, TypeOK
    <2> QED
      BY <1>2, <1>3, <1>4, <1>5, <2>1 DEF Release, IInv, TypeOK, OneToken, Counted
  <1>6. CASE ben = 1
    <2>1. Inside' \cup Posting' = {}
      BY <1>2, <1>6 DEF Inside, Posting, Release, IInv, TypeOK
    <2> QED
      BY <1>2, <1>3, <1>4, <1>6, <2>1 DEF Release, IInv, OneToken, Counted
  <1> QED BY <1>2, <1>5, <1>6 DEF IInv, TypeOK

LEMMA ReleaseSemPreserves ==
  ASSUME IInv, NEW t \in Threads, ReleaseSem(t)
  PROVE  IInv'
  <1>1. TypeOK'
    BY DEF IInv, TypeOK, ReleaseSem
  <1>2. Counted' = Counted
    BY DEF Counted, Inside, Waiting, ReleaseSem, IInv, TypeOK
  <1>3. Inside \cup Posting = {t} /\ sem = 0 /\ ben > 0
    BY DEF ReleaseSem, IInv, OneToken, Posting
  <1>4. Inside' \cup Posting' = {}
    BY <1>3 DEF Inside, Posting, ReleaseSem, IInv, TypeOK
  <1> QED BY <1>1, <1>2, <1>3, <1>4 DEF ReleaseSem, IInv, OneToken, Counted

LEMMA StepInvariant == IInv /\ [Next]_vars => IInv'
  <1>1. ASSUME IInv, UNCHANGED vars PROVE IInv'
    BY <1>1 DEF vars, IInv, TypeOK, OneToken, Inside, Waiting, Posting
  <1> QED
    BY <1>1, AcquirePreserves, AcquireSemPreserves, ReleasePreserves,
       ReleaseSemPreserves DEF Next

LEMMA Invariance == Spec => []IInv
  BY InitInvariant, StepInvariant, PTL DEF Spec

-----------------------------------------------------------------------------

\* Neither counter goes below zero: a thread releases only what it has acquired, and
\* the semaphore is taken only when it has been released.
THEOREM TypeCorrect == Spec => []TypeOK
  BY Invariance, PTL DEF IInv

\* The counter counts the threads that hold the lock or wait for it, and the
\* lock is in one place: a thread inside, a thread about to post, the semaphore.
THEOREM TokenInvariant == Spec => []OneToken
  BY Invariance, PTL DEF IInv

\* RELEASE_BEN never misses a waiter: if threads wait and none is inside, the
\* semaphore has been released for one of them or is about to be.
THEOREM WakeupKept == Spec => []NoLostWakeup
  <1>1. IInv => NoLostWakeup
    <2> SUFFICES ASSUME IInv, Waiting # {}, Inside = {}
                 PROVE  sem > 0 \/ Posting # {}
      BY DEF NoLostWakeup
    <2>1. ben # 0
      BY CountedFinite DEF IInv, OneToken, Counted
    <2> QED BY <2>1 DEF IInv, OneToken
  <1> QED BY <1>1, Invariance, PTL

\* Two threads are never inside, whatever the interleaving of the atomic
\* additions and the system calls of ACQUIRE_BEN and RELEASE_BEN.
THEOREM MutualExclusion == Spec => IsMutex
  <1>1. Init => Lock!Init
    BY DEF Init, Lock!Init, Inside
  <1>2. IInv /\ [Next]_vars => [Lock!Next]_Inside
    <2> SUFFICES ASSUME IInv, [Next]_vars PROVE [Lock!Next]_Inside
      OBVIOUS
    <2>1. CASE UNCHANGED vars
      BY <2>1 DEF vars, Inside
    <2>2. ASSUME NEW t \in Threads, Acquire(t)
          PROVE  Lock!Enter(t) \/ UNCHANGED Inside
      <3>1. CASE ben = 0
        BY <2>2, <3>1 DEF Acquire, Lock!Enter, IInv, TypeOK, OneToken, Inside
      <3>2. CASE ben > 0
        BY <2>2, <3>2 DEF Acquire, IInv, TypeOK, Inside
      <3> QED BY <3>1, <3>2 DEF IInv, TypeOK
    <2>3. ASSUME NEW t \in Threads, AcquireSem(t)
          PROVE  Lock!Enter(t)
      <3>1. Inside = {}
        BY <2>3 DEF AcquireSem, IInv, OneToken
      <3> QED BY <2>3, <3>1 DEF AcquireSem, Lock!Enter, IInv, TypeOK, Inside
    <2>4. ASSUME NEW t \in Threads, Release(t)
          PROVE  Lock!Leave(t)
      BY <2>4 DEF Release, Lock!Leave, IInv, TypeOK, Inside
    <2>5. ASSUME NEW t \in Threads, ReleaseSem(t)
          PROVE  UNCHANGED Inside
      BY <2>5 DEF ReleaseSem, IInv, TypeOK, Inside
    <2> QED BY <2>1, <2>2, <2>3, <2>4, <2>5 DEF Next, Lock!Next
  <1> QED BY <1>1, <1>2, Invariance, PTL DEF Spec, IsMutex, Lock!Spec
=============================================================================
