------------------------------ MODULE Benaphore ------------------------------
(***************************************************************************)
(* The benaphore of the video driver (DriverInterface.h): an atomic counter*)
(* in front of a semaphore, so that an uncontended lock costs no system    *)
(* call.  OpenHook and FreeHook use one, and the accelerant's FIFO and     *)
(* engine code use those in the shared area.                               *)
(*                                                                         *)
(* atomic_add returns the old value, and between it and the system call    *)
(* that may follow the thread can be preempted: ACQUIRE_BEN and RELEASE_BEN*)
(* are two steps each.                                                     *)
(***************************************************************************)
EXTENDS Integers, FiniteSets

CONSTANT Threads

ASSUME ThreadsAssumption == IsFiniteSet(Threads)

VARIABLES
  ben,   \* the counter
  sem,   \* the semaphore's count
  pc     \* "out", "wait" (for the semaphore), "in", "post" (the semaphore)

vars == <<ben, sem, pc>>

TypeOK ==
  /\ ben \in Nat
  /\ sem \in Nat
  /\ pc \in [Threads -> {"out", "wait", "in", "post"}]

\* INIT_BEN: the semaphore is created with a count of zero.
Init ==
  /\ ben = 0
  /\ sem = 0
  /\ pc = [t \in Threads |-> "out"]

\* Mutant: the first to find the lock taken does not wait.
Acquire_OffByOne(t) ==
  /\ pc[t] = "out"
  /\ ben' = ben + 1
  /\ pc' = [pc EXCEPT ![t] = IF ben > 1 THEN "wait" ELSE "in"]
  /\ UNCHANGED sem

Acquire(t) ==
  /\ pc[t] = "out"
  /\ ben' = ben + 1
  /\ pc' = [pc EXCEPT ![t] = IF ben >= 1 THEN "wait" ELSE "in"]
  /\ UNCHANGED sem

\* Mutant: the semaphore is taken whether or not it has been released.
AcquireSem_NoWait(t) ==
  /\ pc[t] = "wait"
  /\ sem' = sem - 1
  /\ pc' = [pc EXCEPT ![t] = "in"]
  /\ UNCHANGED ben

AcquireSem(t) ==
  /\ pc[t] = "wait"
  /\ sem > 0
  /\ sem' = sem - 1
  /\ pc' = [pc EXCEPT ![t] = "in"]
  /\ UNCHANGED ben

\* Mutant: the count is compared after the decrement, not before it.
Release_ComparesNew(t) ==
  /\ pc[t] = "in"
  /\ ben' = ben - 1
  /\ pc' = [pc EXCEPT ![t] = IF ben - 1 > 1 THEN "post" ELSE "out"]
  /\ UNCHANGED sem

Release(t) ==
  /\ pc[t] = "in"
  /\ ben' = ben - 1
  /\ pc' = [pc EXCEPT ![t] = IF ben > 1 THEN "post" ELSE "out"]
  /\ UNCHANGED sem

\* Mutant: the semaphore is released to all of those who wait.
ReleaseSem_Broadcast(t) ==
  /\ pc[t] = "post"
  /\ sem' = sem + Cardinality({u \in Threads : pc[u] = "wait"})
  /\ pc' = [pc EXCEPT ![t] = "out"]
  /\ UNCHANGED ben

ReleaseSem(t) ==
  /\ pc[t] = "post"
  /\ sem' = sem + 1
  /\ pc' = [pc EXCEPT ![t] = "out"]
  /\ UNCHANGED ben

Next ==
  \E t \in Threads : Acquire(t) \/ AcquireSem(t) \/ Release(t) \/ ReleaseSem(t)

Spec == Init /\ [][Next]_vars

\* A thread that is inside leaves, one that has to post does, and Haiku's
\* semaphores serve their waiters in turn.  Nothing makes a thread acquire.
Fairness ==
  \A t \in Threads :
    WF_vars(Release(t)) /\ WF_vars(ReleaseSem(t)) /\ SF_vars(AcquireSem(t))

FairSpec == Spec /\ Fairness

-----------------------------------------------------------------------------
(* Properties.                                                             *)

Inside == {t \in Threads : pc[t] = "in"}
Waiting == {t \in Threads : pc[t] = "wait"}
Posting == {t \in Threads : pc[t] = "post"}

\* The counter counts the threads that hold the lock or wait for it, and while
\* there are any the lock is in exactly one place: with the thread inside, with
\* the thread about to post, or in the semaphore.
OneToken ==
  /\ ben = Cardinality(Inside \cup Waiting)
  /\ \/ ben = 0 /\ sem = 0 /\ Inside \cup Posting = {}
     \/ ben > 0 /\ sem = 1 /\ Inside \cup Posting = {}
     \/ ben > 0 /\ sem = 0 /\ \E t \in Threads : Inside \cup Posting = {t}

\* No wake-up is lost: when threads wait and none is inside, the semaphore has
\* been released for one of them or is about to be.
NoLostWakeup == Waiting # {} /\ Inside = {} => sem > 0 \/ Posting # {}

\* The benaphore is a mutex: no interleaving of the atomic additions and the
\* system calls lets two threads in, and a thread enters only if none is inside.
Lock == INSTANCE Mutex WITH inside <- Inside

IsMutex == Lock!Spec

\* A thread that starts to acquire the benaphore gets it.
EveryWaiterEnters == \A t \in Threads : pc[t] = "wait" ~> pc[t] = "in"
=============================================================================
