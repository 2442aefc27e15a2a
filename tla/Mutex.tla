------------------------------- MODULE Mutex -------------------------------
(***************************************************************************)
(* What a benaphore is used for: at most one of its threads is inside.     *)
(***************************************************************************)
CONSTANT Threads

VARIABLE inside      \* the threads in their critical section

TypeOK == inside \subseteq Threads

Init == inside = {}

Enter(t) == inside = {} /\ inside' = {t}

Leave(t) == t \in inside /\ inside' = inside \ {t}

Next == \E t \in Threads : Enter(t) \/ Leave(t)

Spec == Init /\ [][Next]_inside
=============================================================================
