----------------------------- MODULE MCNodeTree -----------------------------
(***************************************************************************)
(* Instances of NodeTree for TLC.                                          *)
(***************************************************************************)
EXTENDS NodeTree

\* Threads and names are interchangeable.
Symmetry == Permutations(Threads) \cup Permutations(Names)
=============================================================================
