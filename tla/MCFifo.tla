------------------------------- MODULE MCFifo -------------------------------
(***************************************************************************)
(* Instances of Fifo for TLC.  Commands have their own lengths: 5 words for*)
(* an update, 7 for a blit.                                                *)
(***************************************************************************)
EXTENDS Fifo

CONSTANTS updater, blitter

Update == [count |-> 1, words |-> 5, syncs |-> FALSE]
Blit(n) == [count |-> n, words |-> 7, syncs |-> TRUE]

\* The update thread, and a thread that blits one or two rectangles at a time.
UpdateAndBlit ==
  [w \in Writers |-> IF w = updater THEN {Update} ELSE {Blit(1), Blit(2)}]

\* The update thread alone.
OnlyUpdate == [w \in Writers |-> {Update}]
=============================================================================
