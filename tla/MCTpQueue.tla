----------------------------- MODULE MCTpQueue -----------------------------
(***************************************************************************)
(* TpQueue on small sets of tasks.                                         *)
(***************************************************************************)
EXTENDS TpQueue, TLC

CONSTANTS s1, s2, r1, r2

Symmetry == Permutations(Senders) \cup Permutations(Receivers)
=============================================================================
