--------------------------- MODULE MCSharedTables ---------------------------
(***************************************************************************)
(* SharedTables with three tasks: the one that reads lines and two that it *)
(* or the other spawns.                                                    *)
(***************************************************************************)
EXTENDS SharedTables, TLC

CONSTANTS t1, t2, nameA, nameB

Symmetry == Permutations(Tasks \ {Main}) \cup Permutations(Names)
=============================================================================
