----------------------------- MODULE MCJobQueue -----------------------------
(* JobQueue on small instances: two callers, two rows, one of them also     *)
(* processed by identifier.                                                 *)
EXTENDS JobQueue, TLC

Symmetry == Permutations(Callers)
=============================================================================
