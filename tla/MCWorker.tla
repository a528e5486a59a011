------------------------------ MODULE MCWorker ------------------------------
(* Worker on small instances.                                              *)
EXTENDS Worker, TLC

CONSTANTS run, t2

OneType == <<run>>
TwoTypes == <<run, t2>>
Symmetry == Permutations(Workers) \union Permutations(Jobs)
=============================================================================
