---------------------------- MODULE MCCreateRun -----------------------------
(* CreateRun on small instances.                                           *)
EXTENDS CreateRun, TLC

Symmetry == Permutations(Requests) \union Permutations(Prompts)
=============================================================================
