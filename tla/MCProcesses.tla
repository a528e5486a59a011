---------------------------- MODULE MCProcesses ----------------------------
(* Processes on small instances.                                           *)
EXTENDS Processes
=============================================================================
