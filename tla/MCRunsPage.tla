----------------------------- MODULE MCRunsPage -----------------------------
(* RunsPage on small instances.                                            *)
EXTENDS RunsPage, TLC

Symmetry == Permutations(Requests)

\* Two requests of the page's user, without keys and faults, or one request of
\* anybody's with faults and with a run that may leave the window.
Started == {r \in Requests : req[r].phase # "new"}
OneOrFaultless ==
  Cardinality(Started) > 1 =>
    /\ faults = 0 /\ expired = {}
    /\ \A r \in Started : req[r].user = PageUser /\ ~req[r].keyed
=============================================================================
