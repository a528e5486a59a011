----------------------------- MODULE MCRunners -----------------------------
EXTENDS Runners, TLC

CONSTANTS r1, r2

Event(id, month, file, status, old, tags, scan, seed) ==
  [id |-> id, workflow |-> "Periodic Scans", month |-> month, file |-> file, status |-> status,
   old |-> old, tags |-> tags, scan |-> scan, seed |-> seed]

MCWorkflows == {"Periodic Scans"}

e0 == Event("e0", 1, 1, "closed", TRUE, {}, {}, FALSE)
e1 == Event("e1", 1, 1, "open", FALSE, {"researcher"}, ScanFlags, FALSE)
e2 == Event("e2", 2, 2, "open", FALSE, {}, {}, FALSE)
s1 == Event("seed1", 1, 1, "closed", FALSE, {}, {}, TRUE)
s2 == Event("seed2", 2, 1, "closed", FALSE, {}, {}, TRUE)
MCLines == {e0, e1, e2, s1, s2}

\* Two lanes whose events meet on main, with and without something that goes
\* wrong, and one lane that is started twice.  The names of two lanes are crossed
\* where months are seeded with another month's date.
Apart    == {[r \in {r1, r2} |-> r]}
Crossed  == {[r \in {r1, r2} |-> IF r = r1 THEN r2 ELSE r1]}
Together == {[r \in {r1, r2} |-> l] : l \in {r1, r2}}
MCSetups ==
  UNION {[lane : Apart,    logged : {{e0}}, fresh : {{e1}},       faults : {0}],
         [lane : Apart,    logged : {{}},   fresh : {{e1, e2}},   faults : {0}],
         [lane : Crossed,  logged : {{}},   fresh : {{e1}, {e2}}, faults : {0}],
         [lane : Apart,    logged : {{e0}}, fresh : {{}},         faults : {1}],
         [lane : Apart,    logged : {{}},   fresh : {{e1}},       faults : {1}],
         [lane : Together, logged : {{e0}}, fresh : {{}},         faults : {1}],
         [lane : Together, logged : {{e1}}, fresh : {{}},         faults : {2}]}

Symmetry == Permutations(Agents)

\* Once a torn tree is on main, most properties except what follows.
BeforeTorn == ~main.torn

\* A seed of another month's date is made in the setups for it, and no other there.
SeedsApart ==
  \A a \in Agents :
    (IF lane \in Crossed THEN s1 ELSE s2) \notin Logged(checkout[a].work)

\* Seeding and compacting such a seed could go on, and leave commits, for ever.
FewCommits == lane \in Crossed => \A a \in Agents : Len(checkout[a].commits) <= 1

Explored == BeforeTorn /\ SeedsApart /\ FewCommits
=============================================================================
