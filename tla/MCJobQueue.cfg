CONSTANTS
  Jobs = {j1, j2}
  Types = {run}
  Users = {u1}
  Keys = {k1}
  StaleAge = 1
  MaxStamp = 2
  Callers = {c1, c2}
  NoJob = NoJob
  ByIdJobs = {j2}
  MaxFaults = 1
SPECIFICATION Spec
SYMMETRY Symmetry
CHECK_DEADLOCK FALSE
INVARIANTS
  TypeOK
  ClaimedRowsExclusive
  ReturnedStatusStands
PROPERTIES
  NeverClaimableAgain
