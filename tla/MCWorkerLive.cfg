CONSTANTS
  Jobs = {j1, j2}
  run = run
  t2 = t2
  Types = {run, t2}
  Users = {u1}
  StaleAge = 0
  MaxStamp = 2
  Workers = {w1}
  NoWorker = NoWorker
  NoJob = NoJob
  JobTypes <- TwoTypes
  MaxConcurrent = 1
  CheckEveryNPolls = 2
  MaxFaults = 1
  MaxExits = 1
SPECIFICATION FairSpec
INVARIANTS
  TypeOK
  ActiveIsFibers
  WithinCapacity
PROPERTIES
  StuckJobsSettle
  PendingSettles
