CONSTANTS
  Jobs = {j1, j2}
  run = run
  t2 = t2
  Types = {run}
  Users = {u1}
  StaleAge = 0
  MaxStamp = 2
  Workers = {w1, w2}
  NoWorker = NoWorker
  NoJob = NoJob
  JobTypes <- OneType
  MaxConcurrent = 1
  CheckEveryNPolls = 1
  MaxFaults = 1
  MaxExits = 2
SPECIFICATION Spec
SYMMETRY Symmetry
INVARIANTS
  HandledOnce
  AnnouncementAgrees
PROPERTIES
  OverwriteExplained
  ImplementsLifecycle
