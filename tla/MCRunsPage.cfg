CONSTANTS
  Jobs = {j1}
  Types = {run}
  Users = {u1, u2}
  StaleAge = 0
  MaxStamp = 2
  Requests = {r1, r2}
  Prompts = {p1}
  NoPrompt = NoPrompt
  RunType = run
  RecentLimit = 1
  Expiring = {j1}
  MaxFaults = 2
  PageUser = u1
  NoRequest = NoRequest
  PageLimit = 2
SPECIFICATION Spec
SYMMETRY Symmetry
CONSTRAINT OneOrFaultless
CHECK_DEADLOCK FALSE
INVARIANTS
  PageTypeOK
  OneStoryPerRun
  HeardIsShown
  CompletedHasResult
