CONSTANTS
  Jobs = {j1}
  Types = {run}
  Users = {u1}
  StaleAge = 0
  MaxStamp = 2
  Requests = {r1}
  Prompts = {p1}
  NoPrompt = NoPrompt
  RunType = run
  RecentLimit = 1
  Expiring = {}
  MaxFaults = 0
  PageUser = u1
  NoRequest = NoRequest
  PageLimit = 2
SPECIFICATION Spec
CHECK_DEADLOCK FALSE
INVARIANT KeptInSync
