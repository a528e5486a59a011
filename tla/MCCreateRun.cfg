CONSTANTS
  Jobs = {j1, j2}
  Types = {run}
  Users = {u1, u2}
  StaleAge = 0
  MaxStamp = 2
  Requests = {r1, r2, r3}
  Prompts = {p1, p2}
  NoPrompt = NoPrompt
  RunType = run
  RecentLimit = 1
  Expiring = {j1}
SPECIFICATION CreateSpec
SYMMETRY Symmetry
CHECK_DEADLOCK FALSE
INVARIANTS
  TypeOK
  AnswersBelong
PROPERTIES
  RetriesReuse
