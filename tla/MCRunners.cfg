SPECIFICATION Spec
CONSTANTS
  r1 = r1
  r2 = r2
  Agents = {r1, r2}
  Coders = {r1, r2}
  Targets = {"main", "own"}
  Lines <- MCLines
  Setups <- MCSetups
  Months = {1, 2}
  Workflows <- MCWorkflows
  MinPerWorkflow = 1
  MaxAttempts = 2
SYMMETRY Symmetry
CONSTRAINT Explored
INVARIANTS
  TypeOK
  IndexAgrees
  SummaryFresh
  OneRunner
PROPERTIES
  SyncPublishes
  MemoryOnlyGrows
  LockRecoverable
