\* The process exits and nothing is left to be done.
SPECIFICATION Spec
CONSTANTS
  Server = server
  Worker = worker
  Processes = {server, worker}
  Events = {e1, e2}
  Streams = {s1}
  MaxFaults = 1
INVARIANTS
  TypeOK
  FeedExact
  NoLostWakeup
  InOrder
  CleanExit
PROPERTIES
  ShutdownEnds
  AbortEnds
CHECK_DEADLOCK FALSE
