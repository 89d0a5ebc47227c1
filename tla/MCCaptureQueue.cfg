CONSTANTS
  a = a
  b = b
  None = None
  Paths <- MCPaths
  MaxPending = 1
  BatchSize = 1
  MaxSize <- MCSizes
  MaxFaults = 1
SPECIFICATION FairSpec
CHECK_DEADLOCK FALSE
INVARIANTS
  NothingForgotten
  HealthyIsCaughtUp
  WorkerForWork
PROPERTIES
  Settles
