SPECIFICATION Spec
CONSTANTS
  Events <- MCTieEvents
  PageRows = 2
  MaxPages = 3
  QueryBytes = 4
  Queries <- MCQueries
  Cap = 2
  ScanWindows = 3
  Timeout = 2
  Backlog = {2, 3, 5, 6}
  Starts = {0}
  Skew = 1
  MaxTime = 4
  MaxAborts = 0
INVARIANT LossyOnlyWhenFlagged
CHECK_DEADLOCK FALSE
