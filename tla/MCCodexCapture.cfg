SPECIFICATION Spec
CONSTANTS
  None = None
  FileThread = None
  EarlyTurns = {"t1"}
  MaxCalls = 1
  Headers <- MCHeaders
  Lines <- MCLines
  PageSizes = {2, 4}
  MaxLines = 5
  MaxRewrites = 1
  MaxAborts = 1
INVARIANTS
  SameTurns
  OwnLineage
  TriggeredByMarker
CHECK_DEADLOCK FALSE
