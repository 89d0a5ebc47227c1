SPECIFICATION Spec
CONSTANTS
  None = None
  FileThread = "child"
  EarlyTurns = {"t1"}
  MaxCalls = 1
  Headers <- MCHeaders
  Lines <- MCLines
  PageSizes = {4}
  MaxLines = 5
  MaxRewrites = 0
  MaxAborts = 0
INVARIANT
  SameSettings
CHECK_DEADLOCK FALSE
