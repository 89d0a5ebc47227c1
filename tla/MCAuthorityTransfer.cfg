SPECIFICATION TaskSpec
CONSTANTS
  codex = codex
  claude = claude
  Adapters <- MCAdapters
  MaxFailures = 2
  None = None
  RequiredSamples = 3
  MaxEvents = 2
  MaxCrashes = 1
  MaxFaults = 2
  a = a
  b = b
  Copiers = {a, b}
  Paths = {"legacy", "first", "second"}
  Legacy = "legacy"
  Latest = 2
  Torn = Torn
  MaxRows = 3
  Writers = {a, b}
  Link = Link
  Directory = Directory
  Allowlisted = {"path"}
INVARIANTS
  NeverBothLoaded
  CandidateAbsent
  WatermarkIsFinal
  RecordedStateKept
  CopiesAreFaithful
  AtomicReplace
  RunsInOrder
PROPERTIES
  CutoverLosesNothing
  CommandsEnd
  PreparingConverges
CHECK_DEADLOCK FALSE
