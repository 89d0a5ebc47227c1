SPECIFICATION ToolSpec
CONSTANTS
  None = None
  PageRows = 2
  MaxPages = 2
  QueryBytes = 3
  Events <- MCEvents
  MruCandidates = 2
  MruWindows = 2
  ClusterPageRows = 3
  ClusterWindows = 4
  DelayedWindows = 2
  MaxObservations = 7
  MaxObservationBytes = 9
  MinPageRows = 2
  EndOfTime = 9
  EdgeArtifacts = 1
  RecentTime = 1
  NoiseTime = 1
  NarrowWindow = 2
  WideWindow = 4
  Overfetch = 2
  IdCaps <- MCIdCaps
  HintCap = 1
  Jobs <- MCJobs
  MemberSize = 2
  MaxOffset = 6
  MinBacklog = 6
  MaxLate = 1
  LastTime = 6
  Requests <- MCRequests
  Limit = 2
  ScanPageRows = 3
  ScanPages = 2
  ScanRows = 4
  ScanBytes = 2
  Asked <- MCAsked
  Oversize = {1}
  MaxIndex = 4
  TailEvents <- MCTailEvents
  Queries <- MCWaitQueries
  Cap = 2
  ScanWindows = 3
  Timeout = 2
  Backlog <- MCBacklog
  Starts = {0, 2, 4}
  Skew = 1
  MaxTime = 4
  MaxAborts = 1
  MaxCalls = 2
  Used = {"search_memories", "get_atom"}
  Calls = 3
  LastMs = 1
INVARIANTS
  SearchIsExact
  AtomsArriveOnce
  ChainingIsLossless
  GroupsAddUp
  QueriesAreExact
  ClusterReadsAll
  ClustersAreThreads
  DiscoveryIsHonest
  LogTellsTheTruth
PROPERTIES
  TurnsArrive
CHECK_DEADLOCK FALSE
