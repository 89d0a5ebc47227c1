CONSTANTS
  U = U
  R = R
  E = E
  F = F
  None = None
  UserLines <- MCUser
  ReplyLines <- MCReply
  FinalLines <- MCFinal
  Refused = {}
  Contents <- MCContents
  PageLines = 2
  BoundaryLines = 1
  FragmentLines = 2
  MaxLines = 4
  MaxWrites = 3
  MaxRewrites = 1
  MaxReplaces = 1
  MaxAborts = 1
SPECIFICATION FairSpec
CHECK_DEADLOCK FALSE
INVARIANTS
  CheckpointLoads
  CheckpointVouches
  GenerationIsOneFile
  WriteAheadCovers
  NothingSkipped
  CapturedOnce
PROPERTIES
  CursorMonotone
  EventuallyCaughtUp
