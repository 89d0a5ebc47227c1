CONSTANTS
  U = U
  R = R
  E = E
  F = F
  None = None
  UserLines <- MCUser
  ReplyLines <- MCReply
  FinalLines <- MCFinal
  Refused = {}
  Contents <- MCContents
  PageLines = 3
  BoundaryLines = 1
  FragmentLines = 2
  MaxLines = 3
  MaxWrites = 3
  MaxRewrites = 1
  MaxReplaces = 0
  MaxAborts = 1
SPECIFICATION Spec
CHECK_DEADLOCK FALSE
INVARIANTS
  NoTurnSwallowed
