CONSTANTS
  U = U
  R = R
  E = E
  F = F
  None = None
  UserLines <- MCUser
  ReplyLines = {}
  FinalLines = {E, F}
  Refused = {F}
  Contents <- MCTurns
  PageLines = 4
  BoundaryLines = 1
  FragmentLines = 2
  MaxLines = 6
  MaxWrites = 3
  MaxRewrites = 0
  MaxReplaces = 1
  MaxAborts = 1
SPECIFICATION FairSpec
CHECK_DEADLOCK FALSE
PROPERTIES
  ImplementsLog
