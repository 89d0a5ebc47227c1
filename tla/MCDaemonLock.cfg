CONSTANTS
  job = job
  command = command
  home = home
  p1 = p1
  p2 = p2
  Daemons = {job, command}
  Jobs = {job}
  Homes = {home}
  HomeOf <- MCHomeOf
  Ports = {p1, p2}
  PortsOf <- MCPortsOf
  Pids = {1, 2, 3}
  Stamps = {11, 12}
  Unknown = Unknown
  None = None
  MaxStrangers = 1
  MaxCrashes = 1
  MaxFaults = 1
SPECIFICATION FairSpec
CHECK_DEADLOCK FALSE
INVARIANTS
  RowNamesWriter
PROPERTIES
  RefusalIsDue
  ExitsClean
  SomeoneCaptures
