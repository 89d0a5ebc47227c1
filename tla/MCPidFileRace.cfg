CONSTANTS
  job = job
  command = command
  home = home
  p1 = p1
  p2 = p2
  Daemons = {job, command}
  Jobs = {job}
  Homes = {home}
  HomeOf <- MCHomeOf
  Ports = {p1, p2}
  PortsOf <- MCPortsOf
  Pids = {1, 2}
  Stamps = {11, 12}
  Unknown = Unknown
  None = None
  MaxStrangers = 0
  MaxCrashes = 0
  MaxFaults = 0
SPECIFICATION Spec
CHECK_DEADLOCK FALSE
INVARIANTS
  OneHolder
