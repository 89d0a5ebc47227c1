SPECIFICATION FairSpec
CONSTANTS
  None = None
  RequiredSamples = 2
  MaxEvents = 0
  MaxCrashes = 1
  MaxFaults = 0
PROPERTY
  RecoverConverges
CHECK_DEADLOCK FALSE
