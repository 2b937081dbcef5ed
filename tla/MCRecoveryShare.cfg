SPECIFICATION Spec
CONSTANTS
  Reads = {1, 2}
  Casts <- MCCasts
  MaxFaults = 1
  MaxCooldowns = 1
  Guest0 = "up"
PROPERTIES
  SharesOngoingRestart
CHECK_DEADLOCK FALSE
