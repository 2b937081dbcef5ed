SPECIFICATION FairSpec
CONSTANTS
  Reads = {1, 2}
  Casts <- MCCasts
  MaxFaults = 2
  MaxCooldowns = 1
  Guest0 = "booting"
INVARIANTS
  IInv
  OneRestartAtATime
PROPERTIES
  BootingIsLeftAlone
  EveryReadEnds
CHECK_DEADLOCK FALSE
