SPECIFICATION FairSpec
CONSTANTS
  Callers = {c1, c2, c3}
  Overrides = {"none", "usable", "unusable", "missing"}
  MaxTampering = 2
  None = None
INVARIANTS
  NothingUnverified
  FailureIsNotCached
PROPERTIES
  EveryCallSettles
CHECK_DEADLOCK FALSE
