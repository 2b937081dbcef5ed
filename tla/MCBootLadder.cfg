SPECIFICATION FairBootSpec
CONSTANTS
  Budget = 55
  Cap = 30
  Settle = 8
  Tail = 12
  MinPoll = 8
  Poll = 2
  MaxLate = 2
  MaxRead = 60
  MaxRestart = 5
  None = None
INVARIANTS
  BootIInv
  AttemptBeforeGivingUp
PROPERTIES
  EveryWaitEnds
CHECK_DEADLOCK FALSE
