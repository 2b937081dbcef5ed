SPECIFICATION FairSpec
CONSTANTS
  Handles = {h1, h2}
  Uses = {u1, u2}
  Deletes = {d1, d2}
  NoHandle = NoHandle
INVARIANTS
  NotFoundIsOfADelete
  NotShutOut
PROPERTIES
  EveryCallEnds
CHECK_DEADLOCK FALSE
