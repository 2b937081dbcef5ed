SPECIFICATION FairSpec
CONSTANTS
  Starts = {s1, s2}
  Stops = {p1, p2}
  Deletes = {d1, d2}
  None = None
INVARIANTS
  NoneOutlivesUs
  SlotIsNotACorpse
PROPERTIES
  SlotLostOnlyByItsOwn
  EveryCallEnds
CHECK_DEADLOCK FALSE
