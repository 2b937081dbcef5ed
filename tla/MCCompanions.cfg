SPECIFICATION CastSpec
CONSTANTS
  Readers = {r1, r2}
  Writers = {w1, w2}
  Stoppers = {s1, s2}
  Casts = {{r1, r2}, {w1, w2, s1}, {w1, s1, s2}, {r1, w1, s1}}
  MaxGeneration <- MCMaxGeneration
INVARIANTS
  IInv
  OneCompanion
  InputOnceAndAlone
  ClosedIsQuiet
PROPERTIES
  OnlyItsUserStopsIt
  EveryCallReturns
  StoppedCompanionsDie
CHECK_DEADLOCK FALSE
