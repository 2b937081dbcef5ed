SPECIFICATION Spec
CONSTANTS
  Ids = {a, b}
  Callers = {c1, c2}
  Own = {o1, o2}
  Foreign = {f1}
  CleanupOnExit = TRUE
  MaxOutside = 1
  None = None
INVARIANTS
  RegistryOK
  LostOnlyToOverlaps
  ExitDeletesOwned
PROPERTIES
  ForeignSurvives
SYMMETRY Symmetry
VIEW View
CHECK_DEADLOCK FALSE
