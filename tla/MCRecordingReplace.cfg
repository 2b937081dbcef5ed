SPECIFICATION Spec
CONSTANTS
  Starts = {s1, s2}
  Stops = {p1}
  Deletes = {d1}
  None = None
PROPERTIES
  NeverReplaced
CHECK_DEADLOCK FALSE
