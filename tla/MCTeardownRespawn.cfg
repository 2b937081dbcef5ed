SPECIFICATION Spec
CONSTANTS
  Handles = {h1, h2}
  Uses = {u1}
  Deletes = {d1, d2}
  NoHandle = NoHandle
PROPERTIES
  NoRespawnDuringDelete
CHECK_DEADLOCK FALSE
