CONSTANTS
  Clients = {c1, c2}
  Closer = closer
  NULL = null
  MaxSystems = 1
  MayClose = FALSE
SPECIFICATION Spec
INVARIANTS FinalizeJustFrees
CHECK_DEADLOCK FALSE
