CONSTANTS
  Clients = {c1, c2}
  Closer = closer
  NULL = null
  MaxSystems = 2
  MayClose = TRUE
SPECIFICATION StartupSpec
INVARIANTS TypeOK OpensOnLiveSystem OpenedOnce SharedSystem BootsOnce
PROPERTIES CallsReturn
CHECK_DEADLOCK FALSE
