CONSTANTS
  i1 = i1
  i2 = i2
  Interfaces = {i1, i2}
  Audio = {"loopback", "opensl"}
  NULL = NULL
  Uninit = Uninit
  InitialCap = 1
  SocketObjects = {}
  Fds = {}
  None = None
SPECIFICATION FairSpec
INVARIANTS ListedWorks
PROPERTIES FallsSilentDrained CloseSilences
CHECK_DEADLOCK FALSE
