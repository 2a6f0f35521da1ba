CONSTANTS
  i1 = i1
  Interfaces = {i1}
  Audio = {"loopback"}
  NULL = NULL
  Uninit = Uninit
  InitialCap = 1
  SocketObjects = {s1, s2}
  Fds = {f1, f2}
  None = None
SPECIFICATION Spec
SYMMETRY SocketSymmetry
INVARIANTS TypeOK OwnDescriptor TableAccounted ListensOnPort
CHECK_DEADLOCK FALSE
