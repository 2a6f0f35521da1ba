CONSTANTS
  t1 = t1
  r1 = r1
  Transmitters = {t1}
  Receivers = {r1}
  NULL = NULL
  Uninit = Uninit
  InitialCap = 1
  FrameBlocks = 1
  QueueLimit = 1
  MaxFrames = 1
  EarlyClose = TRUE
SPECIFICATION Spec
INVARIANTS SafeCallAlways
