CONSTANTS
  t1 = t1
  t2 = t2
  t3 = t3
  Transmitters = {t1, t2, t3}
  Receivers = {}
  NULL = NULL
  Uninit = Uninit
  InitialCap = 1
  FrameBlocks = 1
  QueueLimit = 1
  MaxFrames = 0
  EarlyClose = FALSE
SPECIFICATION Spec
SYMMETRY TransmitterSymmetry
INVARIANTS TickService
