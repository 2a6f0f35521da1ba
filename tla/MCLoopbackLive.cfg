CONSTANTS
  t1 = t1
  t2 = t2
  Transmitters = {t1, t2}
  Receivers = {}
  NULL = NULL
  Uninit = Uninit
  InitialCap = 1
  FrameBlocks = 1
  QueueLimit = 1
  MaxFrames = 2
  EarlyClose = FALSE
SPECIFICATION FairSpec
PROPERTIES CloseEjects FramesGoOut
