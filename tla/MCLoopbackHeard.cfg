CONSTANTS
  t1 = t1
  r1 = r1
  Transmitters = {t1}
  Receivers = {r1}
  NULL = NULL
  Uninit = Uninit
  InitialCap = 1
  FrameBlocks = 2
  QueueLimit = 2
  MaxFrames = 2
  EarlyClose = FALSE
SPECIFICATION FairSpec
PROPERTIES LoneSenderHeard CallsReturn ShutdownCompletes
