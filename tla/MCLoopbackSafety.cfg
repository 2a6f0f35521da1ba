CONSTANTS
  t1 = t1
  t2 = t2
  r1 = r1
  Transmitters = {t1, t2}
  Receivers = {r1}
  NULL = NULL
  Uninit = Uninit
  InitialCap = 1
  FrameBlocks = 2
  QueueLimit = 2
  MaxFrames = 2
  EarlyClose = FALSE
SPECIFICATION Spec
SYMMETRY TransmitterSymmetry
INVARIANTS TypeOK NoDanglingRegistration RegisteredOnce DecodedInOrder
PROPERTIES OnlyDrainedEjected ImplementsMedium
