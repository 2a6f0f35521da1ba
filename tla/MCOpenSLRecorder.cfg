CONSTANTS
  NumBuf = 3
  NumFrames = 4
  MaxChunks = 8
SPECIFICATION FairSpec
INVARIANTS TypeOK NeverOverwritten NoneMislaid CallbackAlive
PROPERTIES ImplementsPipe CloseStops CloseReturns
