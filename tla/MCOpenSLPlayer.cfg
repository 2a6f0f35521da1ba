CONSTANTS
  NumBuf = 3
  QueueLimit = 2
  MaxBlocks = 5
SPECIFICATION FairSpec
INVARIANTS TypeOK NeverOverwritten CallbackAlive NothingLost
PROPERTIES ImplementsPipe StopsFlushed CloseStops StopReturns
