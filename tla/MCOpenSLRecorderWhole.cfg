CONSTANTS
  NumBuf = 3
  NumFrames = 4
  MaxChunks = 8
SPECIFICATION Spec
INVARIANTS WholeBuffersConsumed
