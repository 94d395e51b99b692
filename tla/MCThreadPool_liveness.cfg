SPECIFICATION FairSpec
CONSTANTS
  Workers = {w1, w2}
  Caller = caller
  Requests <- TwoChunks
  MaxCalls = 3
  MaxSpurious = 0
PROPERTIES CallReturns DtorReturns WorkersWake ImplementsParallelFor
