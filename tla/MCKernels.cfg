SPECIFICATION Spec
CONSTANTS
  RowBlock = 2
  ActBlock = 2
  Lanes = 2
  SerialRows = 2
  Slack = 0
  Threads = 3
  MaxBatch = 3
  MaxK = 3
  MaxCtx = 4
  HeadDim = 2
  Stale = Stale
  Calls <- SomeCalls
INVARIANTS StaysInOwnScratch BlocksAreDisjoint MatchesReference
