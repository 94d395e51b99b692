SPECIFICATION Spec
CONSTANTS
  Workers = {w1, w2}
  Caller = caller
  Requests <- SomeRequests
  MaxCalls = 3
  MaxSpurious = 1
SYMMETRY WorkerSymmetry
INVARIANTS TypeOK SlotExclusive NoStrayTask OneOwner CompleteOnReturn NoLostWakeup
