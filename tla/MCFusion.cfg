SPECIFICATION Spec
CONSTANTS
  Models <- AllModels
INVARIANTS ComputesTheSame ProducedBeforeRead
PROPERTY Idempotent
