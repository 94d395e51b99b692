SPECIFICATION Spec
CONSTANTS
  Names <- SomeNames
  MaxForwards = 2
  Models <- SomeModels
  GroupSize <- Four
  Files <- SomeFiles
  Targets <- SomeTargets
  HasWeights <- Fitting
  MaxTensor <- LastTensor
  Size <- SomeSize
INVARIANTS
  RunsEveryOpOnce NarrowBackendIsSpared PartitionsAreMaximal ProfileAddsUp
  LogitsAreTheModels QuantizedWithinStep
