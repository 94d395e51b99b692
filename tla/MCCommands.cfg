SPECIFICATION FairCommandsSpec
CONSTANTS
  a = a
  b = b
  Eos = a
  Lost = Lost
  Tokens <- TwoTokens
  Layers = 2
  MaxSeq = 4
  Reps = 1
  Jobs <- SomeJobs
  Options <- TheirOptions
  Calls = {}
INVARIANTS AnswersAreDue FailsOnlyWhenTooLong RunStops
PROPERTY CommandEnds
