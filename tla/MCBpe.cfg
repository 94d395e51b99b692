SPECIFICATION Spec
CONSTANTS
  Inputs <- SomeInputs
INVARIANTS RoundTrip SpecialsWin MergesAsLearned
