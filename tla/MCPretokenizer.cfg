SPECIFICATION Spec
CONSTANTS
  Texts <- SomeTexts
INVARIANT LosesNothing
PROPERTY SplitsByTheRegex
