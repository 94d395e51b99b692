SPECIFICATION Spec
CONSTANTS
  a = a
  b = b
  Lost = Lost
  Tokens <- TwoTokens
  Layers = 2
  MaxSeq = 3
  Options <- SomeOptions
  Calls <- SomeCalls
INVARIANTS TypeOK CacheHoldsText
PROPERTIES AnswersAreOfTheText CallsSayAll ImplementsConversation
