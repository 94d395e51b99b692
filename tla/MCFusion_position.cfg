SPECIFICATION Spec
CONSTANTS
  Models <- AllModels
PROPERTY FusedStandsLast
