SPECIFICATION Spec
CONSTANTS
  NTensors = 4
  NOps = 3
  Sizes = {60, 129}
  Tensors <- Ids
  Graphs <- AllGraphs
INVARIANTS TypeOK PlanIsValid OperandsIntact NoFloatingBlock
