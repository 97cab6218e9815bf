\* A zerop gate whose operand, a sum, is added to once more afterwards.
CONSTANTS
  P = 5
  NumInputs = 1
  NumNizk = 1
  Data = {1, 3}
  Factors = {2}
  Arity = 2
  Kits = {{"add", "zerop"}}
  MaxGates = 3
  MaxOutputs = 0
SPECIFICATION Spec
INVARIANT ZeropAnnotation
CHECK_DEADLOCK FALSE
