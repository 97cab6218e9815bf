\* Five kits of gates, three gates, one declared output, in the field of five elements.
CONSTANTS
  P = 5
  NumInputs = 1
  NumNizk = 1
  Data = {0, 1, 3}
  Factors = {2}
  Arity = 2
  Kits = {{"add", "zerop", "mul"}, {"add", "pack", "split"}, {"const-mul", "const-mul-neg", "add"},
          {"xor", "or", "split"}, {"assert", "add", "zerop"}}
  MaxGates = 3
  MaxOutputs = 1
SPECIFICATION Spec
INVARIANTS
  TypeOK
  LiveLCsEvaluate
  NoInputLost
  GateSound
  AssignmentSatisfies
\* The reader stops after the third pass, or at a fatal error.
CHECK_DEADLOCK FALSE
