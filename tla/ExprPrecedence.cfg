SPECIFICATION Spec
CONSTANTS
  Inputs <- ChainInputs
CHECK_DEADLOCK FALSE
INVARIANTS
  PrecedenceRespected
