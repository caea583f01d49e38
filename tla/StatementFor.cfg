SPECIFICATION Spec
CONSTANTS
  Inputs <- ForInputs
  Programs <- NoPrograms
CHECK_DEADLOCK FALSE
INVARIANTS
  ForPartsAreOptional
