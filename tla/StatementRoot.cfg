SPECIFICATION Spec
CONSTANTS
  Inputs <- IfInputs
  Programs <- NoPrograms
CHECK_DEADLOCK FALSE
INVARIANTS
  RootEndsAtFileEnd
