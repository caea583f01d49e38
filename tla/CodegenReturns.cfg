CONSTANTS
  Programs <- MCPrograms
  BlockReturn = TRUE
SPECIFICATION Spec
INVARIANT ReturnsFit
CHECK_DEADLOCK FALSE
