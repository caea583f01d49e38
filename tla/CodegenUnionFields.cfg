CONSTANTS
  Programs <- MCPrograms
  BlockReturn = TRUE
SPECIFICATION Spec
INVARIANT FieldsStayInUnion
CHECK_DEADLOCK FALSE
