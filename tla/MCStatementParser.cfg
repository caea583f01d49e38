SPECIFICATION Spec
CONSTANTS
  Inputs <- MCInputs
  Programs <- MCPrograms
CHECK_DEADLOCK FALSE
INVARIANTS
  TypeOK
  BlocksMatched
  TreeInOrder
  LinkedComplete
  StatementsKept
  ProgramsAreParsed
  NullOnlyWhereLeftOut
PROPERTIES
  Terminates
