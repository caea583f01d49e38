SPECIFICATION Spec
CONSTANTS
  Inputs <- MCInputs
CHECK_DEADLOCK FALSE
INVARIANTS
  TypeOK
  NullNeverLinked
  OneParent
  OperandsInOrder
  GrammarIsParsed
  GroupedUnlessFallsBack
  OutlineFollowed
PROPERTIES
  Terminates
