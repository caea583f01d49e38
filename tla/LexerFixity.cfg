SPECIFICATION Spec
CONSTANTS
  Codes <- MCCodes
  Keywords <- MCKeywords
  BooleanWords <- MCBooleanWords
  LongLongBits = 6
CHECK_DEADLOCK FALSE
INVARIANTS
  FixityAfterOperand
