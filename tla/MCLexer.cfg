SPECIFICATION Spec
CONSTANTS
  Codes <- MCCodes
  Keywords <- MCKeywords
  BooleanWords <- MCBooleanWords
  LongLongBits = 6
CHECK_DEADLOCK FALSE
INVARIANTS
  TypeOK
  BracketsMatched
  AcceptedIsBalanced
  TracesAscend
  OnlyCommentsAreSkipped
  CommentsReadAfterComments
  LinesCounted
  LongestOperator
PROPERTIES
  MovesForward
  Terminates
