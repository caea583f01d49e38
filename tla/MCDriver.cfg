CONSTANTS
  CrashOnInternalError = FALSE
  ProgramCodes = {0, 2, 7}
SPECIFICATION Spec
INVARIANT DoesAsAsked
\* The process ends.
CHECK_DEADLOCK FALSE
