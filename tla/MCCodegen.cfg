CONSTANTS
  Programs <- MCPrograms
  BlockReturn = TRUE
SPECIFICATION Spec
INVARIANTS
  TypeOK NamesResolved DefinedOnce StoresFit ListsByNameAgree
  KnownTypesAreComplete ConstructorsInitialise CompiledInPlace
\* A compilation ends.
CHECK_DEADLOCK FALSE
