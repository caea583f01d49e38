SPECIFICATION Spec
CONSTANTS
  Programs <- MCPrograms
  Builds = {TRUE, FALSE}
INVARIANT BuilderInTopFunction
INVARIANT FreshBlocksAreFresh
INVARIANT ErasedIsDead
INVARIANT CompiledIffTranslatable
PROPERTY RunsLikeTheTree
CHECK_DEADLOCK FALSE
