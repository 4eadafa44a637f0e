CONSTANTS
  Names = {x}
  MaxDepth = 5
  MaxItems = 3
  MaxMutations = 2
  DeferLimit = 3
  MaxBlocks = 3
  MaxDefers = 4
SPECIFICATION Spec
INVARIANTS
  ReportsExact
  BuiltIsGuarded
  FailsForCause
PROPERTY
  DefersAtBlockEnd
CHECK_DEADLOCK FALSE
