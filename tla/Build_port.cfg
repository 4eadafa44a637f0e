CONSTANTS
  Names = {x}
  MaxDepth = 5
  MaxItems = 3
  MaxMutations = 2
  DeferLimit = 3
  MaxBlocks = 3
  MaxDefers = 4
SPECIFICATION Spec
INVARIANT PortsAreGuarded
CHECK_DEADLOCK FALSE
