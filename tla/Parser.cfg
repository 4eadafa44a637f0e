CONSTANTS
  Tokens <- MCTokens
  StmtLimit = 2
  DeclLimit = 2
  MaxNesting = 3
SPECIFICATION Spec
INVARIANTS
  LoopsProgress
  PrecedenceKept
  AcceptedIsBalanced
CHECK_DEADLOCK FALSE
