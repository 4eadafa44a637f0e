CONSTANTS
  Chars <- MCChars
  Texts <- MCTexts
  U32 = 64
SPECIFICATION Spec
INVARIANTS
  SpansInOrder
  LongestTokens
  KeywordsInPlace
  LocationExact
  CaretsWithinLine
PROPERTY
  LexEnds
CHECK_DEADLOCK FALSE
