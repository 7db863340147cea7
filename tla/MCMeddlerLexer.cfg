CONSTANTS
  Buffers <- MCBuffers
  Words <- MCWords
  MaxLen = 4
  TrailingEqual = FALSE
SPECIFICATION Spec
CONSTRAINT TokenBound
CHECK_DEADLOCK FALSE
INVARIANT TypeOK TokensMatchReference

