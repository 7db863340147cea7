CONSTANTS
  Buffers <- MCBuffers
  Words <- MCWords
  MaxLen = 3
  TrailingEqual = TRUE
SPECIFICATION Spec
CONSTRAINT TokenBound
CHECK_DEADLOCK FALSE
PROPERTY TokenConsumesInput
