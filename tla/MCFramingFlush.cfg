CONSTANTS
  N = 3
  Size <- MCSize
  Start <- MCStart
SPECIFICATION Spec
INVARIANT OutstandingDataIsDecoded
CHECK_DEADLOCK FALSE
