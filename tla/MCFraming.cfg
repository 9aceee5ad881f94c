CONSTANTS
  N = 3
  Size <- MCSize
  Start <- MCStart
SPECIFICATION FairSpec
INVARIANT TypeOK
INVARIANT InOrderAndWhole
INVARIANT NoneHeldBack
INVARIANT EndsComplete
PROPERTY EndIsReached
PROPERTY PipeSpec
CHECK_DEADLOCK FALSE
