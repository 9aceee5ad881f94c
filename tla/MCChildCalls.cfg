CONSTANTS
  a = a
  b = b
  d = d
  Calls = {a, b, d}
  Parent <- MCParent
  Timeouts <- MCTimeouts
  Unruly = {a}
  None = None
SPECIFICATION FairSpec
INVARIANT TypeOK
INVARIANT FirstCauseWins
INVARIANT ChildWithinParent
INVARIANT NoOrphans
PROPERTY EndsEverywhere
CHECK_DEADLOCK FALSE
