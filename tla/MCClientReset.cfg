CONSTANTS
  Writes = 1
  Replies = 1
  MaxAborts = 0
SPECIFICATION Spec
INVARIANT ResetGivesStatus
CHECK_DEADLOCK FALSE
