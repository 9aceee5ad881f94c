CONSTANTS
  Writes = 1
  Replies = 1
  MaxAborts = 0
SPECIFICATION Spec
PROPERTY DeadlineMeansUnfinished
CHECK_DEADLOCK FALSE
