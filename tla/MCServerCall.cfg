SPECIFICATION FairSpec
CONSTANTS
  Writes = 2
  Requests = 2
INVARIANTS
  TypeOK
  TrailersOnce
  WholeBeforeTrailers
PROPERTIES
  FailureIsNotOK
  EndIsAnswered
CHECK_DEADLOCK FALSE
