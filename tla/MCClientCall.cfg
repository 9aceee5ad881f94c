CONSTANTS
  Writes = 2
  Replies = 1
  MaxAborts = 2
SPECIFICATION FairSpec
INVARIANT TypeOK
INVARIANT CancelledOnce
INVARIANT CancelIsTheStatus
INVARIANT ServerStatusReportedOnce
INVARIANT SentInOrder
INVARIANT EndsAfterAll
PROPERTY EndIsSent
CHECK_DEADLOCK FALSE
