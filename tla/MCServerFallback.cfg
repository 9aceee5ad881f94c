SPECIFICATION RequestEndsSpec
CONSTANTS
  Writes = 1
  Requests = 1
PROPERTIES
  FallbackAnswers
CHECK_DEADLOCK FALSE
