CONSTANTS
  Requests = {r1, r2, r3}
  Hosts = {h}
  shared = shared
  logging = logging
  Clients = {shared, logging}
  GlobalAgent = globalAgent
  AgentOption <- MCAgentOption
  None = None
SPECIFICATION FairSpec
INVARIANT TypeOK
INVARIANT RunsOnItsOwnKind
INVARIANT OneConnectionPerKey
INVARIANT NoneLeftWaiting
PROPERTY EndpointIsKept
PROPERTY MadeIsStarted
CHECK_DEADLOCK FALSE
