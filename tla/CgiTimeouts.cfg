SPECIFICATION Spec
CONSTANTS
  Conn <- Two
  Job <- Two
  MaxFd = 12
  Ports <- OnePort
  TIMEOUT = 1
  MAX_LOCAL_REDIRECT_COUNT = 1
  Request <- GetRequests
  Output = {"doc"}
  Success = {TRUE}
  Fault = {"fin"}
  MaxRequests = 2
  Writes = 2
  MaxNow = 3
INVARIANTS
  AnswersMatch
  KillTargets
  CgiServesItsClient
CHECK_DEADLOCK FALSE
