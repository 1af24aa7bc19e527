SPECIFICATION RedirectSpec
CONSTANTS
  Conn <- Three
  Job <- Four
  MaxFd = 12
  Ports <- OnePort
  TIMEOUT = 1
  MAX_LOCAL_REDIRECT_COUNT = 1
  Request <- GetRequests
  Output = {"doc", "local"}
  Success = {TRUE}
  Fault = {"fin"}
  MaxRequests = 2
  Writes = 3
  MaxNow = 1
INVARIANTS
  KillTargets
CHECK_DEADLOCK FALSE
