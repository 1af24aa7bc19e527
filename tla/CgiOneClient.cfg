SPECIFICATION FairSpec
CONSTANTS
  Conn <- One
  Job <- Three
  MaxFd = 12
  Ports <- OnePort
  TIMEOUT = 1
  MAX_LOCAL_REDIRECT_COUNT = 1
  Request <- CgiRequests
  Output = {"doc", "local", "loop"}
  Success = {TRUE, FALSE}
  Fault = {"fin"}
  MaxRequests = 2
  Writes = 1
  MaxNow = 3
INVARIANTS
  ZombiesAwaited
  StaysUp
  NothingLeaks
  NoOrphans
PROPERTIES
  Answered
CHECK_DEADLOCK FALSE
