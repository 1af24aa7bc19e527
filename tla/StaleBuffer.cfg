SPECIFICATION Spec
CONSTANTS
  Conn <- Two
  Job <- One
  MaxFd = 11
  Ports <- OnePort
  TIMEOUT = 1
  MAX_LOCAL_REDIRECT_COUNT = 1
  Request <- BadOrPost
  Output = {"doc"}
  Success = {TRUE}
  Fault = {}
  MaxRequests = 1
  Writes = 1
  MaxNow = 1
INVARIANTS
  CgiServesItsClient
CHECK_DEADLOCK FALSE
