SPECIFICATION Spec
CONSTANTS
  Conn <- Two
  Job <- Two
  MaxFd = 12
  Ports <- OnePort
  TIMEOUT = 1
  MAX_LOCAL_REDIRECT_COUNT = 1
  Request <- GetRequests
  Output = {"doc"}
  Success = {TRUE}
  Fault = {}
  MaxRequests = 2
  Writes = 1
  MaxNow = 4
PROPERTIES
  ReapsTheKilled
CHECK_DEADLOCK FALSE
