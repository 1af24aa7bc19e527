SPECIFICATION Spec
CONSTANTS
  Conn <- Two
  Job <- One
  MaxFd = 9
  Ports <- OnePort
  TIMEOUT = 1
  MAX_LOCAL_REDIRECT_COUNT = 1
  Request <- MixedRequests
  Output = {"doc", "none"}
  Success = {TRUE, FALSE}
  Fault = {"fin", "rst"}
  MaxRequests = 1
  Writes = 1
  MaxNow = 1
INVARIANTS
  TypeOK
  WatchedDescriptors
  StaysUp
PROPERTIES
  KeepsBookkeeping
CHECK_DEADLOCK FALSE
