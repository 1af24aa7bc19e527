SPECIFICATION FairSpec
CONSTANTS
  Conn <- Three
  Job <- NoJobs
  MaxFd = 5
  Ports <- OnePort
  TIMEOUT = 1
  MAX_LOCAL_REDIRECT_COUNT = 1
  Request <- StaticRequests
  Output = {}
  Success = {}
  Fault = {"part"}
  MaxRequests = 1
  Writes = 2
  MaxNow = 1
INVARIANTS
  AnswersMatch
  ClosedForCause
PROPERTIES
  Answered
CHECK_DEADLOCK FALSE
