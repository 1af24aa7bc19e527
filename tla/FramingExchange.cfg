SPECIFICATION FairSpec
CONSTANTS
  Request <- Requests
  FreeCut <- Unchunked
  MaxBodySize = 2
  MaxRequests = 3
PROPERTIES
  ExchangeKept
CHECK_DEADLOCK FALSE
