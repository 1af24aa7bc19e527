SPECIFICATION Spec
CONSTANTS
  Request <- HardChunks
  FreeCut <- AllFramings
  MaxBodySize = 3
  MaxRequests = 1
PROPERTIES
  TerminatorFinishes
CHECK_DEADLOCK FALSE
