SPECIFICATION Spec
CONSTANTS
  Request <- HardChunks
  FreeCut <- AllFramings
  MaxBodySize = 3
  MaxRequests = 2
INVARIANTS
  TypeOK
  ChunkIncomplete
  HandedAtItsEnd
  OnlyShortTerminates
CHECK_DEADLOCK FALSE
