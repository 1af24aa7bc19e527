SPECIFICATION BoundedSpec
CONSTANTS
  Fd <- MCFd
  Ports <- MCPorts
  MaxEntries = 5
  MaxMarks = 4
INVARIANTS
  TypeOK
  CountExact
  ListenersFirst
  EraseInRange
PROPERTY
  DeferredIsWatchList
