CONSTANTS
  File <- MCFile
  Dotted <- MCDotted
  Extension <- MCExtension
  Localhost = 1
  Uploaded <- MCUploaded
  Hidden = {".profile"}
  ReadOnly = {"./docs/"}
  Program <- MCProgram
  PipeSize = 2
  Disk <- MCDisk
  Request <- MCRequest
  MAX_LOCAL_REDIRECT_COUNT = 1
  MaxRequests = 2
SPECIFICATION FairSpec
INVARIANTS
  TypeOK
  PortsServed
  DeclaredIsServed
  RedirectsEnd
  PostedIsServed
  ListedIsServed
  ScriptsAreRun
  SurvivesRequests
PROPERTIES
  LimitExceptHolds
  StoresFiles
  ScriptsAnswer
CHECK_DEADLOCK FALSE
