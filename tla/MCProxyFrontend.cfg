SPECIFICATION Spec
CONSTANTS
  c1 = c1
  b1 = b1
  b2 = b2
  Dns = Dns
  None = None
  Clients <- OneClient
  Backends <- OneBackend
  Frontend = TRUE
  Limit = 1
  SysCap = 2
  MaxMoves = 7
INVARIANTS
  TypeOK
  NoDanglingUse
  InMeansData
  NoMissedWake
  NoStuckInput
  BoundedBuffers
  CloseIsDue
PROPERTIES
  FlushBeforeClose
