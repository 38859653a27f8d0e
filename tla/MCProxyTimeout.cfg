SPECIFICATION FairSpec
CONSTANTS
  c1 = c1
  b1 = b1
  b2 = b2
  Dns = Dns
  None = None
  Clients <- OneClient
  Backends <- TwoBackends
  Frontend = FALSE
  Limit = 1
  SysCap = 1
  MaxMoves = 3
PROPERTIES
  ClosingEnds
