SPECIFICATION Spec
CONSTANTS
  c1 = c1
  c2 = c2
  c3 = c3
  Conn <- MCConn
  NoConn = NoConn
  HeaderLen = 2
  End <- MCEnd
  Timeout <- MCTimeout
INVARIANTS
  GatewaysTypeOK
  Sorted
  IdleIsClosed
  MessagesIntact
  NothingWaits
