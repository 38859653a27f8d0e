SPECIFICATION Spec
CONSTANTS
  k1 = k1
  k2 = k2
  s1 = s1
  in = in
  out = out
  NoConn = NoConn
  Conn <- MCConn
  Service <- MCService
  Event <- MCEvent
  MaxJobs = 3
INVARIANTS
  TypeOK
  JobsOfLiveConns
  PassedAreMarked
  PromiseKept
PROPERTIES
  PromiseDelivered
