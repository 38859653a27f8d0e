SPECIFICATION Spec
CONSTANTS
  c1 = c1
  c2 = c2
  n1 = n1
  n2 = n2
  a1 = a1
  a2 = a2
  Name <- MCName
  Crc = {1}
  Hash <- MCHash
  Addr <- MCAddr
  Unknown = Unknown
  CacheTimeout = 1
  Conn = {c1, c2}
  Dns = Dns
  NoName = NoName
  Answers <- MCAnswers
  KeyMax = 2
  ConnTimeout = 1
  MaxFlight = 2
  MaxJobs = 2
INVARIANTS
  NamesTypeOK
  WaitersIndexed
  RightAddress
  CacheConsistent
PROPERTIES
  IsABook
  LookupEnds
CHECK_DEADLOCK FALSE
