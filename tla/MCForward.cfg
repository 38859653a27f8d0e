SPECIFICATION Spec
CONSTANTS
  Streams <- ShortLines
  Limit = 4
  Grain = 2
  Iov = 2
  IdLen = 1
INVARIANTS
  TypeOK
  RequestsIntact
  NextRequestAligned
  WritebufAccounting
  BoundedMemory
PROPERTIES
  ImplementsPipe
CHECK_DEADLOCK FALSE
