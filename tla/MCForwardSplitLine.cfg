SPECIFICATION Spec
CONSTANTS
  Streams <- LongLine
  Limit = 4
  Grain = 2
  Iov = 2
  IdLen = 1
INVARIANTS
  RequestsIntact
CHECK_DEADLOCK FALSE
