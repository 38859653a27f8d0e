SPECIFICATION Spec
CONSTANTS
  Streams <- ShortLines
  Limit = 4
  Grain = 2
  Iov = 2
  IdLen = 1
INVARIANTS
  ReadbufAccounting
CHECK_DEADLOCK FALSE
