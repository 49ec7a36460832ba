CONSTANTS
  Client = {c1, c2}
  NoClient = NoClient
  BufMax = 2
  SockMax = 2
  MaxEvent = 2
SPECIFICATION FairSpec
PROPERTIES
  LockFreed
CHECK_DEADLOCK FALSE
