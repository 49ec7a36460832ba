CONSTANTS
  Client = {c1, c2, c3}
  NoClient = NoClient
  BufMax = 2
  SockMax = 2
  MaxEvent = 4
SPECIFICATION FairSpec
INVARIANTS
  StreamKept
  Accounted
PROPERTIES
  ServedIsFreed
CHECK_DEADLOCK FALSE
