CONSTANTS
  Daemon = {d1, d2, d3}
  NoDaemon = NoDaemon
  MaxClient = 1
SPECIFICATION FairSpec
INVARIANTS
  NeverDisconnected
  StaleNeverBlocks
PROPERTY
  OrphansEvaporate
CHECK_DEADLOCK FALSE
