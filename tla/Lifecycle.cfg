CONSTANTS
  Feature = {"slow"}
  MaxCreate = 3
  MaxProc = 4
  MaxMsg = 2
  MaxDialog = 2
SPECIFICATION FairSpec
INVARIANTS
  NothingVanishes
  NoOrphan
  
PROPERTIES
  ReadyTruthful
  EveryCreateAnswered
CHECK_DEADLOCK FALSE
