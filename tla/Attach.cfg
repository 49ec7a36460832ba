CONSTANTS
  Terminal = {t1, t2}
  NoTerminal = NoTerminal
  Stalled = {t1}
  Feature = {"again"}
  Cap = 1
  Width = 3
  MaxLife = 2
  MaxSay = 1
SPECIFICATION FairSpec
INVARIANTS
  NoGap
  EndIsShown
PROPERTIES
  CatchesUp
CHECK_DEADLOCK FALSE
