CONSTANTS
  File = {f1, f2}
  NoFile = NoFile
  Session = {s1, s2}
  NoSession = NoSession
  MaxTurn = 1
  MaxPart = 1
  MaxOld = 1
  Quiet = 1
  MaxLog = 2
  Channel = {s1, s2}
  Feature <- RoughTurns
SPECIFICATION Spec
INVARIANTS
  CursorInBounds
PROPERTIES
  NeverReread
  TickAvoidsSiblings
CHECK_DEADLOCK FALSE
