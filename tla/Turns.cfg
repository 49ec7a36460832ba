CONSTANTS
  File = {f1, f2}
  NoFile = NoFile
  Session = {s1}
  NoSession = NoSession
  MaxTurn = 2
  MaxPart = 3
  MaxOld = 1
  Quiet = 1
  MaxLog = 3
  Channel = {s1}
  Feature <- BenignTurns
SPECIFICATION Spec
INVARIANTS
  RepliesWhole
  ScreenIsLastResort
  NoTurnTwice
  NothingLost
PROPERTIES
  KeepsLedger
