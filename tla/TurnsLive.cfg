CONSTANTS
  File = {f1, f2}
  NoFile = NoFile
  Session = {s1}
  NoSession = NoSession
  MaxTurn = 2
  MaxPart = 3
  MaxOld = 0
  Quiet = 1
  MaxLog = 3
  Channel = {s1}
  Feature = {"tools", "straddle", "interrupt", "organic"}
SPECIFICATION FairSpec
PROPERTIES
  EveryWaitEnds
  EveryReplyRelayed
