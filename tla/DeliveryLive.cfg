CONSTANTS
  Modes = {TRUE, FALSE}
  Feature = {"dialogs", "fork", "plain"}
  MaxMsg = 2
  MaxDialog = 1
  MaxCut = 0
  MaxTyped = 2
  MaxProbe = 2
SPECIFICATION FairSpec
PROPERTIES
  EveryMessageSubmitted
