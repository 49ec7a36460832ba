CONSTANTS
  Modes = {TRUE, FALSE}
  Feature = {"dialogs", "chained", "ghost", "cut", "sudden", "plain"}
  MaxMsg = 2
  MaxDialog = 2
  MaxCut = 1
  MaxTyped = 2
  MaxProbe = 2
SPECIFICATION Spec
INVARIANTS
  SubmittedOnce
PROPERTIES
  NoBlindKey
