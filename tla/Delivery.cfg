CONSTANTS
  Modes = {TRUE, FALSE}
  Feature = {"dialogs", "warm", "swallow", "fork", "split", "broken"}
  MaxMsg = 2
  MaxDialog = 2
  MaxCut = 0
  MaxTyped = 2
  MaxProbe = 2
SPECIFICATION Spec
INVARIANTS
  TypeOK
  SubmittedClean
  SubmittedOnce
  NothingDropped
  EnterIsChosen
PROPERTIES
  GivesUpForCause
