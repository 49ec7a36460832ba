SPECIFICATION Spec
CONSTANTS
  BottomRows = 7
  Width = 5
  Height = 10
  Feature = {}
  Drafts = {"empty", "list"}
  Layouts = {"plain", "boxed"}
  MaxTurn = 2
  MaxSay = 2
INVARIANTS
  TypeOK
  FramesAreOfTheTurn
  DialogsAreRead
  ProgressIsRead
  RepliesAreWhole
  ParagraphsAreRejoined
PROPERTIES
  StreamIsFresh
CHECK_DEADLOCK FALSE
