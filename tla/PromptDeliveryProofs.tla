------------------------ MODULE PromptDeliveryProofs ------------------------
(***************************************************************************)
(* Proofs about PromptDelivery, for every CLI the model knows (any         *)
(* Feature) and every number of messages, dialogs and truncated pastes:    *)
(* what is typed while a dialog is up answers it, and an Enter read in one *)
(* confirms the answer to it; every variable keeps its type; what is held  *)
(* is never overwritten, while no paste is truncated; and (second half)    *)
(* every message is submitted once, whole and clean, until one is given up.*)
(***************************************************************************)
EXTENDS PromptDelivery, SequenceTheorems, WellFoundedInduction, FiniteSetTheorems, TLAPS

(* The types of what decides on keys: the texts, the submit loop, what was *)
(* typed, and the dialog.                                                  *)
Typing ==
  /\ held \in Text /\ sent \in Text /\ nextMsg \in 1 .. MaxMsg + 1
  /\ loop \in Loop
  /\ cold \in [proven : BOOLEAN, probe : Dialect \cup {"none"}]
  /\ typed \in Seq(Input)
  /\ screen \in {"boot", "prompt", "spinner", "working", "dialog", "ghost"}
  /\ dialog \in 0 .. MaxDialog /\ keyed \in 0 .. MaxDialog

(* Keys that may be typed into a dialog: the digit the client has chosen,  *)
(* and the Enter that confirms it.                                         *)
Chosen(k) == k.key = "digit" \/ (k.key = "enter" /\ answering /\ k.aim = keyed)

(* A dialog on screen, or what is left of one, has a number, and an answer *)
(* to confirm a dialog it was keyed into.                                  *)
DialogNumbered == screen \in {"dialog", "ghost"} => dialog # 0
AnswerKeyed == answering => keyed # 0
CardsNumbered == 0 \notin cards

IInv == Typing /\ DialogNumbered /\ CardsNumbered /\ AnswerKeyed

-----------------------------------------------------------------------------
(* What is typed.                                                          *)
LEMMA KeyTypes ==
  ASSUME NEW k \in {"char", "enter", "esc", "digit"}, NEW via \in Dialect
  PROVE  /\ Key(k, via) \in Input
         /\ Key(k, via).key = k
<1>1. <<>> \in Text /\ 0 \in 0 .. MaxDialog
  BY BoundsAssumption DEF Text
<1> QED BY <1>1 DEF Key, Input

LEMMA BackTypes ==
  ASSUME NEW n \in Nat, NEW via \in Dialect
  PROVE  /\ Backspaces(n, via) \in Input
         /\ Backspaces(n, via).key = "back"
<1>1. <<>> \in Text /\ 0 \in 0 .. MaxDialog
  BY BoundsAssumption DEF Text
<1> QED BY <1>1 DEF Backspaces, Key, Input

LEMMA PasteTypes ==
  ASSUME NEW t \in Text, NEW via \in Dialect \cup {"any"}
  PROVE  Paste(t, via) \in Input
<1>1. 0 \in 0 .. MaxDialog
  BY BoundsAssumption
<1> QED BY <1>1 DEF Paste, Key, Input

LEMMA SendTypes ==
  ASSUME NEW t \in Text, NEW via \in Dialect
  PROVE  SendText(t) \in Seq(Input) /\ SendTextIn(t, via) \in Seq(Input)
<1>1. /\ Key("enter", "win32") \in Input /\ Key("enter", via) \in Input
      /\ Paste(t, "any") \in Input /\ Paste(t, via) \in Input
  BY KeyTypes, PasteTypes DEF Dialect
<1>2. SendText(t) \in Seq(Input)
  BY <1>1 DEF SendText
<1>3. SendTextIn(t, via) \in Seq(Input)
  BY <1>1 DEF SendTextIn
<1> QED BY <1>2, <1>3

LEMMA NativeType == Native \in Dialect /\ Tracked \in Dialect
  BY DEF Native, Tracked, Dialect

-----------------------------------------------------------------------------
(* What a step of the daemon types goes behind what is typed already; when *)
(* a dialog is up it was chosen.                                           *)
Appends(s) ==
  /\ s \in Seq(Input) /\ typed' = typed \o s
  /\ screen = "dialog" => \A i \in DOMAIN s : Chosen(s[i])

TypesMore == \E s \in Seq(Input) : Appends(s)

LEMMA TypesNothing ==
  ASSUME Typing, UNCHANGED typed
  PROVE  TypesMore
<1>1. typed \o <<>> = typed /\ <<>> \in Seq(Input)
  BY ConcatEmptySeq DEF Typing
<1>2. Appends(<<>>)
  BY <1>1 DEF Appends
<1> QED BY <1>1, <1>2 DEF TypesMore

LEMMA TypesOne ==
  ASSUME Typing, NEW k \in Input, typed' = Append(typed, k),
         screen = "dialog" => Chosen(k)
  PROVE  TypesMore
<1>1. <<k>> \in Seq(Input) /\ typed \o <<k>> = Append(typed, k)
  BY DEF Typing
<1>2. screen = "dialog" => \A i \in DOMAIN <<k>> : Chosen(<<k>>[i])
  OBVIOUS
<1>3. Appends(<<k>>)
  BY <1>1, <1>2 DEF Appends
<1> QED BY <1>1, <1>3 DEF TypesMore

(* At the prompt anything may be typed.                                    *)
LEMMA TypesAtPrompt ==
  ASSUME Typing, NEW s \in Seq(Input), typed' = typed \o s, screen # "dialog"
  PROVE  TypesMore
BY DEF Appends, TypesMore

LEMMA ProbingTypes ==
  ASSUME Typing, NEW via \in Dialect, Probing(via), screen # "dialog"
  PROVE  TypesMore
<1>1. Key("char", via) \in Input /\ Key("char", via).key = "char"
  BY KeyTypes
<1>2. typed' = Append(typed, Key("char", via))
  BY DEF Probing
<1> QED BY <1>1, <1>2, TypesOne

LEMMA BackspacesType ==
  ASSUME Typing, NEW n \in Nat, NEW via \in Dialect, typed' = Append(typed, Backspaces(n, via)),
         screen # "dialog"
  PROVE  TypesMore
BY BackTypes, TypesOne

LEMMA StartTurnTypes ==
  ASSUME Typing, NEW t \in Text, StartTurn(t), screen # "dialog"
  PROVE  TypesMore
<1>1. SendText(t) \in Seq(Input) /\ typed' = typed \o SendText(t)
  BY SendTypes DEF StartTurn, Dialect
<1> QED BY <1>1, TypesAtPrompt

LEMMA CommandTypes ==
  ASSUME Typing, Send \/ Answer
  PROVE  TypesMore
<1>1. CASE UNCHANGED typed
  BY <1>1, TypesNothing
<1>2. CASE ScreenState # "dialog" /\ nextMsg <= MaxMsg /\ StartTurn(<<nextMsg>>)
  <2>1. <<nextMsg>> \in Text
    BY <1>2 DEF Typing, Text, Msg
  <2>2. screen # "dialog"
    BY <1>2 DEF ScreenState
  <2> QED BY <1>2, <2>1, <2>2, StartTurnTypes
<1>3. CASE Answer
  <2> DEFINE k == Key("digit", Tracked)
  <2>1. k \in Input /\ k.key = "digit"
    BY KeyTypes, NativeType
  <2>2. typed' = Append(typed, k) /\ Chosen(k)
    BY <1>3, <2>1 DEF Answer, Chosen
  <2> HIDE DEF k
  <2> QED BY <2>1, <2>2, TypesOne
<1> QED BY <1>1, <1>2, <1>3 DEF Send, SendIntoDialog, SendHeld, SendPasted, SendFails

LEMMA LookTypes ==
  ASSUME Typing, Look
  PROVE  TypesMore
<1>1. CASE NoConfirm
  BY <1>1, TypesNothing DEF NoConfirm
<1>2. CASE Confirm
  <2> DEFINE k == [Key("enter", Tracked) EXCEPT !.aim = keyed]
  <2>1. Key("enter", Tracked) \in Input /\ Key("enter", Tracked).key = "enter"
    BY KeyTypes, NativeType
  <2>2. k \in Input /\ k.key = "enter" /\ k.aim = keyed
    BY <2>1 DEF Typing, Input
  <2>3. Chosen(k) /\ typed' = Append(typed, k)
    BY <1>2, <2>2 DEF Confirm, Chosen
  <2> HIDE DEF k
  <2> QED BY <2>2, <2>3, TypesOne
<1> QED BY <1>1, <1>2 DEF Look

LEMMA HeldTypes ==
  ASSUME Typing, HandleHeld
  PROVE  TypesMore
<1> PICK quiet \in BOOLEAN, bare \in BOOLEAN :
       IF held # <<>> /\ Settled(quiet, bare)
       THEN Dispatch \/ ColdProbe \/ ColdProven \/ HeldWaits
       ELSE HeldWaits
  BY DEF HandleHeld
<1>1. CASE UNCHANGED typed
  BY <1>1, TypesNothing
<1>2. Settled(quiet, bare) => screen # "dialog"
  BY DEF Settled, OwnsInput, ScreenState
<1>3. CASE Settled(quiet, bare) /\ ColdProbe
  BY <1>1, <1>2, <1>3, ProbingTypes DEF ColdProbe, Dialect
<1>4. CASE Settled(quiet, bare) /\ ColdProven
  BY <1>2, <1>4, BackspacesType DEF ColdProven, Typing, Loop
<1>5. CASE Settled(quiet, bare) /\ StartTurn(held)
  BY <1>2, <1>5, StartTurnTypes DEF Typing
<1> QED BY <1>1, <1>3, <1>4, <1>5 DEF HeldWaits, Dispatch, SendFails

LEMMA SubmitTypes ==
  ASSUME Typing, Submit
  PROVE  TypesMore
<1>1. CASE UNCHANGED typed
  BY <1>1, TypesNothing
<1>0. Started \/ Pending => screen # "dialog"
  BY DEF Started, Pending, NewState, ScreenState
<1>2. CASE SubmitTruncated
  <2>1. Key("esc", Tracked) \in Input /\ screen # "dialog"
    BY <1>0, <1>2, KeyTypes, NativeType DEF SubmitTruncated
  <2> QED BY <1>1, <1>2, <2>1, TypesOne DEF SubmitTruncated, NothingTyped
<1>3. CASE SubmitProbe
  <2>1. screen # "dialog"
    BY <1>0, <1>3 DEF SubmitProbe, Unproven, Free
  <2> QED BY <1>1, <1>3, <2>1, ProbingTypes DEF SubmitProbe, NothingTyped, Dialect
<1>4. CASE SubmitProven
  <2>1. screen # "dialog"
    BY <1>0, <1>4 DEF SubmitProven, Unproven, Free
  <2> QED BY <1>4, <2>1, BackspacesType DEF SubmitProven, Echoed, Typing, Loop
<1>5. CASE Proven /\ (SubmitRepaste \/ SubmitEnter)
  <2>1. screen # "dialog" /\ loop.proven \in Dialect /\ sent \in Text
    BY <1>0, <1>5 DEF Proven, Free, Typing, Loop
  <2>2. CASE SubmitEnter
    <3>1. Key("enter", loop.proven) \in Input
      BY <2>1, KeyTypes
    <3> QED BY <2>2, <2>1, <3>1, TypesOne DEF SubmitEnter
  <2>3. CASE SubmitRepaste
    <3> DEFINE b == <<Backspaces(8, loop.proven)>>
               p == SendTextIn(sent, loop.proven)
    <3>1. b \in Seq(Input) /\ p \in Seq(Input)
      BY <2>1, BackTypes, SendTypes
    <3>2. typed' = typed \o b \o p
      BY <2>3 DEF SubmitRepaste
    <3> HIDE DEF b, p
    <3>3. b \o p \in Seq(Input) /\ typed' = typed \o (b \o p)
      <4>1. typed \in Seq(Input)
        BY DEF Typing
      <4>2. b \o p \in Seq(Input)
        BY <3>1, ConcatProperties
      <4>3. (typed \o b) \o p = typed \o (b \o p)
        BY <3>1, <4>1, ConcatAssociative
      <4> QED BY <3>2, <4>2, <4>3
    <3> QED BY <3>3, <2>1, TypesAtPrompt
  <2> QED BY <1>5, <2>2, <2>3
<1> QED
  BY <1>1, <1>2, <1>3, <1>4, <1>5
  DEF Submit, SubmitStarted, SubmitParked, SubmitWaits, SubmitGivesUp, SubmitRepaste,
      SubmitEnter, NothingTyped

(* Only Read takes anything off what is typed.                             *)
LEMMA TypingStep ==
  ASSUME Typing, [Next]_vars
  PROVE  TypesMore \/ Read
<1>1. CASE UNCHANGED typed
  BY <1>1, TypesNothing
<1> QED
  BY <1>1, CommandTypes, LookTypes, HeldTypes, SubmitTypes
  DEF Next, Tick, Watch, Boots, WritesRow, Replies, PutsUpDialog, Clears, Warms, Ages, CliKeeps,
      vars

-----------------------------------------------------------------------------
(* The types are kept.                                                     *)
(* What a loop is made of, and a cold-start probe.                         *)
Maybe == Dialect \cup {"none"}

LEMMA LoopFlags ==
  ASSUME NEW l \in Loop, NEW x \in BOOLEAN
  PROVE  /\ [l EXCEPT !.armed = x] \in Loop
         /\ [l EXCEPT !.parked = x] \in Loop
<1>1. [l EXCEPT !.armed = x] \in Loop
  BY DEF Loop
<1>2. [l EXCEPT !.parked = x] \in Loop
  BY DEF Loop
<1> QED BY <1>1, <1>2

LEMMA LoopProbes ==
  ASSUME NEW l \in Loop, NEW n \in Nat, NEW p \in Maybe
  PROVE  /\ [l EXCEPT !.probe = p] \in Loop
         /\ [l EXCEPT !.probes = n] \in Loop
         /\ [l EXCEPT !.probe = p, !.probes = n] \in Loop
         /\ [l EXCEPT !.probes = n, !.proven = p] \in Loop
         /\ [l EXCEPT !.proven = p, !.probe = "none", !.probes = n] \in Loop
<1>1. [l EXCEPT !.probe = p] \in Loop
  BY DEF Loop, Maybe
<1>2. [l EXCEPT !.probes = n] \in Loop
  BY DEF Loop
<1>3. [l EXCEPT !.probe = p, !.probes = n] \in Loop
  BY DEF Loop, Maybe
<1>4. [l EXCEPT !.probes = n, !.proven = p] \in Loop
  BY DEF Loop, Maybe
<1>5. [l EXCEPT !.proven = p, !.probe = "none", !.probes = n] \in Loop
  BY DEF Loop, Maybe
<1> QED BY <1>1, <1>2, <1>3, <1>4, <1>5

LEMMA LoopTries ==
  ASSUME NEW l \in Loop, NEW i \in 0 .. 2
  PROVE  /\ [l EXCEPT !.repastes = i, !.tried = FALSE, !.tries = 0] \in Loop
         /\ [l EXCEPT !.tried = TRUE, !.tries = i] \in Loop
<1>1. [l EXCEPT !.repastes = i, !.tried = FALSE, !.tries = 0] \in Loop
  <2>1. 0 \in 0 .. 2
    OBVIOUS
  <2>2. \A j \in 0 .. 2 : [l EXCEPT !.repastes = i, !.tried = FALSE, !.tries = j] \in Loop
    BY DEF Loop
  <2> QED BY <2>1, <2>2
<1>2. [l EXCEPT !.tried = TRUE, !.tries = i] \in Loop
  BY DEF Loop
<1> QED BY <1>1, <1>2

LEMMA ColdIs ==
  ASSUME NEW c \in [proven : BOOLEAN, probe : Maybe], NEW p \in Maybe, NEW x \in BOOLEAN
  PROVE  /\ [proven |-> x, probe |-> "none"] \in [proven : BOOLEAN, probe : Maybe]
         /\ [c EXCEPT !.probe = p] \in [proven : BOOLEAN, probe : Maybe]
<1>1. [proven |-> x, probe |-> "none"] \in [proven : BOOLEAN, probe : Maybe]
  BY DEF Maybe
<1>2. [c EXCEPT !.probe = p] \in [proven : BOOLEAN, probe : Maybe]
  OBVIOUS
<1> QED BY <1>1, <1>2

LEMMA LoopStarts == Disarmed \in Loop /\ Armed \in Loop
<1>1. Disarmed \in Loop
  BY DEF Disarmed, Loop
<1>2. Armed \in Loop
  BY <1>1, LoopFlags DEF Armed
<1> QED BY <1>1, <1>2

LEMMA StartTurnOK ==
  ASSUME NEW t \in Text, StartTurn(t)
  PROVE  sent' \in Text /\ loop' \in Loop
BY LoopStarts DEF StartTurn, BeginTurn

LEMMA TextOK ==
  ASSUME Typing, Next
  PROVE  held' \in Text /\ sent' \in Text /\ nextMsg' \in 1 .. MaxMsg + 1
<1>1. /\ held \in Text /\ sent \in Text /\ nextMsg \in 1 .. MaxMsg + 1
      /\ MaxMsg \in Nat /\ <<>> \in Text
  BY BoundsAssumption DEF Typing, Text
<1>2. CASE Send
  <2>1. nextMsg \in Msg /\ nextMsg' \in 1 .. MaxMsg + 1
    BY <1>1, <1>2 DEF Send, Msg
  <2>2. <<nextMsg>> \in Text /\ Append(held, nextMsg) \in Text
    BY <1>1, <2>1 DEF Text
  <2>3. held' \in Text /\ sent' \in Text
    BY <1>1, <1>2, <2>2 DEF Send, SendIntoDialog, SendHeld, SendPasted, StartTurn, SendFails,
       BeginTurn
  <2> QED BY <2>1, <2>3
<1>3. CASE HandleHeld
  BY <1>1, <1>3 DEF HandleHeld, HeldWaits, HeldUnchanged, ColdProbe, ColdProven, Dispatch,
                    StartTurn, SendFails, BeginTurn
<1>4. CASE Submit
  BY <1>1, <1>4 DEF Submit, SubmitStarted, SubmitTruncated
<1>5. CASE UNCHANGED <<held, sent, nextMsg>>
  BY <1>1, <1>5
<1> QED
  BY <1>2, <1>3, <1>4, <1>5
  DEF Next, Tick, Answer, Look, Watch, Read, Boots, WritesRow, Replies, PutsUpDialog, Clears,
      Warms, Ages,
      CliKeeps, historyVars

LEMMA LoopOK ==
  ASSUME Typing, Next
  PROVE  /\ loop' \in Loop
         /\ cold' \in [proven : BOOLEAN, probe : Maybe]
<1>1. /\ loop \in Loop /\ cold \in [proven : BOOLEAN, probe : Maybe]
      /\ sent \in Text /\ held \in Text
  BY DEF Typing, Maybe
<1>2. CASE Send
  <2>1. UNCHANGED loop \/ loop' = Armed
    BY <1>2 DEF Send, SendIntoDialog, SendHeld, SendPasted, StartTurn, SendFails
  <2> QED BY <1>1, <1>2, <2>1, LoopStarts DEF Send
<1>3. CASE HandleHeld
  <2>1. CASE HeldWaits
    BY <1>1, <2>1 DEF HeldWaits, HeldUnchanged
  <2>2. CASE ColdProbe
    <3>0. loop.probes + 1 \in Nat
      BY <1>1 DEF Loop
    <3>1. loop' = loop \/ loop' = [loop EXCEPT !.probes = loop.probes + 1]
      BY <2>2 DEF ColdProbe
    <3>2. loop' \in Loop
      BY <1>1, <3>1, <3>0, LoopProbes
    <3>3. \E p \in Maybe : cold' = [cold EXCEPT !.probe = p]
      BY <2>2 DEF ColdProbe, Dialect, Maybe
    <3> QED BY <1>1, <3>2, <3>3, ColdIs
  <2>3. CASE ColdProven
    <3>1. /\ loop' = [loop EXCEPT !.probes = 0, !.proven = cold.probe]
          /\ cold' = [proven |-> TRUE, probe |-> "none"]
      BY <2>3 DEF ColdProven
    <3>2. cold.probe \in Maybe
      BY <1>1
    <3> QED BY <1>1, <3>1, <3>2, LoopProbes, ColdIs
  <2>4. CASE Dispatch
    BY <1>1, <2>4, StartTurnOK DEF Dispatch, SendFails
  <2> QED BY <1>3, <2>1, <2>2, <2>3, <2>4 DEF HandleHeld
<1>4. CASE Submit
  <2>1. cold' \in [proven : BOOLEAN, probe : Maybe]
    <3>1. UNCHANGED cold \/ cold' = [proven |-> FALSE, probe |-> "none"]
      BY <1>4 DEF Submit, SubmitStarted, SubmitTruncated
    <3> QED BY <1>1, <3>1, ColdIs DEF Maybe
  <2>2. CASE UNCHANGED loop \/ loop' = [loop EXCEPT !.armed = FALSE]
    BY <1>1, <2>1, <2>2, LoopFlags
  <2>3. CASE SubmitParked
    <3>1. loop.parked \in BOOLEAN /\ loop.tried \in BOOLEAN /\ loop.tries \in 0 .. 2
      BY <1>1 DEF Loop
    <3>2. (loop.parked \/ loop.tried \/ loop.tries > 0) \in BOOLEAN
      BY <3>1
    <3>3. loop' = [loop EXCEPT !.parked = loop.parked \/ loop.tried \/ loop.tries > 0]
      BY <2>3 DEF SubmitParked
    <3> QED BY <1>1, <2>1, <3>2, <3>3, LoopFlags
  <2>4. CASE SubmitProbe
    <3>1. \E p \in Maybe :
             \/ loop' = [loop EXCEPT !.probe = p]
             \/ loop' = [loop EXCEPT !.probe = p, !.probes = loop.probes + 1]
      BY <2>4 DEF SubmitProbe, Dialect, Maybe
    <3>2. loop.probes + 1 \in Nat
      BY <1>1 DEF Loop
    <3>3. PICK p \in Maybe :
             \/ loop' = [loop EXCEPT !.probe = p]
             \/ loop' = [loop EXCEPT !.probe = p, !.probes = loop.probes + 1]
      BY <3>1
    <3>4. loop' \in Loop
      <4>1. loop \in Loop /\ loop.probes + 1 \in Nat
        BY <1>1, <3>2
      <4>2. [loop EXCEPT !.probe = p] \in Loop
        BY <4>1, LoopProbes
      <4>3. [loop EXCEPT !.probe = p, !.probes = loop.probes + 1] \in Loop
        BY <4>1, LoopProbes
      <4> QED BY <3>3, <4>2, <4>3
    <3> QED BY <2>1, <3>4
  <2>5. CASE SubmitProven
    <3>1. loop' = [loop EXCEPT !.proven = loop.probe, !.probe = "none", !.probes = 0]
      BY <2>5 DEF SubmitProven
    <3>2. loop.probe \in Maybe
      BY <1>1 DEF Loop, Maybe
    <3> QED BY <1>1, <2>1, <3>1, <3>2, LoopProbes
  <2>6. CASE SubmitRepaste
    <3>1. /\ loop' = [loop EXCEPT !.repastes = @ + 1, !.tried = FALSE, !.tries = 0]
          /\ loop.repastes < 2
      BY <2>6 DEF SubmitRepaste
    <3>2. loop.repastes + 1 \in 0 .. 2
      BY <1>1, <3>1 DEF Loop
    <3>3. loop' = [loop EXCEPT !.repastes = loop.repastes + 1, !.tried = FALSE, !.tries = 0]
      BY <3>1
    <3> QED BY <1>1, <2>1, <3>2, <3>3, LoopTries
  <2>7. CASE SubmitEnter
    <3>1. loop' = [loop EXCEPT !.tried = TRUE, !.tries = IF @ < 2 THEN @ + 1 ELSE @]
      BY <2>7 DEF SubmitEnter
    <3>2. (IF loop.tries < 2 THEN loop.tries + 1 ELSE loop.tries) \in 0 .. 2
      BY <1>1 DEF Loop
    <3>3. loop' = [loop EXCEPT !.tried = TRUE,
                               !.tries = IF loop.tries < 2 THEN loop.tries + 1 ELSE loop.tries]
      BY <3>1
    <3> QED BY <1>1, <2>1, <3>2, <3>3, LoopTries
  <2> QED
    BY <1>4, <2>2, <2>3, <2>4, <2>5, <2>6, <2>7
    DEF Submit, SubmitStarted, SubmitTruncated, SubmitWaits, SubmitGivesUp
<1>5. CASE UNCHANGED <<loop, cold>>
  BY <1>1, <1>5
<1> QED
  BY <1>2, <1>3, <1>4, <1>5
  DEF Next, Tick, Answer, Look, Watch, Read, Boots, WritesRow, Replies, PutsUpDialog, Clears,
      Warms, Ages,
      CliKeeps

LEMMA ScreenOK ==
  ASSUME Typing, Next
  PROVE  screen' \in {"boot", "prompt", "spinner", "working", "dialog", "ghost"}
<1>1. screen \in {"boot", "prompt", "spinner", "working", "dialog", "ghost"}
  BY DEF Typing
<1>2. CASE UNCHANGED screen
  BY <1>1, <1>2
<1>3. CASE Read
  BY <1>1, <1>3 DEF Read, ReadEnter, ReadText, ReadBack, ReadDigit, ReadEsc, CloseDialog, Behind,
     Take
<1>4. CASE Boots \/ Replies \/ PutsUpDialog \/ Clears \/ Warms
  BY <1>1, <1>4 DEF Boots, Replies, PutsUpDialog, Clears, Behind, Warms, Take
<1> QED
  BY <1>2, <1>3, <1>4
  DEF Next, Tick, Send, Answer, Look, HandleHeld, Submit, Watch, WritesRow, Ages, cliVars

(* What Read leaves of the keys, and what it does to the dialog.           *)
LEMMA ReadIs ==
  ASSUME Typing, Read
  PROVE  /\ typed # <<>> /\ typed' = Tail(typed) /\ UNCHANGED <<keyed, cards, answering>>
         /\ dialog' \in 0 .. MaxDialog /\ (dialog # 0 => dialog' # 0)
         /\ screen' = "dialog" => screen = "dialog"
         /\ screen' = "ghost" => screen \in {"dialog", "ghost"}
         /\ Can("chained") \/ dialog' = dialog
         /\ \/ UNCHANGED entered
            \/ /\ screen = "dialog" /\ Head(typed).key = "enter"
               /\ entered' = entered \cup {[dialog |-> dialog, aim |-> Head(typed).aim]}
<1>0. MaxDialog \in Nat /\ dialog \in 0 .. MaxDialog
  BY BoundsAssumption DEF Typing
<1>1. typed # <<>> /\ typed' = Tail(typed) /\ UNCHANGED <<keyed, cards, answering>>
  BY DEF Read
<1> DEFINE t == Head(typed)
<1>2. CASE UNCHANGED <<screen, dialog, entered>>
  BY <1>0, <1>1, <1>2
<1>3. CASE ReadEnter(t)
  <2>1. CASE screen = "dialog"
    BY <1>0, <1>1, <1>3, <2>1 DEF ReadEnter, CloseDialog, Behind
  <2>2. CASE screen # "dialog"
    <3>1. UNCHANGED <<dialog, entered>> /\ (screen' = screen \/ screen' \in {"working", "spinner"})
      BY <1>3, <2>2 DEF ReadEnter, Take
    <3> QED BY <1>0, <1>1, <2>2, <3>1
  <2> QED BY <2>1, <2>2
<1>4. CASE ReadDigit(t)
  BY <1>0, <1>1, <1>4 DEF ReadDigit, CloseDialog, Behind
<1>5. CASE ReadEsc(t)
  BY <1>0, <1>1, <1>5 DEF ReadEsc
<1> QED BY <1>2, <1>3, <1>4, <1>5 DEF Read, ReadText, ReadBack

(* The keys that are typed more, or read, keep their type.                 *)
LEMMA TypedOK ==
  ASSUME Typing, Next
  PROVE  typed' \in Seq(Input)
<1>1. CASE TypesMore
  BY <1>1, ConcatProperties DEF TypesMore, Appends, Typing
<1>2. CASE Read
  BY <1>2 DEF Read, Typing
<1> QED BY <1>1, <1>2, TypingStep

LEMMA DialogOK ==
  ASSUME IInv, Next
  PROVE  /\ dialog' \in 0 .. MaxDialog /\ keyed' \in 0 .. MaxDialog
         /\ DialogNumbered' /\ CardsNumbered' /\ AnswerKeyed'
<1>1. /\ MaxDialog \in Nat /\ dialog \in 0 .. MaxDialog /\ keyed \in 0 .. MaxDialog
      /\ Typing /\ DialogNumbered /\ CardsNumbered /\ AnswerKeyed
  BY BoundsAssumption DEF IInv, Typing
<1>2. CASE Send
  <2>1. /\ UNCHANGED <<screen, dialog, keyed, answering>>
        /\ cards' = cards \/ (screen \in {"dialog", "ghost"} /\ cards' = cards \cup {dialog})
    BY <1>1, <1>2 DEF Send, SendIntoDialog, SendHeld, SendPasted, ScreenState, Typing
  <2> QED BY <1>1, <2>1 DEF DialogNumbered, CardsNumbered, AnswerKeyed
<1>3. CASE Answer
  BY <1>1, <1>3 DEF Answer, cliVars, DialogNumbered, CardsNumbered, AnswerKeyed
<1>4. CASE Look
  <2>1. UNCHANGED <<screen, dialog, keyed>> /\ (answering' => answering)
    BY <1>4 DEF Look, Confirm, NoConfirm, cliVars
  <2>2. cards' = cards \/ (screen \in {"dialog", "ghost"} /\ cards' = cards \cup {dialog})
    <3>1. CASE cards' = cards
      BY <3>1
    <3>2. CASE cards' = cards \cup {dialog} /\ NewState = "dialog"
      BY <1>1, <3>2 DEF Typing, NewState, ScreenState
    <3> QED BY <1>4, <3>1, <3>2 DEF Look, Relay
  <2> QED BY <1>1, <2>1, <2>2 DEF DialogNumbered, CardsNumbered, AnswerKeyed
<1>5. CASE Read
  BY <1>1, <1>5, ReadIs DEF DialogNumbered, CardsNumbered, AnswerKeyed
<1>6. CASE PutsUpDialog
  BY <1>1, <1>6 DEF PutsUpDialog, CliKeeps, DialogNumbered, CardsNumbered, AnswerKeyed
<1>7. CASE /\ UNCHANGED <<dialog, keyed, cards, answering>>
           /\ screen' \in {"dialog", "ghost"} => screen \in {"dialog", "ghost"}
  BY <1>1, <1>7 DEF DialogNumbered, CardsNumbered, AnswerKeyed
<1> QED
  BY <1>2, <1>3, <1>4, <1>5, <1>6, <1>7
  DEF Next, Tick, HandleHeld, Submit, Watch, Boots, WritesRow, Replies, Take, Clears, Behind, Warms,
      Ages, CliKeeps, historyVars, cliVars

-----------------------------------------------------------------------------
LEMMA IInvHolds == Spec => []IInv
<1>1. Init => IInv
  <2> SUFFICES ASSUME Init PROVE IInv
    OBVIOUS
  <2>1. held = <<>> /\ sent = <<>> /\ nextMsg = 1 /\ typed = <<>> /\ dialog = 0 /\ keyed = 0
        /\ loop = Disarmed /\ cold = [proven |-> FALSE, probe |-> "none"]
        /\ screen = "boot" /\ cards = {} /\ answering = FALSE
    BY DEF Init
  <2>2. MaxMsg \in Nat /\ MaxDialog \in Nat
    BY BoundsAssumption
  <2>4. Typing
    BY <2>1, <2>2, LoopStarts DEF Typing, Text
  <2> QED
    BY <2>1, <2>4 DEF IInv, DialogNumbered, CardsNumbered, AnswerKeyed
<1>2. IInv /\ [Next]_vars => IInv'
  <2> SUFFICES ASSUME IInv, [Next]_vars PROVE IInv'
    OBVIOUS
  <2>1. CASE Next
    <3>1. Typing
      BY DEF IInv
    <3>2. Typing'
      BY <2>1, <3>1, TextOK, LoopOK, TypedOK, ScreenOK, DialogOK DEF Typing, Maybe
    <3> QED BY <2>1, <3>2, DialogOK DEF IInv
  <2>2. CASE UNCHANGED vars
    BY <2>2 DEF vars, sessionVars, cliVars, historyVars, IInv, Typing, DialogNumbered,
                CardsNumbered, AnswerKeyed
  <2> QED BY <2>1, <2>2
<1> QED BY <1>1, <1>2, PTL DEF Spec

(* No key goes blind into a dialog, whatever the CLI does with the keys    *)
(* and whenever it puts a dialog up: cmd_send holds, a held message waits  *)
(* for the prompt, and probe, re-paste, Enter and Esc of the submit loop   *)
(* wait, while one is on screen; what is typed is the client's digit, and  *)
(* the Enter that confirms it.                                             *)
THEOREM KeysNotBlind == Spec => NoBlindKey
<1>1. IInv /\ [Next]_vars =>
        [\A i \in DOMAIN typed' : i > Len(typed) /\ screen = "dialog" =>
           typed'[i].key = "digit" \/ (typed'[i].key = "enter" /\ typed'[i].aim = keyed /\ keyed # 0)]_vars
  <2> SUFFICES ASSUME IInv, [Next]_vars, NEW i \in DOMAIN typed', i > Len(typed),
                      screen = "dialog"
               PROVE  \/ typed'[i].key = "digit"
                      \/ typed'[i].key = "enter" /\ typed'[i].aim = keyed /\ keyed # 0
    OBVIOUS
  <2>1. Typing /\ AnswerKeyed /\ typed \in Seq(Input)
    BY DEF IInv, Typing
  <2>2. CASE TypesMore
    <3>1. PICK s \in Seq(Input) : typed' = typed \o s /\ \A j \in DOMAIN s : Chosen(s[j])
      BY <2>2 DEF TypesMore, Appends
    <3>2. Len(typed) \in Nat /\ Len(s) \in Nat /\ i \in 1 .. Len(typed) + Len(s)
      BY <2>1, <3>1, ConcatProperties
    <3>3. typed'[i] = s[i - Len(typed)] /\ i - Len(typed) \in DOMAIN s
      BY <2>1, <3>1, <3>2, ConcatProperties
    <3>4. Chosen(typed'[i])
      BY <3>1, <3>3
    <3> QED BY <2>1, <3>4 DEF Chosen, AnswerKeyed
  <2>3. CASE Read
    BY <2>1, <2>3 DEF Read
  <2> QED BY <2>1, <2>2, <2>3, TypingStep
<1> QED BY <1>1, IInvHolds, PTL DEF Spec, NoBlindKey

(* An answer is confirmed in the dialog it was keyed into: the Enter to    *)
(* come, and the one that lies unread, are meant for the dialog on screen. *)
Answered ==
  /\ answering => keyed = dialog
  /\ screen = "dialog" => \A i \in DOMAIN typed : typed[i].key = "enter" => typed[i].aim = dialog
  /\ EnterIsChosen

LEMMA AnsweredMore ==
  ASSUME Typing, Answered, TypesMore, screen = "dialog", NEW i \in DOMAIN typed',
         typed'[i].key = "enter"
  PROVE  typed'[i].aim = dialog
<1>1. PICK s \in Seq(Input) : typed' = typed \o s /\ \A j \in DOMAIN s : Chosen(s[j])
  BY DEF TypesMore, Appends
<1>2. Len(typed) \in Nat /\ Len(s) \in Nat /\ i \in 1 .. Len(typed) + Len(s) /\ typed \in Seq(Input)
  BY <1>1, ConcatProperties DEF Typing
<1>3. CASE i <= Len(typed)
  <2>1. typed'[i] = typed[i] /\ i \in DOMAIN typed
    BY <1>1, <1>2, <1>3, ConcatProperties
  <2> QED BY <2>1 DEF Answered
<1>4. CASE i > Len(typed)
  <2>1. typed'[i] = s[i - Len(typed)] /\ i - Len(typed) \in DOMAIN s
    BY <1>1, <1>2, <1>4, ConcatProperties
  <2>2. Chosen(typed'[i])
    BY <1>1, <2>1
  <2> QED BY <2>2 DEF Chosen, Answered
<1> QED BY <1>2, <1>3, <1>4

LEMMA AnsweredFrame ==
  ASSUME Next, ~Read, ~PutsUpDialog
  PROVE  /\ UNCHANGED <<dialog, entered>>
         /\ screen' = "dialog" => screen = "dialog"
         /\ (answering' => answering /\ keyed' = keyed) \/ keyed' = dialog
<1>0. CASE Look
  <2>1. UNCHANGED <<dialog, entered, screen, keyed>> /\ (answering' => answering)
    BY <1>0 DEF Look, Confirm, NoConfirm, cliVars
  <2> QED BY <2>1
<1>1. CASE Send \/ Answer
  BY <1>1 DEF Send, Answer, cliVars
<1>2. CASE HandleHeld \/ Submit \/ Watch \/ Ages
  BY <1>2 DEF HandleHeld, Submit, Watch, Ages, cliVars, historyVars
<1>3. CASE Boots \/ WritesRow \/ Replies \/ Clears \/ Warms
  BY <1>3 DEF Boots, WritesRow, Replies, Take, Clears, Behind, Warms, CliKeeps
<1> QED BY <1>0, <1>1, <1>2, <1>3 DEF Next, Tick

LEMMA AnsweredStep ==
  ASSUME ~Can("chained"), ~Can("sudden"), IInv, Answered, Next
  PROVE  Answered'
<1>0. Typing /\ typed \in Seq(Input)
  BY DEF IInv, Typing
<1>1. CASE Read
  <2>1. /\ typed # <<>> /\ typed' = Tail(typed) /\ UNCHANGED <<keyed, answering, dialog>>
        /\ screen' = "dialog" => screen = "dialog"
    BY <1>0, <1>1, ReadIs
  <2>2. Head(typed) = typed[1] /\ 1 \in DOMAIN typed
    BY <1>0, <2>1
  <2>3. \A i \in DOMAIN typed' : i + 1 \in DOMAIN typed /\ typed'[i] = typed[i + 1]
    BY <1>0, <2>1
  <2>4. EnterIsChosen'
    <3>1. CASE UNCHANGED entered
      BY <3>1 DEF Answered, EnterIsChosen
    <3>2. CASE /\ screen = "dialog" /\ typed[1].key = "enter"
               /\ entered' = entered \cup {[dialog |-> dialog, aim |-> typed[1].aim]}
      <4>1. typed[1].aim = dialog
        BY <2>2, <3>2 DEF Answered
      <4> QED BY <3>2, <4>1 DEF Answered, EnterIsChosen
    <3> QED BY <1>0, <1>1, <2>2, <3>1, <3>2, ReadIs
  <2> QED BY <2>1, <2>3, <2>4 DEF Answered
<1>2. CASE PutsUpDialog
  <2>1. typed' = <<>> /\ ~answering' /\ UNCHANGED entered
    BY <1>2 DEF PutsUpDialog, CliKeeps
  <2> QED BY <2>1 DEF Answered, EnterIsChosen
<1>3. CASE ~Read /\ ~PutsUpDialog
  <2>1. TypesMore
    BY <1>0, <1>3, TypingStep
  <2>2. \A i \in DOMAIN typed' : screen = "dialog" /\ typed'[i].key = "enter" => typed'[i].aim = dialog
    BY <1>0, <2>1, AnsweredMore
  <2>3. /\ UNCHANGED <<dialog, entered>>
        /\ screen' = "dialog" => screen = "dialog"
        /\ (answering' => answering /\ keyed' = keyed) \/ keyed' = dialog
    BY <1>3, AnsweredFrame
  <2> QED BY <2>2, <2>3 DEF Answered, EnterIsChosen
<1> QED BY <1>1, <1>2, <1>3

(* An Enter the CLI reads in a dialog confirms the answer to that very     *)
(* dialog: pending_answer_enter outlives neither its dialog nor the next   *)
(* one's arrival, and no Enter of the submit loop is left for it, while    *)
(* the screen does not change over what was typed and not read yet.        *)
THEOREM EntersAreChosen == ~Can("chained") /\ ~Can("sudden") => (Spec => []EnterIsChosen)
<1> SUFFICES ASSUME ~Can("chained"), ~Can("sudden") PROVE Spec => []EnterIsChosen
  OBVIOUS
<1>1. Init => Answered
  BY DEF Init, Answered, EnterIsChosen
<1>2. IInv /\ Answered /\ [Next]_vars => Answered'
  <2> SUFFICES ASSUME IInv, Answered, [Next]_vars PROVE Answered'
    OBVIOUS
  <2>1. CASE Next
    BY <2>1, AnsweredStep
  <2>2. CASE UNCHANGED vars
    BY <2>2 DEF vars, sessionVars, cliVars, historyVars, Answered, EnterIsChosen
  <2> QED BY <2>1, <2>2
<1>3. Answered => EnterIsChosen
  BY DEF Answered
<1> QED BY <1>1, <1>2, <1>3, IInvHolds, PTL DEF Spec

-----------------------------------------------------------------------------
(* What a box may hold: only where pastes lose their head or their end is  *)
(* a piece cut.                                                            *)
Chunk == [text : Text, cut : {c \in BOOLEAN : c => Can("cut") \/ Can("plain")}]
Prompt == Seq(Chunk)
Row == [row : RowKind, text : Prompt]

(* The types that Typing leaves out.                                       *)
CliTypes ==
  /\ {running, win32, bullets} \subseteq BOOLEAN
  /\ box \in Prompt /\ lined \in Seq(Prompt)
  /\ rowDue \in Prompt /\ unread \in Seq(Row)
  /\ submitted \in Seq(Prompt)

SessionTypes ==
  /\ {observing, reacted, repasted, carded, answering, old, tracked} \subseteq BOOLEAN
  /\ state \in {"starting", "dead", "idle", "thinking", "dialog"}
  /\ watcher \in [open : BOOLEAN, born : BOOLEAN, user : Prompt]
  /\ at \in {"rest", "held", "submit", "watch"}
  /\ cards \subseteq 1 .. MaxDialog

(* A text holds fewer messages than numbers were given out.                *)
Bounded == Len(held) < nextMsg /\ Len(sent) < nextMsg

FateTypes == fate \in [refused : SUBSET Text, gaveUp : SUBSET Text, lost : SUBSET Text]

Types == IInv /\ CliTypes /\ SessionTypes /\ FateTypes /\ Bounded

-----------------------------------------------------------------------------
(* What the CLI reads is an input, and what it adds to the box a piece.    *)
LEMMA HeadTypes ==
  ASSUME Typing, typed # <<>>
  PROVE  /\ Head(typed) \in Input
         /\ Head(typed).text \in Text /\ Head(typed).n \in Nat
         /\ Head(typed) = typed[1] /\ 1 \in DOMAIN typed
<1>1. typed \in Seq(Input)
  BY DEF Typing
<1>2. Head(typed) \in Input /\ Head(typed) = typed[1] /\ 1 \in DOMAIN typed
  BY <1>1
<1> QED BY <1>2 DEF Input

LEMMA PieceTypes ==
  ASSUME NEW t \in Text, NEW cut \in BOOLEAN, cut => Can("cut") \/ Can("plain")
  PROVE  [text |-> t, cut |-> cut] \in Chunk /\ Stray \in Chunk
BY DEF Chunk, Stray, Text

LEMMA RowTypes ==
  ASSUME NEW p \in Prompt
  PROVE  /\ UserRow(p) \in Row
         /\ [row |-> "reply", text |-> <<>>] \in Row
         /\ [row |-> "interrupt", text |-> <<>>] \in Row
BY DEF UserRow, Row, RowKind, Prompt

LEMMA TakeTypes ==
  ASSUME CliTypes, NEW p \in Prompt, NEW rows \in Seq(Row), Take(p, rows)
  PROVE  /\ submitted' \in Seq(Prompt) /\ unread' \in Seq(Row) /\ rowDue' \in Prompt
         /\ running' = TRUE
<1>1. UserRow(p) \in Row /\ <<>> \in Prompt
  BY RowTypes DEF Prompt
<1>2. submitted' \in Seq(Prompt)
  BY DEF Take, CliTypes
<1>3. \/ unread' = Append(rows, UserRow(p)) /\ rowDue' = <<>>
      \/ unread' = rows /\ rowDue' = p
  BY DEF Take
<1>4. Append(rows, UserRow(p)) \in Seq(Row)
  BY <1>1
<1>5. unread' \in Seq(Row) /\ rowDue' \in Prompt
  BY <1>1, <1>3, <1>4
<1> QED BY <1>2, <1>5 DEF Take

LEMMA ReadTextTypes ==
  ASSUME Typing, CliTypes, typed # <<>>, ReadText(Head(typed))
  PROVE  box' \in Prompt
<1> DEFINE t == Head(typed)
<1>1. box \in Prompt /\ t.text \in Text
  BY HeadTypes DEF CliTypes
<1> HIDE DEF t
<1>2. PICK cut \in BOOLEAN :
        /\ cut => Can("cut")
        /\ box' = IF screen = "dialog" THEN box
                  ELSE Append(box, IF t.key = "paste" THEN [text |-> t.text, cut |-> cut] ELSE Stray)
  BY DEF ReadText, t
<1>3. [text |-> t.text, cut |-> cut] \in Chunk /\ Stray \in Chunk
  BY <1>1, <1>2, PieceTypes
<1> QED BY <1>1, <1>2, <1>3 DEF Prompt

LEMMA ReadBackTypes ==
  ASSUME Typing, CliTypes, typed # <<>>, ReadBack(Head(typed))
  PROVE  box' \in Prompt
<1> DEFINE n == Head(typed).n
<1>1. box \in Prompt /\ n \in Nat
  BY HeadTypes DEF CliTypes
<1>2. \A k \in Nat : k <= Len(box) => SubSeq(box, 1, k) \in Prompt
  BY <1>1 DEF Prompt
<1>3. Erased(n) \in Prompt /\ Len(Erased(n)) \in Nat
  <2>1. CASE n >= Len(box)
    BY <2>1 DEF Erased, Prompt
  <2>2. CASE ~(n >= Len(box))
    <3>1. Len(box) - n \in Nat /\ Len(box) - n <= Len(box)
      BY <1>1, <2>2 DEF Prompt
    <3>2. Erased(n) = SubSeq(box, 1, Len(box) - n)
      BY <2>2 DEF Erased
    <3>3. Erased(n) \in Prompt
      BY <1>2, <3>1, <3>2
    <3> QED BY <3>3 DEF Prompt
  <2> QED BY <2>1, <2>2
<1>4. CASE box' = IF screen = "dialog" THEN box ELSE Erased(n)
  BY <1>1, <1>3, <1>4
<1>5. CASE Can("plain") /\ Clips(n)
  <2>1. PICK j \in Len(Erased(n)) + 1 .. Len(box) : box' = Append(SubSeq(box, 1, j - 1), Debris)
    BY <1>5 DEF Clips
  <2>2. Debris \in Chunk
    BY <1>5 DEF Debris, Chunk, Text
  <2>3. Len(box) \in Nat
    BY <1>1 DEF Prompt
  <2>4. j - 1 \in Nat /\ j - 1 <= Len(box)
    BY <1>3, <2>1, <2>3
  <2>5. SubSeq(box, 1, j - 1) \in Prompt
    BY <1>2, <2>4
  <2> QED BY <2>1, <2>2, <2>5 DEF Prompt
<1> QED BY <1>4, <1>5 DEF ReadBack

LEMMA ReadEscTypes ==
  ASSUME Typing, CliTypes, ReadEsc(Head(typed))
  PROVE  running' \in BOOLEAN /\ unread' \in Seq(Row) /\ rowDue' \in Prompt
<1>1. unread \in Seq(Row) /\ rowDue \in Prompt /\ <<>> \in Prompt /\ running \in BOOLEAN
  BY DEF CliTypes, Prompt
<1>2. UserRow(rowDue) \in Row /\ [row |-> "interrupt", text |-> <<>>] \in Row
  BY <1>1, RowTypes
<1> DEFINE due == IF rowDue = <<>> THEN <<>> ELSE <<UserRow(rowDue)>>
           stop == <<[row |-> "interrupt", text |-> <<>>]>>
<1>3. due \in Seq(Row) /\ stop \in Seq(Row)
  BY <1>2
<1> HIDE DEF due, stop
<1>4. (unread \o due) \o stop \in Seq(Row)
  BY <1>1, <1>3, ConcatProperties
<1>5. CASE running /\ screen # "dialog"
  <2>1. running' = FALSE /\ unread' = unread \o due \o stop /\ rowDue' = <<>>
    BY <1>5 DEF ReadEsc, due, stop
  <2> QED BY <2>1, <1>1, <1>4
<1>6. CASE ~(running /\ screen # "dialog")
  BY <1>1, <1>6 DEF ReadEsc
<1> QED BY <1>5, <1>6

LEMMA ReadCliTypes ==
  ASSUME Typing, CliTypes, Read
  PROVE  CliTypes'
<1> DEFINE t == Head(typed)
<1>1. typed # <<>> /\ UNCHANGED <<win32, bullets>>
  BY DEF Read
<1>2. CASE UNCHANGED <<box, lined, running, rowDue, unread, submitted>>
  BY <1>1, <1>2 DEF CliTypes
<1>3. CASE ReadEnter(t)
  <2>1. CASE screen # "dialog" /\ box # <<>> /\ box' = <<>>
    <3>0. box' \in Prompt
      BY <2>1 DEF Prompt
    <3>1. CASE /\ running /\ lined' = Append(lined, box)
               /\ UNCHANGED <<running, rowDue, submitted, screen, unread>>
      BY <1>1, <3>0, <3>1 DEF CliTypes
    <3>2. CASE Take(box, unread) /\ UNCHANGED lined
      <4>1. box \in Prompt /\ unread \in Seq(Row)
        BY DEF CliTypes
      <4> QED BY <1>1, <3>0, <3>2, <4>1, TakeTypes DEF CliTypes
    <3>3. \/ running /\ lined' = Append(lined, box)
             /\ UNCHANGED <<running, rowDue, submitted, screen, unread>>
          \/ Take(box, unread) /\ UNCHANGED lined
      BY <1>3, <2>1, <1>2 DEF ReadEnter
    <3> QED BY <3>1, <3>2, <3>3
  <2> QED BY <1>2, <1>3, <2>1 DEF ReadEnter
<1>4. CASE ReadText(t)
  BY <1>1, <1>4, ReadTextTypes DEF ReadText, CliTypes
<1>5. CASE ReadBack(t)
  BY <1>1, <1>5, ReadBackTypes DEF ReadBack, CliTypes
<1>6. CASE ReadDigit(t)
  BY <1>2, <1>6 DEF ReadDigit
<1>7. CASE ReadEsc(t)
  BY <1>1, <1>7, ReadEscTypes DEF ReadEsc, CliTypes
<1> QED BY <1>2, <1>3, <1>4, <1>5, <1>6, <1>7 DEF Read

LEMMA CliTypesStep ==
  ASSUME Typing, CliTypes, Next
  PROVE  CliTypes'
<1>1. CASE Read
  BY <1>1, ReadCliTypes
<1>2. CASE UNCHANGED <<win32, box, lined, running, rowDue, submitted>>
           /\ bullets' \in {bullets, FALSE} /\ unread' \in {unread, <<>>}
  <2>1. <<>> \in Seq(Row) /\ unread \in Seq(Row) /\ bullets \in BOOLEAN
    BY DEF CliTypes
  <2>2. unread' \in Seq(Row)
    BY <1>2, <2>1
  <2>3. bullets' \in BOOLEAN
    BY <1>2, <2>1
  <2> QED BY <1>2, <2>2, <2>3 DEF CliTypes
<1>3. CASE Boots
  BY <1>3, BoundsAssumption DEF Boots, CliKeeps, CliTypes
<1>4. CASE WritesRow
  <2>1. UserRow(rowDue) \in Row /\ <<>> \in Prompt
    BY RowTypes DEF CliTypes, Prompt
  <2> QED BY <1>4, <2>1 DEF WritesRow, CliKeeps, CliTypes
<1>5. CASE Replies
  <2> DEFINE rows == Append(unread, [row |-> "reply", text |-> <<>>])
  <2>0. <<>> \in Prompt
    BY DEF Prompt
  <2>1. rows \in Seq(Row)
    BY <2>0, RowTypes DEF CliTypes
  <2> HIDE DEF rows
  <2>2. UNCHANGED <<win32, box>> /\ bullets' = TRUE
    BY <1>5 DEF Replies, CliKeeps
  <2>3. CASE running' = FALSE /\ unread' = rows /\ UNCHANGED <<lined, rowDue, submitted>>
    BY <2>1, <2>2, <2>3 DEF CliTypes
  <2>4. CASE lined # <<>> /\ Take(Head(lined), rows) /\ lined' = Tail(lined)
    <3>1. Head(lined) \in Prompt /\ lined' \in Seq(Prompt)
      BY <2>4 DEF CliTypes
    <3> QED BY <2>1, <2>2, <2>4, <3>1, TakeTypes DEF CliTypes
  <2> QED BY <1>5, <2>3, <2>4 DEF Replies, rows
<1> QED
  BY <1>1, <1>2, <1>3, <1>4, <1>5
  DEF Next, Tick, Send, SendIntoDialog, SendHeld, SendPasted, StartTurn, SendFails, BeginTurn,
      Answer,
      Look, HandleHeld, HeldWaits, HeldUnchanged, ColdProbe, ColdProven, Dispatch, Submit, Watch, PutsUpDialog,
      Clears, Warms, Ages, CliKeeps, cliVars, historyVars

(* The positions of a sequence have a greatest one.                        *)
LEMMA LatestIs ==
  ASSUME NEW n \in Nat, NEW S \in SUBSET (1 .. n), S # {}
  PROVE  Latest(S) \in S
<1> DEFINE R == OpToRel(<, Nat)
           U == {u \in Nat : \A i \in S : i <= u}
<1>1. \A x, y \in Nat : <<x, y>> \in R <=> x < y
  BY DEF OpToRel
<1>2. IsWellFoundedOn(R, Nat)
  BY NatLessThanWellFounded
<1>3. U \subseteq Nat /\ n \in U
  OBVIOUS
<1> HIDE DEF R
<1>4. PICK u \in U : \A y \in U : <<y, u>> \notin R
  <2> HIDE DEF U
  <2> QED BY <1>2, <1>3, WFMin
<1>5. u \in Nat /\ \A y \in U : ~(y < u)
  BY <1>1, <1>4
<1>6. PICK s \in S : s \in 1 .. n
  OBVIOUS
<1>7. s <= u /\ u # 0
  BY <1>4, <1>6
<1>8. u - 1 \in Nat /\ u - 1 \notin U
  BY <1>5, <1>7
<1>9. PICK i \in S : ~(i <= u - 1)
  BY <1>8
<1>10. i = u
  BY <1>4, <1>5, <1>9
<1>11. \A j \in S : j <= i
  BY <1>4, <1>10
<1> QED BY <1>11 DEF Latest

LEMMA LatestTypes ==
  ASSUME unread \in Seq(Row), Users # {}
  PROVE  Latest(Users) \in Users /\ Latest(Users) \in DOMAIN unread
<1>1. Users \subseteq DOMAIN unread /\ DOMAIN unread = 1 .. Len(unread) /\ Len(unread) \in Nat
  BY DEF Users
<1> QED BY <1>1, LatestIs

LEMMA SessionTypesStep ==
  ASSUME Types, Next
  PROVE  SessionTypes'
<1>0. Typing /\ CliTypes /\ SessionTypes /\ DialogNumbered
  BY DEF Types, IInv
<1>1. NewState \in {"dead", "idle", "thinking", "dialog"} /\ (NewState = "dialog" => screen \in {"dialog", "ghost"})
  BY <1>0 DEF NewState, ScreenState, Typing
<1>2. screen \in {"dialog", "ghost"} => dialog \in 1 .. MaxDialog
  BY <1>0, BoundsAssumption DEF DialogNumbered, Typing
<1>3. CASE Send
  <2>1. cards' \subseteq 1 .. MaxDialog
    BY <1>0, <1>2, <1>3 DEF Send, SendIntoDialog, SendHeld, SendPasted, ScreenState, SessionTypes,
       Typing
  <2>2. watcher' = watcher \/ watcher' = [watcher EXCEPT !.open = FALSE, !.born = FALSE]
    BY <1>3 DEF Send, SendIntoDialog, SendHeld, SendPasted, StartTurn, SendFails, BeginTurn
  <2>3. watcher' \in [open : BOOLEAN, born : BOOLEAN, user : Prompt]
    BY <1>0, <2>2 DEF SessionTypes
  <2>4. /\ {observing', reacted', repasted', carded', answering', old', tracked'} \subseteq BOOLEAN
        /\ state' \in {"starting", "dead", "idle", "thinking", "dialog"}
        /\ at' \in {"rest", "held", "submit", "watch"}
    BY <1>0, <1>3 DEF Send, SendIntoDialog, SendHeld, SendPasted, StartTurn, SendFails, SessionTypes
  <2> QED BY <2>1, <2>3, <2>4 DEF SessionTypes
<1>4. CASE Answer
  BY <1>0, <1>4 DEF Answer, SessionTypes
<1>5. CASE Look
  <2>1. cards' \subseteq 1 .. MaxDialog /\ carded' \in BOOLEAN
    BY <1>0, <1>1, <1>2, <1>5 DEF Look, Relay, SessionTypes
  <2>2. answering' \in BOOLEAN
    BY <1>0, <1>5 DEF Look, Confirm, NoConfirm, SessionTypes
  <2>3. UNCHANGED <<observing, reacted, repasted, old, tracked, watcher>> /\ state' = NewState /\ at' = "held"
    BY <1>5 DEF Look
  <2> QED BY <1>0, <1>1, <2>1, <2>2, <2>3 DEF SessionTypes
<1>6. CASE HandleHeld
  <2>1. watcher' = watcher \/ watcher' = [watcher EXCEPT !.open = FALSE, !.born = FALSE]
    BY <1>6 DEF HandleHeld, HeldWaits, HeldUnchanged, ColdProbe, ColdProven, Dispatch, StartTurn,
                SendFails, BeginTurn
  <2>2. watcher' \in [open : BOOLEAN, born : BOOLEAN, user : Prompt]
    BY <1>0, <2>1 DEF SessionTypes
  <2>3. UNCHANGED <<repasted, carded, answering, old, tracked, cards>> /\ at' \in {"watch", "submit"}
    BY <1>6 DEF HandleHeld
  <2>4. /\ observing' \in {observing, TRUE, FALSE} /\ reacted' \in {reacted, FALSE}
        /\ state' \in {state, "thinking"}
    BY <1>6 DEF HandleHeld, HeldWaits, HeldUnchanged, ColdProbe, ColdProven, Dispatch, StartTurn,
                SendFails, Probing
  <2> QED BY <1>0, <2>2, <2>3, <2>4 DEF SessionTypes
<1>7. CASE Submit
  <2>1. watcher' = watcher \/ watcher' = [watcher EXCEPT !.user = <<>>]
    BY <1>7 DEF Submit, SubmitStarted, SubmitTruncated
  <2>2. watcher' \in [open : BOOLEAN, born : BOOLEAN, user : Prompt]
    <3>1. <<>> \in Prompt
      BY DEF Prompt
    <3>2. [watcher EXCEPT !.user = <<>>] \in [open : BOOLEAN, born : BOOLEAN, user : Prompt]
      BY <1>0, <3>1 DEF SessionTypes
    <3> QED BY <1>0, <2>1, <3>2 DEF SessionTypes
  <2>3. UNCHANGED <<observing, carded, answering, state, old, tracked, cards>> /\ at' = "watch"
    BY <1>7 DEF Submit
  <2>4. reacted' \in {reacted, FALSE} /\ repasted' \in {repasted, TRUE}
    BY <1>7 DEF Submit, SubmitStarted, SubmitTruncated, SubmitParked, SubmitWaits, SubmitProbe,
                SubmitProven, SubmitRepaste, SubmitEnter, SubmitGivesUp, NothingTyped, Probing
  <2> QED BY <1>0, <2>2, <2>3, <2>4 DEF SessionTypes
<1>8. CASE Watch
  <2> DEFINE user == IF Users = {} THEN watcher.user ELSE unread[Latest(Users)].text
             closes == observing /\ \E i \in DOMAIN unread : unread[i].row = "reply"
             open == IF unread = <<>> THEN watcher.open ELSE ~closes /\ unread[Len(unread)].row = "user"
  <2>1. watcher' = [open |-> open, born |-> watcher.born \/ (rowDue # <<>> /\ Can("fork")),
                    user |-> user]
    BY <1>8 DEF Watch
  <2>2. user \in Prompt
    <3>1. CASE Users = {}
      BY <1>0, <3>1 DEF SessionTypes
    <3>2. CASE Users # {}
      <4>1. Latest(Users) \in DOMAIN unread
        BY <3>2, LatestTypes, <1>0 DEF CliTypes
      <4>2. unread[Latest(Users)] \in Row
        BY <4>1, <1>0 DEF CliTypes
      <4> QED BY <3>2, <4>2 DEF Row
    <3> QED BY <3>1, <3>2
  <2>3. open \in BOOLEAN /\ (watcher.born \/ (rowDue # <<>> /\ Can("fork"))) \in BOOLEAN
    BY <1>0 DEF SessionTypes
  <2>4. UNCHANGED <<reacted, repasted, carded, answering, state, old, tracked, cards>> /\ at' = "rest"
        /\ observing' \in BOOLEAN
    BY <1>8 DEF Watch, historyVars
  <2> HIDE DEF user, open
  <2> QED BY <1>0, <2>1, <2>2, <2>3, <2>4 DEF SessionTypes
<1>9. CASE Read \/ Boots \/ WritesRow \/ Replies \/ PutsUpDialog \/ Clears \/ Warms \/ Ages
  <2>1. /\ UNCHANGED <<observing, repasted, carded, answering, state, watcher, at, cards>>
        /\ reacted' \in {reacted, TRUE} /\ old' \in {old, TRUE} /\ tracked' \in {tracked, win32', FALSE}
    BY <1>9 DEF Read, Boots, WritesRow, Replies, PutsUpDialog, Clears, Warms, Ages, CliKeeps,
       historyVars
  <2>2. win32' \in BOOLEAN
    BY <1>0, CliTypesStep DEF CliTypes
  <2> QED BY <1>0, <2>1, <2>2 DEF SessionTypes
<1> QED BY <1>3, <1>4, <1>5, <1>6, <1>7, <1>8, <1>9 DEF Next, Tick

LEMMA BoundedStep ==
  ASSUME Typing, Bounded, Next
  PROVE  Bounded'
<1>0. /\ held \in Text /\ sent \in Text /\ nextMsg \in Nat \ {0}
      /\ Len(held) \in Nat /\ Len(sent) \in Nat /\ Len(<<>>) = 0
  BY DEF Typing, Text
<1>1. CASE Send
  <2>1. nextMsg' = nextMsg + 1
    BY <1>1 DEF Send
  <2>2. \/ held' = Append(held, nextMsg) /\ sent' = sent
        \/ held' = held /\ sent' = <<nextMsg>>
    BY <1>1 DEF Send, SendIntoDialog, SendHeld, SendPasted, StartTurn, SendFails, BeginTurn
  <2>3. Len(Append(held, nextMsg)) = Len(held) + 1 /\ Len(<<nextMsg>>) = 1
    BY <1>0 DEF Text
  <2>4. CASE held' = Append(held, nextMsg) /\ sent' = sent
    <3>1. Len(held') = Len(held) + 1 /\ Len(sent') = Len(sent)
      BY <2>3, <2>4
    <3> QED BY <1>0, <2>1, <3>1 DEF Bounded
  <2>5. CASE held' = held /\ sent' = <<nextMsg>>
    <3>1. Len(held') = Len(held) /\ Len(sent') = 1
      BY <2>3, <2>5
    <3> QED BY <1>0, <2>1, <3>1 DEF Bounded
  <2> QED BY <2>2, <2>4, <2>5
<1>2. CASE HandleHeld
  <2>1. \/ UNCHANGED <<held, sent, nextMsg>>
        \/ held' = <<>> /\ sent' = held /\ nextMsg' = nextMsg
    BY <1>2 DEF HandleHeld, HeldWaits, HeldUnchanged, ColdProbe, ColdProven, Dispatch, StartTurn,
                SendFails, BeginTurn
  <2> QED BY <1>0, <2>1 DEF Bounded
<1>3. CASE Submit
  <2>1. UNCHANGED <<sent, nextMsg>> /\ (held' = held \/ held' = sent)
    BY <1>3 DEF Submit, SubmitStarted, SubmitTruncated
  <2> QED BY <2>1 DEF Bounded
<1>4. CASE UNCHANGED <<held, sent, nextMsg>>
  BY <1>4 DEF Bounded
<1> QED
  BY <1>1, <1>2, <1>3, <1>4
  DEF Next, Tick, Answer, Look, Watch, Read, Boots, WritesRow, Replies, PutsUpDialog, Clears,
      Warms, Ages,
      CliKeeps, historyVars

(* What became of the texts.                                               *)
LEMMA FateStep ==
  ASSUME Typing, FateTypes, Next
  PROVE  FateTypes'
<1>0. held \in Text /\ sent \in Text
  BY DEF Typing
<1>1. CASE UNCHANGED fate
  BY <1>1 DEF FateTypes
<1>2. ASSUME NEW t \in Text
      PROVE  /\ [fate EXCEPT !.refused = @ \cup {t}] \in [refused : SUBSET Text, gaveUp : SUBSET Text, lost : SUBSET Text]
             /\ [fate EXCEPT !.gaveUp = @ \cup {t}] \in [refused : SUBSET Text, gaveUp : SUBSET Text, lost : SUBSET Text]
             /\ [fate EXCEPT !.lost = @ \cup {t}] \in [refused : SUBSET Text, gaveUp : SUBSET Text, lost : SUBSET Text]
  BY DEF FateTypes
<1>3. CASE \E t \in Text : SendFails(t)
  BY <1>2, <1>3 DEF SendFails, FateTypes
<1>4. CASE SubmitGivesUp
  BY <1>0, <1>2, <1>4 DEF SubmitGivesUp, FateTypes
<1>5. CASE Read
  <2>1. UNCHANGED fate \/ fate' = [fate EXCEPT !.lost = @ \cup {sent}]
    BY <1>5 DEF Read, ReadEnter, ReadText, ReadBack, ReadDigit, ReadEsc
  <2> QED BY <1>0, <1>1, <1>2, <2>1 DEF FateTypes
<1>6. CASE Send
  <2>1. nextMsg \in Msg
    BY <1>6, BoundsAssumption DEF Send, Typing, Msg
  <2>2. <<nextMsg>> \in Text
    BY <2>1 DEF Text
  <2> QED BY <1>1, <1>3, <1>6, <2>2 DEF Send, SendIntoDialog, SendHeld, SendPasted, StartTurn
<1>7. CASE HandleHeld
  BY <1>0, <1>1, <1>3, <1>7 DEF HandleHeld, HeldWaits, HeldUnchanged, ColdProbe, ColdProven,
     Dispatch,
                                StartTurn
<1>8. CASE Submit
  BY <1>1, <1>4, <1>8 DEF Submit
<1> QED
  BY <1>1, <1>5, <1>6, <1>7, <1>8
  DEF Next, Tick, Answer, Look, Watch, Boots, WritesRow, Replies, PutsUpDialog, Clears, Warms, Ages,
      CliKeeps, historyVars

(* No row tells of a truncated paste when there is none.                   *)
LEMMA NeverTruncated ==
  ASSUME ~Can("cut"), ~Can("plain"), SessionTypes
  PROVE  ~TailTruncated(watcher.user)
<1>1. watcher.user \in Prompt
  BY DEF SessionTypes
<1>2. \A i \in DOMAIN watcher.user : ~watcher.user[i].cut
  <2>1. \A i \in DOMAIN watcher.user : watcher.user[i] \in Chunk
    BY <1>1 DEF Prompt
  <2>2. \A c \in Chunk : ~c.cut
    BY DEF Chunk
  <2> QED BY <2>1, <2>2
<1>3. SUFFICES ASSUME watcher.user = <<[text |-> sent, cut |-> TRUE]>> PROVE FALSE
  BY DEF TailTruncated
<1>4. 1 \in DOMAIN watcher.user /\ watcher.user[1].cut = TRUE
  BY <1>3
<1> QED BY <1>2, <1>4

(* The types hold in every state, whatever the CLI does.                   *)
LEMMA TypesHold == Spec => []Types
<1>1. Init => CliTypes /\ SessionTypes /\ FateTypes /\ Bounded
  <2> SUFFICES ASSUME Init PROVE CliTypes /\ SessionTypes /\ FateTypes /\ Bounded
    OBVIOUS
  <2>0. <<>> \in Prompt /\ <<>> \in Seq(Prompt) /\ <<>> \in Seq(Row)
    BY DEF Prompt
  <2>1. CliTypes
    BY <2>0 DEF Init, CliTypes
  <2>2. SessionTypes
    <3>1. [open |-> FALSE, born |-> FALSE, user |-> <<>>] \in [open : BOOLEAN, born : BOOLEAN, user : Prompt]
      BY <2>0
    <3> QED BY <3>1 DEF Init, SessionTypes
  <2>3. Bounded
    BY DEF Init, Bounded
  <2>4. FateTypes
    BY DEF Init, FateTypes
  <2> QED BY <2>1, <2>2, <2>3, <2>4
<1>2. IInv /\ IInv' /\ (CliTypes /\ SessionTypes /\ FateTypes /\ Bounded) /\ [Next]_vars
        => (CliTypes /\ SessionTypes /\ FateTypes /\ Bounded)'
  <2> SUFFICES ASSUME IInv, CliTypes, SessionTypes, FateTypes, Bounded, [Next]_vars
               PROVE  CliTypes' /\ SessionTypes' /\ FateTypes' /\ Bounded'
    OBVIOUS
  <2>1. CASE Next
    BY <2>1, CliTypesStep, SessionTypesStep, FateStep, BoundedStep DEF Types, IInv
  <2>2. CASE UNCHANGED vars
    BY <2>2 DEF vars, sessionVars, cliVars, historyVars, CliTypes, SessionTypes, FateTypes, Bounded
  <2> QED BY <2>1, <2>2
<1> QED BY <1>1, <1>2, IInvHolds, PTL DEF Spec, Types

(* A bounded text is one of the texts of the type invariant.               *)
LEMMA TextsAre ==
  ASSUME NEW t \in Text, NEW n \in 1 .. MaxMsg + 1, Len(t) < n
  PROVE  t \in Texts
<1>1. Len(t) \in 0 .. MaxMsg /\ t \in [1 .. Len(t) -> Msg]
  BY BoundsAssumption DEF Text
<1> QED BY <1>1 DEF Texts

LEMMA SeqGrows ==
  ASSUME NEW S, NEW T, S \subseteq T
  PROVE  Seq(S) \subseteq Seq(T)
<1> SUFFICES ASSUME NEW s \in Seq(S) PROVE s \in Seq(T)
  OBVIOUS
<1>1. s \in [1 .. Len(s) -> T] /\ Len(s) \in Nat
  OBVIOUS
<1> QED BY <1>1

(* Every variable keeps its type, for every CLI of the model; a text never *)
(* holds more messages than were accepted.                                 *)
THEOREM TypesOfDelivery == Spec => []TypeOK
<1>1. Types => TypeOK
  <2> SUFFICES ASSUME Types PROVE TypeOK
    OBVIOUS
  <2>1. Typing /\ CliTypes /\ SessionTypes /\ Bounded
    BY DEF Types, IInv
  <2>2. held \in Texts /\ sent \in Texts
    BY <2>1, TextsAre DEF Typing, Bounded
  <2>3. {observing, reacted, repasted, carded, answering, old, tracked, bullets, running, win32}
          \subseteq BOOLEAN
    BY <2>1 DEF CliTypes, SessionTypes
  <2>4. loop \in [armed : BOOLEAN, tried : BOOLEAN, tries : 0 .. 2, repastes : 0 .. 2,
                  proven : Dialect \cup {"none"}, probe : Dialect \cup {"none"},
                  probes : Nat, parked : BOOLEAN]
        /\ cold \in [proven : BOOLEAN, probe : Dialect \cup {"none"}]
    BY <2>1 DEF Typing, Loop
  <2>5. /\ box \in Seq(Piece) /\ rowDue \in Seq(Piece)
        /\ lined \in Seq(Seq(Piece)) /\ submitted \in Seq(Seq(Piece))
        /\ unread \in Seq([row : RowKind, text : Seq(Piece)])
        /\ watcher \in [open : BOOLEAN, born : BOOLEAN, user : Seq(Piece)]
    <3>1. Chunk \subseteq Piece
      BY DEF Chunk, Piece
    <3>2. Prompt \subseteq Seq(Piece)
      BY <3>1, SeqGrows DEF Prompt
    <3>3. Row \subseteq [row : RowKind, text : Seq(Piece)]
      BY <3>2 DEF Row
    <3>4. Seq(Prompt) \subseteq Seq(Seq(Piece)) /\ Seq(Row) \subseteq Seq([row : RowKind, text : Seq(Piece)])
      BY <3>2, <3>3, SeqGrows
    <3> QED BY <2>1, <3>2, <3>4 DEF CliTypes, SessionTypes
  <2> QED BY <2>1, <2>2, <2>3, <2>4, <2>5 DEF TypeOK, Typing, SessionTypes
<1> QED BY <1>1, TypesHold, PTL

(* A held message leaves pending_text only into the submit loop, or with   *)
(* word to the client, while no paste loses its head or its end: joined to *)
(* by cmd_send, handed on by the dispatch, and never overwritten (a        *)
(* truncated paste held again could do that).                              *)
THEOREM HeldIsKept == ~Can("cut") /\ ~Can("plain") => (Spec => HeldSurvives)
<1> SUFFICES ASSUME ~Can("cut"), ~Can("plain") PROVE Spec => HeldSurvives
  OBVIOUS
<1>1. Types /\ [Next]_vars =>
        [\A m \in Msg : InText(m, held) =>
           \/ InText(m, held')
           \/ InText(m, sent') /\ (loop'.armed \/ sent' \in fate'.refused)]_vars
  <2> SUFFICES ASSUME Types, Next, NEW m \in Msg, InText(m, held)
               PROVE  \/ InText(m, held')
                      \/ InText(m, sent') /\ (loop'.armed \/ sent' \in fate'.refused)
    BY DEF InText, vars, sessionVars
  <2>1. Typing /\ SessionTypes /\ held \in Text
    BY DEF Types, IInv, Typing
  <2>2. CASE held' = held
    BY <2>2 DEF InText
  <2>3. CASE held' = Append(held, nextMsg)
    <3>1. PICK j \in DOMAIN held : held[j] = m
      BY DEF InText
    <3>2. j \in DOMAIN held' /\ held'[j] = held[j]
      BY <2>1, <2>3 DEF Text
    <3> QED BY <3>1, <3>2 DEF InText
  <2>4. CASE StartTurn(held)
    BY <2>4 DEF StartTurn, BeginTurn, Armed, Disarmed, InText
  <2>5. CASE SendFails(held)
    <3>1. sent' = held /\ fate'.refused = fate.refused \cup {held}
      BY <2>5, FateTypes DEF SendFails, BeginTurn, Types
    <3> QED BY <3>1 DEF InText
  <2>6. ~SubmitTruncated
    BY <2>1, NeverTruncated DEF SubmitTruncated
  <2>7. held' = held \/ held' = Append(held, nextMsg) \/ StartTurn(held) \/ SendFails(held)
    BY <2>6
    DEF Next, Tick, Send, SendIntoDialog, SendHeld, SendPasted, Answer, Look, HandleHeld, HeldWaits,
        HeldUnchanged, ColdProbe, ColdProven, Dispatch, Submit, SubmitStarted, Watch, Read,
        Boots, WritesRow, Replies, PutsUpDialog, Clears, Warms, Ages, CliKeeps
  <2> QED BY <2>2, <2>3, <2>4, <2>5, <2>7
<1> QED BY <1>1, TypesHold, PTL DEF Spec, HeldSurvives

-----------------------------------------------------------------------------
(***************************************************************************)
(* What is submitted.  While the CLI reads what is typed in time, changes  *)
(* its screen only then and keeps what is pasted, and the client waits for *)
(* its message to be submitted, every message is submitted once, whole and *)
(* clean, until the submit loop gives one up; and it gives none up without *)
(* cause.  Dialogs, compactions, lost Enters, late transcripts, failing    *)
(* writes and a missed switch of the input mode may come.                  *)
(*                                                                         *)
(* The invariant says what may lie typed and in the input box in each      *)
(* phase of the submit loop.  A loop that has taken a repaint for the echo *)
(* of its probe may believe in the wrong dialect: it then pastes into the  *)
(* box again and again, no Enter of it is honoured, and the loop ends by   *)
(* giving the message up.                                                  *)
(***************************************************************************)

(* What is not asked of the environment. *)
Orderly ==
  \A habit \in {"late", "lag", "overlap", "cut", "midturn", "chained", "sudden", "ghost", "plain"} :
    ~Can(habit)

(* The text of the loop, in the input box. *)
Pasted == [text |-> sent, cut |-> FALSE]

(* The loop waits for its turn, or has it; it believes in a dialect that   *)
(* is not the CLI's; a probe is under way.                                 *)
Waiting == loop.armed /\ ~running /\ ~bullets
Taken == running \/ (loop.armed /\ bullets)
Foreign == loop.armed /\ loop.proven \notin {"none", Native}
Probed == loop.probe # "none" \/ cold.probe # "none"

Has(s, key) == \E i \in DOMAIN s : s[i].key = key

(* A character to come, and those in the box or to come. *)
Coming == IF typed # <<>> /\ typed[1].key = "char" /\ Honoured(typed[1]) THEN 1 ELSE 0
Base == IF box # <<>> /\ box[1] # Stray THEN 1 ELSE 0
Extra == Len(box) - Base + Coming

(* The probe has been answered, or the answer is to come. *)
Heard == reacted \/ (typed # <<>> /\ typed[1].key = "char" /\ Honoured(typed[1]))

-----------------------------------------------------------------------------
(* What is typed: a probe character, what erases it, one paste, its Enter; *)
(* an Enter left over from the last turn may come before the paste.        *)
NoEsc(s) == ~Has(s, "esc")
CharFirst(s) == \A i \in DOMAIN s : s[i].key = "char" => i = 1
BackNext(s) == \A i \in DOMAIN s : s[i].key = "back" => i = 1 \/ (i = 2 /\ s[1].key = "char")
EnterAfter(s) == \A i \in DOMAIN s : s[i].key = "enter" /\ i > 1 => s[i - 1].key = "paste"
EnterLast(s) ==
  \A i \in DOMAIN s : s[i].key = "enter" /\ i < Len(s) => i = 1 /\ s[2].key = "paste"
OnePaste(s) == \A i, j \in DOMAIN s : s[i].key = "paste" /\ s[j].key = "paste" => i = j

InOrder(s) == NoEsc(s) /\ CharFirst(s) /\ BackNext(s) /\ EnterAfter(s) /\ EnterLast(s) /\ OnePaste(s)

TypedFacts ==
  /\ InOrder(typed)
  /\ \A i \in DOMAIN typed : typed[i].key = "paste" => typed[i].text = sent /\ Waiting

(* Dialogs: only answers and their Enter are typed into one, and each one  *)
(* is answered while it is up.                                             *)
DialogKeys ==
  /\ screen = "dialog" => typed = <<>> \/ (Len(typed) = 1 /\ typed[1].key \in {"digit", "enter"})
  /\ screen # "dialog" => ~Has(typed, "digit")
  /\ cards \subseteq 1 .. dialog /\ keyed <= dialog
  /\ dialog \in cards /\ (screen = "dialog" \/ state = "dialog") => carded
  /\ answering => carded
  /\ screen = "dialog" /\ keyed # dialog /\ ~carded => typed = <<>>
  /\ dialog \in cards /\ keyed # dialog => screen = "dialog" /\ typed = <<>> /\ ~answering

(* The CLI: its screen tells whether a turn runs. *)
CliFacts ==
  /\ screen \in {"boot", "prompt"} => ~running
  /\ screen = "working" => running
  /\ rowDue # <<>> => running
  /\ lined = <<>>
  /\ screen # "ghost"
  /\ screen = "boot" => typed = <<>> /\ ~cold.proven /\ cold.probe = "none"

(* The submit loop and the cold-start probe. *)
LoopFacts ==
  /\ ~loop.tried => loop.tries = 0
  /\ loop.armed => held = <<>> /\ cold.proven /\ sent # <<>>
  /\ held # <<>> => ~running
  /\ loop.probe # "none" => Waiting /\ loop.proven = "none"
  /\ cold.proven => cold.probe = "none"
  /\ ~cold.proven => ~loop.armed /\ ~running /\ submitted = <<>>

(* The probes: the first dialect that is honoured is the one proven. *)
ProbeFacts ==
  /\ loop.probe = Native \/ cold.probe = Native => Heard
  /\ loop.probe = "win32" \/ cold.probe = "win32" => win32
  /\ ~cold.proven /\ screen # "dialog" => \A i \in DOMAIN typed : typed[i].key = "char"
  /\ Probed /\ screen # "dialog" => typed = <<>> \/ (Len(typed) = 1 /\ typed[1].key = "char")
  /\ ~Probed /\ Has(typed, "char") => Has(typed, "back")
  /\ cold.probe = "raw" /\ win32 => Extra = 0

(* The input box of a loop that is not astray: the text once, and the      *)
(* probe characters that are about to be erased.                           *)
BoxIs ==
  /\ \A i \in DOMAIN box : box[i] # Stray => i = 1 /\ box[1] = Pasted /\ Waiting
  /\ Probed => Extra <= loop.probes
  /\ ~Probed /\ ~Has(typed, "back") => Extra = 0
  /\ \A i \in DOMAIN typed : typed[i].key = "back" =>
       IF Honoured(typed[i]) THEN Extra <= typed[i].n ELSE Extra = 0
  /\ Has(typed, "paste") =>
       Base = 0 \/ (typed[1].key = "back" /\ Honoured(typed[1]) /\ Len(box) <= typed[1].n)
  /\ Has(typed, "paste") /\ typed[1].key = "enter" => box = <<>>

BoxFacts == ~Foreign => BoxIs

ForeignFacts ==
  Foreign => /\ Waiting
             /\ screen # "dialog" =>
                  \A i \in DOMAIN typed : typed[i].key = "enter" => ~Honoured(typed[i])

(* A turn that was taken up is that of the loop's text. *)
TurnFacts ==
  /\ Taken => \A i \in DOMAIN typed : typed[i].key \in {"enter", "digit"}
  /\ Taken /\ loop.armed => submitted # <<>> /\ submitted[Len(submitted)] = <<Pasted>>
  /\ Waiting => unread = <<>> /\ ~watcher.open /\ ~watcher.born
  /\ \A i \in DOMAIN submitted : Len(submitted[i]) = 1 /\ submitted[i][1].text # <<>>

Done(m) == \E i \in DOMAIN submitted : InText(m, submitted[i][1].text)

(* Each message is in one place. *)
MsgFacts ==
  /\ \A m \in Msg : Done(m) => m < nextMsg
  /\ \A m \in Msg : InText(m, held) => m < nextMsg /\ ~Done(m)
  /\ Waiting => \A m \in Msg : InText(m, sent) => m < nextMsg /\ ~Done(m)
  /\ \A i, j \in DOMAIN submitted : \A m \in Msg :
       InText(m, submitted[i][1].text) /\ InText(m, submitted[j][1].text) => i = j
  /\ \A m \in 1 .. nextMsg - 1 :
       InText(m, held) \/ (loop.armed /\ InText(m, sent)) \/ Done(m) \/ Refused(m)

Once ==
  /\ TypedFacts /\ DialogKeys /\ CliFacts /\ LoopFacts /\ ProbeFacts
  /\ BoxFacts /\ ForeignFacts /\ TurnFacts /\ MsgFacts

(* A loop that has pasted again in the dialect of the CLI has lost an      *)
(* Enter, or its Enter is to come and finds the text in the box.           *)
EnterToCome ==
  /\ screen # "dialog"
  /\ \E i \in DOMAIN typed :
       /\ typed[i].key = "enter" /\ Honoured(typed[i])
       /\ IF i = 1 THEN box # <<>> ELSE typed[i - 1].key = "paste" /\ Honoured(typed[i - 1])

EnterLost ==
  /\ loop.repastes # 0 => loop.proven # "none"
  /\ Waiting /\ loop.repastes # 0 /\ loop.proven = Native => sent \in fate.lost \/ EnterToCome

-----------------------------------------------------------------------------
(* Sequences of inputs.                                                    *)
LEMMA KeyIs ==
  ASSUME NEW k \in {"char", "enter", "esc", "digit"}, NEW via \in Dialect
  PROVE  /\ Key(k, via) \in Input /\ Key(k, via).key = k /\ Key(k, via).via = via
         /\ Key(k, via).aim = 0
<1>1. Key(k, via) \in Input
  BY KeyTypes
<1> QED BY <1>1 DEF Key

LEMMA BackIs ==
  ASSUME NEW n \in Nat, NEW via \in Dialect
  PROVE  /\ Backspaces(n, via) \in Input /\ Backspaces(n, via).key = "back"
         /\ Backspaces(n, via).via = via /\ Backspaces(n, via).n = n
<1>1. Backspaces(n, via) \in Input
  BY BackTypes
<1> QED BY <1>1 DEF Backspaces, Key

LEMMA PasteIs ==
  ASSUME NEW t \in Text, NEW via \in Dialect \cup {"any"}
  PROVE  /\ Paste(t, via) \in Input /\ Paste(t, via).key = "paste"
         /\ Paste(t, via).via = via /\ Paste(t, via).text = t
<1>1. Paste(t, via) \in Input
  BY PasteTypes
<1> QED BY <1>1 DEF Paste, Key

LEMMA TailIs ==
  ASSUME NEW s \in Seq(Input), s # <<>>
  PROVE  /\ Len(s) \in Nat \ {0} /\ Len(Tail(s)) = Len(s) - 1 /\ DOMAIN s = 1 .. Len(s)
         /\ DOMAIN Tail(s) = 1 .. Len(s) - 1
         /\ \A i \in DOMAIN Tail(s) : i \in Nat \ {0} /\ i + 1 \in DOMAIN s /\ Tail(s)[i] = s[i + 1]
         /\ Len(s) = 1 => Tail(s) = <<>>
<1>1. Len(s) \in Nat \ {0} /\ DOMAIN s = 1 .. Len(s)
  OBVIOUS
<1>2. Len(Tail(s)) = Len(s) - 1 /\ Tail(s) \in Seq(Input)
  OBVIOUS
<1>3. DOMAIN Tail(s) = 1 .. Len(s) - 1
  BY <1>1, <1>2
<1>4. \A i \in 1 .. Len(s) - 1 : Tail(s)[i] = s[i + 1]
  BY <1>1
<1>5. Len(s) = 1 => Tail(s) = <<>>
  <2>1. Tail(s) # <<>> => Len(Tail(s)) \in Nat \ {0}
    BY <1>2, EmptySeq
  <2> QED BY <1>2, <2>1
<1> QED BY <1>1, <1>2, <1>3, <1>4, <1>5

LEMMA AppendIs ==
  ASSUME NEW s \in Seq(Input), NEW k \in Input
  PROVE  /\ Len(s) \in Nat /\ DOMAIN s = 1 .. Len(s)
         /\ Len(Append(s, k)) = Len(s) + 1 /\ DOMAIN Append(s, k) = 1 .. Len(s) + 1
         /\ \A i \in DOMAIN s : Append(s, k)[i] = s[i]
         /\ Append(s, k)[Len(s) + 1] = k
         /\ s = <<>> => Append(s, k) = <<k>>
<1>1. Len(s) \in Nat /\ DOMAIN s = 1 .. Len(s)
  OBVIOUS
<1>2. Len(Append(s, k)) = Len(s) + 1 /\ Append(s, k) \in Seq(Input)
  OBVIOUS
<1>3. DOMAIN Append(s, k) = 1 .. Len(s) + 1
  BY <1>1, <1>2
<1>4. \A i \in 1 .. Len(s) : Append(s, k)[i] = s[i]
  BY <1>1
<1>5. Append(s, k)[Len(s) + 1] = k
  BY <1>1
<1>6. ASSUME s = <<>> PROVE Append(s, k) = <<k>>
  BY <1>6
<1> QED BY <1>1, <1>2, <1>3, <1>4, <1>5, <1>6

(* Read takes the first key off, and the rest is in order.                 *)
LEMMA OrderTail ==
  ASSUME NEW s \in Seq(Input), s # <<>>, InOrder(s)
  PROVE  /\ InOrder(Tail(s))
         /\ ~Has(Tail(s), "char")
         /\ \A i \in DOMAIN Tail(s) : Tail(s)[i].key = "back" => s[1].key = "char" /\ i = 1
         /\ s[1].key = "enter" => Tail(s) = <<>> \/ Tail(s)[1].key = "paste"
         /\ s[1].key = "paste" => ~Has(Tail(s), "paste")
         /\ s[1].key # "paste" /\ Tail(s) # <<>> => Tail(s)[1].key # "enter"
<1> DEFINE t == Tail(s)
<1>1. /\ Len(s) \in Nat \ {0} /\ Len(t) = Len(s) - 1 /\ DOMAIN s = 1 .. Len(s)
      /\ DOMAIN t = 1 .. Len(s) - 1
      /\ \A i \in DOMAIN t : i \in Nat \ {0} /\ i + 1 \in DOMAIN s /\ t[i] = s[i + 1]
      /\ Len(s) = 1 => t = <<>>
  BY TailIs
<1> HIDE DEF t
<1>2. NoEsc(t)
  BY <1>1 DEF InOrder, NoEsc, Has
<1>3. ~Has(t, "char") /\ CharFirst(t)
  BY <1>1 DEF InOrder, CharFirst, Has
<1>4. \A i \in DOMAIN t : t[i].key = "back" => s[1].key = "char" /\ i = 1
  BY <1>1 DEF InOrder, BackNext
<1>5. EnterAfter(t)
  <2> SUFFICES ASSUME NEW i \in DOMAIN t, t[i].key = "enter", i > 1
               PROVE  t[i - 1].key = "paste"
    BY DEF EnterAfter
  <2>1. i + 1 \in DOMAIN s /\ s[i + 1].key = "enter" /\ i + 1 > 1 /\ (i + 1) - 1 = i
    BY <1>1
  <2>2. s[i].key = "paste"
    BY <2>1 DEF InOrder, EnterAfter
  <2>3. i - 1 \in DOMAIN t /\ t[i - 1] = s[i]
    BY <1>1
  <2> QED BY <2>2, <2>3
<1>6. EnterLast(t)
  <2> SUFFICES ASSUME NEW i \in DOMAIN t, t[i].key = "enter", i < Len(t)
               PROVE  FALSE
    BY DEF EnterLast
  <2>1. i + 1 \in DOMAIN s /\ s[i + 1].key = "enter" /\ i + 1 < Len(s) /\ i + 1 # 1
    BY <1>1
  <2> QED BY <2>1 DEF InOrder, EnterLast
<1>7. OnePaste(t)
  <2> SUFFICES ASSUME NEW i \in DOMAIN t, NEW j \in DOMAIN t, t[i].key = "paste", t[j].key = "paste"
               PROVE  i = j
    BY DEF OnePaste
  <2>1. i + 1 \in DOMAIN s /\ j + 1 \in DOMAIN s /\ s[i + 1].key = "paste" /\ s[j + 1].key = "paste"
    BY <1>1
  <2>2. i + 1 = j + 1
    BY <2>1 DEF InOrder, OnePaste
  <2> QED BY <1>1, <2>2
<1>8. InOrder(t)
  BY <1>2, <1>3, <1>4, <1>5, <1>6, <1>7 DEF InOrder, BackNext
<1>9. s[1].key = "enter" => t = <<>> \/ t[1].key = "paste"
  <2>1. CASE Len(s) = 1
    BY <1>1, <2>1
  <2>2. CASE Len(s) > 1
    <3>1. 1 \in DOMAIN s /\ 1 < Len(s) /\ 1 \in DOMAIN t /\ t[1] = s[2]
      BY <1>1, <2>2
    <3> QED BY <3>1 DEF InOrder, EnterLast
  <2> QED BY <1>1, <2>1, <2>2
<1>10. s[1].key = "paste" => ~Has(t, "paste")
  <2> SUFFICES ASSUME s[1].key = "paste", NEW i \in DOMAIN t, t[i].key = "paste"
               PROVE  FALSE
    BY DEF Has
  <2>1. i + 1 \in DOMAIN s /\ s[i + 1].key = "paste" /\ 1 \in DOMAIN s /\ i + 1 # 1
    BY <1>1
  <2> QED BY <2>1 DEF InOrder, OnePaste
<1>11. s[1].key # "paste" /\ t # <<>> => t[1].key # "enter"
  <2> SUFFICES ASSUME s[1].key # "paste", t # <<>>, t[1].key = "enter"
               PROVE  FALSE
    OBVIOUS
  <2>1. Len(s) # 1
    BY <1>1
  <2>2. 2 \in DOMAIN s /\ s[2].key = "enter" /\ 2 > 1 /\ 2 - 1 = 1
    BY <1>1, <2>1
  <2>3. s[2 - 1].key = "paste"
    BY <2>2 DEF InOrder, EnterAfter
  <2> QED BY <2>2, <2>3
<1> QED BY <1>3, <1>4, <1>8, <1>9, <1>10, <1>11 DEF t

LEMMA OrderOne ==
  ASSUME NEW k \in Input, k.key # "esc"
  PROVE  InOrder(<<k>>)
BY DEF InOrder, NoEsc, CharFirst, BackNext, EnterAfter, EnterLast, OnePaste, Has

LEMMA OrderBack ==
  ASSUME NEW s \in Seq(Input), NEW b \in Input, b.key = "back",
         s = <<>> \/ (Len(s) = 1 /\ s[1].key = "char")
  PROVE  InOrder(Append(s, b))
<1>1. CASE s = <<>>
  BY <1>1, OrderOne, AppendIs
<1>2. CASE Len(s) = 1 /\ s[1].key = "char"
  <2> DEFINE a == Append(s, b)
  <2>1. Len(a) = 2 /\ DOMAIN a = 1 .. 2 /\ a[1].key = "char" /\ a[2].key = "back"
    <3>1. Len(s) = 1 /\ 1 \in DOMAIN s
      BY <1>2
    <3> QED BY <1>2, <3>1, AppendIs
  <2> HIDE DEF a
  <2>2. InOrder(a)
    BY <2>1 DEF InOrder, NoEsc, CharFirst, BackNext, EnterAfter, EnterLast, OnePaste, Has
  <2> QED BY <2>2 DEF a
<1> QED BY <1>1, <1>2

(* An Enter in order, without a paste, is all that is typed.               *)
LEMMA EnterAlone ==
  ASSUME NEW s \in Seq(Input), InOrder(s), ~Has(s, "paste"), NEW i \in DOMAIN s, s[i].key = "enter"
  PROVE  i = 1 /\ Len(s) = 1
<1>1. Len(s) \in Nat /\ DOMAIN s = 1 .. Len(s) /\ i \in Nat \ {0} /\ i <= Len(s)
  OBVIOUS
<1>2. ~(i > 1)
  <2> SUFFICES ASSUME i > 1 PROVE FALSE
    OBVIOUS
  <2>1. i - 1 \in DOMAIN s
    BY <1>1
  <2>2. s[i - 1].key = "paste"
    BY DEF InOrder, EnterAfter
  <2> QED BY <2>1, <2>2 DEF Has
<1>3. ~(i < Len(s))
  <2> SUFFICES ASSUME i < Len(s) PROVE FALSE
    OBVIOUS
  <2>1. 2 \in DOMAIN s
    BY <1>1
  <2>2. s[2].key = "paste"
    BY DEF InOrder, EnterLast
  <2> QED BY <2>1, <2>2 DEF Has
<1> QED BY <1>1, <1>2, <1>3

(* A new paste goes behind what is typed when no paste is.                 *)
LEMMA OrderPaste ==
  ASSUME NEW s \in Seq(Input), NEW p \in Input, InOrder(s), ~Has(s, "paste"), p.key = "paste"
  PROVE  InOrder(Append(s, p))
<1> DEFINE a == Append(s, p)
<1>1. /\ Len(s) \in Nat /\ DOMAIN s = 1 .. Len(s)
      /\ Len(a) = Len(s) + 1 /\ DOMAIN a = 1 .. Len(s) + 1
      /\ \A i \in DOMAIN s : a[i] = s[i]
      /\ a[Len(s) + 1] = p
  BY AppendIs
<1> HIDE DEF a
<1>2. \A i \in DOMAIN a : i \in DOMAIN s \/ i = Len(s) + 1
  BY <1>1
<1>3. NoEsc(a)
  BY <1>1, <1>2 DEF InOrder, NoEsc, Has
<1>4. CharFirst(a)
  BY <1>1, <1>2 DEF InOrder, CharFirst
<1>5. BackNext(a)
  <2> SUFFICES ASSUME NEW i \in DOMAIN a, a[i].key = "back"
               PROVE  i = 1 \/ (i = 2 /\ a[1].key = "char")
    BY DEF BackNext
  <2>1. i \in DOMAIN s /\ s[i].key = "back"
    BY <1>1, <1>2
  <2>2. i = 1 \/ (i = 2 /\ s[1].key = "char")
    BY <2>1 DEF InOrder, BackNext
  <2> QED BY <1>1, <2>1, <2>2
<1>6. EnterAfter(a) /\ EnterLast(a)
  <2>1. \A i \in DOMAIN a : a[i].key = "enter" => i = 1 /\ Len(a) = 2 /\ a[2].key = "paste"
    <3> SUFFICES ASSUME NEW i \in DOMAIN a, a[i].key = "enter"
                 PROVE  i = 1 /\ Len(a) = 2 /\ a[2].key = "paste"
      OBVIOUS
    <3>1. i \in DOMAIN s /\ s[i].key = "enter"
      BY <1>1, <1>2
    <3>2. i = 1 /\ Len(s) = 1
      BY <3>1, EnterAlone
    <3> QED BY <1>1, <3>2
  <2> QED BY <2>1 DEF EnterAfter, EnterLast
<1>7. OnePaste(a)
  BY <1>1, <1>2 DEF OnePaste, Has
<1> QED BY <1>3, <1>4, <1>5, <1>6, <1>7 DEF InOrder, a

(* Its Enter goes behind the paste.                                        *)
LEMMA OrderEnter ==
  ASSUME NEW s \in Seq(Input), NEW e \in Input, InOrder(s), s # <<>>,
         s[Len(s)].key = "paste", e.key = "enter"
  PROVE  InOrder(Append(s, e))
<1> DEFINE a == Append(s, e)
<1>1. /\ Len(s) \in Nat \ {0} /\ DOMAIN s = 1 .. Len(s)
      /\ Len(a) = Len(s) + 1 /\ DOMAIN a = 1 .. Len(s) + 1
      /\ \A i \in DOMAIN s : a[i] = s[i]
      /\ a[Len(s) + 1] = e
  BY AppendIs
<1> HIDE DEF a
<1>2. \A i \in DOMAIN a : i \in DOMAIN s \/ i = Len(s) + 1
  BY <1>1
<1>3. NoEsc(a)
  BY <1>1, <1>2 DEF InOrder, NoEsc, Has
<1>4. CharFirst(a)
  BY <1>1, <1>2 DEF InOrder, CharFirst
<1>5. BackNext(a)
  <2> SUFFICES ASSUME NEW i \in DOMAIN a, a[i].key = "back"
               PROVE  i = 1 \/ (i = 2 /\ a[1].key = "char")
    BY DEF BackNext
  <2>1. i \in DOMAIN s /\ s[i].key = "back"
    BY <1>1, <1>2
  <2>2. i = 1 \/ (i = 2 /\ s[1].key = "char")
    BY <2>1 DEF InOrder, BackNext
  <2> QED BY <1>1, <2>1, <2>2
<1>6. EnterAfter(a)
  <2> SUFFICES ASSUME NEW i \in DOMAIN a, a[i].key = "enter", i > 1
               PROVE  a[i - 1].key = "paste"
    BY DEF EnterAfter
  <2>1. CASE i = Len(s) + 1
    <3>1. i - 1 = Len(s) /\ Len(s) \in DOMAIN s
      BY <1>1, <2>1
    <3> QED BY <1>1, <3>1
  <2>2. CASE i \in DOMAIN s
    <3>1. s[i].key = "enter" /\ i - 1 \in DOMAIN s
      BY <1>1, <2>2
    <3>2. s[i - 1].key = "paste"
      BY <2>2, <3>1 DEF InOrder, EnterAfter
    <3> QED BY <1>1, <3>1, <3>2
  <2> QED BY <1>2, <2>1, <2>2
<1>7. EnterLast(a)
  <2> SUFFICES ASSUME NEW i \in DOMAIN a, a[i].key = "enter", i < Len(a)
               PROVE  i = 1 /\ a[2].key = "paste"
    BY DEF EnterLast
  <2>1. i \in DOMAIN s /\ s[i].key = "enter"
    BY <1>1, <1>2
  <2>2. i < Len(s)
    BY <1>1, <2>1
  <2>3. i = 1 /\ s[2].key = "paste" /\ 2 \in DOMAIN s
    BY <1>1, <2>1, <2>2 DEF InOrder, EnterLast
  <2> QED BY <1>1, <2>3
<1>8. OnePaste(a)
  <2>1. \A i \in DOMAIN a : a[i].key = "paste" => i \in DOMAIN s /\ s[i].key = "paste"
    BY <1>1, <1>2
  <2> QED BY <2>1 DEF OnePaste, InOrder
<1> QED BY <1>3, <1>4, <1>5, <1>6, <1>7, <1>8 DEF InOrder, a

LEMMA OrderRepaste ==
  ASSUME NEW b \in Input, NEW p \in Input, NEW e \in Input,
         b.key = "back", p.key = "paste", e.key = "enter"
  PROVE  InOrder(<<b, p, e>>)
<1>1. /\ NoEsc(<<b, p, e>>) /\ CharFirst(<<b, p, e>>) /\ BackNext(<<b, p, e>>)
      /\ OnePaste(<<b, p, e>>)
  BY DEF NoEsc, CharFirst, BackNext, OnePaste, Has
<1>2. EnterAfter(<<b, p, e>>) /\ EnterLast(<<b, p, e>>)
  BY DEF EnterAfter, EnterLast
<1> QED BY <1>1, <1>2 DEF InOrder
-----------------------------------------------------------------------------
(* What a step leaves alone keeps its part of the invariant.               *)
LEMMA OrderlyIs ==
  ASSUME Orderly
  PROVE  /\ ~Can("late") /\ ~Can("lag") /\ ~Can("overlap") /\ ~Can("cut") /\ ~Can("midturn")
         /\ ~Can("chained") /\ ~Can("sudden") /\ ~Can("ghost") /\ ~Can("plain")
         /\ Quick <=> typed = <<>>
BY DEF Orderly, Quick

LEMMA KeepTyped ==
  ASSUME TypedFacts, UNCHANGED <<typed, sent>>, Waiting => Waiting'
  PROVE  TypedFacts'
BY DEF TypedFacts, InOrder, NoEsc, CharFirst, BackNext, EnterAfter, EnterLast, OnePaste, Has

LEMMA KeepDialog ==
  ASSUME DialogKeys,
         UNCHANGED <<screen, typed, cards, dialog, keyed, state, carded, answering>>
  PROVE  DialogKeys'
BY DEF DialogKeys, Has

LEMMA KeepCli ==
  ASSUME CliFacts, UNCHANGED <<screen, running, rowDue, lined, typed, cold>>
  PROVE  CliFacts'
BY DEF CliFacts

LEMMA KeepLoop ==
  ASSUME LoopFacts, UNCHANGED <<loop, held, cold, sent, running, bullets, submitted>>
  PROVE  LoopFacts'
BY DEF LoopFacts, Waiting

LEMMA KeepProbes ==
  ASSUME ProbeFacts, UNCHANGED <<loop, cold, win32, typed, box, screen>>, reacted => reacted'
  PROVE  ProbeFacts'
BY DEF ProbeFacts, Native, Heard, Honoured, Probed, Has, Extra, Base, Coming, Stray

LEMMA KeepBoxIs ==
  ASSUME BoxIs, UNCHANGED <<box, typed, sent, win32>>, loop'.probes = loop.probes,
         loop'.probe = loop.probe, cold'.probe = cold.probe, Waiting => Waiting'
  PROVE  BoxIs'
<1>1. Native' = Native /\ Pasted' = Pasted
  BY DEF Native, Pasted
<1>2. Base' = Base /\ Coming' = Coming
  BY <1>1 DEF Base, Coming, Honoured, Stray
<1>3. Extra' = Extra
  BY <1>2 DEF Extra
<1>4. Probed' <=> Probed
  BY DEF Probed
<1>5. \A i \in DOMAIN box' : box'[i] # Stray => i = 1 /\ box'[1] = Pasted' /\ Waiting'
  BY <1>1 DEF BoxIs
<1>6. (Probed' => Extra' <= loop'.probes) /\ (~Probed' /\ ~Has(typed', "back") => Extra' = 0)
  BY <1>3, <1>4 DEF BoxIs, Has
<1>7. \A i \in DOMAIN typed' : typed'[i].key = "back" =>
        IF Honoured(typed[i]) THEN Extra' <= typed'[i].n ELSE Extra' = 0
  BY <1>3 DEF BoxIs
<1>8. \A t : Honoured(t)' <=> Honoured(t)
  BY <1>1 DEF Honoured
<1>9. Has(typed', "paste") =>
        Base' = 0 \/ (typed'[1].key = "back" /\ Honoured(typed[1]) /\ Len(box') <= typed'[1].n)
  BY <1>2 DEF BoxIs, Has
<1>10. Has(typed', "paste") /\ typed'[1].key = "enter" => box' = <<>>
  BY DEF BoxIs, Has
<1> QED BY <1>1, <1>5, <1>6, <1>7, <1>9, <1>10 DEF BoxIs, Has, Honoured, Stray

LEMMA KeepBox ==
  ASSUME BoxFacts, UNCHANGED <<box, typed, sent, win32, loop, cold>>, Waiting => Waiting'
  PROVE  BoxFacts'
BY KeepBoxIs DEF BoxFacts, Foreign, Native

LEMMA KeepForeign ==
  ASSUME ForeignFacts, UNCHANGED <<loop, win32, typed, screen>>, Waiting => Waiting'
  PROVE  ForeignFacts'
BY DEF ForeignFacts, Foreign, Native, Honoured

LEMMA KeepTurn ==
  ASSUME TurnFacts,
         UNCHANGED <<loop, running, bullets, typed, submitted, sent, unread, watcher>>
  PROVE  TurnFacts'
BY DEF TurnFacts, Taken, Waiting, Pasted

LEMMA KeepMsgs ==
  ASSUME MsgFacts, UNCHANGED <<submitted, held, sent, nextMsg, loop>>, Waiting' => Waiting,
         fate.refused \subseteq fate'.refused
  PROVE  MsgFacts'
BY DEF MsgFacts, Done, InText, Refused

LEMMA OnceSame ==
  ASSUME Once,
         UNCHANGED <<typed, sent, loop, running, bullets, screen, cards, dialog, keyed, state,
                     carded, answering, rowDue, lined, cold, held, submitted, win32, box, unread,
                     watcher, nextMsg, fate>>,
         reacted => reacted'
  PROVE  Once'
<1>1. Waiting' <=> Waiting
  BY DEF Waiting
<1> QED
  BY <1>1, KeepTyped, KeepDialog, KeepCli, KeepLoop, KeepProbes, KeepBox, KeepForeign, KeepTurn,
     KeepMsgs DEF Once

-----------------------------------------------------------------------------
(* What the CLI does by itself.                                            *)
LEMMA OnceWritesRow ==
  ASSUME Once, WritesRow
  PROVE  Once'
<1>1. UNCHANGED <<typed, sent, loop, running, bullets, screen, cards, dialog, keyed, state,
                  carded, answering, lined, cold, held, submitted, win32, box,
                  watcher, nextMsg, fate, reacted>> /\ running /\ rowDue' = <<>>
  BY DEF WritesRow, CliKeeps
<1>2. ~Waiting /\ ~Waiting'
  BY <1>1 DEF Waiting
<1>3. CliFacts'
  BY <1>1 DEF Once, CliFacts
<1>4. TurnFacts'
  BY <1>1, <1>2 DEF Once, TurnFacts, Taken, Pasted
<1> QED
  BY <1>1, <1>2, <1>3, <1>4, KeepTyped, KeepDialog, KeepLoop, KeepProbes, KeepBox, KeepForeign,
     KeepMsgs DEF Once

LEMMA OnceWatch ==
  ASSUME Once, Watch
  PROVE  Once'
<1>1. UNCHANGED <<typed, sent, loop, running, bullets, screen, cards, dialog, keyed, state,
                  carded, answering, rowDue, lined, cold, held, submitted, win32, box, nextMsg, fate,
                  reacted>>
  BY DEF Watch, historyVars
<1>2. Waiting' <=> Waiting
  BY <1>1 DEF Waiting
<1>3. Waiting => unread' = <<>> /\ ~watcher'.open /\ ~watcher'.born
  <2> SUFFICES ASSUME Waiting PROVE unread' = <<>> /\ ~watcher'.open /\ ~watcher'.born
    OBVIOUS
  <2>1. unread = <<>> /\ ~watcher.open /\ ~watcher.born /\ rowDue = <<>>
    BY DEF Once, TurnFacts, CliFacts, Waiting
  <2> QED BY <2>1 DEF Watch
<1>4. TurnFacts'
  BY <1>1, <1>2, <1>3 DEF Once, TurnFacts, Taken, Pasted
<1> QED
  BY <1>1, <1>2, <1>4, KeepTyped, KeepDialog, KeepCli, KeepLoop, KeepProbes, KeepBox, KeepForeign,
     KeepMsgs DEF Once

LEMMA OnceBoots ==
  ASSUME Once, Boots
  PROVE  Once'
<1>1. UNCHANGED <<typed, sent, loop, running, bullets, cards, dialog, keyed, state,
                  carded, answering, rowDue, lined, cold, held, submitted, box, unread,
                  watcher, nextMsg, fate>>
      /\ screen = "boot" /\ screen' = "prompt"
  BY DEF Boots, CliKeeps
<1>2. (Waiting' <=> Waiting) /\ typed = <<>> /\ ~cold.proven /\ cold.probe = "none" /\ ~loop.armed
  BY <1>1 DEF Once, Waiting, CliFacts, LoopFacts
<1>3. loop.probe = "none" /\ ~Foreign /\ ~Foreign' /\ ~Probed /\ ~Probed'
  BY <1>1, <1>2 DEF Once, LoopFacts, Waiting, Foreign, Probed
<1>4. Extra' = Extra
  BY <1>1, <1>2 DEF Extra, Base, Coming, Stray
<1>5. DialogKeys' /\ CliFacts'
  BY <1>1, <1>2 DEF Once, DialogKeys, CliFacts, Has
<1>6. ProbeFacts'
  BY <1>1, <1>2, <1>3 DEF ProbeFacts, Native, Dialect, Has
<1>7. BoxIs'
  <2>1. BoxIs /\ typed' = <<>> /\ \A key : ~Has(typed, key) /\ ~Has(typed', key)
    BY <1>1, <1>2, <1>3 DEF Once, BoxFacts, Has
  <2>2. Extra = 0
    BY <1>3, <2>1 DEF BoxIs
  <2>3. \A i \in DOMAIN box' : box'[i] # Stray => i = 1 /\ box'[1] = Pasted' /\ Waiting'
    BY <1>1, <1>2, <2>1 DEF BoxIs, Pasted
  <2> QED BY <1>3, <1>4, <2>1, <2>2, <2>3 DEF BoxIs, Stray
<1>8. BoxFacts' /\ ForeignFacts'
  BY <1>3, <1>7 DEF BoxFacts, ForeignFacts
<1> QED
  BY <1>1, <1>2, <1>5, <1>6, <1>8, KeepTyped, KeepLoop, KeepTurn, KeepMsgs DEF Once

LEMMA OncePutsUpDialog ==
  ASSUME Orderly, Types, Once, PutsUpDialog
  PROVE  Once'
<1>1. /\ UNCHANGED <<typed, sent, loop, running, bullets, cards, keyed, state,
                     carded, answering, rowDue, lined, cold, held, submitted, win32, box, unread,
                     watcher, nextMsg, fate>>
      /\ reacted' = TRUE /\ state # "dialog" /\ typed = <<>>
      /\ screen \in {"prompt", "working"} /\ screen' = "dialog" /\ dialog' = dialog + 1
  BY OrderlyIs DEF PutsUpDialog, CliKeeps
<1>2. Waiting' <=> Waiting
  BY <1>1 DEF Waiting
<1>3. dialog \in Nat /\ keyed \in Nat
  BY DEF Types, IInv, Typing
<1>4. DialogKeys'
  <2>1. cards \subseteq 1 .. dialog /\ keyed <= dialog /\ dialog' \notin cards
    BY <1>1, <1>3 DEF Once, DialogKeys
  <2>2. cards' \subseteq 1 .. dialog' /\ keyed' <= dialog'
    BY <1>1, <1>3, <2>1
  <2> QED BY <1>1, <2>1, <2>2 DEF Once, DialogKeys, Has
<1>5. CliFacts'
  BY <1>1 DEF Once, CliFacts
<1>6. ProbeFacts'
  BY <1>1
  DEF Once, ProbeFacts, Native, Heard, Honoured, Probed, Has, Extra, Base, Coming, Stray
<1>7. ForeignFacts'
  BY <1>1, <1>2 DEF Once, ForeignFacts, Foreign, Native
<1> QED
  BY <1>1, <1>2, <1>4, <1>5, <1>6, <1>7, KeepTyped, KeepLoop, KeepBox, KeepTurn, KeepMsgs DEF Once

LEMMA OnceWarms ==
  ASSUME Once, Warms
  PROVE  Once'
<1>1. /\ UNCHANGED <<typed, sent, loop, running, bullets, cards, dialog, keyed, state,
                     carded, answering, rowDue, lined, cold, held, submitted, win32, box, unread,
                     watcher, nextMsg, fate>>
      /\ reacted' = TRUE /\ ~running
      /\ {screen, screen'} = {"prompt", "spinner"}
  BY DEF Warms, CliKeeps
<1>2. Waiting' <=> Waiting
  BY <1>1 DEF Waiting
<1>3. screen \in {"prompt", "spinner"} /\ screen' \in {"prompt", "spinner"}
  BY <1>1
<1>4. DialogKeys' /\ CliFacts'
  BY <1>1, <1>3 DEF Once, DialogKeys, CliFacts, Has
<1>5. ProbeFacts'
  BY <1>1, <1>3
  DEF Once, ProbeFacts, Native, Heard, Honoured, Probed, Has, Extra, Base, Coming, Stray
<1>6. ForeignFacts'
  BY <1>1, <1>2, <1>3 DEF Once, ForeignFacts, Foreign, Native, Honoured
<1> QED
  BY <1>1, <1>2, <1>4, <1>5, <1>6, KeepTyped, KeepLoop, KeepBox, KeepTurn, KeepMsgs DEF Once

LEMMA OnceReplies ==
  ASSUME Once, Replies
  PROVE  Once'
<1>1. /\ UNCHANGED <<typed, sent, loop, cards, dialog, keyed, state,
                     carded, answering, rowDue, lined, cold, held, submitted, win32, box,
                     watcher, nextMsg, fate>>
      /\ reacted' = TRUE /\ running /\ running' = FALSE /\ bullets' = TRUE
      /\ screen # "dialog" /\ screen' = "prompt" /\ rowDue = <<>>
  BY DEF Once, CliFacts, Replies, CliKeeps
<1>2. ~Waiting /\ ~Waiting' /\ Taken
  BY <1>1 DEF Waiting, Taken
<1>3. ~Foreign /\ ~Foreign'
  BY <1>1, <1>2 DEF Once, ForeignFacts, Foreign, Native
<1>4. DialogKeys'
  BY <1>1 DEF Once, DialogKeys, Has
<1>5. CliFacts'
  BY <1>1 DEF Once, CliFacts, LoopFacts
<1>6. LoopFacts'
  BY <1>1, <1>2 DEF Once, LoopFacts
<1>7. ProbeFacts'
  BY <1>1
  DEF Once, ProbeFacts, Native, Heard, Honoured, Probed, Has, Extra, Base, Coming, Stray
<1>8. TurnFacts'
  BY <1>1, <1>2 DEF Once, TurnFacts, Taken, Pasted
<1>9. ForeignFacts'
  BY <1>3 DEF ForeignFacts
<1> QED
  BY <1>1, <1>2, <1>4, <1>5, <1>6, <1>7, <1>8, <1>9, KeepTyped, KeepBox, KeepMsgs DEF Once

-----------------------------------------------------------------------------
(* A tick looks at the screen; an answer is typed.                         *)
LEMMA DialogIs ==
  ASSUME Types
  PROVE  /\ screen # "ghost" => (NewState = "dialog" <=> screen = "dialog")
         /\ screen # "ghost" => (ScreenState = "dialog" <=> screen = "dialog")
         /\ screen = "dialog" => dialog \in 1 .. dialog
         /\ dialog \in Nat /\ keyed \in Nat /\ typed \in Seq(Input)
         /\ Native \in Dialect /\ Tracked \in Dialect
         /\ DOMAIN typed = 1 .. Len(typed) /\ Len(typed) \in Nat
<1>1. /\ screen \in {"boot", "prompt", "spinner", "working", "dialog", "ghost"}
      /\ typed \in Seq(Input) /\ dialog \in Nat /\ keyed \in Nat /\ DialogNumbered
  BY DEF Types, IInv, Typing
<1>2. /\ screen # "ghost" => (NewState = "dialog" <=> screen = "dialog")
      /\ screen # "ghost" => (ScreenState = "dialog" <=> screen = "dialog")
  BY <1>1 DEF NewState, ScreenState
<1>3. screen = "dialog" => dialog \in 1 .. dialog
  BY <1>1 DEF DialogNumbered
<1> QED BY <1>1, <1>2, <1>3, NativeType

(* An answer or its Enter, when nothing else is typed.                     *)
LEMMA AnswerKept ==
  ASSUME Once, screen = "dialog", typed = <<>>, NEW k \in Input, typed' = <<k>>,
         k.key \in {"digit", "enter"},
         UNCHANGED <<sent, loop, running, bullets, screen, rowDue, lined, cold, submitted, win32,
                     box, unread, watcher, fate, reacted>>
  PROVE  /\ TypedFacts' /\ CliFacts' /\ ProbeFacts' /\ BoxFacts' /\ ForeignFacts' /\ TurnFacts'
         /\ screen' = "dialog" => typed' = <<>> \/ (Len(typed') = 1 /\ typed'[1].key \in {"digit", "enter"})
<1>0. /\ Len(typed') = 1 /\ DOMAIN typed' = {1} /\ typed'[1] = k /\ typed' # <<>>
      /\ ~Has(typed', "char") /\ ~Has(typed', "back") /\ ~Has(typed', "paste")
      /\ ~Has(typed, "char") /\ ~Has(typed, "back") /\ ~Has(typed, "paste")
  BY DEF Has
<1>1. Waiting' = Waiting /\ Taken' = Taken /\ Native' = Native /\ Foreign' = Foreign
      /\ Pasted' = Pasted /\ Probed' = Probed
  BY DEF Waiting, Taken, Native, Foreign, Pasted, Probed
<1>2. Extra' = Extra
  BY <1>0 DEF Extra, Base, Coming, Stray
<1>3. InOrder(typed')
  BY OrderOne
<1>4. TypedFacts'
  BY <1>0, <1>3 DEF TypedFacts
<1>5. CliFacts'
  BY DEF Once, CliFacts
<1>6. ProbeFacts'
  BY <1>0, <1>1, <1>2 DEF Once, ProbeFacts, Heard
<1>7. BoxIs => BoxIs'
  BY <1>0, <1>1, <1>2 DEF BoxIs, Stray
<1>8. BoxFacts' /\ ForeignFacts'
  BY <1>1, <1>7 DEF Once, BoxFacts, ForeignFacts
<1>9. TurnFacts'
  BY <1>0, <1>1 DEF Once, TurnFacts
<1> QED BY <1>0, <1>4, <1>5, <1>6, <1>8, <1>9

LEMMA OnceAnswer ==
  ASSUME Types, Once, Answer
  PROVE  Once'
<1>1. /\ UNCHANGED <<sent, loop, running, bullets, screen, cards, dialog, state,
                     carded, rowDue, lined, cold, held, submitted, win32, box, unread,
                     watcher, nextMsg, fate, reacted>>
      /\ state = "dialog" /\ dialog \in cards /\ keyed # dialog
      /\ typed' = Append(typed, Key("digit", Tracked)) /\ answering' = TRUE /\ keyed' = dialog
  BY DEF Answer, cliVars
<1>2. screen = "dialog" /\ typed = <<>> /\ carded
  BY <1>1 DEF Once, DialogKeys
<1> DEFINE k == Key("digit", Tracked)
<1>3. k \in Input /\ k.key = "digit"
  BY KeyIs, NativeType
<1> HIDE DEF k
<1>4. typed' = <<k>>
  BY <1>1, <1>2, <1>3, AppendIs DEF k
<1>5. /\ TypedFacts' /\ CliFacts' /\ ProbeFacts' /\ BoxFacts' /\ ForeignFacts' /\ TurnFacts'
      /\ screen' = "dialog" => typed' = <<>> \/ (Len(typed') = 1 /\ typed'[1].key \in {"digit", "enter"})
  BY <1>1, <1>2, <1>3, <1>4, AnswerKept
<1>6. DialogKeys'
  BY <1>1, <1>2, <1>5, DialogIs DEF Once, DialogKeys
<1>7. Waiting' <=> Waiting
  BY <1>1 DEF Waiting
<1> QED BY <1>1, <1>5, <1>6, <1>7, KeepLoop, KeepMsgs DEF Once

LEMMA OnceLook ==
  ASSUME Orderly, Types, Once, Look
  PROVE  Once'
<1>1. /\ UNCHANGED <<sent, loop, running, bullets, screen, dialog, keyed,
                     rowDue, lined, cold, held, submitted, win32, box, unread,
                     watcher, nextMsg, fate, reacted>>
      /\ Relay /\ (Confirm \/ NoConfirm) /\ state' = NewState
  BY DEF Look, cliVars
<1>0. screen # "ghost"
  BY DEF Once, CliFacts
<1>2. /\ NewState = "dialog" <=> screen = "dialog"
      /\ screen = "dialog" => dialog \in 1 .. dialog
      /\ Tracked \in Dialect
  BY <1>0, DialogIs
<1>3. /\ cards \subseteq 1 .. dialog /\ keyed <= dialog
      /\ dialog \in cards /\ (screen = "dialog" \/ state = "dialog") => carded
      /\ answering => carded
      /\ screen = "dialog" /\ keyed # dialog /\ ~carded => typed = <<>>
      /\ dialog \in cards /\ keyed # dialog => screen = "dialog" /\ typed = <<>> /\ ~answering
      /\ {carded, answering} \subseteq BOOLEAN
  BY DEF Once, DialogKeys, Types, SessionTypes
<1>4. \/ screen = "dialog" /\ ~carded /\ carded' \in BOOLEAN
         /\ cards' = IF carded' THEN cards \cup {dialog} ELSE cards
      \/ cards' = cards /\ carded' = (carded /\ (screen = "dialog" \/ state # "dialog"))
  BY <1>1, <1>2 DEF Relay
<1>5. answering' => answering /\ screen = "dialog"
  BY <1>1, <1>2 DEF Confirm, NoConfirm
<1>6. /\ cards' \subseteq 1 .. dialog
      /\ dialog \in cards' /\ screen = "dialog" => carded'
      /\ answering' => carded'
  BY <1>2, <1>3, <1>4, <1>5
<1>7. Waiting' <=> Waiting
  BY <1>1 DEF Waiting
<1>8. CASE NoConfirm
  <2>1. typed' = typed
    BY <1>8 DEF NoConfirm
  <2>2. screen = "dialog" /\ keyed # dialog /\ ~carded' => typed = <<>>
    BY <1>3, <1>4
  <2>3. dialog \in cards' /\ keyed # dialog => screen = "dialog" /\ typed = <<>> /\ ~answering'
    BY <1>3, <1>4, <1>5
  <2>4. DialogKeys'
    BY <1>1, <1>2, <1>3, <1>6, <2>1, <2>2, <2>3 DEF Once, DialogKeys
  <2> QED
    BY <1>1, <1>7, <2>1, <2>4, KeepTyped, KeepCli, KeepLoop, KeepProbes, KeepBox, KeepForeign,
       KeepTurn, KeepMsgs DEF Once
<1>9. CASE Confirm
  <2> DEFINE k == [Key("enter", Tracked) EXCEPT !.aim = keyed]
  <2>1. answering /\ screen = "dialog" /\ typed = <<>> /\ typed' = Append(typed, k) /\ ~answering'
    BY <1>2, <1>9, OrderlyIs DEF Confirm
  <2>2. k \in Input /\ k.key = "enter"
    <3>1. Key("enter", Tracked) \in Input /\ Key("enter", Tracked).key = "enter"
      BY <1>2, KeyTypes
    <3>2. keyed \in 0 .. MaxDialog
      BY DEF Types, IInv, Typing
    <3> QED BY <3>1, <3>2 DEF Input
  <2> HIDE DEF k
  <2>3. typed' = <<k>>
    BY <2>1, <2>2, AppendIs
  <2>4. /\ TypedFacts' /\ CliFacts' /\ ProbeFacts' /\ BoxFacts' /\ ForeignFacts' /\ TurnFacts'
        /\ screen' = "dialog" => typed' = <<>> \/ (Len(typed') = 1 /\ typed'[1].key \in {"digit", "enter"})
    BY <1>1, <2>1, <2>2, <2>3, AnswerKept
  <2>5. carded /\ carded' /\ cards' = cards
    BY <1>3, <1>4, <2>1
  <2>6. DialogKeys'
    BY <1>1, <1>2, <1>3, <1>6, <2>1, <2>4, <2>5 DEF DialogKeys
  <2> QED BY <1>1, <1>7, <2>4, <2>6, KeepLoop, KeepMsgs DEF Once
<1> QED BY <1>1, <1>8, <1>9

-----------------------------------------------------------------------------
(* A message is held, or a turn is started with one.                       *)
LEMMA InAppend ==
  ASSUME NEW t \in Text, NEW n \in Msg
  PROVE  /\ Append(t, n) \in Text /\ <<n>> \in Text
         /\ \A m : InText(m, Append(t, n)) <=> InText(m, t) \/ m = n
         /\ \A m : InText(m, <<n>>) <=> m = n
         /\ \A m : ~InText(m, <<>>)
<1>1. Append(t, n) \in Text /\ <<n>> \in Text /\ Len(t) \in Nat /\ DOMAIN t = 1 .. Len(t)
  BY DEF Text
<1>2. /\ Len(Append(t, n)) = Len(t) + 1 /\ \A j \in 1 .. Len(t) : Append(t, n)[j] = t[j]
      /\ Append(t, n)[Len(t) + 1] = n /\ DOMAIN Append(t, n) = 1 .. Len(t) + 1
  BY <1>1 DEF Text
<1>3. \A m : InText(m, Append(t, n)) => InText(m, t) \/ m = n
  BY <1>1, <1>2 DEF InText
<1>4. \A m : InText(m, t) => InText(m, Append(t, n))
  BY <1>1, <1>2 DEF InText
<1>5. InText(n, Append(t, n))
  BY <1>1, <1>2 DEF InText
<1>6. \A m : (InText(m, <<n>>) <=> m = n) /\ ~InText(m, <<>>)
  BY DEF InText
<1> QED BY <1>1, <1>3, <1>4, <1>5, <1>6

LEMMA TextsIn ==
  ASSUME Types
  PROVE  /\ held \in Text /\ sent \in Text /\ nextMsg \in Nat \ {0} /\ MaxMsg \in Nat
         /\ \A t \in Text : \A m : InText(m, t) => m \in Msg
BY BoundsAssumption DEF Types, IInv, Typing, Text, InText

LEMMA OnceHeldMore ==
  ASSUME Types, Once, nextMsg \in Msg, ~loop.armed, ~running, nextMsg' = nextMsg + 1,
         held' = Append(held, nextMsg),
         UNCHANGED <<submitted, sent, loop, running, bullets, cold, fate>>
  PROVE  LoopFacts' /\ MsgFacts'
<1>1. ~Waiting /\ ~Waiting'
  BY DEF Waiting
<1>2. LoopFacts'
  BY <1>1 DEF Once, LoopFacts
<1>3. \A m : (Done(m)' <=> Done(m)) /\ (Refused(m)' <=> Refused(m))
  BY DEF Done, Refused
<1>4. \A m : InText(m, held') <=> InText(m, held) \/ m = nextMsg
  BY TextsIn, InAppend
<1>5. MsgFacts
  BY DEF Once
<1>6. ASSUME NEW m \in Msg
      PROVE  (Done(m) => m < nextMsg') /\ (InText(m, held') => m < nextMsg' /\ ~Done(m))
  <2>1. /\ Done(m) => m < nextMsg
        /\ InText(m, held) => m < nextMsg /\ ~Done(m)
    BY <1>5 DEF MsgFacts
  <2>2. m \in Nat /\ nextMsg \in Nat
    BY TextsIn DEF Msg
  <2> QED BY <1>4, <2>1, <2>2
<1>7. \A m \in 1 .. nextMsg' - 1 : InText(m, held') \/ Done(m) \/ Refused(m)
  <2> SUFFICES ASSUME NEW m \in 1 .. nextMsg' - 1 PROVE InText(m, held') \/ Done(m) \/ Refused(m)
    OBVIOUS
  <2>1. m \in 1 .. nextMsg - 1 \/ m = nextMsg
    BY TextsIn
  <2>2. m \in 1 .. nextMsg - 1 => InText(m, held) \/ Done(m) \/ Refused(m)
    BY <1>5 DEF MsgFacts
  <2> QED BY <1>4, <2>1, <2>2
<1>8. \A i, j \in DOMAIN submitted : \A m \in Msg :
        InText(m, submitted[i][1].text) /\ InText(m, submitted[j][1].text) => i = j
  BY <1>5 DEF MsgFacts
<1>9. MsgFacts'
  BY <1>1, <1>3, <1>6, <1>7, <1>8 DEF MsgFacts
<1> QED BY <1>2, <1>9

LEMMA OnceSendIntoDialog ==
  ASSUME Orderly, Types, Once, Send, SendIntoDialog
  PROVE  Once'
<1>0. screen # "ghost"
  BY DEF Once, CliFacts
<1>1. /\ UNCHANGED <<typed, sent, loop, running, bullets, screen, dialog, keyed, state,
                     answering, rowDue, lined, cold, submitted, win32, box, unread,
                     watcher, fate, reacted>>
      /\ screen = "dialog" /\ nextMsg' = nextMsg + 1 /\ held' = Append(held, nextMsg)
      /\ carded' \in {carded, TRUE}
      /\ cards' = IF carded' # carded THEN cards \cup {dialog} ELSE cards
      /\ ~loop.armed /\ ~running /\ nextMsg <= MaxMsg
  BY <1>0, OrderlyIs, DialogIs DEF Send, SendIntoDialog
<1>2. nextMsg \in Msg
  BY <1>1, TextsIn DEF Msg
<1>3. /\ cards \subseteq 1 .. dialog /\ keyed <= dialog
      /\ dialog \in cards /\ (screen = "dialog" \/ state = "dialog") => carded
      /\ answering => carded
      /\ screen = "dialog" /\ keyed # dialog /\ ~carded => typed = <<>>
      /\ dialog \in cards /\ keyed # dialog => screen = "dialog" /\ typed = <<>> /\ ~answering
      /\ {carded, answering} \subseteq BOOLEAN
  BY DEF Once, DialogKeys, Types, SessionTypes
<1>4. screen = "dialog" => dialog \in 1 .. dialog
  BY DialogIs
<1>5. DialogKeys'
  <2>1. CASE carded' = carded
    BY <1>1, <2>1 DEF Once, DialogKeys
  <2>2. CASE ~carded /\ carded' /\ cards' = cards \cup {dialog}
    BY <1>1, <1>3, <1>4, <2>2 DEF Once, DialogKeys
  <2> QED BY <1>1, <1>3, <2>1, <2>2
<1>6. LoopFacts' /\ MsgFacts'
  BY <1>1, <1>2, OnceHeldMore
<1>7. Waiting' <=> Waiting
  BY <1>1 DEF Waiting
<1> QED
  BY <1>1, <1>5, <1>6, <1>7, KeepTyped, KeepCli, KeepProbes, KeepBox, KeepForeign, KeepTurn DEF Once

LEMMA OnceSendHeld ==
  ASSUME Orderly, Types, Once, Send, SendHeld
  PROVE  Once'
<1>1. /\ UNCHANGED <<typed, sent, loop, running, bullets, screen, dialog, keyed, state,
                     answering, rowDue, lined, cold, submitted, win32, box, unread,
                     watcher, fate, reacted, carded, cards>>
      /\ screen # "dialog" /\ nextMsg' = nextMsg + 1 /\ held' = Append(held, nextMsg)
      /\ ~loop.armed /\ ~running /\ nextMsg <= MaxMsg
  BY OrderlyIs, DialogIs DEF Send, SendHeld, Once, CliFacts
<1>2. nextMsg \in Msg
  BY <1>1, TextsIn DEF Msg
<1>3. LoopFacts' /\ MsgFacts'
  BY <1>1, <1>2, OnceHeldMore
<1>4. Waiting' <=> Waiting
  BY <1>1 DEF Waiting
<1> QED
  BY <1>1, <1>3, <1>4, KeepTyped, KeepDialog, KeepCli, KeepProbes, KeepBox, KeepForeign, KeepTurn
  DEF Once

(* What is typed when a turn is started: nothing, or what a probe or the   *)
(* last turn has left; no paste, and no text in the box.                   *)
LEMMA BeforeTurn ==
  ASSUME Types, Once, ~running, ~loop.armed, cold.proven, screen # "dialog"
  PROVE  /\ ~Waiting /\ ~Probed /\ ~Foreign /\ BoxIs /\ Base = 0
         /\ ~Has(typed, "paste") /\ ~Has(typed, "digit") /\ InOrder(typed)
         /\ typed # <<>> /\ typed[1].key = "enter" => box = <<>>
<1>1. ~Waiting /\ ~Foreign
  BY DEF Waiting, Foreign
<1>2. ~Probed /\ BoxIs
  BY <1>1 DEF Once, LoopFacts, Probed, BoxFacts
<1>3. ~Has(typed, "paste") /\ ~Has(typed, "digit") /\ InOrder(typed)
  BY <1>1 DEF Once, TypedFacts, DialogKeys, Has
<1>4. Base = 0
  <2>1. box # <<>> => 1 \in DOMAIN box
    BY DEF Types, CliTypes, Prompt
  <2> QED BY <1>1, <1>2, <2>1 DEF Base, BoxIs
<1>5. ASSUME typed # <<>>, typed[1].key = "enter"
      PROVE  box = <<>>
  <2>1. 1 \in DOMAIN typed /\ typed \in Seq(Input)
    BY <1>5, DialogIs
  <2>2. Len(typed) = 1 /\ DOMAIN typed = {1}
    BY <1>3, <1>5, <2>1, EnterAlone
  <2>3. ~Has(typed, "back") /\ Coming = 0
    BY <1>5, <2>2 DEF Has, Coming
  <2>4. Extra = 0
    BY <1>2, <2>3 DEF BoxIs
  <2>5. Len(box) \in Nat /\ (box # <<>> => Len(box) \in Nat \ {0})
    BY EmptySeq DEF Types, CliTypes, Prompt
  <2> QED BY <1>4, <2>3, <2>4, <2>5 DEF Extra
<1> QED BY <1>1, <1>2, <1>3, <1>4, <1>5

LEMMA SendTextIs ==
  ASSUME Types, NEW t \in Text, InOrder(typed), ~Has(typed, "paste")
  PROVE  LET s == typed \o SendText(t)
         IN  /\ s \in Seq(Input) /\ InOrder(s) /\ s # <<>> /\ DOMAIN typed \subseteq DOMAIN s
             /\ \A i \in DOMAIN typed : s[i] = typed[i]
             /\ \A i \in DOMAIN s : i \notin DOMAIN typed => s[i].key \in {"paste", "enter"}
             /\ \A i \in DOMAIN s : s[i].key = "paste" => s[i].text = t
             /\ typed = <<>> => s[1].key = "paste"
<1> DEFINE p == Paste(t, "any")
           e == Key("enter", "win32")
           a == Append(typed, p)
           b == Append(a, e)
<1>1. typed \in Seq(Input) /\ p \in Input /\ p.key = "paste" /\ p.text = t
      /\ e \in Input /\ e.key = "enter"
  BY DialogIs, PasteIs, KeyIs DEF Dialect
<1>2. typed \o SendText(t) = IF tracked THEN b ELSE a
  <2> HIDE DEF p, e
  <2>1. typed \o <<p, e>> = Append(Append(typed, p), e) /\ typed \o <<p>> = Append(typed, p)
    BY <1>1
  <2> QED BY <2>1 DEF SendText, p, e
<1> HIDE DEF p, e
<1>3. /\ a \in Seq(Input) /\ Len(typed) \in Nat /\ DOMAIN typed = 1 .. Len(typed)
      /\ Len(a) = Len(typed) + 1 /\ DOMAIN a = 1 .. Len(typed) + 1
      /\ \A i \in DOMAIN typed : a[i] = typed[i]
      /\ a[Len(typed) + 1] = p
  BY <1>1, AppendIs
<1>4. /\ b \in Seq(Input) /\ Len(b) = Len(a) + 1 /\ DOMAIN b = 1 .. Len(a) + 1
      /\ \A i \in DOMAIN a : b[i] = a[i]
      /\ b[Len(a) + 1] = e
  <2> HIDE DEF a
  <2> QED BY <1>1, <1>3, AppendIs
<1>5. InOrder(a)
  BY <1>1, OrderPaste
<1>6. a # <<>> /\ a[Len(a)].key = "paste"
  BY <1>1, <1>3
<1>7. InOrder(b)
  <2> HIDE DEF a
  <2> QED BY <1>1, <1>3, <1>5, <1>6, OrderEnter
<1> HIDE DEF a, b
<1>8. b # <<>> /\ DOMAIN typed \subseteq DOMAIN a /\ DOMAIN typed \subseteq DOMAIN b
      /\ \A i \in DOMAIN typed : b[i] = typed[i]
  BY <1>3, <1>4
<1>9. /\ \A i \in DOMAIN a : i \notin DOMAIN typed => a[i] = p
      /\ \A i \in DOMAIN b : i \notin DOMAIN typed => b[i] = p \/ b[i] = e
  BY <1>3, <1>4
<1>10. \A i \in DOMAIN typed : typed[i].key # "paste"
  BY DEF Has
<1>11. /\ \A i \in DOMAIN a : a[i].key = "paste" => a[i].text = t
       /\ \A i \in DOMAIN b : b[i].key = "paste" => b[i].text = t
  BY <1>1, <1>3, <1>8, <1>9, <1>10
<1>12. typed = <<>> => a[1].key = "paste" /\ b[1].key = "paste"
  BY <1>1, <1>3, <1>4
<1> QED BY <1>1, <1>2, <1>3, <1>4, <1>5, <1>6, <1>7, <1>8, <1>9, <1>11, <1>12

LEMMA OnceStartTurn ==
  ASSUME Types, Once, ~running, ~loop.armed, cold.proven, screen # "dialog",
         NEW t \in Text, t # <<>>, StartTurn(t), held' = <<>>,
         UNCHANGED <<running, screen, cards, dialog, keyed, carded, answering, rowDue, lined, cold,
                     submitted, win32, tracked, box>>,
         nextMsg' \in Nat, nextMsg <= nextMsg',
         \A m \in Msg : InText(m, t) => m < nextMsg' /\ ~Done(m),
         \A m \in 1 .. nextMsg' - 1 : InText(m, t) \/ Done(m) \/ Refused(m)
  PROVE  Once'
<1>1. /\ sent' = t /\ loop' = Armed /\ unread' = <<>> /\ bullets' = FALSE /\ reacted' = FALSE
      /\ watcher' = [watcher EXCEPT !.open = FALSE, !.born = FALSE]
      /\ typed' = typed \o SendText(t) /\ state' = "thinking" /\ fate' = fate
  BY DEF StartTurn, BeginTurn
<1>2. ~watcher'.open /\ ~watcher'.born
  BY <1>1 DEF Types, SessionTypes
<1>3. /\ loop'.armed /\ ~loop'.tried /\ loop'.tries = 0 /\ loop'.proven = "none"
      /\ loop'.probe = "none" /\ loop'.probes = 0
  BY <1>1 DEF Armed, Disarmed
<1>4. /\ ~Waiting /\ ~Probed /\ ~Foreign /\ BoxIs /\ Base = 0
      /\ ~Has(typed, "paste") /\ ~Has(typed, "digit") /\ InOrder(typed)
      /\ typed # <<>> /\ typed[1].key = "enter" => box = <<>>
  BY BeforeTurn
<1>5. Waiting' /\ ~Taken' /\ ~Foreign' /\ ~Probed'
  BY <1>1, <1>3, <1>4 DEF Waiting, Taken, Foreign, Probed
<1>6. /\ typed' \in Seq(Input) /\ InOrder(typed') /\ typed' # <<>> /\ DOMAIN typed \subseteq DOMAIN typed'
      /\ \A i \in DOMAIN typed : typed'[i] = typed[i]
      /\ \A i \in DOMAIN typed' : i \notin DOMAIN typed => typed'[i].key \in {"paste", "enter"}
      /\ \A i \in DOMAIN typed' : typed'[i].key = "paste" => typed'[i].text = t
      /\ typed = <<>> => typed'[1].key = "paste"
  BY <1>1, <1>4, SendTextIs
<1>7. /\ typed # <<>> => 1 \in DOMAIN typed
      /\ \A key \in {"char", "back", "digit"} : Has(typed', key) <=> Has(typed, key)
      /\ \A i \in DOMAIN typed' : typed'[i].key = "back" => i \in DOMAIN typed
  <2>1. typed # <<>> => 1 \in DOMAIN typed
    BY DialogIs
  <2>2. \A key \in {"char", "back", "digit"} : Has(typed', key) <=> Has(typed, key)
    BY <1>6 DEF Has
  <2>3. \A i \in DOMAIN typed' : typed'[i].key = "back" => i \in DOMAIN typed
    BY <1>6
  <2> QED BY <2>1, <2>2, <2>3
<1>8. Extra' = Extra /\ Base' = 0
  <2>1. Base' = Base
    BY DEF Base, Stray
  <2>2. Coming' = Coming
    BY <1>6, <1>7 DEF Coming, Honoured, Native
  <2> QED BY <1>4, <2>1, <2>2 DEF Extra
<1>9. TypedFacts'
  BY <1>1, <1>5, <1>6 DEF TypedFacts
<1>10. DialogKeys'
  BY <1>1, <1>4, <1>7 DEF Once, DialogKeys
<1>11. CliFacts'
  BY DEF Once, CliFacts
<1>12. LoopFacts'
  BY <1>1, <1>3 DEF Once, LoopFacts
<1>13. ProbeFacts'
  BY <1>1, <1>3, <1>4, <1>5, <1>7 DEF Once, ProbeFacts, Probed, Native, Dialect
<1>14. BoxIs'
  <2>1. \A i \in DOMAIN box : box[i] = Stray
    BY <1>4 DEF BoxIs
  <2>2. Native' = Native
    BY DEF Native
  <2>3. ~Has(typed', "back") => Extra' = 0
    BY <1>4, <1>7, <1>8 DEF BoxIs
  <2>4. \A i \in DOMAIN typed' : typed'[i].key = "back" =>
          IF Honoured(typed[i])' THEN Extra' <= typed'[i].n ELSE Extra' = 0
    <3> SUFFICES ASSUME NEW i \in DOMAIN typed', typed'[i].key = "back"
                 PROVE  IF Honoured(typed[i])' THEN Extra' <= typed'[i].n ELSE Extra' = 0
      OBVIOUS
    <3>1. i \in DOMAIN typed /\ typed'[i] = typed[i]
      BY <1>6, <1>7
    <3> QED BY <1>4, <1>8, <2>2, <3>1 DEF BoxIs, Honoured
  <2>5. typed'[1].key = "enter" => box' = <<>>
    BY <1>4, <1>6, <1>7
  <2> QED BY <1>5, <1>8, <2>1, <2>3, <2>4, <2>5 DEF BoxIs, Stray
<1>15. BoxFacts' /\ ForeignFacts'
  BY <1>5, <1>14 DEF BoxFacts, ForeignFacts
<1>16. TurnFacts'
  BY <1>1, <1>2, <1>5 DEF Once, TurnFacts
<1>17. MsgFacts'
  <2>1. \A m : (Done(m)' <=> Done(m)) /\ (Refused(m)' <=> Refused(m)) /\ ~InText(m, held')
    BY <1>1 DEF Done, Refused, InText
  <2>2. \A m \in Msg : Done(m) => m < nextMsg'
    BY TextsIn DEF Once, MsgFacts, Msg
  <2> QED BY <1>1, <1>3, <2>1, <2>2 DEF Once, MsgFacts
<1> QED BY <1>9, <1>10, <1>11, <1>12, <1>13, <1>15, <1>16, <1>17 DEF Once

(* The text cannot be written: nothing is typed, and no loop is begun.     *)
LEMMA OnceSendFails ==
  ASSUME Types, Once, ~running, ~loop.armed, NEW t \in Text, SendFails(t), held' = <<>>,
         UNCHANGED <<running, screen, cards, dialog, keyed, carded, answering, rowDue, lined, cold,
                     submitted, win32, tracked, box>>,
         nextMsg' \in Nat, nextMsg <= nextMsg',
         \A m \in 1 .. nextMsg' - 1 : InText(m, t) \/ Done(m) \/ Refused(m)
  PROVE  Once'
<1>1. /\ sent' = t /\ unread' = <<>> /\ bullets' = FALSE
      /\ UNCHANGED <<loop, typed, reacted, state>>
      /\ fate'.refused = fate.refused \cup {t}
  BY DEF SendFails, BeginTurn, Types, FateTypes
<1>2. ~Waiting /\ ~Waiting' /\ ~Foreign /\ ~Foreign' /\ ~Taken'
  BY <1>1 DEF Waiting, Foreign, Taken
<1>3. TypedFacts'
  BY <1>1, <1>2
  DEF Once, TypedFacts, InOrder, NoEsc, CharFirst, BackNext, EnterAfter, EnterLast, OnePaste, Has
<1>4. DialogKeys' /\ CliFacts' /\ ProbeFacts'
  BY <1>1, KeepDialog, KeepCli, KeepProbes DEF Once
<1>5. LoopFacts'
  BY <1>1, <1>2 DEF Once, LoopFacts
<1>6. BoxFacts' /\ ForeignFacts'
  <2>1. BoxIs /\ \A i \in DOMAIN box : box[i] = Stray
    BY <1>2 DEF Once, BoxFacts, BoxIs
  <2>2. Native' = Native /\ Base' = Base /\ Coming' = Coming /\ Extra' = Extra /\ (Probed' <=> Probed)
    BY <1>1 DEF Native, Base, Coming, Extra, Probed, Honoured, Stray
  <2>3. \A i \in DOMAIN box' : box'[i] # Stray => i = 1 /\ box'[1] = Pasted' /\ Waiting'
    BY <2>1
  <2>4. BoxIs'
    BY <1>1, <2>1, <2>2, <2>3 DEF BoxIs, Has, Honoured, Stray
  <2> QED BY <1>2, <2>4 DEF BoxFacts, ForeignFacts
<1>7. TurnFacts'
  BY <1>1, <1>2 DEF Once, TurnFacts
<1>8. MsgFacts'
  <2>1. \A m : (Done(m)' <=> Done(m)) /\ ~InText(m, held')
    BY DEF Done, InText
  <2>2. \A m : InText(m, t) \/ Refused(m) => Refused(m)'
    BY <1>1 DEF Refused
  <2>3. \A m \in Msg : Done(m) => m < nextMsg'
    BY TextsIn DEF Once, MsgFacts, Msg
  <2> QED BY <1>1, <1>2, <2>1, <2>2, <2>3 DEF Once, MsgFacts
<1> QED BY <1>3, <1>4, <1>5, <1>6, <1>7, <1>8 DEF Once

LEMMA OnceSendPasted ==
  ASSUME Orderly, Types, Once, Send, SendPasted
  PROVE  Once'
<1>1. /\ screen # "dialog" /\ cold.proven /\ ~loop.armed /\ ~running /\ held = <<>>
      /\ StartTurn(<<nextMsg>>) \/ SendFails(<<nextMsg>>)
      /\ held' = <<>> /\ nextMsg <= MaxMsg /\ nextMsg' = nextMsg + 1
      /\ UNCHANGED <<running, screen, cards, dialog, keyed, carded, answering, rowDue, lined, cold,
                     submitted, win32, tracked, box>>
  BY OrderlyIs, DialogIs DEF Send, SendPasted, Once, CliFacts
<1>2. nextMsg \in Msg /\ nextMsg \in Nat
  BY <1>1, TextsIn DEF Msg
<1> DEFINE t == <<nextMsg>>
<1>3. t \in Text /\ t # <<>> /\ \A m : InText(m, t) <=> m = nextMsg
  BY <1>2, InAppend, TextsIn
<1>4. ~Done(nextMsg) /\ \A m : ~InText(m, held)
  BY <1>1, <1>2 DEF Once, MsgFacts, InText
<1> HIDE DEF t
<1>5. \A m \in Msg : InText(m, t) => m < nextMsg' /\ ~Done(m)
  BY <1>1, <1>2, <1>3, <1>4
<1>6. ASSUME NEW m \in 1 .. nextMsg' - 1
      PROVE  InText(m, t) \/ Done(m) \/ Refused(m)
  <2>1. m \in 1 .. nextMsg - 1 \/ m = nextMsg
    BY <1>1, <1>2
  <2>2. m \in 1 .. nextMsg - 1 => Done(m) \/ Refused(m)
    BY <1>1, <1>4 DEF Once, MsgFacts
  <2> QED BY <1>3, <2>1, <2>2
<1>7. nextMsg' \in Nat /\ nextMsg <= nextMsg'
  BY <1>1, <1>2
<1>8. StartTurn(t) \/ SendFails(t)
  BY <1>1 DEF t
<1>9. CASE StartTurn(t)
  BY <1>1, <1>3, <1>5, <1>6, <1>7, <1>9, OnceStartTurn
<1>10. CASE SendFails(t)
  BY <1>1, <1>3, <1>6, <1>7, <1>10, OnceSendFails
<1> QED BY <1>8, <1>9, <1>10

LEMMA OnceSend ==
  ASSUME Orderly, Types, Once, Send
  PROVE  Once'
<1>1. SendIntoDialog \/ SendHeld \/ SendPasted
  BY DEF Send
<1> QED BY <1>1, OnceSendIntoDialog, OnceSendHeld, OnceSendPasted

-----------------------------------------------------------------------------
(* The held message: probed for, and dispatched.                           *)
LEMMA ProbeAlone ==
  ASSUME Types, Once, ~Probed, screen # "dialog", ~Has(typed, "back"), ~Foreign
  PROVE  Extra = 0 /\ Coming = 0 /\ ~Has(typed, "char") /\ BoxIs
<1>1. BoxIs /\ ~Has(typed, "char")
  BY DEF Once, BoxFacts, ProbeFacts
<1>2. Extra = 0
  BY <1>1 DEF BoxIs
<1>3. typed # <<>> => 1 \in DOMAIN typed
  BY DialogIs
<1>4. Coming = 0
  BY <1>1, <1>3 DEF Coming, Has
<1> QED BY <1>1, <1>2, <1>4

LEMMA BoxSize ==
  ASSUME Types
  PROVE  /\ Len(box) \in Nat /\ Base \in {0, 1} /\ Coming \in {0, 1} /\ loop.probes \in Nat
         /\ Len(box) >= Base /\ Extra \in Nat /\ box \in Seq(Chunk) /\ DOMAIN box = 1 .. Len(box)
         /\ Len(box) = 0 <=> box = <<>>
<1>1. box \in Seq(Chunk) /\ loop.probes \in Nat
  BY DEF Types, IInv, Typing, Loop, CliTypes, Prompt
<1>2. Len(box) \in Nat /\ DOMAIN box = 1 .. Len(box) /\ (box # <<>> => Len(box) \in Nat \ {0})
      /\ (box = <<>> => Len(box) = 0)
  BY <1>1, EmptySeq
<1>3. Base \in {0, 1} /\ Coming \in {0, 1} /\ Len(box) >= Base
  BY <1>2 DEF Base, Coming
<1> QED BY <1>1, <1>2, <1>3 DEF Extra

(* A character is typed to probe the input layer, when nothing is typed.   *)
LEMMA ProbeTyped ==
  ASSUME Types, Once, typed = <<>>, NEW via \in Dialect, Probing(via),
         UNCHANGED <<win32, box>>
  PROVE  LET k == Key("char", via)
         IN  /\ typed' = <<k>> /\ Len(typed') = 1 /\ DOMAIN typed' = {1} /\ typed'[1] = k /\ typed' # <<>>
             /\ k \in Input /\ k.key = "char" /\ k.via = via /\ InOrder(typed')
             /\ Coming = 0 /\ Coming' = (IF via = Native THEN 1 ELSE 0)
             /\ Extra' = Extra + Coming' /\ Base' = Base
             /\ (via = Native => Heard')
<1> DEFINE k == Key("char", via)
<1>1. k \in Input /\ k.key = "char" /\ k.via = via /\ k # <<>>
  BY KeyIs DEF Key
<1>2. typed' = Append(typed, k)
  BY DEF Probing
<1> HIDE DEF k
<1>3. typed' = <<k>>
  BY <1>1, <1>2, AppendIs
<1>4. Len(typed') = 1 /\ DOMAIN typed' = {1} /\ typed'[1] = k /\ typed' # <<>>
  BY <1>3
<1>5. InOrder(typed')
  BY <1>1, <1>3, OrderOne
<1>6. Native' = Native /\ via # "any"
  BY DEF Native, Dialect
<1>7. Honoured(typed[1])' <=> via = Native
  BY <1>1, <1>4, <1>6 DEF Honoured
<1>8. Coming = 0 /\ Coming' = (IF via = Native THEN 1 ELSE 0) /\ (via = Native => Heard')
  BY <1>1, <1>4, <1>7 DEF Coming, Heard
<1>9. Base' = Base
  BY DEF Base, Stray
<1>10. Extra' = Extra + Coming'
  BY <1>8, <1>9, BoxSize DEF Extra
<1> QED BY <1>1, <1>3, <1>4, <1>5, <1>8, <1>9, <1>10 DEF k

LEMMA ColdHeld ==
  ASSUME Types, Once, HandleHeld, held # <<>>
  PROVE  /\ ~loop.armed /\ ~Waiting /\ loop.probe = "none" /\ ~Foreign
         /\ \A quiet, bare \in BOOLEAN : Settled(quiet, bare) => screen = "prompt" /\ ~running /\ ~Taken
<1>1. ~loop.armed /\ ~Waiting /\ ~Foreign
  BY DEF Once, LoopFacts, Waiting, Foreign
<1>2. loop.probe = "none"
  BY <1>1 DEF Once, LoopFacts
<1>3. ASSUME NEW quiet \in BOOLEAN, NEW bare \in BOOLEAN, Settled(quiet, bare)
      PROVE  screen = "prompt" /\ ~running /\ ~Taken
  <2>0. screen \notin {"ghost", "working"}
    BY DEF Once, CliFacts, LoopFacts
  <2>1. screen = "prompt"
    BY <1>3, <2>0 DEF Settled, OwnsInput, ScreenState, Types, IInv, Typing
  <2>2. ~running
    BY <2>1 DEF Once, CliFacts
  <2> QED BY <1>1, <2>1, <2>2 DEF Taken
<1> QED BY <1>1, <1>2, <1>3

LEMMA OnceColdProbe ==
  ASSUME Orderly, Types, Once, HandleHeld, held # <<>>,
         NEW quiet \in BOOLEAN, NEW bare \in BOOLEAN, Settled(quiet, bare), ColdProbe
  PROVE  Once'
<1>1. /\ ~loop.armed /\ ~Waiting /\ loop.probe = "none" /\ ~Foreign
      /\ screen = "prompt" /\ ~running /\ ~Taken /\ ~cold.proven
      /\ cold.probe \in Maybe
  BY ColdHeld DEF ColdProbe, Types, IInv, Typing, Maybe
<1>2. UNCHANGED <<sent, running, bullets, screen, cards, dialog, keyed, state, carded, answering,
                  rowDue, lined, held, submitted, win32, box, unread, watcher, nextMsg, fate>>
  BY DEF HandleHeld, historyVars, ColdProbe
<1>3. ~(cold.probe = "win32" /\ Lapsed)
  <2> SUFFICES ASSUME cold.probe = "win32", ~reacted, typed = <<>> PROVE FALSE
    BY OrderlyIs DEF Lapsed
  <2>1. win32 /\ Heard
    BY DEF Once, ProbeFacts, Native
  <2> QED BY <2>1 DEF Heard
<1>4. \E via \in Dialect :
        /\ Probing(via) /\ cold' = [cold EXCEPT !.probe = via]
        /\ loop' = [loop EXCEPT !.probes = @ + 1]
        /\ typed = <<>>
        /\ (via = "raw" /\ cold.probe = "none") \/ (via = "win32" /\ cold.probe = "raw" /\ ~reacted)
  <2>1. cold.probe = "none" => typed = <<>>
    <3> SUFFICES ASSUME cold.probe = "none", typed # <<>> PROVE FALSE
      OBVIOUS
    <3>1. ~Probed /\ 1 \in DOMAIN typed /\ \A i \in DOMAIN typed : typed[i].key = "char"
      BY <1>1, DialogIs DEF Once, ProbeFacts, Probed
    <3> QED BY <3>1 DEF Once, ProbeFacts, Has
  <2>2. \/ Probing("raw") /\ cold' = [cold EXCEPT !.probe = "raw"] /\ cold.probe = "none"
           /\ loop' = [loop EXCEPT !.probes = @ + 1]
        \/ Probing("win32") /\ cold' = [cold EXCEPT !.probe = "win32"] /\ cold.probe = "raw" /\ Lapsed
           /\ loop' = [loop EXCEPT !.probes = @ + 1]
    BY <1>3 DEF ColdProbe
  <2>3. Lapsed => typed = <<>> /\ ~reacted
    BY OrderlyIs DEF Lapsed
  <2>4. "raw" \in Dialect /\ "win32" \in Dialect
    BY DEF Dialect
  <2> QED BY <2>1, <2>2, <2>3, <2>4
<1>5. PICK via \in Dialect :
        /\ Probing(via) /\ cold' = [cold EXCEPT !.probe = via]
        /\ loop' = [loop EXCEPT !.probes = @ + 1]
        /\ typed = <<>>
        /\ (via = "raw" /\ cold.probe = "none") \/ (via = "win32" /\ cold.probe = "raw" /\ ~reacted)
  BY <1>4
<1>6. /\ loop'.armed = loop.armed /\ loop'.tried = loop.tried /\ loop'.tries = loop.tries
      /\ loop'.proven = loop.proven /\ loop'.probe = "none" /\ loop'.probes = loop.probes + 1
      /\ cold'.proven = cold.proven /\ cold'.probe = via /\ via # "none"
  <2>1. loop \in Loop /\ cold \in [proven : BOOLEAN, probe : Maybe]
    BY DEF Types, IInv, Typing, Maybe
  <2> QED BY <1>1, <1>5, <2>1 DEF Loop, Dialect
<1> DEFINE k == Key("char", via)
<1>7. /\ typed' = <<k>> /\ Len(typed') = 1 /\ DOMAIN typed' = {1} /\ typed'[1] = k /\ typed' # <<>>
      /\ k \in Input /\ k.key = "char" /\ k.via = via /\ InOrder(typed')
      /\ Coming = 0 /\ Coming' = (IF via = Native THEN 1 ELSE 0)
      /\ Extra' = Extra + Coming' /\ Base' = Base /\ (via = Native => Heard')
  BY <1>2, <1>5, ProbeTyped
<1> HIDE DEF k
<1>8. Extra = 0
  <2>1. ~Has(typed, "back")
    BY <1>5 DEF Has
  <2>2. CASE cold.probe = "none"
    BY <1>1, <2>1, <2>2, ProbeAlone DEF Probed
  <2>3. CASE cold.probe = "raw" /\ ~reacted
    <3>1. ~Heard
      BY <1>5, <2>3 DEF Heard
    <3>2. win32
      BY <2>3, <3>1 DEF Once, ProbeFacts, Native
    <3> QED BY <2>3, <3>2 DEF Once, ProbeFacts
  <2> QED BY <1>5, <2>2, <2>3
<1>9. via = "win32" => win32
  <2> SUFFICES ASSUME via = "win32", ~win32 PROVE FALSE
    OBVIOUS
  <2>1. cold.probe = Native /\ ~Heard
    BY <1>5 DEF Native, Heard
  <2> QED BY <2>1 DEF Once, ProbeFacts
<1>10. ~Waiting' /\ ~Foreign' /\ Native' = Native /\ ~Taken' /\ Probed'
  BY <1>1, <1>2, <1>6 DEF Waiting, Foreign, Native, Taken, Probed
<1>11. TypedFacts'
  BY <1>7 DEF TypedFacts
<1>12. DialogKeys'
  BY <1>1, <1>2, <1>7 DEF Once, DialogKeys, Has
<1>13. CliFacts'
  BY <1>1, <1>2 DEF Once, CliFacts
<1>14. LoopFacts'
  BY <1>1, <1>2, <1>6 DEF Once, LoopFacts
<1>15. ProbeFacts'
  BY <1>2, <1>6, <1>7, <1>8, <1>9, <1>10 DEF ProbeFacts, Native, Dialect, Has
<1>16. BoxIs'
  <2>1. BoxIs
    BY <1>1 DEF Once, BoxFacts
  <2>2. \A i \in DOMAIN box' : box'[i] = Stray
    BY <1>1, <1>2, <2>1 DEF BoxIs
  <2>3. Extra' <= loop'.probes
    BY <1>6, <1>7, <1>8, BoxSize
  <2>4. ~Has(typed', "back") /\ ~Has(typed', "paste")
    BY <1>7 DEF Has
  <2> QED BY <1>7, <1>10, <2>2, <2>3, <2>4 DEF BoxIs, Stray
<1>17. BoxFacts' /\ ForeignFacts'
  BY <1>10, <1>16 DEF BoxFacts, ForeignFacts
<1>18. TurnFacts'
  BY <1>1, <1>2, <1>6, <1>10 DEF Once, TurnFacts, Taken
<1>19. MsgFacts'
  BY <1>1, <1>2, <1>6, <1>10 DEF Once, MsgFacts, Done, InText, Refused
<1> QED BY <1>11, <1>12, <1>13, <1>14, <1>15, <1>17, <1>18, <1>19 DEF Once

(* What erases the probe characters is typed behind them.                  *)
LEMMA BackTyped ==
  ASSUME Types, typed = <<>> \/ (Len(typed) = 1 /\ typed[1].key = "char"),
         NEW n \in Nat, NEW via \in Dialect, typed' = Append(typed, Backspaces(n, via)),
         UNCHANGED <<win32, box>>
  PROVE  LET b == Backspaces(n, via)
         IN  /\ typed' \in Seq(Input) /\ InOrder(typed') /\ Has(typed', "back")
             /\ ~Has(typed', "paste") /\ ~Has(typed', "enter") /\ ~Has(typed', "digit")
             /\ \A i \in DOMAIN typed' : typed'[i].key = "back" => typed'[i] = b
             /\ b.n = n /\ b.via = via /\ b.key = "back"
             /\ Extra' = Extra /\ Base' = Base
<1> DEFINE b == Backspaces(n, via)
<1>1. b \in Input /\ b.key = "back" /\ b.n = n /\ b.via = via
  BY BackIs
<1>2. typed \in Seq(Input)
  BY DialogIs
<1> HIDE DEF b
<1>3. typed' = Append(typed, b)
  BY DEF b
<1>4. InOrder(typed')
  BY <1>1, <1>2, <1>3, OrderBack
<1>5. /\ Len(typed) \in Nat /\ DOMAIN typed = 1 .. Len(typed)
      /\ DOMAIN typed' = 1 .. Len(typed) + 1
      /\ \A i \in DOMAIN typed : typed'[i] = typed[i]
      /\ typed'[Len(typed) + 1] = b /\ typed' # <<>>
  BY <1>1, <1>2, <1>3, AppendIs
<1>6. \A i \in DOMAIN typed' : typed'[i] = b \/ (i = 1 /\ i \in DOMAIN typed /\ typed'[i].key = "char")
  BY <1>5
<1>7. Has(typed', "back")
  BY <1>1, <1>5 DEF Has
<1>8. ~Has(typed', "paste") /\ ~Has(typed', "enter") /\ ~Has(typed', "digit")
  BY <1>1, <1>6 DEF Has
<1>9. Base' = Base /\ Native' = Native
  BY DEF Base, Stray, Native
<1>10. Coming' = Coming
  <2>1. CASE typed = <<>>
    BY <1>1, <1>5, <2>1 DEF Coming
  <2>2. CASE typed # <<>> /\ typed'[1] = typed[1]
    BY <1>5, <1>9, <2>2 DEF Coming, Honoured
  <2> QED BY <1>5, <2>1, <2>2
<1>11. Extra' = Extra
  BY <1>9, <1>10 DEF Extra
<1>12. typed' \in Seq(Input)
  BY <1>1, <1>2, <1>3
<1>13. \A i \in DOMAIN typed' : typed'[i].key = "back" => typed'[i] = b
  BY <1>6
<1> QED BY <1>1, <1>4, <1>7, <1>8, <1>9, <1>11, <1>12, <1>13 DEF b

LEMMA OnceColdProven ==
  ASSUME Types, Once, HandleHeld, held # <<>>,
         NEW quiet \in BOOLEAN, NEW bare \in BOOLEAN, Settled(quiet, bare), ColdProven
  PROVE  Once'
<1>1. /\ ~loop.armed /\ ~Waiting /\ loop.probe = "none" /\ ~Foreign
      /\ screen = "prompt" /\ ~running /\ ~Taken
  BY ColdHeld
<1>2. UNCHANGED <<sent, running, bullets, screen, cards, dialog, keyed, state, carded, answering,
                  rowDue, lined, held, submitted, win32, box, unread, watcher, nextMsg, fate>>
  BY DEF HandleHeld, historyVars, ColdProven
<1>3. /\ ~cold.proven /\ cold.probe \in Dialect /\ loop.probes \in Nat
      /\ typed' = Append(typed, Backspaces(loop.probes, cold.probe))
      /\ loop' = [loop EXCEPT !.probes = 0, !.proven = cold.probe]
      /\ cold' = [proven |-> TRUE, probe |-> "none"]
  BY DEF ColdProven, Types, IInv, Typing, Loop
<1>4. /\ loop'.armed = loop.armed /\ loop'.tried = loop.tried /\ loop'.tries = loop.tries
      /\ loop'.probe = "none" /\ cold'.proven /\ cold'.probe = "none"
  <2>1. loop \in Loop
    BY DEF Types, IInv, Typing
  <2> QED BY <1>1, <1>3, <2>1 DEF Loop
<1>5. Probed /\ (typed = <<>> \/ (Len(typed) = 1 /\ typed[1].key = "char")) /\ BoxIs
  BY <1>1, <1>3 DEF Once, ProbeFacts, BoxFacts, Probed, Dialect
<1> DEFINE b == Backspaces(loop.probes, cold.probe)
<1>6. /\ typed' \in Seq(Input) /\ InOrder(typed') /\ Has(typed', "back")
      /\ ~Has(typed', "paste") /\ ~Has(typed', "enter") /\ ~Has(typed', "digit")
      /\ \A i \in DOMAIN typed' : typed'[i].key = "back" => typed'[i] = b
      /\ b.n = loop.probes /\ b.via = cold.probe /\ b.key = "back"
      /\ Extra' = Extra /\ Base' = Base
  BY <1>2, <1>3, <1>5, BackTyped
<1> HIDE DEF b
<1>7. ~Waiting' /\ ~Foreign' /\ ~Taken' /\ ~Probed' /\ Native' = Native
  BY <1>1, <1>2, <1>4 DEF Waiting, Foreign, Taken, Probed, Native
<1>8. TypedFacts'
  BY <1>6 DEF TypedFacts, Has
<1>9. DialogKeys'
  BY <1>1, <1>2, <1>3, <1>6 DEF Once, DialogKeys
<1>10. CliFacts'
  BY <1>1, <1>2 DEF Once, CliFacts
<1>11. LoopFacts'
  BY <1>1, <1>2, <1>4 DEF Once, LoopFacts
<1>12. ProbeFacts'
  BY <1>4, <1>6, <1>7 DEF ProbeFacts, Native, Dialect
<1>13. BoxIs'
  <2>1. \A i \in DOMAIN box' : box'[i] = Stray
    BY <1>1, <1>2, <1>5 DEF BoxIs
  <2>2. Extra <= loop.probes
    BY <1>5 DEF BoxIs
  <2>3. cold.probe # Native => Extra = 0
    <3>1. cold.probe = "win32" => win32
      BY DEF Once, ProbeFacts
    <3>2. cold.probe = "raw" /\ win32 => Extra = 0
      BY DEF Once, ProbeFacts
    <3> QED BY <1>3, <3>1, <3>2 DEF Native, Dialect
  <2>4. \A i \in DOMAIN typed' : typed'[i].key = "back" =>
          IF (typed'[i]).via \in {Native', "any"} THEN Extra' <= typed'[i].n ELSE Extra' = 0
    BY <1>3, <1>6, <1>7, <2>2, <2>3 DEF Dialect
  <2> QED BY <1>6, <1>7, <2>1, <2>4 DEF BoxIs, Stray, Honoured
<1>14. BoxFacts' /\ ForeignFacts'
  BY <1>7, <1>13 DEF BoxFacts, ForeignFacts
<1>15. TurnFacts'
  BY <1>1, <1>2, <1>4, <1>7 DEF Once, TurnFacts, Taken
<1>16. MsgFacts'
  BY <1>1, <1>2, <1>4, <1>7 DEF Once, MsgFacts, Done, InText, Refused
<1> QED BY <1>8, <1>9, <1>10, <1>11, <1>12, <1>14, <1>15, <1>16 DEF Once

LEMMA OnceDispatch ==
  ASSUME Types, Once, HandleHeld, held # <<>>,
         NEW quiet \in BOOLEAN, NEW bare \in BOOLEAN, Settled(quiet, bare), Dispatch
  PROVE  Once'
<1>1. ~loop.armed /\ screen = "prompt" /\ ~running
  BY ColdHeld
<1>2. /\ cold.proven /\ (StartTurn(held) \/ SendFails(held))
      /\ held' = <<>> /\ nextMsg' = nextMsg
      /\ UNCHANGED <<running, screen, cards, dialog, keyed, carded, answering, rowDue, lined, cold,
                     submitted, win32, tracked, box>>
  BY DEF HandleHeld, Dispatch
<1>3. held \in Text /\ nextMsg' \in Nat /\ nextMsg <= nextMsg'
  BY <1>2, TextsIn
<1>4. \A m \in Msg : InText(m, held) => m < nextMsg' /\ ~Done(m)
  BY <1>2 DEF Once, MsgFacts
<1>5. \A m \in 1 .. nextMsg' - 1 : InText(m, held) \/ Done(m) \/ Refused(m)
  BY <1>1, <1>2 DEF Once, MsgFacts
<1>6. CASE StartTurn(held)
  BY <1>1, <1>2, <1>3, <1>4, <1>5, <1>6, OnceStartTurn
<1>7. CASE SendFails(held)
  BY <1>1, <1>2, <1>3, <1>5, <1>7, OnceSendFails
<1> QED BY <1>2, <1>6, <1>7

LEMMA OnceHandleHeld ==
  ASSUME Orderly, Types, Once, HandleHeld
  PROVE  Once'
<1>1. CASE HeldWaits
  <2>1. UNCHANGED <<typed, sent, loop, running, bullets, screen, cards, dialog, keyed, state,
                    carded, answering, rowDue, lined, cold, held, submitted, win32, box, unread,
                    watcher, nextMsg, fate, reacted>>
    BY <1>1 DEF HandleHeld, HeldWaits, HeldUnchanged, historyVars
  <2> QED BY <2>1, OnceSame
<1> PICK quiet \in BOOLEAN, bare \in BOOLEAN :
       IF held # <<>> /\ Settled(quiet, bare)
       THEN Dispatch \/ ColdProbe \/ ColdProven \/ HeldWaits
       ELSE HeldWaits
  BY DEF HandleHeld
<1>2. CASE held # <<>> /\ Settled(quiet, bare) /\ (Dispatch \/ ColdProbe \/ ColdProven)
  BY <1>2, OnceDispatch, OnceColdProbe, OnceColdProven
<1> QED BY <1>1, <1>2

-----------------------------------------------------------------------------
(* The submit loop.                                                        *)
SubmitKeeps ==
  UNCHANGED <<sent, running, bullets, screen, cards, dialog, keyed, state, carded, answering,
              rowDue, lined, cold, held, submitted, win32, box, unread, nextMsg, fate>>

LEMMA SubmitFrame ==
  ASSUME Submit, ~SubmitTruncated, ~SubmitGivesUp
  PROVE  SubmitKeeps
BY DEF Submit, SubmitKeeps, SubmitStarted, cliVars

(* While the turn has not begun nothing shows that it has.                 *)
LEMMA NotYetStarted ==
  ASSUME Types, Once, Waiting
  PROVE  ~Started
<1>1. /\ ~watcher.open /\ ~watcher.born /\ ~bullets /\ ~running /\ cold.proven
      /\ screen \in {"boot", "prompt", "spinner", "working", "dialog"}
  BY DEF Once, TurnFacts, CliFacts, LoopFacts, Waiting, Types, IInv, Typing
<1>2. screen \in {"prompt", "spinner", "dialog"}
  BY <1>1 DEF Once, CliFacts
<1>3. NewState \in {"idle", "dialog"}
  BY <1>1, <1>2 DEF NewState, ScreenState
<1> QED BY <1>1, <1>3 DEF Started, TurnStarted

(* The fields of the loop that the invariant depends on are kept.          *)
LEMMA OnceCounts ==
  ASSUME Once, SubmitKeeps, UNCHANGED <<typed, reacted, watcher>>,
         loop'.armed = loop.armed, loop'.proven = loop.proven, loop'.probe = loop.probe,
         loop'.probes = loop.probes, loop'.tried = loop.tried, loop'.tries = loop.tries
  PROVE  Once'
<1>1. Waiting' = Waiting /\ Taken' = Taken /\ Native' = Native /\ Foreign' = Foreign
      /\ Pasted' = Pasted /\ Probed' = Probed
  BY DEF SubmitKeeps, Waiting, Taken, Native, Foreign, Pasted, Probed
<1>2. TypedFacts' /\ DialogKeys' /\ CliFacts'
  BY <1>1, KeepTyped, KeepDialog, KeepCli DEF SubmitKeeps, Once
<1>3. LoopFacts'
  BY <1>1 DEF SubmitKeeps, Once, LoopFacts
<1>4. Extra' = Extra /\ (Heard' <=> Heard)
  BY <1>1 DEF SubmitKeeps, Extra, Base, Coming, Heard, Honoured, Stray
<1>5. ProbeFacts'
  BY <1>1, <1>4 DEF SubmitKeeps, Once, ProbeFacts, Has
<1>6. BoxIs => BoxIs'
  BY <1>1, KeepBoxIs DEF SubmitKeeps
<1>7. BoxFacts'
  BY <1>1, <1>6 DEF Once, BoxFacts
<1>8. ForeignFacts'
  BY <1>1 DEF SubmitKeeps, Once, ForeignFacts, Honoured
<1>9. TurnFacts'
  BY <1>1 DEF SubmitKeeps, Once, TurnFacts
<1>10. MsgFacts'
  BY <1>1 DEF SubmitKeeps, Once, MsgFacts, Done, InText, Refused
<1> QED BY <1>2, <1>3, <1>5, <1>7, <1>8, <1>9, <1>10 DEF Once

LEMMA OnceStarted ==
  ASSUME Types, Once, SubmitKeeps, loop.armed, SubmitStarted
  PROVE  Once'
<1>1. /\ loop' = [loop EXCEPT !.armed = FALSE] /\ UNCHANGED <<typed, reacted>> /\ Started
      /\ watcher' = watcher \/ watcher' = [watcher EXCEPT !.user = <<>>]
  BY DEF SubmitStarted, NothingTyped
<1>2. ~Waiting /\ Taken
  BY <1>1, NotYetStarted DEF Taken, Waiting
<1>3. loop.probe = "none" /\ ~Foreign /\ cold.proven
  BY <1>2 DEF Once, LoopFacts, ForeignFacts
<1>4. /\ ~loop'.armed /\ loop'.proven = loop.proven /\ loop'.probe = loop.probe
      /\ loop'.probes = loop.probes /\ loop'.tried = loop.tried /\ loop'.tries = loop.tries
  <2>1. loop \in Loop
    BY DEF Types, IInv, Typing
  <2> QED BY <1>1, <2>1 DEF Loop
<1>5. ~Waiting' /\ ~Foreign' /\ (Taken' => Taken) /\ (Probed' = Probed) /\ Native' = Native
  BY <1>2, <1>4 DEF SubmitKeeps, Waiting, Foreign, Taken, Probed, Native
<1>6. TypedFacts' /\ DialogKeys' /\ CliFacts'
  BY <1>1, <1>2, KeepTyped, KeepDialog, KeepCli DEF SubmitKeeps, Once
<1>7. LoopFacts'
  BY <1>3, <1>4 DEF SubmitKeeps, Once, LoopFacts
<1>8. Extra' = Extra /\ (Heard' <=> Heard)
  BY <1>1, <1>5 DEF SubmitKeeps, Extra, Base, Coming, Heard, Honoured, Stray
<1>9. ProbeFacts'
  BY <1>1, <1>4, <1>5, <1>8 DEF SubmitKeeps, Once, ProbeFacts, Has
<1>10. BoxIs'
  BY <1>1, <1>2, <1>3, <1>4, KeepBoxIs DEF SubmitKeeps, Once, BoxFacts
<1>11. BoxFacts' /\ ForeignFacts'
  BY <1>5, <1>10 DEF BoxFacts, ForeignFacts
<1>12. TurnFacts'
  <2>1. watcher'.open = watcher.open /\ watcher'.born = watcher.born
    BY <1>1 DEF Types, SessionTypes
  <2> QED BY <1>1, <1>2, <1>4, <1>5, <2>1 DEF SubmitKeeps, Once, TurnFacts
<1>13. MsgFacts'
  <2>1. \A m : InText(m, sent) => Done(m)
    <3>1. submitted # <<>> /\ submitted[Len(submitted)] = <<Pasted>> /\ submitted \in Seq(Prompt)
      BY <1>2 DEF Once, TurnFacts, Types, CliTypes
    <3>2. Len(submitted) \in DOMAIN submitted
      BY <3>1
    <3>3. submitted[Len(submitted)][1].text = sent
      BY <3>1 DEF Pasted
    <3> QED BY <3>2, <3>3 DEF Done
  <2>2. \A m \in 1 .. nextMsg - 1 : InText(m, held) \/ Done(m) \/ Refused(m)
    BY <2>1 DEF Once, MsgFacts
  <2> QED BY <1>4, <1>5, <2>2 DEF SubmitKeeps, Once, MsgFacts, Done, InText, Refused
<1> QED BY <1>6, <1>7, <1>9, <1>11, <1>12, <1>13 DEF Once

(* A probe of the loop.                                                    *)
LEMMA OnceProbe ==
  ASSUME Orderly, Types, Once, SubmitKeeps, loop.armed, UNCHANGED watcher, SubmitProbe
  PROVE  Once'
<1>1. /\ loop.proven = "none" /\ ~Started /\ NewState # "dialog" /\ ~Echoed
      /\ loop.probe \in Maybe /\ loop.probes \in Nat
  BY DEF SubmitProbe, Unproven, Free, Pending, Types, IInv, Typing, Loop, Maybe
<1>2. screen # "dialog" /\ ~Foreign /\ cold.proven /\ cold.probe = "none" /\ BoxIs
  BY <1>1, DialogIs DEF Foreign, Once, LoopFacts, BoxFacts
<1>3. ~(loop.probe = "win32" /\ Lapsed)
  <2> SUFFICES ASSUME loop.probe = "win32", ~reacted, typed = <<>> PROVE FALSE
    BY OrderlyIs DEF Lapsed
  <2>1. win32 /\ Heard
    BY DEF Once, ProbeFacts, Native
  <2> QED BY <2>1 DEF Heard
<1>4. \E via \in Dialect :
        /\ Probing(via) /\ typed = <<>>
        /\ loop' = [loop EXCEPT !.probe = via, !.probes = @ + 1]
        /\ (via = "raw" /\ loop.probe = "none" /\ ~running)
           \/ (via = "win32" /\ loop.probe = "raw" /\ ~reacted)
  <2>1. \/ /\ loop.probe = "none" /\ Quick /\ ~running /\ Probing("raw")
           /\ loop' = [loop EXCEPT !.probe = "raw", !.probes = @ + 1]
        \/ /\ loop.probe = "raw" /\ Lapsed /\ Probing("win32")
           /\ loop' = [loop EXCEPT !.probe = "win32", !.probes = @ + 1]
    BY <1>3, OrderlyIs DEF SubmitProbe
  <2>2. Lapsed => typed = <<>> /\ ~reacted
    BY OrderlyIs DEF Lapsed
  <2>3. "raw" \in Dialect /\ "win32" \in Dialect
    BY DEF Dialect
  <2> QED BY <2>1, <2>2, <2>3, OrderlyIs
<1>5. PICK via \in Dialect :
        /\ Probing(via) /\ typed = <<>>
        /\ loop' = [loop EXCEPT !.probe = via, !.probes = @ + 1]
        /\ (via = "raw" /\ loop.probe = "none" /\ ~running)
           \/ (via = "win32" /\ loop.probe = "raw" /\ ~reacted)
  BY <1>4
<1>6. /\ loop'.armed = loop.armed /\ loop'.tried = loop.tried /\ loop'.tries = loop.tries
      /\ loop'.proven = "none" /\ loop'.probe = via /\ loop'.probes = loop.probes + 1
      /\ via # "none"
  <2>1. loop \in Loop
    BY DEF Types, IInv, Typing
  <2> QED BY <1>1, <1>5, <2>1 DEF Loop, Dialect
<1>7. Waiting
  <2>1. ~bullets
    BY <1>1 DEF Started, TurnStarted
  <2>2. loop.probe = "raw" => Waiting
    BY DEF Once, LoopFacts
  <2> QED BY <1>5, <2>1, <2>2 DEF Waiting
<1> DEFINE k == Key("char", via)
<1>8. /\ typed' = <<k>> /\ Len(typed') = 1 /\ DOMAIN typed' = {1} /\ typed'[1] = k /\ typed' # <<>>
      /\ k \in Input /\ k.key = "char" /\ k.via = via /\ InOrder(typed')
      /\ Coming = 0 /\ Coming' = (IF via = Native THEN 1 ELSE 0)
      /\ Extra' = Extra + Coming' /\ Base' = Base /\ (via = Native => Heard')
  BY <1>5, ProbeTyped DEF SubmitKeeps
<1> HIDE DEF k
<1>9. Extra <= loop.probes
  <2>1. ~Has(typed, "back")
    BY <1>5 DEF Has
  <2>2. CASE loop.probe = "none"
    <3>1. Extra = 0
      BY <1>2, <2>1, <2>2, ProbeAlone DEF Probed
    <3> QED BY <1>1, <3>1
  <2>3. CASE loop.probe # "none"
    BY <1>2, <2>3 DEF BoxIs, Probed
  <2> QED BY <2>2, <2>3
<1>10. via = "win32" => win32
  <2> SUFFICES ASSUME via = "win32", ~win32 PROVE FALSE
    OBVIOUS
  <2>1. loop.probe = Native /\ ~Heard
    BY <1>5 DEF Native, Heard
  <2> QED BY <2>1 DEF Once, ProbeFacts
<1>11. Waiting' /\ ~Foreign' /\ Native' = Native /\ ~Taken' /\ Probed' /\ Pasted' = Pasted
  BY <1>6, <1>7 DEF SubmitKeeps, Waiting, Foreign, Native, Taken, Probed, Pasted
<1>12. TypedFacts'
  BY <1>8 DEF TypedFacts
<1>13. DialogKeys'
  BY <1>2, <1>5, <1>8 DEF SubmitKeeps, Once, DialogKeys, Has
<1>14. CliFacts'
  BY <1>2 DEF SubmitKeeps, Once, CliFacts
<1>15. LoopFacts'
  BY <1>6, <1>11 DEF SubmitKeeps, Once, LoopFacts
<1>16. ProbeFacts'
  BY <1>2, <1>6, <1>8, <1>10, <1>11 DEF SubmitKeeps, ProbeFacts, Native, Dialect, Has
<1>17. BoxIs'
  <2>1. \A i \in DOMAIN box' : box'[i] # Stray => i = 1 /\ box'[1] = Pasted' /\ Waiting'
    BY <1>2, <1>11 DEF SubmitKeeps, BoxIs
  <2>2. Extra' <= loop'.probes
    BY <1>1, <1>6, <1>8, <1>9, BoxSize
  <2>3. ~Has(typed', "back") /\ ~Has(typed', "paste")
    BY <1>8 DEF Has
  <2> QED BY <1>8, <1>11, <2>1, <2>2, <2>3 DEF BoxIs, Stray
<1>18. BoxFacts' /\ ForeignFacts'
  BY <1>11, <1>17 DEF BoxFacts, ForeignFacts
<1>19. TurnFacts'
  BY <1>7, <1>11 DEF SubmitKeeps, Once, TurnFacts
<1>20. MsgFacts'
  BY <1>6, <1>7, <1>11 DEF SubmitKeeps, Once, MsgFacts, Done, InText, Refused
<1> QED BY <1>12, <1>13, <1>14, <1>15, <1>16, <1>18, <1>19, <1>20 DEF Once

(* The probe is answered, or a repaint is taken for its answer.            *)
LEMMA OnceProven ==
  ASSUME Types, Once, SubmitKeeps, loop.armed, UNCHANGED watcher, SubmitProven
  PROVE  Once'
<1>1. /\ loop.proven = "none" /\ ~Started /\ NewState # "dialog" /\ loop.probe \in Dialect
      /\ typed' = Append(typed, Backspaces(loop.probes, loop.probe))
      /\ loop' = [loop EXCEPT !.proven = loop.probe, !.probe = "none", !.probes = 0]
      /\ loop.probes \in Nat
  BY DEF SubmitProven, Unproven, Free, Pending, Echoed, Types, IInv, Typing, Loop
<1>2. /\ screen # "dialog" /\ ~Foreign /\ cold.proven /\ cold.probe = "none" /\ BoxIs /\ Waiting
      /\ Probed /\ (typed = <<>> \/ (Len(typed) = 1 /\ typed[1].key = "char"))
  BY <1>1, DialogIs DEF Foreign, Once, LoopFacts, BoxFacts, ProbeFacts, Probed, Dialect
<1>3. /\ loop'.armed = loop.armed /\ loop'.tried = loop.tried /\ loop'.tries = loop.tries
      /\ loop'.proven = loop.probe /\ loop'.probe = "none"
  <2>1. loop \in Loop
    BY DEF Types, IInv, Typing
  <2> QED BY <1>1, <2>1 DEF Loop
<1> DEFINE b == Backspaces(loop.probes, loop.probe)
<1>4. /\ typed' \in Seq(Input) /\ InOrder(typed') /\ Has(typed', "back")
      /\ ~Has(typed', "paste") /\ ~Has(typed', "enter") /\ ~Has(typed', "digit")
      /\ \A i \in DOMAIN typed' : typed'[i].key = "back" => typed'[i] = b
      /\ b.n = loop.probes /\ b.via = loop.probe /\ b.key = "back"
      /\ Extra' = Extra /\ Base' = Base
  BY <1>1, <1>2, BackTyped DEF SubmitKeeps
<1> HIDE DEF b
<1>5. Waiting' /\ ~Taken' /\ ~Probed' /\ Native' = Native /\ Pasted' = Pasted
      /\ (Foreign' => loop.probe # Native)
  BY <1>2, <1>3 DEF SubmitKeeps, Waiting, Foreign, Taken, Probed, Native, Pasted
<1>6. TypedFacts'
  BY <1>4 DEF TypedFacts, Has
<1>7. DialogKeys'
  BY <1>1, <1>2, <1>4 DEF SubmitKeeps, Once, DialogKeys
<1>8. CliFacts'
  BY <1>2 DEF SubmitKeeps, Once, CliFacts
<1>9. LoopFacts'
  BY <1>3 DEF SubmitKeeps, Once, LoopFacts
<1>10. ProbeFacts'
  BY <1>2, <1>3, <1>4, <1>5 DEF SubmitKeeps, ProbeFacts, Native, Dialect
<1>11. ~Foreign' => BoxIs'
  <2> SUFFICES ASSUME ~Foreign' PROVE BoxIs'
    OBVIOUS
  <2>0. loop.probe = Native
    BY <1>1, <1>3, <1>5 DEF Foreign, Dialect
  <2>1. \A i \in DOMAIN box' : box'[i] # Stray => i = 1 /\ box'[1] = Pasted' /\ Waiting'
    BY <1>2, <1>5 DEF SubmitKeeps, BoxIs
  <2>2. Extra <= loop.probes
    BY <1>2 DEF BoxIs
  <2>3. \A i \in DOMAIN typed' : typed'[i].key = "back" =>
          IF (typed'[i]).via \in {Native', "any"} THEN Extra' <= typed'[i].n ELSE Extra' = 0
    BY <1>4, <1>5, <2>0, <2>2
  <2> QED BY <1>4, <1>5, <2>1, <2>3 DEF BoxIs, Stray, Honoured
<1>12. BoxFacts'
  BY <1>11 DEF BoxFacts
<1>13. ForeignFacts'
  BY <1>4, <1>5 DEF ForeignFacts, Has
<1>14. TurnFacts'
  BY <1>2, <1>5 DEF SubmitKeeps, Once, TurnFacts
<1>15. MsgFacts'
  BY <1>2, <1>3, <1>5 DEF SubmitKeeps, Once, MsgFacts, Done, InText, Refused
<1> QED BY <1>6, <1>7, <1>8, <1>9, <1>10, <1>12, <1>13, <1>14, <1>15 DEF Once

(* The retries: an Enter, and what is pasted again.                        *)
LEMMA RetryIs ==
  ASSUME Orderly, Types, Once, loop.armed, Proven
  PROVE  /\ loop.proven \in Dialect /\ ~Started /\ screen # "dialog" /\ typed = <<>>
         /\ loop.probe = "none" /\ cold.proven /\ cold.probe = "none" /\ ~Probed
         /\ ~Foreign => BoxIs /\ Extra = 0 /\ loop.proven = Native /\ Len(box) = Base
<1>1. /\ loop.proven \in Dialect /\ ~Started /\ screen # "dialog" /\ typed = <<>>
  BY DialogIs, OrderlyIs DEF Proven, Free, Pending, Types, IInv, Typing, Loop
<1>2. loop.probe = "none" /\ cold.proven /\ cold.probe = "none" /\ ~Probed
  BY <1>1 DEF Once, LoopFacts, Probed, Dialect
<1>3. ASSUME ~Foreign PROVE BoxIs /\ Extra = 0 /\ loop.proven = Native /\ Len(box) = Base
  <2>1. Extra = 0 /\ Coming = 0 /\ BoxIs
    BY <1>1, <1>2, <1>3, ProbeAlone DEF Has
  <2>2. loop.proven = Native
    BY <1>1, <1>3 DEF Foreign, Dialect
  <2> QED BY <2>1, <2>2, BoxSize DEF Extra
<1> QED BY <1>1, <1>2, <1>3

LEMMA OnceEnter ==
  ASSUME Orderly, Types, Once, SubmitKeeps, loop.armed, UNCHANGED watcher, SubmitEnter
  PROVE  Once'
<1>1. /\ loop.proven \in Dialect /\ ~Started /\ screen # "dialog" /\ typed = <<>>
      /\ loop.probe = "none" /\ cold.proven /\ cold.probe = "none" /\ ~Probed
      /\ ~Foreign => BoxIs /\ Extra = 0 /\ loop.proven = Native /\ Len(box) = Base
  BY RetryIs DEF SubmitEnter
<1> DEFINE k == Key("enter", loop.proven)
<1>2. k \in Input /\ k.key = "enter" /\ k.via = loop.proven
  BY <1>1, KeyIs
<1> HIDE DEF k
<1>3. typed' = <<k>>
  BY <1>1, <1>2, AppendIs DEF SubmitEnter, k
<1>4. /\ Len(typed') = 1 /\ DOMAIN typed' = {1} /\ typed'[1] = k /\ typed' # <<>> /\ InOrder(typed')
      /\ ~Has(typed', "char") /\ ~Has(typed', "back") /\ ~Has(typed', "paste") /\ ~Has(typed', "digit")
  BY <1>2, <1>3, OrderOne DEF Has
<1>5. /\ loop'.armed = loop.armed /\ loop'.proven = loop.proven /\ loop'.probe = loop.probe
      /\ loop'.probes = loop.probes /\ loop'.tried
  <2>1. loop \in Loop
    BY DEF Types, IInv, Typing
  <2> QED BY <2>1 DEF SubmitEnter, Loop
<1>6. Waiting' = Waiting /\ Taken' = Taken /\ Native' = Native /\ Foreign' = Foreign
      /\ Pasted' = Pasted /\ ~Probed'
  BY <1>1, <1>5 DEF SubmitKeeps, Waiting, Taken, Native, Foreign, Pasted, Probed
<1>7. Extra' = Extra
  BY <1>1, <1>2, <1>4 DEF SubmitKeeps, Extra, Base, Coming, Stray
<1>8. TypedFacts'
  BY <1>2, <1>4 DEF TypedFacts
<1>9. DialogKeys'
  BY <1>1, <1>4 DEF SubmitKeeps, Once, DialogKeys
<1>10. CliFacts'
  BY <1>1 DEF SubmitKeeps, Once, CliFacts
<1>11. LoopFacts'
  BY <1>1, <1>5, <1>6 DEF SubmitKeeps, Once, LoopFacts
<1>12. ProbeFacts'
  BY <1>1, <1>4, <1>5, <1>6 DEF SubmitKeeps, ProbeFacts, Native, Dialect
<1>13. ~Foreign => BoxIs'
  <2> SUFFICES ASSUME ~Foreign PROVE BoxIs'
    OBVIOUS
  <2>1. \A i \in DOMAIN box' : box'[i] # Stray => i = 1 /\ box'[1] = Pasted' /\ Waiting'
    BY <1>1, <1>6 DEF SubmitKeeps, BoxIs
  <2>2. \A i \in DOMAIN typed' : typed'[i].key # "back"
    BY <1>4 DEF Has
  <2> QED BY <1>1, <1>4, <1>6, <1>7, <2>1, <2>2 DEF BoxIs, Stray
<1>14. BoxFacts'
  BY <1>6, <1>13 DEF BoxFacts
<1>15. ForeignFacts'
  <2>1. Foreign => Waiting /\ loop.proven # Native /\ loop.proven # "any"
    BY <1>1 DEF Once, ForeignFacts, Foreign, Dialect
  <2> QED BY <1>2, <1>4, <1>6, <2>1 DEF ForeignFacts, Honoured
<1>16. TurnFacts'
  BY <1>2, <1>4, <1>5, <1>6 DEF SubmitKeeps, Once, TurnFacts
<1>17. MsgFacts'
  BY <1>5, <1>6 DEF SubmitKeeps, Once, MsgFacts, Done, InText, Refused
<1> QED BY <1>8, <1>9, <1>10, <1>11, <1>12, <1>14, <1>15, <1>16, <1>17 DEF Once

LEMMA RepasteIs ==
  ASSUME Types, NEW v \in Dialect, typed = <<>>
  PROVE  LET b == Backspaces(8, v)
             p == Paste(sent, IF v = "raw" THEN "any" ELSE v)
             e == Key("enter", v)
         IN  /\ typed \o <<b>> \o SendTextIn(sent, v) = <<b, p, e>>
             /\ b.key = "back" /\ b.n = 8 /\ b.via = v
             /\ p.key = "paste" /\ p.text = sent /\ e.key = "enter" /\ e.via = v
             /\ InOrder(<<b, p, e>>)
<1> DEFINE w == IF v = "raw" THEN "any" ELSE v
           b == Backspaces(8, v)
           p == Paste(sent, w)
           e == Key("enter", v)
<1>1. b \in Input /\ b.key = "back" /\ b.n = 8 /\ b.via = v
  BY BackIs
<1>2. p \in Input /\ p.key = "paste" /\ p.text = sent
  <2>1. w \in Dialect \cup {"any"}
    OBVIOUS
  <2> HIDE DEF w
  <2> QED BY <2>1, TextsIn, PasteIs
<1>3. e \in Input /\ e.key = "enter" /\ e.via = v
  BY KeyIs
<1>4. SendTextIn(sent, v) = <<p, e>>
  BY DEF SendTextIn
<1> HIDE DEF b, p, e
<1>5. typed \o <<b>> \o <<p, e>> = <<b, p, e>>
  <2>1. typed \o <<b>> = <<b>>
    BY <1>1, ConcatEmptySeq
  <2>2. <<b>> \o <<p, e>> = <<b, p, e>>
    <3>1. /\ <<b>> \in Seq(Input) /\ <<p, e>> \in Seq(Input) /\ <<b, p, e>> \in Seq(Input)
          /\ Len(<<b>>) = 1 /\ Len(<<p, e>>) = 2 /\ Len(<<b, p, e>>) = 3
      BY <1>1, <1>2, <1>3
    <3> DEFINE s == <<b>>
               r == <<p, e>>
               q == <<b, p, e>>
    <3>2. /\ s[1] = b /\ r[1] = p /\ r[2] = e
          /\ q[1] = b /\ q[2] = p /\ q[3] = e
      OBVIOUS
    <3> HIDE DEF s, r, q
    <3>3. /\ s \o r \in Seq(Input) /\ Len(s \o r) = 3
          /\ \A i \in 1 .. 3 : (s \o r)[i] = IF i <= 1 THEN s[i] ELSE r[i - 1]
      BY <3>1, ConcatProperties DEF s, r
    <3>4. \A i \in 1 .. 3 : (s \o r)[i] = q[i]
      BY <3>2, <3>3
    <3>5. q \in Seq(Input) /\ Len(q) = 3
      BY <3>1 DEF q
    <3>6. s \o r = q
      BY <3>3, <3>4, <3>5, SeqEqual
    <3> QED BY <3>6 DEF s, r, q
  <2> QED BY <2>1, <2>2
<1>6. InOrder(<<b, p, e>>)
  BY <1>1, <1>2, <1>3, OrderRepaste
<1> QED BY <1>1, <1>2, <1>3, <1>4, <1>5, <1>6 DEF b, p, e

(* A loop that has pressed two Enters in vain still waits for its turn.    *)
LEMMA RetryWaits ==
  ASSUME Orderly, Types, Once, loop.armed, Proven, loop.tries = 2
  PROVE  Waiting
<1>1. ~Started /\ screen # "dialog" /\ NewState # "dialog"
  BY RetryIs DEF Proven, Free, Pending
<1>2. screen # "ghost" /\ loop.tried
  BY DEF Once, CliFacts, LoopFacts
<1>3. ~bullets /\ NewState = "idle"
  BY <1>1, <1>2 DEF Started, TurnStarted
<1>4. screen \in {"prompt", "spinner"}
  BY <1>1, <1>3 DEF NewState, ScreenState, Types, IInv, Typing
<1>5. ~running
  BY <1>4, OrderlyIs DEF Proven, Free, Spinner, Stale, Once, CliFacts
<1> QED BY <1>3, <1>5 DEF Waiting

LEMMA OnceRepaste ==
  ASSUME Orderly, Types, Once, SubmitKeeps, loop.armed, UNCHANGED watcher, SubmitRepaste
  PROVE  Once'
<1>1. /\ loop.proven \in Dialect /\ ~Started /\ screen # "dialog" /\ typed = <<>>
      /\ loop.probe = "none" /\ cold.proven /\ cold.probe = "none" /\ ~Probed
      /\ ~Foreign => BoxIs /\ Extra = 0 /\ loop.proven = Native /\ Len(box) = Base
  BY RetryIs DEF SubmitRepaste
<1>2. Waiting
  BY RetryWaits DEF SubmitRepaste
<1> DEFINE b == Backspaces(8, loop.proven)
           p == Paste(sent, IF loop.proven = "raw" THEN "any" ELSE loop.proven)
           e == Key("enter", loop.proven)
<1>3. /\ typed' = <<b, p, e>>
      /\ b.key = "back" /\ b.n = 8 /\ b.via = loop.proven
      /\ p.key = "paste" /\ p.text = sent /\ e.key = "enter" /\ e.via = loop.proven
      /\ InOrder(<<b, p, e>>)
  BY <1>1, RepasteIs DEF SubmitRepaste
<1> HIDE DEF b, p, e
<1>4. /\ Len(typed') = 3 /\ DOMAIN typed' = {1, 2, 3} /\ typed' # <<>>
      /\ typed'[1] = b /\ typed'[2] = p /\ typed'[3] = e
  BY <1>3
<1>5. ~Has(typed', "char") /\ Has(typed', "back") /\ Has(typed', "paste") /\ ~Has(typed', "digit")
  BY <1>3, <1>4 DEF Has
<1>6. /\ loop'.armed = loop.armed /\ loop'.proven = loop.proven /\ loop'.probe = loop.probe
      /\ loop'.probes = loop.probes /\ loop'.tries = 0
  <2>1. loop \in Loop
    BY DEF Types, IInv, Typing
  <2> QED BY <2>1 DEF SubmitRepaste, Loop
<1>7. Waiting' /\ ~Taken' /\ Native' = Native /\ Foreign' = Foreign
      /\ Pasted' = Pasted /\ ~Probed'
  BY <1>1, <1>2, <1>6 DEF SubmitKeeps, Waiting, Taken, Native, Foreign, Pasted, Probed
<1>8. Extra' = Extra /\ Base' = Base /\ Base \in {0, 1}
  BY <1>1, <1>3, <1>4 DEF SubmitKeeps, Extra, Base, Coming, Stray
<1>9. TypedFacts'
  BY <1>3, <1>4, <1>7 DEF TypedFacts, SubmitKeeps
<1>10. DialogKeys'
  BY <1>1, <1>5 DEF SubmitKeeps, Once, DialogKeys
<1>11. CliFacts'
  BY <1>1 DEF SubmitKeeps, Once, CliFacts
<1>12. LoopFacts'
  BY <1>1, <1>6, <1>7 DEF SubmitKeeps, Once, LoopFacts
<1>13. ProbeFacts'
  BY <1>1, <1>5, <1>6, <1>7 DEF SubmitKeeps, ProbeFacts, Native, Dialect
<1>14. ~Foreign => BoxIs'
  <2> SUFFICES ASSUME ~Foreign PROVE BoxIs'
    OBVIOUS
  <2>1. \A i \in DOMAIN box' : box'[i] # Stray => i = 1 /\ box'[1] = Pasted' /\ Waiting'
    BY <1>1, <1>7 DEF SubmitKeeps, BoxIs
  <2>2. \A i \in DOMAIN typed' : typed'[i].key = "back" => i = 1 /\ typed'[i] = b
    BY <1>3, <1>4
  <2>3. b.via \in {Native', "any"} /\ Extra' = 0 /\ b.n = 8 /\ Extra' <= 8 /\ Len(box') <= 8
    BY <1>1, <1>3, <1>7, <1>8 DEF SubmitKeeps
  <2>4. \A i \in DOMAIN typed' : typed'[i].key = "back" =>
          IF (typed'[i]).via \in {Native', "any"} THEN Extra' <= typed'[i].n ELSE Extra' = 0
    BY <2>2, <2>3
  <2>5. typed'[1].key = "back" /\ typed'[1].via \in {Native', "any"} /\ Len(box') <= typed'[1].n
    BY <1>3, <1>4, <2>3
  <2> QED BY <1>5, <1>7, <2>1, <2>4, <2>5 DEF BoxIs, Stray, Honoured
<1>15. BoxFacts'
  BY <1>7, <1>14 DEF BoxFacts
<1>16. ForeignFacts'
  <2>1. Foreign => loop.proven # Native /\ loop.proven # "any"
    BY <1>1 DEF Foreign, Dialect
  <2>2. \A i \in DOMAIN typed' : typed'[i].key = "enter" => typed'[i].via = loop.proven
    BY <1>3, <1>4
  <2> QED BY <1>7, <2>1, <2>2 DEF ForeignFacts, Honoured
<1>17. TurnFacts'
  BY <1>2, <1>7 DEF SubmitKeeps, Once, TurnFacts
<1>18. MsgFacts'
  BY <1>2, <1>6, <1>7 DEF SubmitKeeps, Once, MsgFacts, Done, InText, Refused
<1> QED BY <1>9, <1>10, <1>11, <1>12, <1>13, <1>15, <1>16, <1>17, <1>18 DEF Once

LEMMA OnceSubmit ==
  ASSUME Orderly, Types, Once, Submit, ~SubmitGivesUp
  PROVE  Once'
<1>1. ~SubmitTruncated /\ SubmitKeeps
  BY NeverTruncated, OrderlyIs, SubmitFrame DEF SubmitTruncated, Types
<1>2. CASE ~loop.armed
  <2>1. UNCHANGED <<typed, reacted, loop, watcher>>
    BY <1>2 DEF Submit, NothingTyped
  <2> QED BY <1>1, <2>1, OnceCounts
<1>3. CASE loop.armed /\ SubmitStarted
  BY <1>1, <1>3, OnceStarted
<1>4. CASE loop.armed /\ UNCHANGED watcher /\ (SubmitParked \/ SubmitWaits)
  <2>1. UNCHANGED <<typed, reacted>>
    BY <1>4 DEF SubmitParked, SubmitWaits, NothingTyped
  <2>2. /\ loop'.armed = loop.armed /\ loop'.proven = loop.proven /\ loop'.probe = loop.probe
        /\ loop'.probes = loop.probes /\ loop'.tried = loop.tried /\ loop'.tries = loop.tries
    <3>1. loop \in Loop
      BY DEF Types, IInv, Typing
    <3> QED BY <1>4, <3>1 DEF SubmitParked, SubmitWaits, Loop
  <2> QED BY <1>1, <1>4, <2>1, <2>2, OnceCounts
<1>5. CASE loop.armed /\ UNCHANGED watcher /\ (SubmitProbe \/ SubmitProven \/ SubmitRepaste \/ SubmitEnter)
  BY <1>1, <1>5, OnceProbe, OnceProven, OnceRepaste, OnceEnter
<1> QED BY <1>1, <1>2, <1>3, <1>4, <1>5 DEF Submit

-----------------------------------------------------------------------------
(* The CLI reads.  What reading leaves alone, whatever becomes of the box. *)
ReadKeeps ==
  /\ UNCHANGED <<held, sent, loop, cold, carded, answering, state, watcher, win32, bullets,
                 nextMsg, cards, keyed>>
  /\ fate'.refused = fate.refused

CliSame == UNCHANGED <<lined, screen, dialog, running, rowDue, unread, submitted>>

LEMMA ReadTail ==
  ASSUME Types, Once, Read
  PROVE  LET t == typed[1]
         IN  /\ ReadKeeps /\ typed # <<>> /\ 1 \in DOMAIN typed /\ typed' = Tail(typed)
             /\ Head(typed) = t /\ t \in Input /\ screen # "boot" /\ t.key # "esc"
             /\ InOrder(typed) /\ InOrder(typed') /\ ~Has(typed', "char") /\ Coming' = 0
             /\ \A i \in DOMAIN typed' : i \in Nat \ {0} /\ i + 1 \in DOMAIN typed /\ typed'[i] = typed[i + 1]
             /\ \A i \in DOMAIN typed' : typed'[i].key = "back" => t.key = "char" /\ i = 1
             /\ t.key = "enter" => typed' = <<>> \/ typed'[1].key = "paste"
             /\ t.key = "paste" => ~Has(typed', "paste")
             /\ t.key # "paste" /\ typed' # <<>> => typed'[1].key # "enter"
             /\ typed' # <<>> => 1 \in DOMAIN typed'
             /\ Len(typed) = 1 => typed' = <<>>
             /\ \A key : Has(typed', key) => Has(typed, key)
<1>1. ReadKeeps /\ typed # <<>> /\ typed' = Tail(typed) /\ screen # "boot"
  <2>1. fate'.refused = fate.refused
    BY DEF Read, ReadEnter, ReadText, ReadBack, ReadDigit, ReadEsc, Types, FateTypes
  <2> QED BY <2>1 DEF Read, ReadKeeps
<1>2. typed \in Seq(Input) /\ InOrder(typed)
  BY DialogIs DEF Once, TypedFacts
<1>3. 1 \in DOMAIN typed /\ Head(typed) = typed[1] /\ typed[1] \in Input
  BY <1>1, <1>2
<1>4. typed[1].key # "esc"
  BY <1>2, <1>3 DEF InOrder, NoEsc, Has
<1>5. /\ InOrder(typed') /\ ~Has(typed', "char")
      /\ \A i \in DOMAIN typed' : typed'[i].key = "back" => typed[1].key = "char" /\ i = 1
      /\ typed[1].key = "enter" => typed' = <<>> \/ typed'[1].key = "paste"
      /\ typed[1].key = "paste" => ~Has(typed', "paste")
      /\ typed[1].key # "paste" /\ typed' # <<>> => typed'[1].key # "enter"
  BY <1>1, <1>2, OrderTail
<1>6. /\ \A i \in DOMAIN typed' : i \in Nat \ {0} /\ i + 1 \in DOMAIN typed /\ typed'[i] = typed[i + 1]
      /\ Len(typed) = 1 => typed' = <<>>
  BY <1>1, <1>2, TailIs
<1>7. typed' # <<>> => 1 \in DOMAIN typed'
  BY <1>1, <1>2
<1>8. Coming' = 0
  BY <1>5, <1>7 DEF Coming, Has
<1>9. \A key : Has(typed', key) => Has(typed, key)
  BY <1>6 DEF Has
<1> QED BY <1>1, <1>2, <1>3, <1>4, <1>5, <1>6, <1>7, <1>8, <1>9

LEMMA ReadRest ==
  ASSUME Types, Once, Read, CliSame, screen # "dialog",
         Heard => reacted', Probed => Extra' = Extra,
         ~Foreign => BoxIs'
  PROVE  Once'
<1>1. /\ ReadKeeps /\ screen # "boot" /\ InOrder(typed') /\ ~Has(typed', "char")
      /\ \A i \in DOMAIN typed' : i \in Nat \ {0} /\ i + 1 \in DOMAIN typed /\ typed'[i] = typed[i + 1]
      /\ \A key : Has(typed', key) => Has(typed, key)
      /\ typed # <<>> /\ (Len(typed) = 1 => typed' = <<>>)
  BY ReadTail
<1>2. Waiting' = Waiting /\ Taken' = Taken /\ Native' = Native /\ Foreign' = Foreign
      /\ Pasted' = Pasted /\ Probed' = Probed
  BY <1>1 DEF ReadKeeps, CliSame, Waiting, Taken, Native, Foreign, Pasted, Probed
<1>3. TypedFacts'
  BY <1>1, <1>2 DEF ReadKeeps, Once, TypedFacts
<1>4. DialogKeys'
  BY <1>1 DEF ReadKeeps, CliSame, Once, DialogKeys
<1>5. CliFacts'
  BY <1>1 DEF ReadKeeps, CliSame, Once, CliFacts
<1>6. LoopFacts'
  BY <1>1, <1>2 DEF ReadKeeps, CliSame, Once, LoopFacts
<1>7. ProbeFacts'
  <2>1. ~cold.proven => \A i \in DOMAIN typed' : typed'[i].key = "char"
    BY <1>1 DEF Once, ProbeFacts
  <2>2. Probed => typed' = <<>>
    BY <1>1 DEF Once, ProbeFacts
  <2>3. loop.probe = Native \/ cold.probe = Native => reacted'
    BY DEF Once, ProbeFacts
  <2>4. cold.probe = "raw" /\ win32 => Extra' = 0
    BY DEF Once, ProbeFacts, Probed
  <2>5. loop.probe = "win32" \/ cold.probe = "win32" => win32
    BY DEF Once, ProbeFacts
  <2> QED BY <1>1, <1>2, <2>1, <2>2, <2>3, <2>4, <2>5 DEF ReadKeeps, CliSame, ProbeFacts, Heard
<1>8. BoxFacts'
  BY <1>2 DEF BoxFacts
<1>9. ForeignFacts'
  BY <1>1, <1>2 DEF CliSame, Once, ForeignFacts, Honoured
<1>10. TurnFacts'
  BY <1>1, <1>2 DEF ReadKeeps, CliSame, Once, TurnFacts
<1>11. MsgFacts'
  BY <1>1, <1>2 DEF ReadKeeps, CliSame, Once, MsgFacts, Done, InText, Refused
<1> QED BY <1>3, <1>4, <1>5, <1>6, <1>7, <1>8, <1>9, <1>10, <1>11 DEF Once

(* A key in the other dialect is thrown away.                              *)
LEMMA OnceReadLost ==
  ASSUME Types, Once, Read, screen # "dialog", ~Honoured(typed[1]),
         CliSame, UNCHANGED <<box, reacted>>
  PROVE  Once'
<1>1. /\ ReadKeeps /\ InOrder(typed) /\ Coming' = 0 /\ 1 \in DOMAIN typed
      /\ \A i \in DOMAIN typed' : i \in Nat \ {0} /\ i + 1 \in DOMAIN typed /\ typed'[i] = typed[i + 1]
      /\ typed[1].key = "paste" => ~Has(typed', "paste")
      /\ typed[1].key # "paste" /\ typed' # <<>> => typed'[1].key # "enter"
      /\ \A key : Has(typed', key) => Has(typed, key)
      /\ typed' # <<>> => 1 \in DOMAIN typed'
      /\ \A i \in DOMAIN typed' : typed'[i].key = "back" => typed[1].key = "char" /\ i = 1
  BY ReadTail
<1>2. Coming = 0 /\ (Heard => reacted)
  BY DEF Coming, Heard
<1>3. Base' = Base /\ Native' = Native /\ Pasted' = Pasted
      /\ Waiting' = Waiting /\ Probed' = Probed
  BY <1>1 DEF ReadKeeps, CliSame, Base, Stray, Native, Pasted, Waiting, Probed
<1>4. Extra' = Extra
  BY <1>1, <1>2, <1>3 DEF Extra
<1>5. ~Foreign => BoxIs'
  <2> SUFFICES ASSUME BoxIs PROVE BoxIs'
    BY DEF Once, BoxFacts
  <2>1. \A i \in DOMAIN box' : box'[i] # Stray => i = 1 /\ box'[1] = Pasted' /\ Waiting'
    BY <1>3 DEF BoxIs
  <2>2. Probed => Extra <= loop.probes
    BY DEF BoxIs
  <2>3. ~Probed /\ ~Has(typed', "back") => Extra = 0
    <3> SUFFICES ASSUME ~Probed, ~Has(typed', "back"), Extra # 0 PROVE FALSE
      OBVIOUS
    <3>1. PICK i \in DOMAIN typed : typed[i].key = "back"
      BY DEF BoxIs, Has
    <3>2. i = 1 \/ (i = 2 /\ typed[1].key = "char")
      BY <1>1, <3>1 DEF InOrder, BackNext
    <3>3. i # 1
      BY <3>1 DEF BoxIs
    <3>4. 1 \in DOMAIN typed' /\ typed'[1] = typed[2]
      <4>1. typed \in Seq(Input) /\ typed # <<>> /\ typed' = Tail(typed) /\ 2 \in DOMAIN typed
        BY <3>1, <3>2, <3>3, DialogIs, ReadTail
      <4>2. 1 \in DOMAIN typed'
        BY <4>1, TailIs
      <4> QED BY <1>1, <4>2
    <3> QED BY <3>1, <3>2, <3>3, <3>4 DEF Has
  <2>4. \A i \in DOMAIN typed' : typed'[i].key = "back" =>
          IF (typed'[i]).via \in {Native, "any"} THEN Extra <= typed'[i].n ELSE Extra = 0
    BY <1>1 DEF BoxIs, Honoured
  <2>5. Has(typed', "paste") => Base = 0
    BY <1>1 DEF BoxIs
  <2>6. ~(Has(typed', "paste") /\ typed'[1].key = "enter")
    BY <1>1 DEF Has
  <2> QED BY <1>1, <1>3, <1>4, <2>1, <2>2, <2>3, <2>4, <2>5, <2>6 DEF BoxIs, Stray, Honoured,
             ReadKeeps
<1> QED BY <1>2, <1>4, <1>5, ReadRest

(* A probe character goes into the box.                                    *)
LEMMA OnceReadChar ==
  ASSUME Types, Once, Read, screen # "dialog", Honoured(typed[1]), typed[1].key = "char",
         CliSame, box' = Append(box, Stray), reacted'
  PROVE  Once'
<1>1. /\ ReadKeeps /\ InOrder(typed) /\ Coming' = 0 /\ 1 \in DOMAIN typed /\ typed # <<>>
      /\ \A i \in DOMAIN typed' : i \in Nat \ {0} /\ i + 1 \in DOMAIN typed /\ typed'[i] = typed[i + 1]
      /\ typed' # <<>> => typed'[1].key # "enter"
      /\ \A key : Has(typed', key) => Has(typed, key)
      /\ typed' # <<>> => 1 \in DOMAIN typed'
  BY ReadTail
<1>2. Coming = 1
  BY <1>1 DEF Coming
<1>3. /\ Len(box) \in Nat /\ DOMAIN box = 1 .. Len(box) /\ Len(box') = Len(box) + 1
      /\ DOMAIN box' = 1 .. Len(box) + 1 /\ box' # <<>>
      /\ \A i \in DOMAIN box : box'[i] = box[i]
      /\ box'[Len(box) + 1] = Stray
      /\ Len(box) = 0 <=> box = <<>>
  <2>1. Stray \in Chunk /\ box \in Seq(Chunk) /\ (Len(box) = 0 <=> box = <<>>)
    BY BoxSize DEF Chunk, Stray, Text
  <2> HIDE DEF Stray
  <2> QED BY <2>1, AppendProperties
<1>4. Stray' = Stray /\ Native' = Native /\ Pasted' = Pasted /\ Waiting' = Waiting /\ Probed' = Probed
  BY <1>1 DEF ReadKeeps, CliSame, Stray, Native, Pasted, Waiting, Probed
<1>5. Base' = Base
  <2>1. CASE box = <<>>
    BY <1>3, <1>4, <2>1 DEF Base
  <2>2. CASE box # <<>>
    <3>1. 1 \in DOMAIN box
      BY <1>3, <2>2
    <3> QED BY <1>3, <1>4, <2>2, <3>1 DEF Base
  <2> QED BY <2>1, <2>2
<1>6. Extra' = Extra
  BY <1>1, <1>2, <1>3, <1>5, BoxSize DEF Extra
<1>7. ~Foreign => BoxIs'
  <2> SUFFICES ASSUME BoxIs PROVE BoxIs'
    BY DEF Once, BoxFacts
  <2>1. \A i \in DOMAIN box' : box'[i] # Stray => i = 1 /\ box'[1] = Pasted' /\ Waiting'
    <3> SUFFICES ASSUME NEW i \in DOMAIN box', box'[i] # Stray
                 PROVE  i = 1 /\ box'[1] = Pasted /\ Waiting
      BY <1>4
    <3>1. i \in DOMAIN box /\ box[i] # Stray
      BY <1>3
    <3>2. i = 1 /\ box[1] = Pasted /\ Waiting
      BY <3>1 DEF BoxIs
    <3> QED BY <1>3, <3>1, <3>2
  <2>2. Probed => Extra <= loop.probes
    BY DEF BoxIs
  <2>3. ~Probed /\ ~Has(typed', "back") => Extra = 0
    <3> SUFFICES ASSUME ~Probed PROVE Has(typed', "back")
      OBVIOUS
    <3>1. Has(typed, "back")
      BY <1>1 DEF Once, ProbeFacts, Has
    <3>2. PICK i \in DOMAIN typed : typed[i].key = "back"
      BY <3>1 DEF Has
    <3>3. i = 2
      BY <1>1, <3>2 DEF InOrder, BackNext
    <3>4. 1 \in DOMAIN typed' /\ typed'[1] = typed[2]
      <4>1. typed \in Seq(Input) /\ typed # <<>> /\ typed' = Tail(typed) /\ 2 \in DOMAIN typed
        BY <3>2, <3>3, DialogIs, ReadTail
      <4>2. 1 \in DOMAIN typed'
        BY <4>1, TailIs
      <4> QED BY <1>1, <4>2
    <3> QED BY <3>2, <3>3, <3>4 DEF Has
  <2>4. \A i \in DOMAIN typed' : typed'[i].key = "back" =>
          IF (typed'[i]).via \in {Native, "any"} THEN Extra <= typed'[i].n ELSE Extra = 0
    BY <1>1 DEF BoxIs, Honoured
  <2>5. Has(typed', "paste") => Base = 0
    BY <1>1 DEF BoxIs
  <2>6. ~(Has(typed', "paste") /\ typed'[1].key = "enter")
    BY <1>1 DEF Has
  <2> QED BY <1>1, <1>4, <1>5, <1>6, <2>1, <2>2, <2>3, <2>4, <2>5, <2>6 DEF BoxIs, Honoured,
             ReadKeeps
<1> QED BY <1>6, <1>7, ReadRest

(* Only the character of a probe is typed while its answer is waited for.  *)
LEMMA NoProbeBefore ==
  ASSUME Types, Once, Read, screen # "dialog", typed[1].key # "char"
  PROVE  ~Probed
BY ReadTail DEF Once, ProbeFacts

(* The paste goes into an empty box.                                       *)
LEMMA OnceReadPaste ==
  ASSUME Types, Once, Read, screen # "dialog", typed[1].key = "paste",
         CliSame, box' = Append(box, [text |-> typed[1].text, cut |-> FALSE]), reacted'
  PROVE  Once'
<1>1. /\ ReadKeeps /\ InOrder(typed) /\ Coming' = 0 /\ 1 \in DOMAIN typed /\ typed # <<>>
      /\ ~Has(typed', "paste") /\ \A i \in DOMAIN typed' : typed'[i].key # "back"
  BY ReadTail
<1>2. typed[1].text = sent /\ Waiting /\ sent # <<>> /\ ~Probed
  BY <1>1, NoProbeBefore DEF Once, TypedFacts, LoopFacts, Waiting
<1>3. box' = Append(box, Pasted) /\ Pasted # Stray
  BY <1>2 DEF Pasted, Stray
<1>4. Stray' = Stray /\ Native' = Native /\ Pasted' = Pasted /\ Waiting' = Waiting /\ Probed' = Probed
  BY <1>1 DEF ReadKeeps, CliSame, Stray, Native, Pasted, Waiting, Probed
<1>5. ~Foreign => BoxIs'
  <2> SUFFICES ASSUME BoxIs PROVE BoxIs'
    BY DEF Once, BoxFacts
  <2>1. ~Has(typed, "back")
    BY <1>1 DEF InOrder, BackNext, Has
  <2>2. Extra = 0 /\ Coming = 0
    BY <1>2, <2>1 DEF BoxIs, Coming
  <2>3. Base = 0
    BY <1>1 DEF BoxIs, Has
  <2>4. box = <<>>
    BY <2>2, <2>3, BoxSize DEF Extra
  <2>5. box' = <<Pasted>> /\ Len(box') = 1 /\ DOMAIN box' = {1} /\ box'[1] = Pasted /\ box' # <<>>
    BY <1>3, <2>4
  <2>6. Base' = 1
    BY <1>3, <1>4, <2>5 DEF Base
  <2>7. Extra' = 0
    BY <1>1, <2>5, <2>6 DEF Extra
  <2>8. ~Has(typed', "back")
    BY <1>1 DEF Has
  <2> QED BY <1>1, <1>2, <1>4, <2>5, <2>7, <2>8 DEF BoxIs
<1> QED BY <1>2, <1>5, ReadRest

(* What erases the probe characters leaves the text.                       *)
LEMMA BackLeaves ==
  ASSUME NEW s \in Seq(Chunk), NEW n \in Nat, NEW k \in {0, 1}, Len(s) - k <= n
  PROVE  LET left == IF n >= Len(s) THEN <<>> ELSE SubSeq(s, 1, Len(s) - n)
         IN  /\ left = <<>> \/ (k = 1 /\ Len(left) = 1 /\ DOMAIN left = {1} /\ left[1] = s[1])
             /\ Len(s) <= n => left = <<>>
<1>1. Len(s) \in Nat
  OBVIOUS
<1>2. CASE n >= Len(s)
  BY <1>2
<1>3. CASE ~(n >= Len(s))
  <2>1. Len(s) - n = 1 /\ k = 1 /\ 1 \in 1 .. Len(s) /\ ~(Len(s) <= n)
    BY <1>1, <1>3
  <2>2. \A i \in 1 .. 1 : s[i] \in Chunk
    BY <2>1
  <2>3. Len(SubSeq(s, 1, 1)) = 1 /\ SubSeq(s, 1, 1) \in Seq(Chunk) /\ SubSeq(s, 1, 1)[1] = s[1]
    <3>1. /\ SubSeq(s, 1, 1) \in Seq(Chunk)
          /\ Len(SubSeq(s, 1, 1)) = IF 1 <= 1 THEN 1 - 1 + 1 ELSE 0
          /\ \A i \in 1 .. 1 - 1 + 1 : SubSeq(s, 1, 1)[i] = s[1 + i - 1]
      BY <2>2, SubSeqProperties
    <3> QED BY <3>1
  <2>4. DOMAIN SubSeq(s, 1, 1) = {1}
    BY <2>3
  <2>5. SubSeq(s, 1, Len(s) - n) = SubSeq(s, 1, 1)
    BY <2>1
  <2> QED BY <1>3, <2>1, <2>3, <2>4, <2>5
<1> QED BY <1>2, <1>3

LEMMA OnceReadErased ==
  ASSUME Types, Once, Read, screen # "dialog", typed[1].key = "back", Honoured(typed[1]),
         CliSame, reacted',
         ~Foreign => /\ box' = <<>> \/ (Base = 1 /\ Len(box') = 1 /\ DOMAIN box' = {1} /\ box'[1] = box[1])
                     /\ Len(box) <= typed[1].n => box' = <<>>
  PROVE  Once'
<1> DEFINE n == typed[1].n
<1>1. /\ ReadKeeps /\ InOrder(typed) /\ Coming' = 0 /\ 1 \in DOMAIN typed /\ typed # <<>>
      /\ \A i \in DOMAIN typed' : typed'[i].key # "back"
      /\ typed' # <<>> => typed'[1].key # "enter" /\ 1 \in DOMAIN typed'
      /\ \A key : Has(typed', key) => Has(typed, key)
      /\ n \in Nat
  BY ReadTail DEF Input
<1>2. ~Probed
  BY NoProbeBefore
<1>3. Stray' = Stray /\ Native' = Native /\ Pasted' = Pasted /\ Waiting' = Waiting /\ Probed' = Probed
  BY <1>1 DEF ReadKeeps, CliSame, Stray, Native, Pasted, Waiting, Probed
<1>4. ~Foreign => BoxIs'
  <2> SUFFICES ASSUME BoxIs, ~Foreign PROVE BoxIs'
    BY DEF Once, BoxFacts
  <2>3. /\ box' = <<>> \/ (Base = 1 /\ Len(box') = 1 /\ DOMAIN box' = {1} /\ box'[1] = box[1])
        /\ Len(box) <= n => box' = <<>>
    OBVIOUS
  <2>4. Base = 1 => box # <<>> /\ box[1] # Stray
    BY DEF Base
  <2>5. Extra' = 0 /\ (box' = <<>> => Base' = 0)
    <3>1. CASE box' = <<>>
      <4>1. Len(box') = 0
        BY <3>1
      <4>2. Base' = 0
        BY <3>1 DEF Base
      <4> QED BY <1>1, <4>1, <4>2 DEF Extra
    <3>2. CASE Base = 1 /\ Len(box') = 1 /\ DOMAIN box' = {1} /\ box'[1] = box[1]
      <4>1. box' # <<>>
        <5>1. DOMAIN <<>> # {1}
          OBVIOUS
        <5> QED BY <3>2, <5>1
      <4>2. Base' = 1
        BY <1>3, <2>4, <3>2, <4>1 DEF Base
      <4> QED BY <1>1, <3>2, <4>1, <4>2 DEF Extra
    <3> QED BY <2>3, <3>1, <3>2
  <2>6. \A i \in DOMAIN box' : box'[i] # Stray => i = 1 /\ box'[1] = Pasted' /\ Waiting'
    <3>1. CASE box' = <<>>
      <4>1. DOMAIN box' = {}
        BY <3>1
      <4> QED BY <4>1
    <3>2. CASE Base = 1 /\ Len(box') = 1 /\ DOMAIN box' = {1} /\ box'[1] = box[1]
      <4>1. 1 \in DOMAIN box
        BY <2>4, <3>2, BoxSize
      <4>2. box[1] = Pasted /\ Waiting
        BY <2>4, <3>2, <4>1 DEF BoxIs
      <4> QED BY <1>3, <3>2, <4>2
    <3> QED BY <2>3, <3>1, <3>2
  <2>7. Has(typed', "paste") => Base' = 0
    <3> SUFFICES ASSUME Has(typed', "paste") PROVE Base' = 0
      OBVIOUS
    <3>1. Has(typed, "paste")
      BY <1>1
    <3>2. Base = 0 \/ Len(box) <= n
      BY <3>1 DEF BoxIs
    <3>3. box' = <<>>
      BY <2>3, <3>2
    <3> QED BY <2>5, <3>3
  <2>8. ~Has(typed', "back") /\ ~(Has(typed', "paste") /\ typed'[1].key = "enter")
    BY <1>1 DEF Has
  <2> QED BY <1>1, <1>2, <1>3, <2>5, <2>6, <2>7, <2>8 DEF BoxIs
<1> QED BY <1>2, <1>4, ReadRest

LEMMA OnceReadBack ==
  ASSUME Types, Once, Read, screen # "dialog", typed[1].key = "back", Honoured(typed[1]),
         CliSame, reacted',
         box' = IF typed[1].n >= Len(box) THEN <<>> ELSE SubSeq(box, 1, Len(box) - typed[1].n)
  PROVE  Once'
<1> DEFINE n == typed[1].n
<1>1. box \in Seq(Chunk) /\ Base \in {0, 1} /\ n \in Nat /\ 1 \in DOMAIN typed
  BY BoxSize, ReadTail DEF Input
<1>2. ASSUME ~Foreign PROVE Len(box) - Base <= n
  <2>1. Extra <= n /\ Coming = 0
    BY <1>1, <1>2 DEF Once, BoxFacts, BoxIs, Coming
  <2> QED BY <2>1, BoxSize DEF Extra
<1> DEFINE left == IF n >= Len(box) THEN <<>> ELSE SubSeq(box, 1, Len(box) - n)
<1>3. box' = left
  OBVIOUS
<1>4. ASSUME ~Foreign
      PROVE  /\ left = <<>> \/ (Base = 1 /\ Len(left) = 1 /\ DOMAIN left = {1} /\ left[1] = box[1])
             /\ Len(box) <= n => left = <<>>
  <2>1. Len(box) - Base <= n
    BY <1>2, <1>4
  <2> HIDE DEF n
  <2> QED BY <1>1, <2>1, BackLeaves
<1> HIDE DEF left
<1> QED BY <1>3, <1>4, OnceReadErased

(* An Enter that is honoured at the prompt finds the box empty, or with    *)
(* the text of the loop and nothing else in it.                            *)
LEMMA EnterFinds ==
  ASSUME Types, Once, Read, screen # "dialog", typed[1].key = "enter", Honoured(typed[1])
  PROVE  /\ ~Foreign /\ BoxIs /\ ~Probed /\ Extra = 0 /\ Coming = 0
         /\ Has(typed, "paste") => box = <<>>
         /\ box # <<>> => box = <<Pasted>> /\ Waiting /\ typed' = <<>> /\ cold.proven /\ held = <<>>
<1>1. /\ 1 \in DOMAIN typed /\ InOrder(typed)
      /\ typed' = <<>> \/ typed'[1].key = "paste"
      /\ typed' # <<>> => 1 \in DOMAIN typed'
      /\ \A key : Has(typed', key) => Has(typed, key)
  BY ReadTail
<1>2. ~Foreign /\ BoxIs
  BY <1>1 DEF Once, ForeignFacts, BoxFacts
<1>3. ~Probed
  BY NoProbeBefore
<1>4. ~Has(typed, "back")
  BY <1>1 DEF InOrder, BackNext, Has
<1>5. Extra = 0 /\ Coming = 0
  BY <1>2, <1>3, <1>4 DEF BoxIs, Coming
<1>6. Has(typed, "paste") => box = <<>>
  BY <1>2 DEF BoxIs
<1>7. ASSUME box # <<>>
      PROVE  box = <<Pasted>> /\ Waiting /\ typed' = <<>> /\ cold.proven /\ held = <<>>
  <2>1. Len(box) = Base /\ Base = 1 /\ Len(box) = 1 /\ box \in Seq(Chunk) /\ 1 \in DOMAIN box
    <3>1. Len(box) - Base = 0
      BY <1>5, BoxSize DEF Extra
    <3> QED BY <1>7, <3>1, BoxSize
  <2>2. box[1] # Stray
    BY <2>1 DEF Base
  <2>3. box[1] = Pasted /\ Waiting
    BY <1>2, <2>1, <2>2 DEF BoxIs
  <2>4. box = <<box[1]>>
    BY <2>1
  <2>5. typed' = <<>>
    BY <1>1, <1>6, <1>7 DEF Has
  <2>6. cold.proven /\ held = <<>>
    BY <2>3 DEF Once, LoopFacts, Waiting
  <2> QED BY <2>3, <2>4, <2>5, <2>6
<1> QED BY <1>2, <1>3, <1>5, <1>6, <1>7

LEMMA OnceReadIdle ==
  ASSUME Types, Once, Read, screen # "dialog", typed[1].key = "enter", Honoured(typed[1]),
         CliSame, UNCHANGED box, reacted'
  PROVE  Once'
<1>1. /\ ReadKeeps /\ 1 \in DOMAIN typed /\ Coming' = 0
      /\ typed' = <<>> \/ typed'[1].key = "paste"
      /\ \A key : Has(typed', key) => Has(typed, key)
      /\ \A i \in DOMAIN typed' : typed'[i].key # "back"
      /\ typed' # <<>> => 1 \in DOMAIN typed'
  BY ReadTail
<1>2. /\ BoxIs /\ ~Probed /\ Extra = 0 /\ Coming = 0
      /\ Has(typed, "paste") => box = <<>>
  BY EnterFinds
<1>3. Stray' = Stray /\ Native' = Native /\ Pasted' = Pasted /\ Waiting' = Waiting /\ Probed' = Probed
  BY <1>1 DEF ReadKeeps, CliSame, Stray, Native, Pasted, Waiting, Probed
<1>4. Base' = Base /\ Extra' = 0
  BY <1>1, <1>2, <1>3 DEF Base, Extra
<1>5. \A i \in DOMAIN box' : box'[i] # Stray => i = 1 /\ box'[1] = Pasted' /\ Waiting'
  BY <1>2, <1>3 DEF BoxIs
<1>6. Has(typed', "paste") => Base = 0 /\ box = <<>>
  BY <1>1, <1>2 DEF Base
<1>7. BoxIs'
  BY <1>1, <1>2, <1>3, <1>4, <1>5, <1>6 DEF BoxIs, Has
<1> QED BY <1>2, <1>7, ReadRest

(* The prompt is taken up.                                                 *)
LEMMA OnceReadTake ==
  ASSUME Types, Once, Read, screen # "dialog", typed[1].key = "enter", Honoured(typed[1]),
         box # <<>>, box' = <<>>, Take(box, unread), UNCHANGED <<lined, dialog>>, reacted'
  PROVE  Once'
<1>1. ReadKeeps /\ typed' = <<>>
  BY EnterFinds, ReadTail
<1>2. ~Foreign /\ ~Probed /\ box = <<Pasted>> /\ Waiting /\ cold.proven /\ held = <<>>
  BY EnterFinds
<1>3. running' = TRUE /\ screen' \in {"working", "spinner"} /\ submitted' = Append(submitted, box)
  BY DEF Take
<1>4. loop.armed /\ sent # <<>> /\ loop'.armed
  BY <1>1, <1>2 DEF Once, LoopFacts, Waiting, ReadKeeps
<1>5. ~Waiting' /\ ~Foreign' /\ ~Probed' /\ Pasted' = Pasted
  BY <1>1, <1>2, <1>3 DEF ReadKeeps, Waiting, Foreign, Native, Probed, Pasted
<1>6. \A key : ~Has(typed', key)
  BY <1>1 DEF Has
<1>7. TypedFacts'
  BY <1>1 DEF TypedFacts, InOrder, NoEsc, CharFirst, BackNext, EnterAfter, EnterLast, OnePaste, Has
<1>8. DialogKeys'
  BY <1>1, <1>3, <1>6 DEF ReadKeeps, Once, DialogKeys
<1>9. CliFacts'
  BY <1>2, <1>3 DEF Once, CliFacts
<1>10. LoopFacts'
  BY <1>1, <1>2, <1>5 DEF ReadKeeps, Once, LoopFacts, Probed
<1>11. ProbeFacts'
  <2>1. loop'.probe = "none" /\ cold'.probe = "none"
    BY <1>1, <1>2 DEF ReadKeeps, Probed
  <2> QED BY <1>1, <1>5, <1>6, <2>1 DEF ProbeFacts, Native, Dialect
<1>12. BoxFacts'
  <2>1. Base' = 0 /\ Coming' = 0 /\ Len(box') = 0 /\ DOMAIN box' = {} /\ DOMAIN typed' = {}
    BY <1>1 DEF Base, Coming
  <2>2. Extra' = 0
    BY <2>1 DEF Extra
  <2> QED BY <1>5, <1>6, <2>1, <2>2 DEF BoxFacts, BoxIs
<1>13. ForeignFacts'
  BY <1>5 DEF ForeignFacts
<1>14. /\ submitted \in Seq(Prompt) /\ Len(submitted) \in Nat /\ DOMAIN submitted = 1 .. Len(submitted)
       /\ Len(submitted') = Len(submitted) + 1 /\ DOMAIN submitted' = 1 .. Len(submitted) + 1
       /\ \A i \in DOMAIN submitted : submitted'[i] = submitted[i]
       /\ submitted'[Len(submitted) + 1] = <<Pasted>> /\ submitted' # <<>>
  <2>1. submitted \in Seq(Prompt) /\ box \in Prompt
    BY DEF Types, CliTypes
  <2>2. submitted' \in Seq(Prompt)
    BY <1>3, <2>1
  <2> QED BY <1>2, <1>3, <2>1, <2>2, AppendProperties
<1>15. <<Pasted>>[1].text = sent /\ Len(<<Pasted>>) = 1
  BY DEF Pasted
<1>16. TurnFacts'
  <2>1. \A i \in DOMAIN submitted' : i \in DOMAIN submitted \/ i = Len(submitted) + 1
    BY <1>14
  <2>2. \A i \in DOMAIN submitted' : Len(submitted'[i]) = 1 /\ submitted'[i][1].text # <<>>
    BY <1>4, <1>14, <1>15, <2>1 DEF Once, TurnFacts
  <2>3. submitted'[Len(submitted')] = <<Pasted'>>
    BY <1>5, <1>14
  <2>4. DOMAIN typed' = {}
    BY <1>1
  <2> QED BY <1>5, <1>14, <2>2, <2>3, <2>4 DEF TurnFacts
<1>17. MsgFacts'
  <2>1. \A i \in DOMAIN submitted' :
          (i \in DOMAIN submitted /\ submitted'[i] = submitted[i])
          \/ (i = Len(submitted) + 1 /\ submitted'[i][1].text = sent)
    BY <1>14, <1>15
  <2>2. \A m : Done(m)' <=> Done(m) \/ InText(m, sent)
    <3>1. \A m : Done(m)' => Done(m) \/ InText(m, sent)
      BY <2>1 DEF Done, InText
    <3>2. \A m : Done(m) => Done(m)'
      <4>1. \A i \in DOMAIN submitted : i \in DOMAIN submitted'
        BY <1>14
      <4> QED BY <1>14, <4>1 DEF Done, InText
    <3>3. \A m : InText(m, sent) => Done(m)'
      <4>1. Len(submitted) + 1 \in DOMAIN submitted' /\ submitted'[Len(submitted) + 1][1].text = sent
        BY <1>14, <1>15
      <4> QED BY <4>1 DEF Done, InText
    <3> QED BY <3>1, <3>2, <3>3
  <2>3. \A m \in Msg : InText(m, sent) => m < nextMsg /\ ~Done(m)
    BY <1>2 DEF Once, MsgFacts
  <2>4. \A m \in Msg : Done(m) => m < nextMsg
    BY DEF Once, MsgFacts
  <2>5. \A m : ~InText(m, held')
    BY <1>1, <1>2 DEF ReadKeeps, InText
  <2>6. \A m \in 1 .. nextMsg - 1 : (loop.armed /\ InText(m, sent)) \/ Done(m) \/ Refused(m)
    BY <1>2 DEF Once, MsgFacts, InText
  <2>7. ASSUME NEW i \in DOMAIN submitted', NEW j \in DOMAIN submitted', NEW m \in Msg,
               InText(m, submitted'[i][1].text), InText(m, submitted'[j][1].text)
        PROVE  i = j
    <3>1. CASE i \in DOMAIN submitted /\ j \in DOMAIN submitted
      BY <1>14, <2>7, <3>1 DEF Once, MsgFacts
    <3>2. CASE i = Len(submitted) + 1 /\ j = Len(submitted) + 1
      BY <3>2
    <3>3. CASE i \in DOMAIN submitted /\ submitted'[j][1].text = sent
      <4>1. Done(m)
        BY <1>14, <2>7, <3>3 DEF Done
      <4> QED BY <2>3, <2>7, <3>3, <4>1
    <3>4. CASE j \in DOMAIN submitted /\ submitted'[i][1].text = sent
      <4>1. Done(m)
        BY <1>14, <2>7, <3>4 DEF Done
      <4> QED BY <2>3, <2>7, <3>4, <4>1
    <3> QED BY <2>1, <3>1, <3>2, <3>3, <3>4
  <2>8. nextMsg' = nextMsg /\ sent' = sent
    BY <1>1 DEF ReadKeeps
  <2>9. \A m : InText(m, sent') <=> InText(m, sent)
    BY <2>8 DEF InText
  <2>10. \A i, j \in DOMAIN submitted' : \A m \in Msg :
           (\E k \in DOMAIN (submitted'[i][1].text) : (submitted'[i][1].text)[k] = m)
           /\ (\E k \in DOMAIN (submitted'[j][1].text) : (submitted'[j][1].text)[k] = m) => i = j
    BY <2>7 DEF InText
  <2>11. \A m : Refused(m)' <=> Refused(m)
    BY <1>1 DEF ReadKeeps, Refused, InText
  <2> QED BY <1>5, <2>2, <2>3, <2>4, <2>5, <2>6, <2>8, <2>9, <2>10, <2>11 DEF MsgFacts, InText
<1> QED BY <1>7, <1>8, <1>9, <1>10, <1>11, <1>12, <1>13, <1>16, <1>17 DEF Once

(* An answer is read in a dialog.                                          *)
LEMMA OnceReadAnswer ==
  ASSUME Types, Once, Read, screen = "dialog",
         UNCHANGED <<box, lined, running, rowDue, unread, submitted, dialog>>,
         screen' \in {screen, IF running THEN "working" ELSE "prompt"},
         reacted => reacted'
  PROVE  Once'
<1>1. ReadKeeps /\ typed # <<>> /\ (Len(typed) = 1 => typed' = <<>>) /\ 1 \in DOMAIN typed
  BY ReadTail
<1>2. /\ Len(typed) = 1 /\ typed[1].key \in {"digit", "enter"} /\ DOMAIN typed = {1}
      /\ typed' = <<>> /\ DOMAIN typed' = {}
  <2>1. Len(typed) = 1 /\ typed[1].key \in {"digit", "enter"}
    BY <1>1 DEF Once, DialogKeys
  <2> QED BY <1>1, <2>1, DialogIs
<1>3. /\ \A key : ~Has(typed', key)
      /\ ~Has(typed, "paste") /\ ~Has(typed, "back") /\ ~Has(typed, "char")
  BY <1>2 DEF Has
<1>4. Waiting' = Waiting /\ Taken' = Taken /\ Native' = Native /\ Foreign' = Foreign
      /\ Pasted' = Pasted /\ Probed' = Probed
  BY <1>1 DEF ReadKeeps, Waiting, Taken, Native, Foreign, Pasted, Probed
<1>5. Extra' = Extra /\ (Heard => Heard')
  <2>1. Coming = 0 /\ Coming' = 0 /\ Base' = Base /\ (Heard => reacted)
    BY <1>2 DEF Coming, Base, Stray, Heard
  <2>2. Extra' = Extra
    BY <2>1 DEF Extra
  <2>4. Heard => Heard'
    BY <2>1 DEF Heard
  <2> QED BY <2>2, <2>4
<1>6. TypedFacts'
  BY <1>2 DEF TypedFacts, InOrder, NoEsc, CharFirst, BackNext, EnterAfter, EnterLast, OnePaste, Has
<1>7. DialogKeys'
  BY <1>1, <1>2, <1>3 DEF ReadKeeps, Once, DialogKeys
<1>8. CliFacts'
  <2>1. (screen' = "dialog" \/ screen' = "working" \/ screen' = "prompt")
        /\ (screen' = "working" => running) /\ (screen' = "prompt" => ~running)
    OBVIOUS
  <2> QED BY <1>1, <2>1 DEF ReadKeeps, Once, CliFacts
<1>9. LoopFacts'
  BY <1>1, <1>4 DEF ReadKeeps, Once, LoopFacts
<1>10. ProbeFacts'
  BY <1>1, <1>2, <1>3, <1>4, <1>5 DEF ReadKeeps, Once, ProbeFacts
<1>11. BoxIs => BoxIs'
  BY <1>1, <1>2, <1>3, <1>4, <1>5 DEF ReadKeeps, BoxIs, Stray
<1>12. BoxFacts' /\ ForeignFacts'
  BY <1>2, <1>4, <1>11 DEF Once, BoxFacts, ForeignFacts
<1>13. TurnFacts'
  BY <1>1, <1>2, <1>4 DEF ReadKeeps, Once, TurnFacts
<1>14. MsgFacts'
  BY <1>1, <1>4 DEF ReadKeeps, Once, MsgFacts, Done, InText, Refused
<1> QED BY <1>6, <1>7, <1>8, <1>9, <1>10, <1>12, <1>13, <1>14 DEF Once

LEMMA OnceRead ==
  ASSUME Orderly, Types, Once, Read
  PROVE  Once'
<1> DEFINE t == typed[1]
<1>1. /\ Head(typed) = t /\ t \in Input /\ t.key # "esc" /\ 1 \in DOMAIN typed
  BY ReadTail
<1>2. ~Can("chained") /\ ~Can("cut") /\ ~Can("ghost") /\ ~Can("plain")
  BY OrderlyIs
<1>3. CASE ~Honoured(t)
  <2>1. CliSame /\ UNCHANGED <<box, reacted>>
    BY <1>1, <1>3 DEF Read, CliSame
  <2>2. CASE screen = "dialog"
    BY <2>1, <2>2, OnceReadAnswer DEF CliSame
  <2> QED BY <1>3, <2>1, <2>2, OnceReadLost
<1>4. CASE Honoured(t)
  <2>0. reacted' = TRUE /\ (ReadEnter(t) \/ ReadText(t) \/ ReadBack(t) \/ ReadDigit(t))
    BY <1>1, <1>4 DEF Read, ReadEsc
  <2>1. CASE screen = "dialog"
    <3>1. t.key \in {"digit", "enter"}
      BY <1>1, <2>1, ReadTail DEF Once, DialogKeys
    <3>2. ReadEnter(t) \/ ReadDigit(t)
      BY <2>0, <2>1, <3>1 DEF ReadText, ReadBack
    <3>3. /\ UNCHANGED <<box, lined, running, rowDue, unread, submitted, dialog>>
          /\ screen' \in {screen, IF running THEN "working" ELSE "prompt"}
      BY <1>2, <2>1, <3>2 DEF ReadEnter, ReadDigit, CloseDialog, Behind
    <3> QED BY <2>0, <2>1, <3>3, OnceReadAnswer
  <2>2. CASE screen # "dialog" /\ ReadEnter(t)
    <3>1. CASE CliSame /\ UNCHANGED box
      BY <1>4, <2>0, <2>2, <3>1, OnceReadIdle DEF ReadEnter
    <3>2. CASE box # <<>> /\ box' = <<>> /\ Take(box, unread) /\ UNCHANGED <<lined, dialog>>
      BY <1>4, <2>0, <2>2, <3>2, OnceReadTake DEF ReadEnter
    <3>3. t.key = "enter"
      BY <2>2 DEF ReadEnter
    <3>4. box # <<>> => ~running
      BY <1>4, <2>2, <3>3, EnterFinds DEF Waiting
    <3> QED BY <2>2, <3>1, <3>2, <3>4 DEF ReadEnter, CliSame
  <2>3. CASE screen # "dialog" /\ ReadText(t)
    <3>1. t.key # "digit"
      BY <1>1, <2>3 DEF Once, DialogKeys, Has
    <3>2. CliSame
      BY <2>3 DEF ReadText, CliSame
    <3>3. CASE t.key = "char"
      BY <1>4, <2>0, <2>3, <3>2, <3>3, OnceReadChar DEF ReadText
    <3>4. CASE t.key = "paste"
      BY <1>2, <1>4, <2>0, <2>3, <3>2, <3>4, OnceReadPaste DEF ReadText
    <3> QED BY <2>3, <3>1, <3>3, <3>4 DEF ReadText
  <2>4. CASE screen # "dialog" /\ ReadBack(t)
    <3>1. CliSame
      BY <2>4 DEF ReadBack, CliSame
    <3> QED BY <1>2, <1>4, <2>0, <2>4, <3>1, OnceReadBack DEF ReadBack, Erased
  <2> QED BY <2>0, <2>1, <2>2, <2>3, <2>4 DEF ReadDigit
<1> QED BY <1>3, <1>4

-----------------------------------------------------------------------------
(* The invariant holds.                                                    *)
LEMMA OnceInit ==
  ASSUME Init
  PROVE  Once
<1>1. /\ held = <<>> /\ sent = <<>> /\ loop = Disarmed
      /\ cold = [proven |-> FALSE, probe |-> "none"]
      /\ carded = FALSE /\ answering = FALSE /\ state = "starting"
      /\ typed = <<>> /\ box = <<>> /\ lined = <<>>
      /\ screen = "boot" /\ bullets = FALSE /\ dialog = 0
      /\ running = FALSE /\ rowDue = <<>> /\ unread = <<>>
      /\ nextMsg = 1 /\ submitted = <<>> /\ cards = {} /\ keyed = 0
  BY DEF Init
<1>2. /\ ~loop.armed /\ loop.probe = "none" /\ loop.tries = 0 /\ loop.proven = "none"
      /\ cold.probe = "none" /\ ~cold.proven
  BY <1>1 DEF Disarmed
<1>3. ~Waiting /\ ~Taken /\ ~Foreign /\ ~Probed /\ \A key : ~Has(typed, key)
  BY <1>1, <1>2 DEF Waiting, Taken, Foreign, Probed, Has
<1>4. Base = 0 /\ Coming = 0 /\ Len(box) = 0 /\ DOMAIN box = {} /\ DOMAIN typed = {}
      /\ DOMAIN submitted = {} /\ DOMAIN held = {}
  BY <1>1 DEF Base, Coming
<1>5. Extra = 0
  BY <1>4 DEF Extra
<1>6. TypedFacts
  BY <1>4 DEF TypedFacts, InOrder, NoEsc, CharFirst, BackNext, EnterAfter, EnterLast, OnePaste, Has
<1>7. DialogKeys /\ CliFacts /\ LoopFacts
  BY <1>1, <1>2, <1>3 DEF DialogKeys, CliFacts, LoopFacts
<1>8. ProbeFacts
  BY <1>1, <1>2, <1>3, <1>4 DEF ProbeFacts, Native
<1>9. BoxFacts /\ ForeignFacts
  BY <1>3, <1>4, <1>5 DEF BoxFacts, BoxIs, ForeignFacts
<1>10. TurnFacts
  BY <1>3, <1>4 DEF TurnFacts
<1>11. MsgFacts
  BY <1>1, <1>3, <1>4 DEF MsgFacts, Done, InText, Refused
<1> QED BY <1>6, <1>7, <1>8, <1>9, <1>10, <1>11 DEF Once

(* While the last of a dismissed dialog is on screen nothing happens here. *)
LEMMA OnceClears ==
  ASSUME Once, Clears
  PROVE  Once'
BY DEF Once, CliFacts, Clears

LEMMA OnceStep ==
  ASSUME Orderly, Types, Once, [Next]_vars, ~(at = "submit" /\ SubmitGivesUp)
  PROVE  Once'
<1>1. CASE Send \/ Answer
  BY <1>1, OnceSend, OnceAnswer
<1>2. CASE Tick
  <2>1. CASE Submit
    BY <2>1, OnceSubmit DEF Submit
  <2> QED BY <1>2, <2>1, OnceLook, OnceHandleHeld, OnceWatch DEF Tick
<1>3. CASE Read
  BY <1>3, OnceRead
<1>4. CASE Boots \/ WritesRow \/ Replies \/ PutsUpDialog \/ Clears \/ Warms
  BY <1>4, OnceBoots, OnceWritesRow, OnceReplies, OncePutsUpDialog, OnceClears, OnceWarms
<1>5. CASE Ages
  BY <1>5, OnceSame DEF Ages, cliVars, historyVars
<1>6. CASE UNCHANGED vars
  BY <1>6, OnceSame DEF vars, sessionVars, cliVars, historyVars
<1> QED BY <1>1, <1>2, <1>3, <1>4, <1>5, <1>6 DEF Next

-----------------------------------------------------------------------------
(* Giving up.  A loop that has pasted again in the dialect of the CLI has  *)
(* lost an Enter, or will press one on its text.                           *)
LEMMA LostSame ==
  ASSUME EnterLost, fate.lost \subseteq fate'.lost,
         Waiting' => Waiting /\ screen' = screen,
         loop'.repastes = loop.repastes, loop'.proven = loop.proven,
         UNCHANGED <<sent, typed, box, win32>>
  PROVE  EnterLost'
<1>1. loop'.proven = Native' <=> loop.proven = Native
  BY DEF Native
<1>2. Waiting' /\ EnterToCome => EnterToCome'
  BY DEF EnterToCome, Honoured, Native
<1> QED BY <1>1, <1>2 DEF EnterLost

(* What is typed when nothing was to come finds the Enter lost already.    *)
LEMMA LostMore ==
  ASSUME EnterLost, ~EnterToCome, fate.lost \subseteq fate'.lost,
         Waiting' => Waiting,
         loop'.repastes = loop.repastes, loop'.proven = loop.proven,
         UNCHANGED <<sent, win32>>
  PROVE  EnterLost'
BY DEF EnterLost, Native

LEMMA LostIdle ==
  ASSUME ~Waiting', loop'.repastes # 0 => loop'.proven # "none"
  PROVE  EnterLost'
BY DEF EnterLost

LEMMA LostSubmit ==
  ASSUME Orderly, Types, Once, EnterLost, Submit, ~SubmitGivesUp
  PROVE  EnterLost'
<1>1. ~SubmitTruncated /\ SubmitKeeps
  BY NeverTruncated, OrderlyIs, SubmitFrame DEF SubmitTruncated, Types
<1>2. loop \in Loop
  BY DEF Types, IInv, Typing
<1>3. CASE ~loop.armed
  BY <1>1, <1>3, LostSame DEF Submit, NothingTyped, SubmitKeeps, Waiting
<1>4. CASE loop.armed /\ SubmitStarted
  <2>1. ~loop'.armed /\ loop'.repastes = loop.repastes /\ loop'.proven = loop.proven
    BY <1>2, <1>4 DEF SubmitStarted, Loop
  <2> QED BY <2>1, LostIdle DEF Waiting, EnterLost
<1>5. CASE loop.armed /\ (SubmitParked \/ SubmitWaits)
  <2>1. /\ loop'.armed = loop.armed /\ loop'.repastes = loop.repastes /\ loop'.proven = loop.proven
        /\ UNCHANGED typed
    BY <1>2, <1>5 DEF SubmitParked, SubmitWaits, NothingTyped, Loop
  <2> QED BY <1>1, <2>1, LostSame DEF SubmitKeeps, Waiting
<1>6. CASE loop.armed /\ SubmitProbe
  <2>1. loop.proven = "none" /\ loop'.repastes = loop.repastes /\ loop'.proven = loop.proven
    BY <1>2, <1>6 DEF SubmitProbe, Unproven, Loop
  <2> QED BY <2>1 DEF EnterLost
<1>7. CASE loop.armed /\ SubmitProven
  <2>1. loop.proven = "none" /\ loop'.repastes = loop.repastes
    BY <1>2, <1>7 DEF SubmitProven, Unproven, Loop
  <2> QED BY <2>1 DEF EnterLost
<1>8. CASE loop.armed /\ SubmitEnter
  <2>1. /\ loop'.armed = loop.armed /\ loop'.repastes = loop.repastes /\ loop'.proven = loop.proven
    BY <1>2, <1>8 DEF SubmitEnter, Loop
  <2>2. ~EnterToCome
    BY <1>8, RetryIs DEF SubmitEnter, EnterToCome
  <2> QED BY <1>1, <2>1, <2>2, LostMore DEF SubmitKeeps, Waiting
<1>9. CASE loop.armed /\ SubmitRepaste
  <2> DEFINE b == Backspaces(8, loop.proven)
             p == Paste(sent, IF loop.proven = "raw" THEN "any" ELSE loop.proven)
             e == Key("enter", loop.proven)
  <2>1. /\ loop.proven \in Dialect /\ screen # "dialog" /\ typed = <<>>
        /\ loop'.repastes # 0 => loop'.proven # "none"
        /\ loop'.proven = loop.proven
    BY <1>2, <1>9, RetryIs DEF SubmitRepaste, Loop, Dialect
  <2>2. /\ typed' = <<b, p, e>>
        /\ p.key = "paste" /\ e.key = "enter" /\ e.via = loop.proven
    BY <1>9, <2>1, RepasteIs DEF SubmitRepaste
  <2>3. p.via = IF loop.proven = "raw" THEN "any" ELSE loop.proven
    BY DEF Paste, Key
  <2> HIDE DEF b, p, e
  <2>4. 3 \in DOMAIN typed' /\ typed'[3] = e /\ typed'[3 - 1] = p
    BY <2>2
  <2>5. ASSUME loop'.proven = Native' PROVE EnterToCome'
    <3>1. Native' = Native /\ loop.proven = Native /\ screen' = screen
      BY <1>1, <2>1, <2>5 DEF SubmitKeeps, Native
    <3>2. p.via \in {Native', "any"} /\ e.via \in {Native', "any"}
      BY <2>2, <2>3, <3>1
    <3> QED BY <2>1, <2>2, <2>4, <3>1, <3>2 DEF EnterToCome, Honoured
  <2> QED BY <2>1, <2>5 DEF EnterLost
<1> QED BY <1>1, <1>3, <1>4, <1>5, <1>6, <1>7, <1>8, <1>9 DEF Submit

LEMMA LostRead ==
  ASSUME Orderly, Types, Once, EnterLost, Read
  PROVE  EnterLost'
<1> DEFINE t == typed[1]
<1>1. /\ ReadKeeps /\ 1 \in DOMAIN typed /\ Head(typed) = t /\ typed' = Tail(typed) /\ t.key # "esc"
      /\ \A i \in DOMAIN typed' : i \in Nat \ {0} /\ i + 1 \in DOMAIN typed /\ typed'[i] = typed[i + 1]
  BY ReadTail
<1>a. \A i \in DOMAIN typed : i # 1 => i - 1 \in DOMAIN typed'
  <2>1. typed \in Seq(Input) /\ typed # <<>>
    BY <1>1, DialogIs
  <2>2. DOMAIN typed = 1 .. Len(typed) /\ Len(typed) \in Nat /\ DOMAIN typed' = 1 .. Len(typed) - 1
    BY <1>1, <2>1, TailIs
  <2> QED BY <2>2
<1>2. fate.lost \subseteq fate'.lost
  BY DEF Read, ReadEnter, ReadText, ReadBack, ReadDigit, ReadEsc, Types, FateTypes
<1>3. Waiting' => Waiting
  BY <1>1 DEF Read, ReadKeeps, Waiting, ReadEnter, ReadText, ReadBack, ReadDigit, ReadEsc, Take
<1>4. Native' = Native
  BY <1>1 DEF ReadKeeps, Native
<1>5. CASE ~EnterToCome
  BY <1>1, <1>2, <1>3, <1>5, LostMore DEF ReadKeeps
<1>6. CASE EnterToCome
  <2>1. PICK i \in DOMAIN typed :
          /\ typed[i].key = "enter" /\ Honoured(typed[i])
          /\ IF i = 1 THEN box # <<>> ELSE typed[i - 1].key = "paste" /\ Honoured(typed[i - 1])
    BY <1>6 DEF EnterToCome
  <2>2. screen # "dialog"
    BY <1>6 DEF EnterToCome
  <2>3. CASE i = 1
    <3>1. ReadEnter(t)
      BY <1>1, <2>1, <2>3 DEF Read, ReadText, ReadBack, ReadDigit, ReadEsc
    <3>2. box # <<>>
      BY <2>1, <2>3
    <3>3. sent \in fate'.lost \/ running \/ running'
      BY <2>2, <3>1, <3>2 DEF ReadEnter, Take, Types, FateTypes
    <3>4. Waiting' => ~running /\ ~running'
      BY <1>3 DEF Waiting
    <3> QED BY <1>1, <3>3, <3>4 DEF EnterLost, ReadKeeps
  <2>4. CASE i # 1
    <3>1. i - 1 \in DOMAIN typed'
      BY <1>a, <2>4
    <3>2. typed'[i - 1] = typed[i]
      BY <1>1, <3>1
    <3>3. CASE i = 2
      <4>1. t.key = "paste" /\ Honoured(t)
        BY <2>1, <3>3
      <4>2. ReadText(t)
        BY <1>1, <4>1 DEF Read, ReadEnter, ReadBack, ReadDigit, ReadEsc
      <4>3. box' # <<>> /\ screen' = screen
        BY <2>2, <4>2 DEF ReadText, Types, CliTypes
      <4>4. typed'[1].key = "enter" /\ (typed'[1]).via \in {Native', "any"} /\ 1 \in DOMAIN typed'
        BY <1>4, <2>1, <3>1, <3>2, <3>3 DEF Honoured
      <4> QED BY <1>1, <2>2, <4>3, <4>4 DEF EnterLost, EnterToCome, Honoured, ReadKeeps
    <3>4. CASE i # 2
      <4>1. i - 2 \in DOMAIN typed' /\ typed'[i - 2] = typed[i - 1]
        BY <1>1, <1>a, <2>4, <3>1, <3>4
      <4>2. Waiting' => screen' # "dialog"
        BY <1>1, <2>2 DEF Read, ReadEnter, ReadText, ReadBack, ReadDigit, ReadEsc, Take, CliSame
      <4> DEFINE j == i - 1
      <4>3. j \in DOMAIN typed' /\ j # 1 /\ typed'[j].key = "enter" /\ (typed'[j]).via \in {Native', "any"}
        BY <1>1, <1>4, <2>1, <3>1, <3>2, <3>4 DEF Honoured
      <4>4. typed'[j - 1].key = "paste" /\ (typed'[j - 1]).via \in {Native', "any"}
        <5>1. i \in Nat /\ j - 1 = i - 2
          BY <1>1, <2>1, DialogIs
        <5> QED BY <1>4, <2>1, <2>4, <4>1, <5>1 DEF Honoured
      <4> HIDE DEF j
      <4> QED BY <1>1, <4>2, <4>3, <4>4 DEF EnterLost, EnterToCome, Honoured, ReadKeeps
    <3> QED BY <3>3, <3>4
  <2> QED BY <2>3, <2>4
<1> QED BY <1>5, <1>6

LEMMA LostStep ==
  ASSUME Orderly, Types, Once, EnterLost, [Next]_vars, ~(at = "submit" /\ SubmitGivesUp)
  PROVE  EnterLost'
<1>1. loop \in Loop
  BY DEF Types, IInv, Typing
<1>2. ASSUME NEW m, StartTurn(m) PROVE EnterLost'
  BY <1>2 DEF StartTurn, Armed, Disarmed, EnterLost
<1>3. ASSUME NEW m, SendFails(m), ~loop.armed PROVE EnterLost'
  BY <1>3, LostIdle DEF SendFails, Waiting, EnterLost
<1>4. CASE Send
  <2>1. CASE SendPasted
    <3>1. ~loop.armed
      BY <1>4, OrderlyIs DEF Send
    <3> QED BY <1>2, <1>3, <2>1, <3>1 DEF SendPasted
  <2>2. CASE SendIntoDialog \/ SendHeld
    <3>1. UNCHANGED <<sent, loop, typed, bullets, fate, box, win32, running, screen>>
      BY <1>4, <2>2 DEF Send, SendIntoDialog, SendHeld
    <3> QED BY <3>1, LostSame DEF Waiting
  <2> QED BY <1>4, <2>1, <2>2 DEF Send
<1>5. CASE Answer
  <2>1. screen = "dialog"
    BY <1>5 DEF Answer, Once, DialogKeys
  <2>2. ~EnterToCome
    BY <2>1 DEF EnterToCome
  <2> QED BY <1>5, <2>2, LostMore DEF Answer, cliVars, Waiting
<1>6. CASE Look
  <2>1. CASE Confirm
    <3>1. ~EnterToCome
      BY <2>1, OrderlyIs DEF Confirm, EnterToCome
    <3> QED BY <1>6, <3>1, LostMore DEF Look, cliVars, Waiting
  <2>2. CASE NoConfirm
    BY <1>6, <2>2, LostSame DEF Look, NoConfirm, cliVars, Waiting
  <2> QED BY <1>6, <2>1, <2>2 DEF Look
<1>7. CASE HandleHeld
  <2>1. CASE UNCHANGED <<held, sent, loop, typed, bullets, fate>>
    BY <1>7, <2>1, LostSame DEF HandleHeld, Waiting
  <2>2. CASE held # <<>> /\ (Dispatch \/ ColdProbe \/ ColdProven)
    <3>1. ~loop.armed
      BY <2>2 DEF Once, LoopFacts
    <3>2. CASE Dispatch
      BY <1>2, <1>3, <3>1, <3>2 DEF Dispatch
    <3>3. CASE ColdProbe \/ ColdProven
      <4>1. /\ ~loop'.armed
            /\ loop'.repastes = loop.repastes
            /\ loop'.proven = loop.proven \/ (loop'.proven = cold.probe /\ cold.probe # "none")
        <5>1. CASE ColdProbe
          <6>1. loop' = loop \/ loop' = [loop EXCEPT !.probes = @ + 1]
            BY <5>1 DEF ColdProbe
          <6> QED BY <1>1, <3>1, <6>1 DEF Loop
        <5>2. CASE ColdProven
          BY <1>1, <3>1, <5>2 DEF ColdProven, Loop
        <5> QED BY <3>3, <5>1, <5>2
      <4> QED BY <4>1, LostIdle DEF Waiting, EnterLost
    <3> QED BY <2>2, <3>2, <3>3
  <2> QED BY <1>7, <2>1, <2>2 DEF HandleHeld, HeldWaits, HeldUnchanged
<1>8. CASE Submit
  BY <1>8, LostSubmit DEF Submit
<1>9. CASE Watch
  BY <1>9, LostSame DEF Watch, historyVars, Waiting
<1>10. CASE Read
  BY <1>10, LostRead
<1>11. CASE Boots
  <2>1. ~Waiting' /\ loop' = loop
    BY <1>11 DEF Boots, CliKeeps, Once, CliFacts, LoopFacts, Waiting
  <2> QED BY <2>1, LostIdle DEF EnterLost
<1>12. CASE PutsUpDialog
  <2>1. ~EnterToCome
    BY <1>12, OrderlyIs DEF PutsUpDialog, EnterToCome
  <2> QED BY <1>12, <2>1, LostMore DEF PutsUpDialog, CliKeeps, Waiting
<1>13. CASE Replies
  <2>1. ~Waiting' /\ loop' = loop
    BY <1>13 DEF Replies, CliKeeps, Waiting
  <2> QED BY <2>1, LostIdle DEF EnterLost
<1>14. CASE Warms
  <2>1. CASE EnterToCome
    <3>1. Waiting' = Waiting /\ screen' # "dialog"
          /\ UNCHANGED <<sent, typed, box, win32, loop, fate>>
      BY <1>14 DEF Warms, CliKeeps, Waiting
    <3> QED BY <2>1, <3>1 DEF EnterLost, EnterToCome, Honoured, Native
  <2>2. CASE ~EnterToCome
    BY <1>14, <2>2, LostMore DEF Warms, CliKeeps, Waiting
  <2> QED BY <2>1, <2>2
<1>15. CASE WritesRow
  BY <1>15, LostSame DEF WritesRow, CliKeeps, Waiting
<1>16. CASE Clears
  BY <1>16 DEF Clears, Once, CliFacts
<1>17. CASE Ages \/ UNCHANGED vars
  BY <1>17, LostSame DEF Ages, vars, sessionVars, cliVars, historyVars, Waiting
<1> QED BY <1>4, <1>5, <1>6, <1>7, <1>8, <1>9, <1>10, <1>11, <1>12, <1>13, <1>14, <1>15, <1>16,
           <1>17
        DEF Next, Tick

(* Given up once, given up for good. *)
LEMMA GaveUpStays ==
  ASSUME FateTypes, [Next]_vars
  PROVE  /\ SubmitGivesUp => GaveUp'
         /\ fate'.gaveUp = fate.gaveUp \/ (Submit /\ loop.armed /\ SubmitGivesUp)
<1>1. SubmitGivesUp => GaveUp'
  BY DEF SubmitGivesUp, GaveUp, FateTypes
<1>2. CASE UNCHANGED fate
  BY <1>1, <1>2
<1>3. ASSUME NEW m, SendFails(m) PROVE fate'.gaveUp = fate.gaveUp
  BY <1>3 DEF SendFails, FateTypes
<1>4. CASE Read
  BY <1>1, <1>4 DEF Read, ReadEnter, ReadText, ReadBack, ReadDigit, ReadEsc, FateTypes
<1>5. CASE Send
  BY <1>1, <1>2, <1>3, <1>5 DEF Send, SendIntoDialog, SendHeld, SendPasted, StartTurn
<1>6. CASE HandleHeld
  BY <1>1, <1>2, <1>3, <1>6 DEF HandleHeld, HeldWaits, HeldUnchanged, ColdProbe, ColdProven,
     Dispatch,
                                StartTurn
<1>7. CASE Submit
  BY <1>1, <1>2, <1>7 DEF Submit
<1>8. CASE UNCHANGED vars
  BY <1>2, <1>8 DEF vars, historyVars
<1> QED
  BY <1>1, <1>2, <1>4, <1>5, <1>6, <1>7, <1>8
  DEF Next, Tick, Answer, Look, Watch, Boots, WritesRow, Replies, PutsUpDialog, Clears, Warms, Ages,
      CliKeeps, historyVars

LEMMA OnceHolds == Orderly => (Spec => [](Types /\ (GaveUp \/ (Once /\ EnterLost))))
<1> SUFFICES ASSUME Orderly PROVE Spec => [](Types /\ (GaveUp \/ (Once /\ EnterLost)))
  OBVIOUS
<1>1. Init => Once /\ EnterLost
  <2>1. Init => ~loop.armed /\ loop.repastes = 0
    BY DEF Init, Disarmed
  <2> QED BY <2>1, OnceInit DEF EnterLost, Waiting
<1>2. Types /\ (GaveUp \/ (Once /\ EnterLost)) /\ [Next]_vars => GaveUp' \/ (Once' /\ EnterLost')
  BY GaveUpStays, OnceStep, LostStep DEF GaveUp, Types
<1> QED BY <1>1, <1>2, TypesHold, PTL DEF Spec

-----------------------------------------------------------------------------
(* No prompt the CLI takes up contains a character of a probe: they are    *)
(* erased before an Enter is pressed (the echo probe and probe_chars of    *)
(* Monitor::poll), whichever dialect the CLI reads, until a message has    *)
(* been given up, whose probe characters may be left in the box.           *)
THEOREM PromptsAreClean == Orderly => (Spec => [](GaveUp \/ SubmittedClean))
<1> SUFFICES ASSUME Orderly PROVE Spec => [](GaveUp \/ SubmittedClean)
  OBVIOUS
<1>1. Types /\ (GaveUp \/ (Once /\ EnterLost)) => GaveUp \/ SubmittedClean
  <2> SUFFICES ASSUME Types, Once, NEW i \in DOMAIN submitted, NEW j \in DOMAIN submitted[i]
               PROVE  submitted[i][j].text # <<>>
    BY DEF SubmittedClean
  <2>1. submitted[i] \in Prompt /\ Len(submitted[i]) = 1 /\ submitted[i][1].text # <<>>
    BY DEF Types, CliTypes, Once, TurnFacts
  <2>2. j = 1
    BY <2>1 DEF Prompt
  <2> QED BY <2>1, <2>2
<1> QED BY <1>1, OnceHolds, PTL

LEMMA OnePiece ==
  ASSUME NEW s \in Seq(Chunk), Len(s) = 1
  PROVE  DOMAIN s = {1} /\ s[1] \in Chunk
<1>1. DOMAIN s = 1 .. Len(s)
  OBVIOUS
<1>2. 1 .. 1 = {1}
  OBVIOUS
<1>3. 1 \in 1 .. Len(s)
  OBVIOUS
<1>4. \A n \in 1 .. Len(s) : s[n] \in Chunk
  <2> DEFINE C == Chunk
  <2>1. s \in Seq(C)
    OBVIOUS
  <2> HIDE DEF C
  <2>2. \A n \in 1 .. Len(s) : s[n] \in C
    BY <2>1
  <2> QED BY <2>2 DEF C
<1> QED BY <1>1, <1>2, <1>3, <1>4

(* A prompt the CLI took up holds a message at most at its one piece.      *)
LEMMA HoldsIs ==
  ASSUME Types, Once, NEW i \in DOMAIN submitted, NEW m
  PROVE  /\ Holds(m, submitted[i]) => InText(m, submitted[i][1].text)
         /\ Occurs(m, submitted[i]) \subseteq {1}
         /\ ~Can("cut") /\ ~Can("plain") /\ InText(m, submitted[i][1].text)
              => Holds(m, submitted[i])
<1>1. submitted[i] \in Seq(Chunk) /\ Len(submitted[i]) = 1
  BY DEF Types, CliTypes, Prompt, Once, TurnFacts
<1>2. DOMAIN submitted[i] = {1} /\ submitted[i][1] \in Chunk
  BY <1>1, OnePiece
<1>3. Occurs(m, submitted[i]) \subseteq {1}
  BY <1>2 DEF Occurs
<1>4. Holds(m, submitted[i]) => InText(m, submitted[i][1].text)
  BY <1>2 DEF Holds, Occurs, InText
<1>5. ~Can("cut") /\ ~Can("plain") /\ InText(m, submitted[i][1].text) => Holds(m, submitted[i])
  <2>1. ~Can("cut") /\ ~Can("plain") => ~submitted[i][1].cut
    BY <1>2 DEF Chunk
  <2> QED BY <1>2, <2>1 DEF Holds, Occurs, InText
<1> QED BY <1>3, <1>4, <1>5

LEMMA AtMostOne ==
  ASSUME NEW S, \A x, y \in S : x = y
  PROVE  Cardinality(S) <= 1
<1>1. CASE S = {}
  BY <1>1, FS_EmptySet
<1>2. CASE S # {}
  <2>1. PICK x \in S : TRUE
    BY <1>2
  <2>2. S = {x}
    BY <2>1
  <2> QED BY <2>2, FS_Singleton
<1> QED BY <1>1, <1>2

(* No message is submitted twice: by a retry of the Enter, by a re-paste,  *)
(* or by the dispatch of what was held (Monitor::poll).                    *)
THEOREM MessagesOnce == Orderly => (Spec => []SubmittedOnce)
<1> SUFFICES ASSUME Orderly PROVE Spec => []SubmittedOnce
  OBVIOUS
<1>1. Types /\ (GaveUp \/ (Once /\ EnterLost)) => SubmittedOnce
  <2> SUFFICES ASSUME Types, Once, NEW m \in Msg
               PROVE  /\ Cardinality({i \in DOMAIN submitted : Holds(m, submitted[i])}) <= 1
                      /\ \A i \in DOMAIN submitted : Cardinality(Occurs(m, submitted[i])) <= 1
    BY DEF SubmittedOnce
  <2> DEFINE S == {i \in DOMAIN submitted : Holds(m, submitted[i])}
  <2>1. \A i, j \in S : i = j
    BY HoldsIs DEF Once, MsgFacts
  <2>2. \A i \in DOMAIN submitted : \A x, y \in Occurs(m, submitted[i]) : x = y
    BY HoldsIs
  <2>3. Cardinality(S) <= 1
    <3> HIDE DEF S
    <3> QED BY <2>1, AtMostOne
  <2>4. \A i \in DOMAIN submitted : Cardinality(Occurs(m, submitted[i])) <= 1
    BY <2>2, AtMostOne
  <2> QED BY <2>3, <2>4
<1> QED BY <1>1, OnceHolds, PTL

(* A message the daemon accepted is held, owned by the submit loop, or has *)
(* been submitted, or its client was told that it could not be pasted:     *)
(* cmd_send, the dispatch and the end of the submit loop hand it on, and   *)
(* none of them drops it but the give-up of the loop (main.rs 1130-1156).  *)
THEOREM MessagesKept == Orderly => (Spec => []NothingDropped)
<1> SUFFICES ASSUME Orderly PROVE Spec => []NothingDropped
  OBVIOUS
<1>1. Types /\ (GaveUp \/ (Once /\ EnterLost)) => NothingDropped
  <2> SUFFICES ASSUME Types, Once, NEW m \in 1 .. nextMsg - 1
               PROVE  \/ InText(m, held)
                      \/ loop.armed /\ InText(m, sent)
                      \/ \E i \in DOMAIN submitted : Holds(m, submitted[i])
                      \/ Refused(m)
    BY DEF NothingDropped
  <2>1. InText(m, held) \/ (loop.armed /\ InText(m, sent)) \/ Done(m) \/ Refused(m)
    BY DEF Once, MsgFacts
  <2>2. ~Can("cut") /\ ~Can("plain")
    BY OrderlyIs
  <2>3. Done(m) => \E i \in DOMAIN submitted : Holds(m, submitted[i])
    BY <2>2, HoldsIs DEF Done
  <2> QED BY <2>1, <2>3
<1> QED BY <1>1, OnceHolds, PTL

(* The submit loop does not give up for nothing (main.rs 1148-1156): when  *)
(* it first does so the CLI has lost an Enter for that very text, or the   *)
(* loop believes in a dialect the CLI does not honour.  Before that none   *)
(* of its messages is dropped.                                             *)
THEOREM GivesUpHasCause ==
  Orderly => (Spec => [][~GaveUp => (fate'.gaveUp # fate.gaveUp =>
                            sent \in fate.lost \/ loop.proven \notin {"none", Native})]_vars)
<1> DEFINE A == ~GaveUp => (fate'.gaveUp # fate.gaveUp =>
                              sent \in fate.lost \/ loop.proven \notin {"none", Native})
<1> SUFFICES ASSUME Orderly PROVE Spec => [][A]_vars
  OBVIOUS
<1>1. Types /\ (GaveUp \/ (Once /\ EnterLost)) /\ [Next]_vars => [A]_vars
  <2> SUFFICES ASSUME Types, Once, EnterLost, [Next]_vars, fate'.gaveUp # fate.gaveUp,
                      sent \notin fate.lost, loop.proven \in {"none", Native}
               PROVE  FALSE
    OBVIOUS
  <2>1. loop.armed /\ SubmitGivesUp
    BY GaveUpStays DEF Types
  <2>2. CASE Proven
    <3>1. loop.tries = 2 /\ loop.repastes = 2 /\ loop.proven = Native
      BY <2>1, <2>2, OrderlyIs DEF SubmitGivesUp, Proven, Unproven
    <3>2. Waiting /\ typed = <<>>
      BY <2>1, <2>2, <3>1, RetryWaits, RetryIs
    <3>3. ~EnterToCome
      BY <3>2 DEF EnterToCome
    <3> QED BY <3>1, <3>2, <3>3 DEF EnterLost
  <2>3. CASE loop.probe = "win32" /\ Lapsed
    <3>1. ~reacted /\ typed = <<>>
      BY <2>3, OrderlyIs DEF Lapsed
    <3>2. Heard
      BY <2>3 DEF Once, ProbeFacts, Native
    <3> QED BY <3>1, <3>2 DEF Heard
  <2> QED BY <2>1, <2>2, <2>3 DEF SubmitGivesUp
<1> HIDE DEF A
<1> QED BY <1>1, OnceHolds, PTL DEF Spec
=============================================================================
