--------------------------- MODULE PromptDelivery ---------------------------
(***************************************************************************)
(* How a message gets from the client into the prompt of the CLI: the send *)
(* that pastes or holds it, the tick that relays dialogs, probes the input *)
(* layer, dispatches what is held and presses Enter until the turn has     *)
(* started (cmd_send, cmd_answer and Monitor::poll of src/src/main.rs).    *)
(*                                                                         *)
(* One session.  A tick reads one capture of the screen and goes through   *)
(* its parts in order; the CLI moves between ticks, and reads what was     *)
(* typed in order but at any later time.  Clocks are choices: a wait may   *)
(* end at any tick.                                                        *)
(*                                                                         *)
(* Feature selects what the environment may do:                            *)
(*   "dialogs"  the CLI puts up a modal dialog                             *)
(*   "chained"  a dialog closes into the next one                          *)
(*   "cut"      the input box is re-initialised under a paste: only the    *)
(*              tail is kept                                               *)
(*   "swallow"  an Enter is lost                                           *)
(*   "late"     the CLI leaves what was typed unread, or a tick comes,     *)
(*              seconds late                                               *)
(*   "midturn"  the client sends while a turn is running                   *)
(*   "overlap"  the client sends while another message is being submitted  *)
(*   "lag"      a prompt's row takes longer than 700 ms to be written      *)
(*   "warm"     the CLI is busy without a turn (compaction)                *)
(*   "fork"     the transcript of a turn is born before its user row       *)
(*   "sudden"   the screen changes over what was typed and not read yet    *)
(*   "ghost"    a dialog that was dismissed stays on screen for a while    *)
(*   "plain"    a paste lies in the box as characters, not as one chip     *)
(*   "split"    the reader thread misses the switch to win32-input-mode    *)
(*   "broken"   the write of a paste fails                                 *)
(***************************************************************************)
EXTENDS Naturals, Sequences, FiniteSets

CONSTANTS
  Modes,      \* what the CLI may negotiate at its start: TRUE for win32-input-mode
  Feature,
  MaxMsg,     \* bound: messages the client sends
  MaxDialog,  \* bound: dialogs
  MaxCut,     \* bound: pastes that lose their head
  MaxTyped,   \* bound: no probe while this much is typed and unread
  MaxProbe    \* bound: probe characters not erased yet

ASSUME BoundsAssumption == /\ Modes \subseteq BOOLEAN
                           /\ {MaxMsg, MaxDialog, MaxCut, MaxTyped, MaxProbe} \subseteq Nat

VARIABLES
  held,      \* pending_text, as the messages joined in it; <<>> is None
  sent,      \* the messages of the paste being submitted
  observing,
  loop,      \* the submit loop
  cold,      \* the cold-start probe: cold_proven and cold_probe
  reacted,   \* the CLI has painted since mark_sent
  repasted,  \* truncation_repastes
  carded,    \* question_emitted
  answering, \* pending_answer_enter
  state,     \* the session state last reported
  old,       \* 30 s have passed since the spawn
  tracked,   \* the win32 flag of the session, kept by its reader thread
  watcher,   \* what the transcript watcher knows of the turn
  at         \* the part of the tick that comes next; "rest" between ticks

VARIABLES
  win32,     \* win32-input-mode is on
  typed,     \* written to the PTY and not yet read
  box,       \* the input box
  lined,     \* prompts entered while a turn was running
  screen,    \* what a capture shows
  bullets,   \* ... and whether a reply newer than the baseline is on it
  dialog,    \* the number of the latest dialog
  running,   \* a turn is running
  rowDue,    \* ... whose user row is not in the transcript yet
  unread     \* rows of the transcript the watcher has not read

VARIABLES
  nextMsg,   \* messages 1 .. nextMsg - 1 have been accepted
  submitted, \* the prompts the CLI took up
  cards,     \* the dialogs relayed to the client as a question
  keyed,     \* the dialog the last answer was keyed into
  entered,   \* the Enters the CLI read in a dialog
  cuts,      \* truncated pastes left, and pastes lost their head so far
  fate       \* the texts refused, given up, and those an Enter was lost for

sessionVars == <<held, sent, observing, loop, cold, reacted, repasted, carded, answering,
                 state, old, tracked, watcher, at>>
cliVars == <<win32, box, lined, screen, bullets, dialog, running, rowDue, unread>>
historyVars == <<nextMsg, submitted, cards, keyed, entered, cuts, fate>>
vars == <<sessionVars, typed, cliVars, historyVars>>

Can(habit) == habit \in Feature

Dialect == {"raw", "win32"}
Native == IF win32 THEN "win32" ELSE "raw"      \* what the CLI honours
Tracked == IF tracked THEN "win32" ELSE "raw"   \* what the session believes
Msg == 1 .. MaxMsg
Text == Seq(Msg)

(* What is typed: in which dialect ("any": raw bracketed paste), the pasted *)
(* text, the number of Backspaces, the dialog an Enter is meant for.        *)
Input == [key : {"paste", "char", "back", "enter", "esc", "digit"},
          via : Dialect \cup {"any"}, text : Text, n : Nat, aim : 0 .. MaxDialog]

Key(k, via) == [key |-> k, via |-> via, text |-> <<>>, n |-> 1, aim |-> 0]
Paste(t, via) == [Key("paste", via) EXCEPT !.text = t]
Backspaces(n, via) == [Key("back", via) EXCEPT !.n = n]

(* send_text and send_text_in. *)
SendText(t) == IF tracked THEN <<Paste(t, "any"), Key("enter", "win32")>> ELSE <<Paste(t, "any")>>
SendTextIn(t, via) ==
  <<Paste(t, IF via = "raw" THEN "any" ELSE via), Key("enter", via)>>

(* A piece of the input box: pasted text, a stray character, or what is    *)
(* left of a text some of whose characters were erased.                    *)
Piece == [text : Text, cut : BOOLEAN]
Stray == [text |-> <<>>, cut |-> FALSE]
Debris == [text |-> <<>>, cut |-> TRUE]

(* The submit loop: pending_submit, last_submit_try, submit_tries (the     *)
(* code only asks whether it has reached 2), repastes, proven_w32,         *)
(* echo_probe, probe_chars, and spinner_hold_logged.                       *)
Loop == [armed : BOOLEAN, tried : BOOLEAN, tries : 0 .. 2, repastes : 0 .. 2,
         proven : Dialect \cup {"none"}, probe : Dialect \cup {"none"},
         probes : Nat, parked : BOOLEAN]

Disarmed == [armed |-> FALSE, tried |-> FALSE, tries |-> 0, repastes |-> 0,
             proven |-> "none", probe |-> "none", probes |-> 0, parked |-> FALSE]
Armed == [Disarmed EXCEPT !.armed = TRUE]

(* The state read off the screen, and effective_state. *)
ScreenState == CASE screen \in {"dialog", "ghost"} -> "dialog"
                 [] screen \in {"prompt", "spinner"} -> "idle"
                 [] screen = "working" -> "thinking"
                 [] screen = "boot" -> "dead"
NewState == IF ScreenState = "idle" /\ watcher.open THEN "thinking" ELSE ScreenState

(* The prompt box is the active widget: the screen reads as idle, or its   *)
(* last row is a bare prompt (startup_action), also under the status of a  *)
(* turn that runs and under a dialog that has gone.                        *)
OwnsInput(bare) == ScreenState = "idle" \/ (bare /\ screen \in {"working", "ghost"})

(* startup_paste_ok, given whether nothing was painted for 300 ms. *)
PasteOk(quiet, bare) == old \/ (screen # "boot" /\ quiet /\ OwnsInput(bare))

(* begin_turn. *)
BeginTurn(t) ==
  /\ sent' = t
  /\ watcher' = [watcher EXCEPT !.open = FALSE, !.born = FALSE]
  /\ unread' = <<>>
  /\ bullets' = FALSE

StartTurnStale(t) == (* fault: the counters of the last submit are kept *)
  /\ BeginTurn(t)
  /\ observing' = TRUE
  /\ loop' = [loop EXCEPT !.armed = TRUE, !.probe = "none", !.probes = 0, !.parked = FALSE]
  /\ typed' = typed \o SendText(t)
  /\ reacted' = FALSE
  /\ state' = "thinking"
  /\ UNCHANGED fate

(* The text is pasted, and the loop reset for the new paste. *)
StartTurn(t) ==
  /\ BeginTurn(t)
  /\ observing' = TRUE
  /\ loop' = Armed
  /\ typed' = typed \o SendText(t)
  /\ reacted' = FALSE
  /\ state' = "thinking"
  /\ UNCHANGED fate

(* The write fails: the client is told, and the loop is left as it was. *)
SendFails(t) ==
  /\ Can("broken")
  /\ BeginTurn(t)
  /\ observing' = FALSE
  /\ fate' = [fate EXCEPT !.refused = @ \cup {t}]
  /\ UNCHANGED <<loop, typed, reacted, state>>

-----------------------------------------------------------------------------
(* cmd_send. *)

(* A modal dialog is on screen: hold the message and relay the question,   *)
(* if the screen can be parsed as one.                                     *)
SendIntoDialogOver == (* fault: pending_text is overwritten *)
  /\ ScreenState = "dialog"
  /\ held' = <<nextMsg>>
  /\ carded' \in {carded, TRUE}
  /\ cards' = IF carded' # carded THEN cards \cup {dialog} ELSE cards
  /\ UNCHANGED <<sent, observing, loop, watcher, unread, bullets, typed, reacted, state,
                 fate>>

SendIntoDialog ==
  /\ ScreenState = "dialog"
  /\ held' = Append(held, nextMsg)
  /\ carded' \in {carded, TRUE}
  /\ cards' = IF carded' # carded THEN cards \cup {dialog} ELSE cards
  /\ UNCHANGED <<sent, observing, loop, watcher, unread, bullets, typed, reacted, state, fate>>

(* The prompt is not proven ready: hold the message. *)
SendHeldTwice == (* fault: what is held already is joined twice *)
  /\ ScreenState # "dialog"
  /\ \E quiet, bare \in BOOLEAN : ~(PasteOk(quiet, bare) /\ cold.proven)
  /\ held' = held \o held \o <<nextMsg>>
  /\ UNCHANGED <<sent, observing, loop, watcher, unread, bullets, typed, reacted, state,
                 carded, cards, fate>>

SendHeldOver == (* fault: pending_text is overwritten *)
  /\ ScreenState # "dialog"
  /\ \E quiet, bare \in BOOLEAN : ~(PasteOk(quiet, bare) /\ cold.proven)
  /\ held' = <<nextMsg>>
  /\ UNCHANGED <<sent, observing, loop, watcher, unread, bullets, typed, reacted, state,
                 carded, cards, fate>>

SendHeld ==
  /\ ScreenState # "dialog"
  /\ \E quiet, bare \in BOOLEAN : ~(PasteOk(quiet, bare) /\ cold.proven)
  /\ held' = Append(held, nextMsg)
  /\ UNCHANGED <<sent, observing, loop, watcher, unread, bullets, typed, reacted, state,
                 carded, cards, fate>>

SendPasted ==
  /\ ScreenState # "dialog"
  /\ \E quiet, bare \in BOOLEAN : PasteOk(quiet, bare) /\ cold.proven
  /\ StartTurn(<<nextMsg>>) \/ SendFails(<<nextMsg>>)
  /\ UNCHANGED <<held, carded, cards>>

Send ==
  /\ at = "rest" /\ nextMsg <= MaxMsg
  /\ (running => Can("midturn"))
  /\ (Can("overlap") \/ (~loop.armed /\ (held = <<>> \/ ~cold.proven \/ ScreenState = "dialog")))
  /\ SendIntoDialog \/ SendHeld \/ SendPasted
  /\ nextMsg' = nextMsg + 1
  /\ UNCHANGED <<cold, repasted, answering, old, tracked, at, win32, box, lined, screen, dialog,
                 running, rowDue, submitted, keyed, entered, cuts>>

(* cmd_answer: the client answers the question it was shown. *)
Answer ==
  /\ at = "rest"
  /\ state = "dialog"
  /\ dialog \in cards /\ keyed # dialog
  /\ typed' = Append(typed, Key("digit", Tracked))
  /\ answering' = TRUE
  /\ keyed' = dialog
  /\ UNCHANGED <<held, sent, observing, loop, cold, reacted, repasted, carded, state, old, tracked,
                 watcher, at, cliVars, nextMsg, submitted, cards, entered, cuts, fate>>

-----------------------------------------------------------------------------
(* The tick: the state, and dialogs. *)

(* A dialog on screen is relayed once, on this frame or a later one that   *)
(* can be parsed; the relay is forgotten when the dialog is gone.          *)
RelayOnFlip == (* fault: a dialog is parsed on its first frame only *)
  IF NewState = "dialog" /\ (observing \/ held # <<>>) /\ ~carded /\ state # "dialog"
  THEN /\ carded' \in BOOLEAN
       /\ cards' = IF carded' THEN cards \cup {dialog} ELSE cards
  ELSE /\ carded' = (carded /\ (NewState = "dialog" \/ state # "dialog"))
       /\ UNCHANGED cards

Relay ==
  IF NewState = "dialog" /\ (observing \/ held # <<>>) /\ ~carded
  THEN /\ carded' \in BOOLEAN
       /\ cards' = IF carded' THEN cards \cup {dialog} ELSE cards
  ELSE /\ carded' = (carded /\ (NewState = "dialog" \/ state # "dialog"))
       /\ UNCHANGED cards

Quick == typed = <<>> \/ Can("late")

(* A digit was keyed and the dialog is still up after 400 ms: confirm.     *)
Confirm ==
  /\ answering /\ NewState = "dialog" /\ Quick
  /\ typed' = Append(typed, [Key("enter", Tracked) EXCEPT !.aim = keyed])
  /\ answering' = FALSE

NoConfirm ==
  /\ answering' = (answering /\ NewState = "dialog")
  /\ UNCHANGED typed

Look ==
  /\ at = "rest"
  /\ Relay
  /\ Confirm \/ NoConfirm
  /\ state' = NewState
  /\ at' = "held"
  /\ UNCHANGED <<held, sent, observing, loop, cold, reacted, repasted, old, tracked, watcher,
                 cliVars, nextMsg, submitted, keyed, entered, cuts, fate>>
-----------------------------------------------------------------------------
(* The tick: a held message.                                               *)
SettledAnywhere(quiet, bare) ==  (* fault: any widget *)
  screen # "spinner" /\ PasteOk(quiet, bare)

Settled(quiet, bare) == OwnsInput(bare) /\ screen # "spinner" /\ PasteOk(quiet, bare)

HeldUnchanged == UNCHANGED <<held, sent, observing, loop, watcher, unread, bullets, state, fate>>

Probing(via) == /\ Len(typed) < MaxTyped /\ loop.probes < MaxProbe
                /\ typed' = Append(typed, Key("char", via))
                /\ reacted' = FALSE

(* No answer to the probe for 700 ms. *)
Lapsed == ~reacted /\ Quick

(* COLD-START PROBE: a character, raw and then as a win32 record. *)
ColdProbe ==
  /\ ~cold.proven /\ ~(cold.probe # "none" /\ reacted)
  /\ \/ /\ cold.probe = "none"
        /\ Probing("raw")
        /\ cold' = [cold EXCEPT !.probe = "raw"]
        /\ loop' = [loop EXCEPT !.probes = @ + 1]
     \/ /\ cold.probe = "raw" /\ Lapsed
        /\ Probing("win32")
        /\ cold' = [cold EXCEPT !.probe = "win32"]
        /\ loop' = [loop EXCEPT !.probes = @ + 1]
     \/ /\ cold.probe = "win32" /\ Lapsed
        /\ cold' = [cold EXCEPT !.probe = "none"]
        /\ UNCHANGED <<typed, reacted, loop>>
  /\ UNCHANGED <<held, sent, observing, watcher, unread, bullets, state, fate>>

(* The CLI has painted since: its input layer is live. *)
ColdProvenRaw == (* fault: the probe is erased with raw bytes in any dialect *)
  /\ ~cold.proven /\ cold.probe # "none" /\ reacted
  /\ typed' = Append(typed, Backspaces(loop.probes, "raw"))
  /\ reacted' = FALSE
  /\ loop' = [loop EXCEPT !.probes = 0, !.proven = cold.probe]
  /\ cold' = [proven |-> TRUE, probe |-> "none"]
  /\ UNCHANGED <<held, sent, observing, watcher, unread, bullets, state, fate>>

ColdProven ==
  /\ ~cold.proven /\ cold.probe # "none" /\ reacted
  /\ typed' = Append(typed, Backspaces(loop.probes, cold.probe))
  /\ reacted' = FALSE
  /\ loop' = [loop EXCEPT !.probes = 0, !.proven = cold.probe]
  /\ cold' = [proven |-> TRUE, probe |-> "none"]
  /\ UNCHANGED <<held, sent, observing, watcher, unread, bullets, state, fate>>

(* Held-message dispatch. *)
Dispatch ==
  /\ cold.proven
  /\ StartTurn(held) \/ SendFails(held)
  /\ held' = <<>>
  /\ UNCHANGED cold

(* Not yet: the screen is not settled, or the probe has time left. *)
HeldWaits ==
  /\ HeldUnchanged
  /\ UNCHANGED <<cold, typed, reacted>>

(* After a dispatch the submit loop has nothing to do in the same tick. *)
HandleHeld ==
  /\ at = "held"
  /\ \E quiet, bare \in BOOLEAN :
       IF held # <<>> /\ Settled(quiet, bare)
       THEN \/ Dispatch /\ at' = "watch"
            \/ /\ ColdProbe \/ ColdProven \/ (~cold.proven /\ ~(cold.probe # "none" /\ reacted) /\ HeldWaits)
               /\ at' = "submit"
       ELSE HeldWaits /\ at' = "submit"
  /\ UNCHANGED <<repasted, carded, answering, old, tracked, win32, box, lined, screen, dialog,
                 running, rowDue, nextMsg, submitted, cards, keyed, entered, cuts>>

-----------------------------------------------------------------------------
(* The tick: submit with verification. *)
StartedWithoutFork == watcher.open \/ bullets  (* fault: no third witness *)

TurnStarted == watcher.open \/ watcher.born \/ bullets

(* submit ends: the turn is under way. *)
Started ==
  /\ NewState # "dialog"
  /\ (TurnStarted \/ (NewState # "idle" /\ loop.tried))

(* tail_truncated: the row holds only the tail of what was sent. *)
TailTruncated(got) == got = <<[text |-> sent, cut |-> TRUE]>>

NothingTyped == UNCHANGED <<typed, reacted>>

SubmitStarted ==
  /\ Started
  /\ loop' = [loop EXCEPT !.armed = FALSE]
  /\ watcher' = IF watcher.open THEN [watcher EXCEPT !.user = <<>>] ELSE watcher
  /\ ~(watcher.open /\ TailTruncated(watcher.user))
  /\ NothingTyped
  /\ UNCHANGED <<held, cold, repasted, cuts>>

(* Only the tail was submitted: interrupt the turn and hold the text again. *)
SubmitTruncated ==
  /\ Started
  /\ watcher.open /\ TailTruncated(watcher.user)
  /\ loop' = [loop EXCEPT !.armed = FALSE]
  /\ watcher' = [watcher EXCEPT !.user = <<>>]
  /\ IF ~repasted
     THEN /\ repasted' = TRUE
          /\ typed' = Append(typed, Key("esc", Tracked))
          /\ reacted' = FALSE
          /\ held' = sent
          /\ cold' = [proven |-> FALSE, probe |-> "none"]
          /\ cuts' = [cuts EXCEPT !.retried = @ \cup {sent}]
     ELSE /\ NothingTyped
          /\ UNCHANGED <<held, cold, repasted>>
          /\ cuts' = [cuts EXCEPT !.left = @ \cup {sent}]

PendingAnyway == ~Started  (* fault: a dialog does not stop the loop *)

Pending == NewState # "dialog" /\ ~Started

(* A spinner holds the loop, for 20 s after it was noted: by then a turn   *)
(* that runs has its row.                                                  *)
Spinner == screen = "spinner"
Stale == loop.parked /\ (~running \/ Can("late"))

(* A busy spinner after an Enter is noted. *)
SubmitParked ==
  /\ Pending /\ Spinner
  /\ loop' = [loop EXCEPT !.parked = @ \/ loop.tried \/ loop.tries > 0]
  /\ NothingTyped

(* A dialog is up, or too little time has passed. *)
SubmitWaits == ~Started /\ NothingTyped /\ UNCHANGED loop

Free == Pending /\ (Spinner => Stale)
Unproven == Free /\ loop.proven = "none"
Echoed == loop.probe # "none" /\ reacted

(* ECHO PROBE before any key of a retry. *)
SubmitProbe ==
  /\ Unproven /\ ~Echoed
  /\ \/ /\ loop.probe = "none" /\ Quick /\ (running => Can("lag"))
        /\ Probing("raw")
        /\ loop' = [loop EXCEPT !.probe = "raw", !.probes = @ + 1]
     \/ /\ loop.probe = "raw" /\ Lapsed
        /\ Probing("win32")
        /\ loop' = [loop EXCEPT !.probe = "win32", !.probes = @ + 1]
     \/ /\ loop.probe = "win32" /\ Lapsed
        /\ loop' = [loop EXCEPT !.probe = "none"]
        /\ NothingTyped

SubmitProvenDirty == (* fault: the probe characters stay *)
  /\ Unproven /\ Echoed
  /\ NothingTyped
  /\ loop' = [loop EXCEPT !.proven = loop.probe, !.probe = "none", !.probes = 0]

SubmitProven ==
  /\ Unproven /\ Echoed
  /\ typed' = Append(typed, Backspaces(loop.probes, loop.probe))
  /\ reacted' = FALSE
  /\ loop' = [loop EXCEPT !.proven = loop.probe, !.probe = "none", !.probes = 0]

Proven == Free /\ loop.proven # "none" /\ Quick

(* Two Enters and no turn: clear the box and paste again. *)
SubmitRepasteOnto == (* fault: the box is not cleared first *)
  /\ Proven
  /\ loop.tries = 2 /\ loop.repastes < 2
  /\ typed' = typed \o SendTextIn(sent, loop.proven)
  /\ reacted' = FALSE
  /\ loop' = [loop EXCEPT !.repastes = @ + 1, !.tried = FALSE, !.tries = 0]

SubmitRepaste ==
  /\ Proven
  /\ loop.tries = 2 /\ loop.repastes < 2
  /\ typed' = typed \o <<Backspaces(8, loop.proven)>> \o SendTextIn(sent, loop.proven)
  /\ reacted' = FALSE
  /\ loop' = [loop EXCEPT !.repastes = @ + 1, !.tried = FALSE, !.tries = 0]

SubmitEnter ==
  /\ Proven
  /\ (loop.tries < 2 \/ loop.repastes = 2)
  /\ typed' = Append(typed, Key("enter", loop.proven))
  /\ reacted' = FALSE
  /\ loop' = [loop EXCEPT !.tried = TRUE, !.tries = IF @ < 2 THEN @ + 1 ELSE @]

(* 12 s after the last paste without a turn, or 180 s without an echo: the *)
(* loop ends, and no event tells the client.  In 12 s there are two Enters *)
(* and a re-paste, twice, and then a dozen Enters more, unless time is     *)
(* lost elsewhere.                                                         *)
SubmitGivesUp ==
  /\ \/ Proven /\ (Can("late") \/ (loop.tries = 2 /\ loop.repastes = 2))
     \/ Unproven /\ loop.probe = "win32" /\ Lapsed
  /\ loop' = [loop EXCEPT !.armed = FALSE]
  /\ fate' = [fate EXCEPT !.gaveUp = @ \cup {sent}]
  /\ NothingTyped

Submit ==
  /\ at = "submit"
  /\ at' = "watch"
  /\ \/ loop.armed /\ (SubmitStarted \/ SubmitTruncated) /\ UNCHANGED fate
     \/ /\ loop.armed
        /\ \/ /\ \/ SubmitParked \/ SubmitWaits \/ SubmitProbe \/ SubmitProven
                 \/ SubmitRepaste \/ SubmitEnter
              /\ UNCHANGED fate
           \/ SubmitGivesUp
        /\ UNCHANGED <<held, cold, repasted, watcher, cuts>>
     \/ /\ ~loop.armed
        /\ NothingTyped
        /\ UNCHANGED <<loop, held, cold, repasted, watcher, cuts, fate>>
  /\ UNCHANGED <<sent, observing, carded, answering, state, old, tracked, cliVars, nextMsg,
                 submitted, cards, keyed, entered>>

-----------------------------------------------------------------------------
(* The tick: the transcript (TurnRelay has the details).                   *)
RowKind == {"user", "reply", "interrupt"}
Users == {i \in DOMAIN unread : unread[i].row = "user"}
Latest(S) == CHOOSE i \in S : \A j \in S : j <= i

Watch ==
  LET closes == observing /\ \E i \in DOMAIN unread : unread[i].row = "reply"
  IN  /\ at = "watch"
      /\ at' = "rest"
      /\ observing' = (observing /\ ~closes)
      /\ watcher' =
           [open |-> IF unread = <<>> THEN watcher.open
                     ELSE ~closes /\ unread[Len(unread)].row = "user",
            born |-> watcher.born \/ (rowDue # <<>> /\ Can("fork")),
            user |-> IF Users = {} THEN watcher.user ELSE unread[Latest(Users)].text]
      /\ unread' = <<>>
      /\ UNCHANGED <<held, sent, loop, cold, reacted, repasted, carded, answering, state, old,
                     tracked, typed, win32, box, lined, screen, bullets, dialog, running, rowDue,
                     historyVars>>

-----------------------------------------------------------------------------
(* The CLI. *)
Honoured(t) == t.via \in {Native, "any"}

(* A prompt is taken up, and its row written at once or later. *)
UserRow(p) == [row |-> "user", text |-> p]

Take(p, rows) ==
  /\ submitted' = Append(submitted, p)
  /\ running' = TRUE
  /\ screen' \in {"working", "spinner"}
  /\ \/ ~Can("fork") /\ unread' = Append(rows, UserRow(p)) /\ rowDue' = <<>>
     \/ (Can("fork") \/ Can("lag")) /\ unread' = rows /\ rowDue' = p

(* The screen behind a dialog that closes. *)
Behind == IF running THEN "working" ELSE "prompt"

CloseDialog ==
  \/ /\ screen' = Behind \/ (Can("ghost") /\ screen' = "ghost")
     /\ UNCHANGED dialog
  \/ /\ Can("chained") /\ dialog < MaxDialog
     /\ dialog' = dialog + 1
     /\ UNCHANGED screen

ReadEnter(t) ==
  /\ t.key = "enter"
  /\ \/ /\ screen = "dialog"
        /\ entered' = entered \cup {[dialog |-> dialog, aim |-> t.aim]}
        /\ CloseDialog
        /\ UNCHANGED <<box, lined, running, rowDue, submitted, unread, fate>>
     \/ /\ screen # "dialog"
        /\ (box = <<>> \/ Can("swallow"))
        /\ fate' = IF box = <<>> THEN fate ELSE [fate EXCEPT !.lost = @ \cup {sent}]
        /\ UNCHANGED <<box, lined, screen, dialog, running, rowDue, submitted, entered, unread>>
     \/ /\ screen # "dialog" /\ box # <<>>
        /\ box' = <<>>
        /\ IF running
           THEN lined' = Append(lined, box) /\ UNCHANGED <<running, rowDue, submitted, screen, unread>>
           ELSE Take(box, unread) /\ UNCHANGED lined
        /\ UNCHANGED <<dialog, entered, fate>>
  /\ UNCHANGED cuts

(* Text and characters go to the input box; a dialog takes them away. *)
ReadText(t) ==
  /\ (t.key \in {"paste", "char"} \/ (t.key = "digit" /\ screen # "dialog"))
  /\ \E cut \in BOOLEAN :
       /\ (cut => t.key = "paste" /\ Can("cut") /\ cuts.count < MaxCut)
       /\ box' = IF screen = "dialog" THEN box
                 ELSE Append(box, IF t.key = "paste" THEN [text |-> t.text, cut |-> cut]
                                  ELSE Stray)
       /\ cuts' = IF cut THEN [cuts EXCEPT !.count = @ + 1] ELSE cuts
  /\ UNCHANGED <<lined, screen, dialog, running, rowDue, unread, submitted, entered, fate>>

(* A Backspace erases a character, or the whole chip a long paste is shown *)
(* as; of a plain text only the end goes.                                  *)
Erased(n) == IF n >= Len(box) THEN <<>> ELSE SubSeq(box, 1, Len(box) - n)

Clips(n) == \E j \in Len(Erased(n)) + 1 .. Len(box) :
              box[j] # Stray /\ box' = Append(SubSeq(box, 1, j - 1), Debris)

ReadBack(t) ==
  /\ t.key = "back"
  /\ \/ box' = IF screen = "dialog" THEN box ELSE Erased(t.n)
     \/ Can("plain") /\ screen # "dialog" /\ Clips(t.n)
  /\ UNCHANGED <<lined, screen, dialog, running, rowDue, unread, submitted, entered, cuts, fate>>

(* A digit selects, and some pickers take it as the answer. *)
ReadDigit(t) ==
  /\ t.key = "digit" /\ screen = "dialog"
  /\ (CloseDialog \/ UNCHANGED <<screen, dialog>>)
  /\ UNCHANGED <<box, lined, running, rowDue, unread, submitted, entered, cuts, fate>>

(* Esc interrupts the running turn; its row may still be due. *)
ReadEsc(t) ==
  /\ t.key = "esc"
  /\ IF running /\ screen # "dialog"
     THEN /\ running' = FALSE
          /\ screen' = "prompt"
          /\ unread' = unread \o (IF rowDue = <<>> THEN <<>> ELSE <<UserRow(rowDue)>>)
                              \o <<[row |-> "interrupt", text |-> <<>>]>>
          /\ rowDue' = <<>>
     ELSE UNCHANGED <<running, screen, unread, rowDue>>
  /\ UNCHANGED <<box, lined, dialog, submitted, entered, cuts, fate>>

Read ==
  /\ at = "rest" /\ typed # <<>> /\ screen # "boot"
  /\ typed' = Tail(typed)
  /\ LET t == Head(typed)
     IN  IF Honoured(t)
         THEN /\ reacted' = TRUE
              /\ ReadEnter(t) \/ ReadText(t) \/ ReadBack(t) \/ ReadDigit(t) \/ ReadEsc(t)
         ELSE UNCHANGED <<reacted, box, lined, screen, dialog, running, rowDue, unread, submitted,
                          entered, cuts, fate>>
  /\ UNCHANGED <<held, sent, observing, loop, cold, repasted, carded, answering, state, old,
                 tracked, watcher, at, win32, bullets, nextMsg, cards, keyed>>

(* What the CLI does by itself: it paints, and leaves what was typed alone. *)
CliKeeps == UNCHANGED <<held, sent, observing, loop, cold, repasted, carded, answering, state,
                        old, watcher, at, typed, box, nextMsg, cards, keyed, entered, cuts, fate>>

(* The first prompt appears, in the input mode the CLI has asked for; the  *)
(* reader thread sees it asked for unless it straddles two reads.          *)
Boots ==
  /\ at = "rest" /\ screen = "boot"
  /\ screen' = "prompt" /\ reacted' = TRUE
  /\ win32' \in Modes
  /\ tracked' = win32' \/ (Can("split") /\ tracked' = FALSE)
  /\ UNCHANGED <<lined, bullets, dialog, running, rowDue, unread, submitted>>
  /\ CliKeeps

WritesRow ==
  /\ at = "rest" /\ running /\ rowDue # <<>>
  /\ unread' = Append(unread, UserRow(rowDue))
  /\ rowDue' = <<>>
  /\ UNCHANGED <<reacted, win32, tracked, lined, screen, bullets, dialog, running, submitted>>
  /\ CliKeeps

(* The reply, and the next prompt in line. *)
Replies ==
  /\ at = "rest" /\ running /\ rowDue = <<>> /\ screen # "dialog"
  /\ bullets' = TRUE /\ reacted' = TRUE
  /\ LET rows == Append(unread, [row |-> "reply", text |-> <<>>])
     IN  IF lined = <<>>
         THEN /\ running' = FALSE /\ screen' = "prompt" /\ unread' = rows
              /\ UNCHANGED <<lined, rowDue, submitted>>
         ELSE Take(Head(lined), rows) /\ lined' = Tail(lined)
  /\ UNCHANGED <<win32, tracked, dialog>>
  /\ CliKeeps

(* A dialog comes up at any time, or, when the CLI is not sudden, once it  *)
(* has read what was typed and the daemon has seen the last one go.        *)
PutsUpDialog ==
  /\ Can("dialogs") /\ dialog < MaxDialog
  /\ Can("sudden") \/ (typed = <<>> /\ state # "dialog" /\ ~answering)
  /\ at = "rest" /\ screen \in {"prompt", "working"}
  /\ screen' = "dialog" /\ dialog' = dialog + 1 /\ reacted' = TRUE
  /\ UNCHANGED <<win32, tracked, lined, bullets, running, rowDue, unread, submitted>>
  /\ CliKeeps

(* The last of a dismissed dialog goes. *)
Clears ==
  /\ at = "rest" /\ screen = "ghost"
  /\ screen' = Behind /\ reacted' = TRUE
  /\ UNCHANGED <<win32, tracked, lined, bullets, dialog, running, rowDue, unread, submitted>>
  /\ CliKeeps

(* Compaction and the like: a spinner without a turn. *)
Warms ==
  /\ Can("warm") /\ at = "rest" /\ ~running
  /\ \/ screen = "prompt" /\ screen' = "spinner" /\ (typed = <<>> \/ Can("sudden"))
     \/ screen = "spinner" /\ screen' = "prompt"
  /\ reacted' = TRUE
  /\ UNCHANGED <<win32, tracked, lined, bullets, dialog, running, rowDue, unread, submitted>>
  /\ CliKeeps

Ages ==
  /\ at = "rest" /\ ~old /\ old' = TRUE
  /\ UNCHANGED <<held, sent, observing, loop, cold, reacted, repasted, carded, answering, state,
                 tracked, watcher, at, typed, cliVars, historyVars>>

-----------------------------------------------------------------------------
Init ==
  /\ held = <<>> /\ sent = <<>> /\ observing = FALSE
  /\ loop = Disarmed
  /\ cold = [proven |-> FALSE, probe |-> "none"]
  /\ reacted = TRUE /\ repasted = FALSE /\ carded = FALSE /\ answering = FALSE
  /\ state = "starting" /\ old = FALSE /\ tracked = FALSE
  /\ watcher = [open |-> FALSE, born |-> FALSE, user |-> <<>>]
  /\ at = "rest"
  /\ win32 = FALSE /\ typed = <<>> /\ box = <<>> /\ lined = <<>>
  /\ screen = "boot" /\ bullets = FALSE /\ dialog = 0
  /\ running = FALSE /\ rowDue = <<>> /\ unread = <<>>
  /\ nextMsg = 1 /\ submitted = <<>> /\ cards = {} /\ keyed = 0 /\ entered = {}
  /\ cuts = [count |-> 0, retried |-> {}, left |-> {}]
  /\ fate = [refused |-> {}, gaveUp |-> {}, lost |-> {}]

Tick == Look \/ HandleHeld \/ Submit \/ Watch

Next ==
  \/ Send \/ Answer
  \/ Tick
  \/ Read \/ Boots \/ WritesRow \/ Replies \/ PutsUpDialog \/ Clears \/ Warms \/ Ages

Spec == Init /\ [][Next]_vars

(* What runs by itself: the loop of ticks, and a CLI that reads, writes its *)
(* transcript and answers (SF, for it moves between ticks).  Timers expire  *)
(* and a dialog is painted completely in the end (SF, a choice made again   *)
(* and again), and the client answers a question.                           *)
Timers == /\ SF_vars(Look /\ answering' # answering)
          /\ SF_vars(HandleHeld /\ cold' # cold) /\ SF_vars(Submit /\ loop' # loop)
Painted == SF_vars(Look /\ carded' # carded)
Environment ==
  /\ SF_vars(Read) /\ SF_vars(Boots \/ Clears) /\ SF_vars(WritesRow) /\ SF_vars(Replies)
  /\ SF_vars(Answer) /\ SF_vars(Ages)

FairSpec == Spec /\ WF_vars(Tick) /\ Timers /\ Painted /\ Environment

-----------------------------------------------------------------------------
Texts == UNION {[1 .. n -> Msg] : n \in 0 .. MaxMsg}

(* Every variable has its type. *)
TypeOK ==
  /\ held \in Texts /\ sent \in Texts
  /\ {observing, reacted, repasted, carded, answering, old, tracked, bullets, running, win32}
       \subseteq BOOLEAN
  /\ loop \in [armed : BOOLEAN, tried : BOOLEAN, tries : 0 .. 2, repastes : 0 .. 2,
               proven : Dialect \cup {"none"}, probe : Dialect \cup {"none"},
               probes : Nat, parked : BOOLEAN]
  /\ cold \in [proven : BOOLEAN, probe : Dialect \cup {"none"}]
  /\ state \in {"starting", "dead", "idle", "thinking", "dialog"}
  /\ watcher \in [open : BOOLEAN, born : BOOLEAN, user : Seq(Piece)]
  /\ at \in {"rest", "held", "submit", "watch"}
  /\ typed \in Seq(Input) /\ box \in Seq(Piece) /\ lined \in Seq(Seq(Piece))
  /\ screen \in {"boot", "prompt", "spinner", "working", "dialog", "ghost"}
  /\ dialog \in 0 .. MaxDialog
  /\ rowDue \in Seq(Piece) /\ unread \in Seq([row : RowKind, text : Seq(Piece)])
  /\ nextMsg \in 1 .. MaxMsg + 1
  /\ submitted \in Seq(Seq(Piece))
  /\ cards \subseteq 1 .. MaxDialog /\ keyed \in 0 .. MaxDialog

Occurs(m, p) == {i \in DOMAIN p : ~p[i].cut /\ m \in {p[i].text[j] : j \in DOMAIN p[i].text}}
Holds(m, p) == Occurs(m, p) # {}
InText(m, t) == \E j \in DOMAIN t : t[j] = m

Refused(m) == \E t \in fate.refused : InText(m, t)
GaveUp == fate.gaveUp # {}

(* The characters typed to probe the input layer are gone before a prompt  *)
(* is submitted, and nothing but them: every prompt the CLI takes up is     *)
(* made of pasted texts alone (probe_chars).                                *)
SubmittedClean ==
  \A i \in DOMAIN submitted : \A j \in DOMAIN submitted[i] : submitted[i][j].text # <<>>

(* Retries, re-pastes and re-holds submit no message twice, unless the      *)
(* submit loop has given one up, which it leaves in the box.                *)
SubmittedOnce ==
  GaveUp \/ \A m \in Msg :
    /\ Cardinality({i \in DOMAIN submitted : Holds(m, submitted[i])}) <= 1
    /\ \A i \in DOMAIN submitted : Cardinality(Occurs(m, submitted[i])) <= 1

(* A message the daemon accepted is held, or in the submit loop that owns   *)
(* it, or typed with an Enter to come, or in line, or submitted whole; or   *)
(* its paste failed, which the client is told.  It is never overwritten,    *)
(* and never taken for submitted when it is not, until the loop gives a     *)
(* message up: that one is dropped without a word, and what it leaves in    *)
(* the box may be submitted in the place of the next.                       *)
NothingDropped ==
  GaveUp \/ \A m \in 1 .. nextMsg - 1 :
     \/ InText(m, held)
     \/ loop.armed /\ InText(m, sent)
     \/ \E i \in DOMAIN typed : InText(m, typed[i].text)
     \/ (loop.armed \/ typed # <<>>) /\ Holds(m, box)
     \/ \E i \in DOMAIN lined : Holds(m, lined[i])
     \/ \E i \in DOMAIN submitted : Holds(m, submitted[i])
     \/ Refused(m)

(* The submit loop gives a message up only for cause: the CLI lost an Enter *)
(* for that very text, or a repaint was taken for the echo of a probe and   *)
(* the loop types in a dialect the CLI does not honour.                     *)
GivesUpForCause ==
  [][fate'.gaveUp # fate.gaveUp =>
       sent \in fate.lost \/ loop.proven \notin {"none", Native}]_vars

(* A held message leaves pending_text only into the submit loop, or with    *)
(* word to the client that it could not be pasted.                          *)
HeldSurvives ==
  [][\A m \in Msg : InText(m, held) =>
       \/ InText(m, held')
       \/ InText(m, sent') /\ (loop'.armed \/ sent' \in fate'.refused)]_vars

(* No key goes blind into a dialog: what is typed while one is on screen is *)
(* the digit the client has chosen, or the Enter that confirms the answer   *)
(* keyed last.  What was typed before it came up is not the daemon's to     *)
(* take back.                                                               *)
NoBlindKey ==
  [][\A i \in DOMAIN typed' : i > Len(typed) /\ screen = "dialog" =>
       typed'[i].key = "digit" \/ (typed'[i].key = "enter" /\ typed'[i].aim = keyed /\ keyed # 0)]_vars

(* An Enter the CLI reads in a dialog confirms the answer to that very      *)
(* dialog (pending_answer_enter).                                           *)
EnterIsChosen == \A e \in entered : e.aim = e.dialog

(* question_emitted speaks of the dialog on screen: once a tick has looked  *)
(* at it, the client has been shown this one.                               *)
CardIsCurrent == at = "held" /\ screen = "dialog" /\ carded => dialog \in cards

(* Every message the client sends is submitted in the end. *)
EveryMessageSubmitted ==
  \A m \in Msg : nextMsg > m ~> \E i \in DOMAIN submitted : Holds(m, submitted[i])

(* The submit loop verifies what was submitted: when only the tail of the   *)
(* paste was, the client is told once the loop has ended.                   *)
TruncationSeen ==
  \A i \in DOMAIN submitted :
     submitted[i] = <<[text |-> sent, cut |-> TRUE]>> /\ ~loop.armed /\ typed = <<>>
       => sent \in cuts.retried \cup cuts.left

(* A truncated message is pasted again, the first time it happens to it. *)
TruncationRetried == cuts.left \subseteq cuts.retried
=============================================================================
