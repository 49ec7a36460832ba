----------------------------- MODULE LiveStream -----------------------------
(***************************************************************************)
(* A CLI that paints its screen, and the Monitor that reads it: the part   *)
(* of Monitor::poll (src/main.rs) that streams the reply of an observed    *)
(* turn from the screen while the transcript has not closed it, with the   *)
(* send before it, over the parser of ScreenParser.                        *)
(*                                                                         *)
(* The CLI is external: what it prints stays in conv, its panel (spinner   *)
(* and input box, or a dialog) is drawn below, and the terminal shows      *)
(* either as it last painted them.  Turns are numbered.  What the model    *)
(* leaves to other modules: how a message is submitted (PromptDelivery)    *)
(* and how the transcript is read (TurnRelay).                             *)
(*                                                                         *)
(* Feature: "ghost"    a dismissed dialog stays on the screen for a while  *)
(*          "number"   the message sent is a numbered list                 *)
(*          "quote"    a reply may quote the footer of a dialog            *)
(*          "chat"     dialogs have one more row, under a rule             *)
(***************************************************************************)
EXTENDS ScreenParser

CONSTANTS Feature, Drafts, Layouts, Height,
          MaxTurn, MaxSay   \* bounds: turns, and what is said in one

ASSUME HeightAssumption == Height \in Nat \ {0}
ASSUME ColumnsAssumption == Width > 4
ASSUME DraftsAssumption == "empty" \in Drafts /\ Drafts \subseteq {"empty", "text", "list", "lines"}
ASSUME LayoutsAssumption == Layouts \subseteq {"plain", "boxed"}
ASSUME BoundsAssumption == MaxTurn \in Nat \ {0} /\ MaxSay \in Nat

VARIABLES
  layout,    \* how the CLI draws its box: "plain" or "boxed"
  \* the CLI
  conv, turn, busy, cuts, cursor, draft, told,
  inbox,     \* a message has been submitted to it (cuts: the turns Esc has ended)
  \* the terminal: rows of conv it shows, the panel it shows, a dialog left over
  painted, shown, ghost,
  written,   \* the transcript: 2n - 1 has the message of turn n, 2n its end
  \* the session in the Monitor
  observing, sent, baseline, open, cap, looked, lastStreamed, prevFinal

cliVars == <<conv, turn, busy, cuts, cursor, draft, told, inbox>>
ttyVars == <<painted, shown, ghost>>
streamVars == <<lastStreamed, prevFinal>>
monVars == <<observing, sent, baseline, open, cap, looked, streamVars>>
vars == <<layout, cliVars, ttyVars, written, monVars>>

-----------------------------------------------------------------------------
(***************************************************************************)
(* The screen                                                              *)
(***************************************************************************)

Option(n, label, at) ==
  [Drawn(IF at = n THEN "chevron" ELSE "prose") EXCEPT !.num = n, !.text = label]

Written(look, text) == [Drawn(look) EXCEPT !.text = text]

DialogRows(at) ==
  <<Drawn("rule"), Written("prose", "command"), Drawn("blank"), Written("prose", "question"),
    Option(1, "refuse", at), Option(2, "accept", at)>> \o
  (IF "chat" \in Feature THEN <<Drawn("rule"), Option(3, "chat", at)>> ELSE <<>>) \o
  <<Drawn("footer")>>

DraftRows(d) ==
  CASE d = "empty" -> <<Drawn("chevron")>>
    [] d = "text"  -> <<Written("chevron", "draft")>>
    [] d = "list"  -> <<[Written("chevron", "draft") EXCEPT !.num = 1]>>
    [] d = "lines" -> <<[Written("chevron", "draft") EXCEPT !.num = 1],
                        [Written("prose", "draft") EXCEPT !.num = 2]>>

BoxRows(p) ==
  IF layout = "boxed"
  THEN (IF p.busy THEN <<Drawn("spinHint")>> ELSE <<>>) \o
       <<Drawn("border"), Drawn("boxed"), Drawn("border"), Drawn("status")>>
  ELSE (IF p.busy THEN <<Drawn("spin")>> ELSE <<>>) \o <<Drawn("rule")>> \o
       DraftRows(p.draft) \o <<Drawn("rule"), Drawn(IF p.busy THEN "busy" ELSE "status")>>

PanelRows(p) == IF p.cursor # 0 THEN DialogRows(p.cursor) ELSE BoxRows(p)

Panel == [busy |-> busy, cursor |-> cursor, draft |-> draft]

screen ==
  LET all == SubSeq(conv, 1, painted) \o
             (IF ghost = 0 THEN <<>> ELSE DialogRows(ghost)) \o PanelRows(shown)
  IN SubSeq(all, IF Len(all) > Height THEN Len(all) - Height + 1 ELSE 1, Len(all))

Settled == painted = Len(conv) /\ shown = Panel /\ ghost = 0

\* What the CLI says, by the rows it wraps it in: one paragraph fills a row and
\* goes on in the next, one leaves room on its row.
Paragraphs == {<<[len |-> Width, first |-> 2], [len |-> 2, first |-> 2]>>,
               <<[len |-> Width - 2, first |-> Width - 2]>>}

Wrapped(look, rows) ==
  [n \in DOMAIN rows |->
     [Drawn(IF n = 1 THEN look ELSE "prose")
        EXCEPT !.turn = turn, !.line = Len(conv) + 1,
               !.len = rows[n].len, !.first = rows[n].first]]

MessageRows(t) ==
  LET row == [Written("chevron", "message") EXCEPT !.turn = t]
  IN IF "number" \notin Feature THEN <<row>>
     ELSE <<[row EXCEPT !.num = 1], [row EXCEPT !.look = "prose", !.num = 2]>>

-----------------------------------------------------------------------------
(***************************************************************************)
(* The CLI                                                                 *)
(***************************************************************************)

Draw(rows) == conv' = conv \o rows

\* It goes on once the terminal shows what it did last.  A tick is short: while
\* one is under way the CLI only gets painted and recorded.
Ready == painted = Len(conv) /\ shown = Panel /\ ~looked

\* It takes a message: it echoes it and starts to work.
TakeUp ==
  /\ Ready /\ inbox /\ ~busy
  /\ inbox' = FALSE /\ busy' = TRUE
  /\ turn' = turn + 1
  /\ Draw(MessageRows(turn + 1))
  /\ UNCHANGED <<layout, cuts, cursor, draft, told, ttyVars, written, monVars>>

Own(look) == [Drawn(look) EXCEPT !.turn = turn, !.line = Len(conv) + 1]

\* Its turn has begun to reply.
Begun == conv[Len(conv)].text # "message"

\* What it may print next; a reply starts with a bullet.
Sayings ==
  {Wrapped("bullet", rows) : rows \in Paragraphs} \cup
  {<<Own("tool"), [Own("result") EXCEPT !.line = Len(conv) + 2]>>} \cup
  (IF ~Begun THEN {}
   ELSE {Wrapped("prose", rows) : rows \in Paragraphs} \cup
        {<<[Own("prose") EXCEPT !.num = 1],
           [Own("prose") EXCEPT !.num = 2, !.line = Len(conv) + 2]>>, <<Own("code")>>} \cup
        (IF "quote" \in Feature THEN {<<Own("quote")>>} ELSE {}))

Say ==
  /\ Ready /\ busy /\ cursor = 0 /\ told < MaxSay
  /\ \E rows \in Sayings : Draw(rows)
  /\ told' = told + 1
  /\ UNCHANGED <<layout, turn, busy, cuts, cursor, draft, inbox, ttyVars, written, monVars>>

\* A turn ends with a completion, or with Esc and a note.
Stop(esc) ==
  /\ Ready /\ busy /\ cursor = 0
  /\ busy' = FALSE /\ cuts' = IF esc THEN cuts \cup {turn} ELSE cuts
  /\ Draw(<<IF esc THEN Own("result") ELSE Own("done")>>)
  /\ UNCHANGED <<layout, turn, cursor, draft, told, inbox, ttyVars, written, monVars>>

\* An idle CLI compacts the conversation.
Compact ==
  /\ Ready /\ ~busy /\ conv # <<>> /\ conv[Len(conv)].look = "done"
  /\ Draw(<<Own("notice")>>)
  /\ UNCHANGED <<layout, turn, busy, cuts, cursor, draft, told, inbox, ttyVars, written, monVars>>

\* A dialog comes up in the middle of a turn, and goes.
Ask ==
  /\ Ready /\ busy
  /\ \/ cursor = 0 /\ Begun /\ cursor' \in 1 .. (IF "chat" \in Feature THEN 3 ELSE 2)
     \/ cursor # 0 /\ cursor' = 0
  /\ UNCHANGED <<layout, conv, turn, busy, cuts, draft, told, inbox, ttyVars, written, monVars>>

\* Somebody types in the terminal and does not submit.
Type ==
  /\ Ready /\ cursor = 0 /\ busy /\ layout = "plain"
  /\ draft = "empty" /\ draft' \in Drafts \ {draft}
  /\ UNCHANGED <<layout, conv, turn, busy, cuts, cursor, told, inbox, ttyVars, written, monVars>>

\* It brings the terminal up to date, in two goes.
PaintConv ==
  /\ painted # Len(conv) /\ painted' = Len(conv)
  /\ UNCHANGED <<layout, cliVars, shown, ghost, written, monVars>>

PaintPanel ==
  /\ (shown # Panel \/ ghost # 0)
  /\ shown' = Panel
  /\ ghost' \in {0} \cup (IF "ghost" \in Feature /\ ghost = 0 /\ cursor = 0
                           THEN {shown.cursor} ELSE {})
  /\ UNCHANGED <<layout, cliVars, painted, written, monVars>>

\* A row goes to the transcript once what it is about has been painted.
Record ==
  /\ painted = Len(conv)
  /\ written # 2 * turn - (IF busy THEN 1 ELSE 0)
  /\ written' = 2 * turn - (IF busy THEN 1 ELSE 0)
  /\ UNCHANGED <<layout, cliVars, ttyVars, monVars>>

-----------------------------------------------------------------------------
(***************************************************************************)
(* The Monitor                                                             *)
(***************************************************************************)

NoRows == <<>>

\* cmd_send and the dispatch of a held message, as far as they touch the stream
Send ==
  /\ ~looked /\ ~observing /\ sent < MaxTurn
  /\ ~busy /\ cursor = 0 /\ DetectState(screen) # "dialog"
  /\ baseline' = CountMessages(screen)
  /\ observing' = TRUE /\ sent' = sent + 1 /\ open' = FALSE
  /\ prevFinal' = lastStreamed /\ lastStreamed' = NoRows
  /\ inbox' = TRUE
  /\ UNCHANGED <<layout, conv, turn, busy, cuts, cursor, draft, told, ttyVars, written, cap, looked>>

\* fault: the capture goes back beyond the rows of the terminal
LookBack ==
  /\ observing /\ ~looked /\ looked' = TRUE
  /\ cap' = SubSeq(conv, 1, painted) \o PanelRows(shown)
  /\ UNCHANGED <<layout, cliVars, ttyVars, written,
                 observing, sent, baseline, open, streamVars>>
Look ==
  /\ observing /\ ~looked /\ looked' = TRUE /\ cap' = screen
  /\ UNCHANGED <<layout, cliVars, ttyVars, written,
                 observing, sent, baseline, open, streamVars>>

\* effective_state: an open turn in the transcript contradicts an idle screen
Effective(s, isOpen) == IF s = "idle" /\ isOpen THEN "thinking" ELSE s

Verdict == Effective(DetectState(cap), open)
Opened == written = 2 * sent - 1

\* Nothing of this turn's reply can be on the captured screen.
Preface(isOpen, verdict) == ~isOpen \/ (verdict # "responding" /\ lastStreamed = NoRows)

\* A frame that is neither new nor whole is skipped.
Fresh(resp) ==
  /\ resp \notin {NoRows, lastStreamed, prevFinal}
  /\ 2 * Len(resp) >= Len(lastStreamed)

Tick(isObserving, isOpen) ==
  /\ looked /\ looked' = FALSE /\ cap' = NoRows
  /\ observing' = isObserving /\ open' = isOpen
  /\ UNCHANGED <<layout, cliVars, ttyVars, written, sent, baseline, prevFinal>>

Response == RawResponse(cap, baseline, sent)

Streams == Verdict # "dialog" /\ ~Preface(Opened, Verdict) /\ Fresh(Response)

\* The transcript closes the turn.
Close ==
  /\ observing /\ written = 2 * sent
  /\ Tick(FALSE, FALSE)
  /\ UNCHANGED lastStreamed

\* event "replace"
Stream ==
  /\ observing /\ written < 2 * sent /\ Streams
  /\ Tick(TRUE, Opened)
  /\ lastStreamed' = Response

\* The tick streams nothing: at most the spinner line, event "thinking".
Shimmer ==
  /\ observing /\ written < 2 * sent /\ ~Streams
  /\ Tick(TRUE, Opened)
  /\ UNCHANGED lastStreamed

-----------------------------------------------------------------------------
\* The conversation so far: a turn that has ended, of which the session has
\* streamed what came before its end.
Past == <<Written("chevron", "message"), Drawn("bullet"), Drawn("done")>>
PastRow(n) == [Past[n] EXCEPT !.turn = 1, !.line = n]

Init ==
  /\ layout \in Layouts
  /\ \E esc \in BOOLEAN :
       /\ conv = [i \in 1 .. 3 |-> IF i = 3 /\ esc THEN [PastRow(i) EXCEPT !.look = "result"]
                                   ELSE PastRow(i)]
       /\ cuts = IF esc THEN {1} ELSE {}
       /\ lastStreamed = <<conv[2]>>
  /\ turn = 1 /\ sent = 1 /\ written = 2
  /\ busy = FALSE /\ cursor = 0 /\ draft = "empty" /\ told = 0 /\ inbox = FALSE
  /\ painted = Len(conv) /\ shown = Panel /\ ghost = 0
  /\ observing = FALSE /\ baseline = 0 /\ open = FALSE
  /\ cap = NoRows /\ looked = FALSE /\ prevFinal = NoRows

Next ==
  \/ TakeUp \/ Say \/ Stop(TRUE) \/ Stop(FALSE) \/ Compact \/ Ask \/ Type
  \/ PaintConv \/ PaintPanel \/ Record
  \/ Send \/ Look \/ Close \/ Stream \/ Shimmer

Spec == Init /\ [][Next]_vars

-----------------------------------------------------------------------------
TypeOK ==
  /\ layout \in Layouts /\ conv \in Seq(Row) /\ turn \in 0 .. MaxTurn
  /\ busy \in BOOLEAN /\ cuts \subseteq 1 .. turn /\ cursor \in 0 .. 3 /\ draft \in Drafts
  /\ told \in 0 .. MaxSay /\ inbox \in BOOLEAN
  /\ painted \in 0 .. Len(conv) /\ ghost \in 0 .. 3 /\ written \in 0 .. 2 * turn
  /\ shown \in [busy : BOOLEAN, cursor : 0 .. 3, draft : Drafts]
  /\ observing \in BOOLEAN /\ sent \in turn .. MaxTurn /\ baseline \in 0 .. Len(conv)
  /\ open \in BOOLEAN
  /\ Len(cap) <= Height /\ looked \in BOOLEAN
  /\ lastStreamed \in Seq(Row) /\ prevFinal \in Seq(Row)

\* A frame that is streamed into the bubble of a turn holds rows of that turn
\* and its spinner: not the reply before it, which is on the screen until the
\* message is echoed, nor what somebody is typing.  A turn that Esc has ended
\* leaves no completion to tell its reply by.
FramesAreOfTheTurn ==
  \A i \in DOMAIN lastStreamed :
     \/ lastStreamed[i].turn \in {sent} \cup (cuts \cap {sent - 1})
     \/ lastStreamed[i].look \in Spinners

\* The same of every turn (EscStale.cfg: not after an Esc).
FramesAreOwn ==
  \A i \in DOMAIN lastStreamed :
     lastStreamed[i].turn = sent \/ lastStreamed[i].look \in Spinners

\* The capture is what the CLI shows of a turn it is at work on, some reply
\* to the message, and the stream has nothing of another turn.
Shows == /\ Settled /\ cap = screen /\ busy /\ cursor = 0 /\ turn = sent /\ Begun
         /\ FramesAreOwn

EchoShown == \E i \in DOMAIN cap : cap[i].turn = sent /\ cap[i].text = "message"

CatchesUp == \E i \in DOMAIN lastStreamed' : lastStreamed'[i] = conv[Len(conv)]

\* A tick over such a screen leaves the stream with the last row of the reply,
\* as long as the message is on the screen: no gate and no flicker guard keeps
\* it behind.
StreamIsFresh ==
  [][(looked /\ ~looked' /\ observing' /\ open' /\ Shows /\ EchoShown) => CatchesUp]_vars

\* The same of a reply that has scrolled the message off (Frozen.cfg: not so).
StreamNeverFreezes ==
  [][(looked /\ ~looked' /\ observing' /\ open' /\ Shows) => CatchesUp]_vars

\* What is on the screen does not depend on what the Monitor reads off it: the
\* properties of the screen are stated for a Monitor that has not ticked yet.
Unread == ~looked /\ ~open /\ (observing => lastStreamed = NoRows)

\* The screen reads as a dialog exactly when one is up, whatever is in the box
\* and in the reply above it.
DialogIsSeen == (Unread /\ Settled) => (DetectState(screen) = "dialog" <=> cursor # 0)

\* What is relayed as a question is the dialog's: its question, its command,
\* its options; and a screen without a dialog yields none, however torn.
QuestionIsItsOwn == Unread =>
  ParseQuestion(screen) =
    IF shown.cursor = 0 THEN NoQuestion
    ELSE [text |-> <<Written("prose", "question")>>,
          context |-> <<Written("prose", "command")>>,
          options |-> <<[digit |-> 1, label |-> "refuse", selected |-> shown.cursor = 1],
                        [digit |-> 2, label |-> "accept", selected |-> shown.cursor = 2]>>]

\* With what the transcript says, a settled screen tells a working CLI from an
\* idle one, unless Esc has left a reply without a completion; and its spinner,
\* for which a held message waits, is found under any reply.
WorkIsSeen ==
  (Unread /\ Settled /\ cursor = 0) =>
    /\ SpinnerLine(screen) # NoSpinner <=> busy
    /\ turn \notin cuts =>
         Effective(DetectState(screen), busy) \in
           (IF busy THEN {"thinking", "responding"} ELSE {"idle"})

\* The screen's own sign that a turn is over, which closes it when the
\* transcript stays silent, is there exactly when it is, also under a draft.
CompleteIsOver ==
  (Unread /\ Settled /\ cursor = 0 /\ turn \notin cuts)
    => ((DetectState(screen) = "idle" /\ TurnComplete(screen)) <=> ~busy)

\* At startup a key is typed only into a dialog, and it is the one that leads
\* to the answer wanted.
StartupKeysAreForDialogs == Unread =>
  StartupAction(screen) \in
    IF shown.cursor # 0
    THEN {[does |-> "answer", key |-> IF shown.cursor = 2 THEN "Enter" ELSE "2"]}
    ELSE [does : {"prompt", "booting", "unknown"}, key : {NoKey}]

\* What is done about dialogs is about the one on the screen.
DialogsAreRead == DialogIsSeen /\ QuestionIsItsOwn /\ StartupKeysAreForDialogs

\* Whether a turn is under way, and whether it is over, is read off the screen
\* as it is.
ProgressIsRead == WorkIsSeen /\ CompleteIsOver

Flat(parts) == FoldLeft(LAMBDA rows, p : rows \o p.rows, <<>>, parts)

\* extract_messages keeps every row of the conversation once and in order but
\* completions, extract_content_blocks the same of the replies, and the list
\* of replies that the baseline indexes is as long as the count it is taken from.
RepliesAreWhole == Unread =>
  LET c == screen
      spoken(rows) == SelectSeq(rows, LAMBDA r : r.turn # 0 /\ r.look # "done")
      first == Lowest({i \in DOMAIN c : Begins(c[i])})
      replies == NewResponse(c, 0)
  IN /\ Len(replies) = CountMessages(c)
     /\ first # 0 => spoken(Flat(Messages(c))) = spoken(SubSeq(c, first, Len(c)))
     /\ spoken(Flat(Blocks(c))) = spoken(Flat(replies))

\* Un-wrapping joins all the rows of a paragraph, in both places that do it.
\* For the stream it joins no others, but where the CLI could have wrapped a
\* paragraph in just this way.  (reflow does: below a line already joined it
\* takes the next paragraph in, its measure being of the whole line.)
ParagraphsAreRejoined == Unread =>
  LET rows == SelectSeq(screen, LAMBDA r : r.turn # 0 /\ r.text # "message")
      lines == Reflowed(rows)
      together(ls) ==
        \A m, n \in DOMAIN ls : m # n =>
          \A i \in DOMAIN ls[m], j \in DOMAIN ls[n] :
             <<ls[m][i].turn, ls[m][i].line>> # <<ls[n][j].turn, ls[n][j].line>>
  IN /\ together(lines) /\ together(Reflow(rows))
     /\ \A n \in DOMAIN lines : \A i \in 2 .. Len(lines[n]) :
          \/ lines[n][i].line = lines[n][i - 1].line
          \/ lines[n][i - 1].len + 1 + lines[n][i].first > Width
=============================================================================
