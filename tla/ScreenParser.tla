---------------------------- MODULE ScreenParser ----------------------------
(***************************************************************************)
(* What the daemon reads off a rendered screen: ClaudeV21Parser            *)
(* (src/parser/claude/v2_1.rs) and the un-wrapping of src/parser/mod.rs    *)
(* and src/reflow.rs.  A capture is a sequence of rows.  A row is known by *)
(* its look, which is what the parser's regexes tell apart: two rows of    *)
(* different origin but the same look, a selected option and a draft that  *)
(* begins with a number, are the same to every operator below.             *)
(***************************************************************************)
EXTENDS Integers, Sequences, FiniteSets, FiniteSetsExt, SequencesExt

CONSTANTS BottomRows,  \* rows of the slice a dialog is looked for in (10 in the code)
          Width        \* columns of the pane

ASSUME BottomAssumption == BottomRows \in Nat \ {0}
ASSUME WidthAssumption == Width \in Nat \ {0}

Bullets  == {"bullet", "tool", "notice"}  \* re_response; "notice": a compaction notice
Statuses == {"status", "busy"}            \* re_status; "busy" says `esc to interrupt`
Spinners == {"spin", "spinHint"}          \* re_spinner_active; "spinHint" says it too
Looks == Bullets \cup Statuses \cup Spinners \cup
         {"blank", "chevron", "prose", "quote", "code", "result", "done", "rule",
          "border", "boxed", "footer", "compact", "nag", "picker", "bar"}

\* What is written on a row, as far as it is read: "empty" is nothing.
Texts == {"empty", "message", "draft", "command", "question", "refuse", "accept", "chat", "anchor"}

\* num is the N of a leading `N.` (0: none), len the columns of the row and
\* first those of its first word.  text, turn and line say what is written:
\* the parser reads no more of it than whether it is there, a label it looks
\* for, or the message sent.
Row == [look : Looks, num : 0 .. 9, text : Texts, turn : Nat, line : Nat,
        len : Nat, first : Nat]

Drawn(look) == [look |-> look, num |-> 0, text |-> "empty", turn |-> 0, line |-> 0,
                len |-> Width, first |-> 1]

Highest(S) == IF S = {} THEN 0 ELSE Max(S)
Lowest(S)  == IF S = {} THEN 0 ELSE Min(S)

Upto(c, n, L)   == {i \in 1 .. n : c[i].look \in L}
From(c, m, n, L) == {i \in m .. n : c[i].look \in L}
Solid(c) == {i \in DOMAIN c : c[i].look # "blank"}

\* The numbers of S in ascending order.
InOrder(S) ==
  [n \in 1 .. Cardinality(S) |-> CHOOSE i \in S : Cardinality({j \in S : j <= i}) = n]

\* The rows of c from m to n without the blank rows at their end.
Region(c, m, n) == SubSeq(c, m, Highest({i \in Solid(c) : m <= i /\ i <= n}))

Trimmed(c) == IF Solid(c) = {} THEN <<>> ELSE SubSeq(c, Min(Solid(c)), Max(Solid(c)))

-----------------------------------------------------------------------------
(***************************************************************************)
(* Verdicts on the whole screen                                            *)
(***************************************************************************)

\* fault: a draft is taken for an option
IsComposerNever(c, i) == FALSE
\* is_composer_row: a chevron row whose nearest row above is a rule
IsComposer(c, i) ==
  /\ c[i].look = "chevron"
  /\ LET above == Highest({j \in Solid(c) : j < i}) IN above # 0 /\ c[above].look = "rule"

\* The last row that is not of one of the given looks.
TailEnd(c, chrome) == Highest({i \in DOMAIN c : c[i].look \notin chrome})

BulletChrome == {"blank", "picker", "rule", "chevron", "compact"} \cup Statuses

\* has_active_response_bullet: the last bullet is the live tail of the output
ActiveBullet(c) ==
  LET end == TailEnd(c, BulletChrome)
      last == Highest(Upto(c, end, Bullets))
  IN last # 0 /\ From(c, last, end, {"done", "chevron", "notice"}) = {}

Dialogs == {"footer", "quote"}   \* rows that hold one of DIALOG_STRINGS

\* detect_state.  Both scans go from the bottom up and end at the first row
\* that is no chrome; a status row ends the first one.
DetectState(c) ==
  LET t == Trimmed(c)
      bottom == {i \in DOMAIN t : i > Len(t) - BottomRows}
      chrome == {"blank", "rule", "compact", "chevron"}
      one == TailEnd(t, chrome)
      two == TailEnd(t, chrome \cup Statuses)
      under(i) == IF i = 0 THEN "none" ELSE t[i].look
      asks == \E i \in bottom : \/ t[i].look \in Dialogs
                                \/ t[i].look = "chevron" /\ t[i].num > 0 /\ ~IsComposer(t, i)
  IN IF t = <<>> THEN "dead"
     ELSE IF asks THEN "dialog"
     ELSE IF under(one) = "busy" THEN (IF ActiveBullet(c) THEN "responding" ELSE "thinking")
     ELSE IF \E i \in one + 1 .. Len(t) : t[i].look = "chevron" THEN "idle"
     ELSE IF under(two) = "done" THEN "idle"
     ELSE IF under(two) \in Spinners THEN "thinking"
     ELSE IF ActiveBullet(c) THEN "responding" ELSE "idle"

NoSpinner == <<>>

\* extract_spinner_line: the lowest spinner row with the progress bar below it,
\* unless a bullet or a completion is lower
SpinnerLine(c) ==
  LET at == Highest(Upto(c, Len(c), Spinners \cup Bullets \cup {"done"}))
      bar == Highest(From(c, at + 1, Len(c), {"bar"}))
  IN IF at = 0 \/ c[at].look \notin Spinners THEN NoSpinner
     ELSE <<c[at]>> \o (IF bar = 0 THEN <<>> ELSE <<c[bar]>>)

Texted(r) == r.look = "chevron" /\ r.text # "empty"

\* fault: the composer's draft counts as the last message of the user
TurnCompleteOfDraft(c) ==
  LET user == Highest({i \in DOMAIN c : Texted(c[i])})
  IN From(c, user + 1, Len(c), {"done"}) # {}
\* turn_complete: a completion below the last message of the user
TurnComplete(c) ==
  LET user == Highest({i \in DOMAIN c : Texted(c[i]) /\ ~IsComposer(c, i)})
  IN From(c, user + 1, Len(c), {"done"}) # {}

-----------------------------------------------------------------------------
(***************************************************************************)
(* The response                                                            *)
(***************************************************************************)

\* count_assistant_messages
CountMessages(c) == Cardinality(Upto(c, Len(c), Bullets))

PanelChrome == {"blank", "rule", "border", "chevron", "boxed", "picker", "compact", "nag",
                "spinHint"} \cup Statuses

\* fault: the bullet is looked for after the first message on the screen
LandmarkFirst(c, end) ==
  LET prompt == Lowest(Upto(c, end, {"chevron"}))
  IN IF prompt = 0 THEN 0 ELSE Lowest(From(c, prompt + 1, end, Bullets))
\* locate_response, strategy 1: the first bullet after the last message
Landmark(c, end) ==
  LET prompt == Highest(Upto(c, end, {"chevron"}))
  IN IF prompt = 0 THEN 0 ELSE Lowest(From(c, prompt + 1, end, Bullets))

\* strategy 2: the first bullet beyond those counted at the send
Counted(c, end, baseline) ==
  Lowest({i \in Upto(c, end, Bullets) : Cardinality(Upto(c, i, Bullets)) = baseline + 1})

\* strategy 3: the first bullet after the last row that holds the message sent
Needle(c, end, sent) ==
  LET at == Highest({i \in 1 .. end : c[i].text = "message" /\ c[i].turn = sent})
  IN IF at = 0 THEN 0 ELSE Lowest(From(c, at + 1, end, Bullets))

\* strategy 4: the last bullet, once a completion is on the screen (the daemon
\* passes baseline_completions = 0) and if it is below the last message
LastBullet(c, end) ==
  LET last == Highest(Upto(c, end, Bullets))
  IN IF Upto(c, end, {"done"}) # {} /\ last > Highest(Upto(c, end, {"chevron"}))
     THEN last ELSE 0

\* at last: a spinner or completion among the three lowest rows
Pondering(c, end) ==
  Highest({i \in Upto(c, end, Spinners \cup {"done"}) :
             Cardinality({j \in Solid(c) : i < j /\ j <= end}) < 3})

\* extract_raw_response: the rows of the response, <<>> if there is none.  It
\* ends at the last completion below its start.
RawResponse(c, baseline, sent) ==
  LET end == TailEnd(c, PanelChrome)
      tries == <<Landmark(c, end), Counted(c, end, baseline), Needle(c, end, sent),
                 LastBullet(c, end)>>
      hits == {n \in DOMAIN tries : tries[n] # 0}
      start == IF hits = {} THEN Pondering(c, end) ELSE tries[Min(hits)]
      closed == Highest(From(c, start + 1, end, {"done"}))
  IN IF start = 0 THEN <<>>
     ELSE Region(c, start, IF hits # {} /\ closed # 0 THEN closed ELSE end)

\* What ends a message: for one of the user, a completion does not.
Stops(role) == Bullets \cup Statuses \cup {"rule"} \cup (IF role = "user" THEN {} ELSE {"done"})

\* The rows after i, up to the end of the message.
Body(c, i, role) ==
  LET end == Lowest({j \in i + 1 .. Len(c) : Texted(c[j]) \/ c[j].look \in Stops(role)})
  IN Region(c, i + 1, IF end = 0 THEN Len(c) ELSE end - 1)

\* fault: a compaction notice is no message
BeginsUnnoticed(r) == r.look \in {"bullet", "tool"} \/ Texted(r)
\* A row at which a message begins: it also ends the body of the one before.
Begins(r) == r.look \in Bullets \/ Texted(r)

\* extract_messages
Messages(c) ==
  LET message(i) ==
        IF Texted(c[i]) THEN [role |-> "user", rows |-> <<c[i]>> \o Body(c, i, "user")]
        ELSE [role |-> "assistant", rows |-> <<c[i]>> \o Body(c, i, "assistant")]
      order == InOrder({i \in DOMAIN c : Begins(c[i])})
  IN [n \in DOMAIN order |-> message(order[n])]

\* extract_new_response: the replies past the baseline
NewResponse(c, baseline) ==
  LET replies == SelectSeq(Messages(c), LAMBDA m : m.role = "assistant")
  IN SubSeq(replies, baseline + 1, Len(replies))

\* ... and those of a block, which extract_content_blocks collects in loops of
\* its own, up to one of these.
BlockEnd(r) == Texted(r) \/ r.look \in {"rule", "done"} \cup Bullets \cup Statuses

BlockBody(c, i) ==
  Region(c, i + 1, Min({j \in i + 1 .. Len(c) : BlockEnd(c[j])} \cup {Len(c) + 1}) - 1)

\* extract_content_blocks: a tool call and what it put out, or a text
Blocks(c) ==
  LET block(i) ==
        LET body == BlockBody(c, i) IN
        IF c[i].look # "tool" THEN <<[typ |-> "text", rows |-> <<c[i]>> \o body]>>
        ELSE <<[typ |-> "tool_call", rows |-> <<c[i]>>]>> \o
             (IF body = <<>> THEN <<>> ELSE <<[typ |-> "tool_output", rows |-> body]>>)
  IN FoldLeft(LAMBDA blocks, i : blocks \o block(i), <<>>, InOrder(Upto(c, Len(c), Bullets)))

-----------------------------------------------------------------------------
(***************************************************************************)
(* Dialogs                                                                 *)
(***************************************************************************)

NoQuestion == [text |-> <<>>, context |-> <<>>, options |-> <<>>]

Options(c) == {i \in DOMAIN c : /\ c[i].num > 0 /\ c[i].look \in {"chevron", "prose"}
                                /\ ~IsComposer(c, i)}

\* The option before i that i goes on from: numbered one less, with no rule
\* and no status row between them (0: none).
Before(c, i) ==
  LET prev == Highest({j \in Options(c) : j < i})
  IN IF /\ prev # 0 /\ c[prev].num + 1 = c[i].num
        /\ From(c, prev, i, {"rule"} \cup Statuses) = {}
     THEN prev ELSE 0

\* The options at which a sequence starts.
Starts(c) == {i \in Options(c) : Before(c, i) = 0}

\* The options of the sequence that starts at i.
Sequence(c, starts, i) ==
  {j \in Options(c) : i <= j /\ \A k \in starts : ~(i < k /\ k <= j)}

\* Where a picker starts: a sequence from 1, of two or more, with the cursor in it.
Pickers(c) ==
  LET starts == Starts(c)
  IN {i \in starts : /\ c[i].num = 1
                     /\ LET rows == Sequence(c, starts, i)
                        IN Cardinality(rows) >= 2 /\ \E j \in rows : c[j].look = "chevron"}

Rules == {"rule", "border"}
QuestionChrome == Bullets \cup Statuses \cup Rules \cup {"result", "done"}

SolidRows(c, m, n) ==
  LET order == InOrder({i \in m .. n : c[i].look # "blank"}) IN [k \in DOMAIN order |-> c[order[k]]]

\* parse_dialog_question: the last picker; its question is what stands right
\* above it, at most 6 rows; the context is what stands above that, if it goes
\* up to a rule in at most 14 rows
ParseQuestion(c) ==
  LET start == Highest(Pickers(c))
      last  == Highest({j \in Solid(c) : j < start})
      stop  == Highest(Upto(c, last, QuestionChrome \cup {"blank"}))
      short == last - stop < 6
      top   == IF short /\ stop > 0 /\ last > stop /\ c[stop].look = "blank"
               THEN Highest(Upto(c, stop, QuestionChrome \cup {"chevron"})) ELSE 0
      body  == IF top = 0 THEN <<>> ELSE SolidRows(c, top + 1, stop)
      anchored == top # 0 /\ c[top].look \in Rules /\ Len(body) <= 14
      order == InOrder(Sequence(c, Starts(c), start))
  IN IF start = 0 THEN NoQuestion
     ELSE [text |-> SubSeq(c, IF short THEN stop + 1 ELSE last - 5, last),
           context |-> IF anchored THEN body ELSE <<>>,
           options |-> [n \in DOMAIN order |-> [digit |-> c[order[n]].num,
                                                label |-> c[order[n]].text,
                                                selected |-> c[order[n]].look = "chevron"]]]

Wanted  == {"accept"}   \* the labels of STARTUP_CHOICES
Anchors == {"anchor"}   \* the texts of STARTUP_ENTER_MODALS

NoKey == "none"

\* fault: Enter whatever option the cursor is on
KeyEnter(option) == "Enter"
Digits == <<"1", "2", "3", "4", "5", "6", "7", "8", "9">>
\* Enter if the cursor is on the option, and else its digit.
Key(option) == IF option.selected THEN "Enter" ELSE Digits[option.digit]

\* startup_action: "prompt", "booting", "unknown", or "answer" and the key.  A
\* dialog offers at most one of the wanted options.
StartupAction(c) ==
  LET last == Highest(Solid(c))
      t == Trimmed(c)
      wanted == {o \in ToSet(ParseQuestion(c).options) : o.label \in Wanted}
      answers == {[does |-> "answer", key |-> Key(o)] : o \in wanted}
      anchored == \E i \in DOMAIN t : i > Len(t) - BottomRows /\ t[i].text \in Anchors
      say(what) == [does |-> what, key |-> NoKey]
      state == DetectState(c)
  IN IF last # 0 /\ c[last].look = "chevron" /\ c[last].num = 0 THEN say("prompt")
     ELSE IF state = "idle" THEN say("prompt")
     ELSE IF state # "dialog" THEN say("booting")
     ELSE IF answers # {} THEN CHOOSE a \in answers : TRUE
     ELSE IF anchored THEN [does |-> "answer", key |-> "Enter"]
     ELSE say("unknown")

-----------------------------------------------------------------------------
(***************************************************************************)
(* Un-wrapping                                                             *)
(***************************************************************************)

\* The rows of a line that is measured: reflow measures the whole line joined
\* so far, extract_raw_response_reflowed its last row.
Joined(cur) == FoldLeft(LAMBDA n, p : n + 1 + p.len, 0, cur) - 1
\* fault: a row is measured with those it has been joined to
MeasureAll(cur, whole) == Joined(cur)
Measure(cur, whole) == IF whole THEN Joined(cur) ELSE cur[Len(cur)].len

\* Rows in lines, each the rows that are joined to one: a row of `alone` stays
\* on its own, one of `heads` begins a line, and any other goes on with the line
\* before unless its first word would have fitted there.
Rejoined(rows, alone, heads, whole) ==
  LET flush(a) == IF a.cur = <<>> THEN a.out ELSE Append(a.out, a.cur)
      full(cur, r) == Measure(cur, whole) + 1 + r.first > Width
      step(a, r) ==
        CASE r.look \in alone -> [out |-> Append(flush(a), <<r>>), cur |-> <<>>]
          [] r.look \notin alone \cup heads /\ a.cur # <<>> /\ full(a.cur, r) ->
               [a EXCEPT !.cur = Append(@, r)]
          [] OTHER -> [out |-> flush(a), cur |-> <<r>>]
  IN flush(FoldLeft(step, [out |-> <<>>, cur |-> <<>>], rows))

\* reflow
Reflow(rows) == Rejoined(rows, {"code", "blank"}, {}, TRUE)
\* extract_raw_response_reflowed
Reflowed(rows) == Rejoined(rows, {"code", "blank", "result", "done"}, Bullets, FALSE)

=============================================================================
