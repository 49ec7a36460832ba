# lit-bridge-rs: specifications and proofs

`lit-bridge-rs` is a daemon that drives an interactive Claude CLI in a pseudo
terminal and turns it into a JSON-lines service: a client sends a message for a
session, the daemon pastes it into the CLI's prompt, follows the turn on the
screen and in the CLI's transcript file, and emits events, the last of which is
`complete` with the reply. This directory holds TLA+ models of the parts of it
whose correctness hangs on the order of events, the TLC runs that check them,
and TLAPS proofs. Paths below are those of the repository, seen as `src/`: the
program itself is `src/src/`.

## 1. The system

| Part | Code | State it keeps | Operations | Modelled in |
|---|---|---|---|---|
| Transcript directory | files the CLI writes | `.jsonl` files of rows, the last perhaps half written | append, scan | `Transcripts` |
| Transcript watcher | `jsonl.rs` | pinned file, offset, pin snapshot, exclusions, accumulator of the turn | `new`, `begin_turn`, `set_excluded`, `prime_to_eof`, `poll` | `JsonlWatcher` |
| Turn completion | `Monitor::poll`, `main.rs` 660-690, 1202-1478 | `observing`, stillness of the screen | visit of each session; observed, organic and follow-on completion; screen fallback | `TurnRelay` |
| Prompt delivery | `cmd_send`, `cmd_answer`, `Monitor::poll` 688-1201, `send_*` of `session.rs` | `pending_text`, the submit loop, probes, dialog flags, reported state | send, answer, the four parts of a tick | `PromptDelivery` |
| Event relay | `emit`, `push_buf`, `attach_client`, `detach_client`, accept loop | buffer, attached client, the monitor's mutex | emit, accept, greet, flush, detach | `EventRelay` |
| Claude CLI | not in the repository | prompt, input box, running turn | reads keys, writes rows, paints | `ClaudeCli` and the second half of `PromptDelivery` (external) |
| Session lifecycle | `cmd_create`, `finalize_create`, `spawn_into`, `cmd_kill`, reaps | the session map, the stashed conversation ids, the finalizer's locals | create, resume or fall back, dismiss startup dialogs, kill, reap | `SessionLifecycle`; the pin a spawn takes, in `TurnRelay` |
| Screen parser, reflow | `parser/claude/v2_1.rs`, `parser/mod.rs`, `reflow.rs` | none: verdicts on a capture | state, dialog, question, replies, spinner, un-wrapping | `ScreenParser` |
| Live streaming | `Monitor::poll` 1239-1330, 1479-1560 | baseline, last frame, previous reply | stale-frame gate, frame, dedup, flicker guards | `LiveStream` |
| PTY, reader thread, terminal attach, keystrokes | `Session::spawn`, `subscribe`, `capture_formatted` of `session.rs`; `handle_attach`, `cmd_input`, `cmd_keystroke` | pty bytes read, screen model, broadcast channel, input mode, the terminals' places in the channel | read, count, paint, broadcast; subscribe, capture, receive, type | `TerminalAttach` |
| Daemon start, listeners, idle exit | `bind_listeners`, signal task, accept loop, idle exit of `main` | two socket paths, the backlog | probe, unlink, bind, accept, reap, exit | `DaemonSockets` |
| Diagnostics log, subagent frames, client scripts | `diag.rs`, `subagents.rs`, `scripts/` | | | not modelled (section 7) |

How they interact. The session map, the watchers, the event buffer and the
client socket are all in `Monitor`, behind one async mutex. A periodic tick
(`poll`) and every client command take it. Under the lock the code awaits only
when it writes to the client, so a tick excludes commands and other ticks; what
moves meanwhile are the other processes: the CLIs, which read keys, paint and
append rows whenever they like, and the peers of the control socket. The models
follow that: `TurnRelay` and `PromptDelivery` let the CLI move between the
visits or ticks of the monitor, `EventRelay` lets peers move between two writes.
The one thing that runs across acquisitions of the lock is `finalize_create`, the
background half of a create: commands, ticks and other finalizers come between
its steps, and `SessionLifecycle` is about that. The reader thread of a session
takes no lock of the monitor at all, and an attached terminal is a task that holds
the lock only while it looks up its session: `TerminalAttach`. Several daemons of
one user share nothing but two paths in the file system: `DaemonSockets`.

What is hard, and therefore what the properties are about:

* a turn is over when *its own* final text is in the transcript, while rows come
  split, half written, in a forked file, behind a trailing row of the turn
  before, or from a turn nobody sent;
* the daemon types blind into a program that may have lost an Enter, frozen its
  input layer, put up a dialog or kept only the tail of a paste: retries must
  neither lose a message, double it, nor answer a dialog by accident;
* the one client may vanish at any write, and events must survive that in order;
* several sessions may share one project directory, and so one set of
  transcripts;
* a create is finished in the background by a task that knows its session only by
  key, while the client may kill and create again, the CLI may die, and messages
  wait;
* everything the daemon knows of the CLI beyond its transcript it reads off a
  screen that is painted in pieces, and on which a reply, a draft or an answer can
  look like part of a dialog;
* a terminal joins a running stream: its first picture and the chunks after it come
  from two different places, filled by a thread that stops for nobody;
* two daemons may start on one path, or one while another exits or was killed.

The hazards are listed one by one, at their lines, in `PROJECT.json`. Lesser ones, seen
and covered by no property: the pins left out at a spawn are where siblings last
read, not where their CLIs write now (`main.rs` 316); `begin_turn` uses the exclusions
of the last tick (`jsonl.rs` 416); the usage counters outlive a completion (546);
`cmd_answer` decides on the state of the last tick (`main.rs` 534); in win32 mode one
Backspace may erase a whole paste chip (1119).

## 2. The modules

**`Transcripts`** is the directory: `rows[f]`, whether the last row lacks its
newline (`half`), and the order of modification (`newer`). Offsets count half
rows, so a cursor can fall inside a row. A row is a kind and the turn it is of;
its text is an ordinal within the turn.

**`JsonlWatcher`** is `JsonlWatcher` of `jsonl.rs`. `poll()` is one call in the
code; here it is `PollOpen` (choose file and offset, read up to the last
newline, in the cases `PollFirstFile`, `PollGrown`, `PollSilent`, `PollRoll`),
one `Read...` action for each arm of the row loop, and the end-of-poll gate
(`Closes`, `GateAcc`, `GateOut`). No action of the environment is enabled while
a batch is being processed, so the split adds no interleaving the code lacks.
The live frames and the usage counters are left out: no decision reads them.

**`ClaudeCli`** is what the CLI may do to the transcripts. It is external, and
its habits are those the comments and tests of `jsonl.rs` report; the constant
`Feature` names the ones an instance has, so that a run says what it assumes.

**`TurnRelay`** composes the three: `StartTick` takes the pins of all sessions,
`Visit` tells one watcher what to leave out and polls it, `CloseQuiet`,
`CloseOrganic`, `CloseObserved` and `CloseByScreen` are what the monitor makes
of the turns the gate closed, `Send` is the `begin_turn` half of `cmd_send`,
`Spawn` the watcher of a new session. `log` records every `complete` event.
`Quiet` stands for QUIESCENCE: the fallback may act once the screen has been
still that many visits.

**`TurnLedger`** is the abstract specification: what a client of one session is
promised, with no transcript, cursor or tick in it. `MCTurnRelay` maps `TurnRelay`
to it.

**`EventRelay`** models `emit` and the accept loop at the granularity of a
write: `lock` says what the holder of the mutex is waiting for, a write
succeeds while the socket has room and fails once the peer has gone. A peer may
also stop reading for good (`deaf`): the code gives a write no time-out, so it then
waits, with the lock.

**`PromptDelivery`** models one session's way from `cmd_send` to a turn under
way. A tick is four actions in the order of the code (`Look`: state, dialogs,
the pending answer; `HandleHeld`: cold-start probe and dispatch of held text;
`Submit`: the submit loop; `Watch`: the transcript), all on one capture of the
screen. The other half is the CLI's side: it reads the typed keys in order but
late, honours only the dialect of its input mode, takes up a prompt, shows and
closes dialogs. Clocks are choices: a time-out may end at any tick, except that
a key which lies unread is outwaited only with the habit `"late"`. The session types in
the dialect its reader thread has tracked (`tracked`), which is the CLI's unless the
switch was missed (`"split"`). A piece of the input box is a paste, shown as one chip,
or a probe character; with `"plain"` a Backspace may take a part of a paste only. A
dialog comes up once the CLI has read what was typed, or with `"sudden"` over it; a
dismissed one may stay in the picture (`"ghost"`). `fate` is what became of texts that
were not submitted: refused because the write failed (`SendFails`, the client is told),
given up by the loop (`SubmitGivesUp`, the client is not), and those an Enter was lost
for. The loop gives up when the Enters of both re-pastes have led to no turn: 12 s hold two
Enters and a re-paste, twice, and a dozen Enters more. A tick that is itself seconds late may give up
sooner, which is `"late"`.

**`SessionLifecycle`** models one key of the session map. `task[c]` is the
finalizer of the c-th create; each of its actions is one acquisition of the lock:
`Check` (has `--resume` failed?), `Carry` (the dead session leaves the map),
`Respawn` (a fresh CLI, with the text carried), `Captures` and `TypesKey` (the dialog loop: one
capture, and later one key decided on it; the parser is called between the two under a lock of its own
and reads no session), `StartupOver`, `Ready`. `Create`, `Send`, `Kill`, `ReapDead`, `ReapIdle`,
`Dispatch` and `Complete` are commands and parts of the tick, each atomic. A message
is `held` (`pending_text`) or in `flight` (`sent`, while observing); what happens
between is `PromptDelivery`'s. The dialogs of the start have other hands than the
finalizer's: a user at an attached terminal answers one (`UserAnswers`), and the CLI repaints it or
leaves it in the picture (`Repaints`, `ghost`). `disturbed` remembers that this happened to
a dialog after the daemon had captured it and before its key was read. A CLI younger than 5 s is `young`. `told` stands for
the event from which the client learns that the session took its messages along.
Times that only order things are choices: the finalizer's 1.5 s, its 20 s, the age
of a CLI, `IDLE_REAP` (which is longer than any finalizer lives).

**`TerminalAttach`** follows the output of the CLIs that live one after the other
under one key. `Reader` has the steps of the reader thread: `ReadChunk` (counts the bytes and
scans for the input mode), `Process` (the screen model), `Tee` (the broadcast). A terminal is a task: `Subscribe`
and `Capture` happen with the lock held, and the reader goes on meanwhile.
`Receive` covers what a broadcast channel of `Cap` chunks does to a receiver that
was overtaken. A token is `Width` bytes, so that a read may end inside an escape
sequence. `TypeRaw`, `InputCommand` and `Kill`/`Create` are the way back.

**`DaemonSockets`** models each system call of a start (probe, unlink, bind, for the
control and the attach path) and of an exit as a step, with any other daemon in
between, and `Killed` at any of them. What a connection says is `EventRelay`'s; that
module's dead lock is here as `hung`. A connection whose socket could not be written to is
`broken`: its lines are read on, but the idle exit sees no client.

**`ScreenParser`** is `ClaudeV21Parser` over rows known by their *look*, the class a
regular expression puts them in. All the decisions of the parser are there: the
order of its tests, the slices of the screen it looks at, where a reply begins and
ends, which rows are joined (`Rejoined`, used with the parameters of `mod.rs` and
of `reflow.rs`). It declares no variables.

**`LiveStream`** is a CLI that paints such a screen, row by row and panel by panel, and
the part of the tick that streams a turn from it (`Look`, `Close`, `Stream`). The
parser's properties are invariants of this module, evaluated on every screen that
can arise, torn ones included. They are stated for a Monitor that has not ticked
yet (`Unread`), because the screen does not depend on what is read off it.

Definitions whose comment begins with *fault* or *Fault* are plausible bugs.
They are used by nothing in the specifications; `PROJECT.json` pairs each with
the definition it replaces and the property that then fails.

`EventRelayProofs`, `TurnRelayProofs`, `TurnReplyProofs`, `SessionLifecycleProofs`,
`PromptDeliveryProofs`, `TerminalAttachProofs`, `DaemonSocketsProofs` and
`LiveStreamProofs` hold the proofs.

## 3. The runs

Passing runs.

| Run | Shows |
|---|---|
| `Turns` | One session, two turns in any mix of sent and unsent, every benign habit of the CLI at once. Each completion taken from a transcript is one whole reply (`RepliesWhole`), no turn is relayed twice by any of the three paths (`NoTurnTwice`), a reply whose rows were read past has been relayed (`NothingLost`), the screen closes only turns without a reply (`ScreenIsLastResort`). `KeepsLedger`: monitor and watcher implement `TurnLedger`, so a sent message is answered by its own turn. |
| `RoughTurns` | Two sessions in one directory and a CLI with the habits that break the promises above. The cursor still never passes the end of its file (`CursorInBounds`), never goes back on it (`NeverReread`), and within a tick no watcher moves onto a sibling's transcript (`TickAvoidsSiblings`). |
| `TurnsLive` | Under fairness every wait ends, also after an Esc, and every reply is relayed. |
| `EventRelay` | Three connections and four events, buffer and sockets of two. `StreamKept`: order, no gap within a connection, at most one event lost per client, nothing held back behind an attached client. `Accounted`: every event was sent, is buffered, overflowed or was lost with the client that broke the flush. `ServedIsFreed`: once a client has been greeted the lock is freed again, unless that client stands still with its socket full and does not go away. |
| `Delivery` | Two messages, two dialogs, both input modes with the switch seen or missed, lost Enters, compaction, a transcript born before its user row, writes that fail. Every prompt is free of probe characters (`SubmittedClean`), no message is submitted twice (`SubmittedOnce`), and none is dropped (`NothingDropped`) until the loop has given one up. It gives up only a message an Enter was lost for, or in a dialect the CLI does not honour (`GivesUpForCause`). An Enter read in a dialog is the one that confirms the answer to it (`EnterIsChosen`). |
| `DeliveryHostile` | Dialogs that come up over what was typed and not read yet, chain and linger, and pastes that lose their head or are erased in part. Still nothing is typed at a dialog but the answer and its Enter (`NoBlindKey`). An Enter or a paste that was under way when the dialog came up does go into it, and no daemon could take it back; what is shown is that the retries that follow do not submit a message twice (`SubmittedOnce`). |
| `DeliveryLive` | Under fairness every accepted message is submitted. |
| `Lifecycle` | Three creates and four CLIs of one key, kills, reaps, resumes that die, spawns that fail and startup dialogs, for a client that waits for `ready` before it kills or creates. No message is lost without word (`NothingVanishes`), no CLI runs that the map does not hold (`NoOrphan`), no key meant for a startup dialog reaches the prompt, unless another hand has moved that dialog between the capture and the read of the key (`NoStrayKey`), `ready` says "resumed" just when the CLI was (`ReadyTruthful`), and every create is answered (`EveryCreateAnswered`). |
| `Attach` | Two terminals, one of which may stop reading, attach to a session that is killed and created again. What a terminal was painted first and what it received after make up the output without a gap (`NoGap`); when the stream ends the last byte has been shown (`EndIsShown`); a terminal that does not read holds up neither the reader thread nor the other terminal, which is shown everything or what came later (`CatchesUp`). |
| `Daemons` | Three daemons on one path start, idle out, are told to end and are killed. Unless two starts race, the path leads to the daemon that listens (`NeverDisconnected`) and no file left behind makes a start fail (`StaleNeverBlocks`). A daemon no path leads to ends (`OrphansEvaporate`). |
| `Stream` | Two turns, dialogs, drafts and both ways to draw the box, with a screen high enough that a reply stays on it. A frame streamed belongs to the turn waited for (`FramesAreOfTheTurn`) and reaches its last row (`StreamIsFresh`); a dialog is seen when and only when there is one, with its own question and options, and at startup only a dialog is keyed into (`DialogsAreRead`); work and its end are told apart (`ProgressIsRead`); no row of a reply is lost or doubled by the extractions (`RepliesAreWhole`); and un-wrapping joins the rows of a paragraph (`ParagraphsAreRejoined`). |

The run that ends in a violation, where the code does not do what its own comment
says (`findings` in `PROJECT.json` quotes it):

| Run | Property | Disagreement |
|---|---|---|
| `EventRelayStuck` | `LockFreed` | the lock guard in the scrutinee of an `if let` lives through its body, which locks the same mutex: a client that dies in its handshake stops the daemon. |

Further disagreements met while modelling. Each has a `.cfg` that shows it with
`tlc -config X.cfg M`; they are not part of the regular runs.

| cfg (module) | Property that fails | What happens |
|---|---|---|
| `ReplyFork` (MCTurnRelay) | `NoTurnTwice` | `prime_to_eof`, called at every completion, resets `completed_since_pin`, so the guard that adopts a fork after a reply at its end is off exactly when it is needed, and the reply is relayed again |
| `BackToBack` (MCTurnRelay) | `NothingLost` | `prime_to_eof` at an observed completion clears a follow-on turn that is already under way in the same batch |
| `LateRow` (MCTurnRelay) | `ScreenIsLastResort` | the screen looks finished before any row is written: the fallback completes the turn from the screen |
| `LateStraddle` (MCTurnRelay) | `RepliesWhole` | the thinking row of a split final message closes a turn that has earlier text, without the final text |
| `EmptyHang` (MCTurnRelay) | `EveryWaitEnds` | MAX_TURN is not tested while the transcript holds a turn open, and a turn without text stays held open |
| `SiblingTurn` (MCTurnRelay) | `OwnTurnsOnly` | a watcher pins the fresh transcript of a sibling that has not pinned it yet |
| `LateEcho` (PromptDelivery) | `SubmittedClean` | probe characters are miscounted after a frozen input layer |
| `StaleWitness` (PromptDelivery) | `NothingDropped` | the reply of another turn passes for the start of this one |
| `TailUnseen` (PromptDelivery) | `TruncationSeen` | a truncated prompt is not checked when another witness of the start comes before its row |
| `TailOverHeld` (PromptDelivery) | `HeldSurvives` | re-holding a truncated message assigns `pending_text`, and drops what the client sent meanwhile |
| `StaleCard` (PromptDelivery) | `CardIsCurrent` | the flag of a relayed question outlives its dialog, and the next one is not relayed |
| `KillUndone` (SessionLifecycle) | `KillIsFinal` | a session missing because it was killed counts as a failed `--resume`, and the finalizer spawns a fresh CLI after the kill |
| `StrayKey` (SessionLifecycle) | `NoStrayKey` | two finalizers of one key each remember their own last frame and answer the same startup dialog; the second key lands in the prompt |
| `Overwritten` (SessionLifecycle) | `NothingVanishes` | the retry of a dead `--resume` removes or overwrites a session created meanwhile, with its message |
| `Stray` (TerminalAttach) | `TypesWhereItLooks` | a terminal looks its session up by key for each key typed: after a kill and a create it shows one CLI and types into another |
| `ModeSplit` (TerminalAttach) | `ModeTracked` | the reader scans each read by itself for the win32-input-mode sequence and misses one that a read cuts in half |
| `AttachTaken` (DaemonSockets) | `AttachLeadsHome` | an exit removes the attach path last, and only the control path is probed: a daemon that starts meanwhile loses its attach socket |
| `ProbeHangs` (DaemonSockets) | `ProbeIsHarmless` | the probe of a start connects and closes, which is the handshake failure of `EventRelayStuck`: starting a second daemon can hang the first |
| `RacingStarts` (DaemonSockets) | `NeverStolen` | probe, unlink and bind are three steps: two starts that both find nobody take the path from one another |
| `EscStale` (LiveStream) | `FramesAreOwn` | a turn ended by Esc leaves no completion to tell its reply by, and the next turn streams it as its own first frame |
| `Frozen` (LiveStream) | `StreamNeverFreezes` | once a long reply has scrolled the message off, rows leave the extraction at the top as they come in below, and the collapse guard keeps the frame back |
| `LingeringDialog` (LiveStream) | `StartupKeysAreForDialogs` | a dismissed dialog that is still on the screen is answered again |
| `NumberedMessage` (LiveStream) | `DialogIsSeen` | a message that begins with a number looks like a selected option |
| `ChatRow` (LiveStream) | `QuestionIsItsOwn` | the last option of a dialog that stands under a rule of its own is not among the options relayed |

Variants of these, a few lines of a cfg apart:

| Change | Property that fails | What happens |
|---|---|---|
| `LateEcho` with `Feature = {"overlap"}`, `MaxMsg = 2` | `SubmittedClean` | a send during a submit resets the probe count |
| `LateEcho` with `Modes = {TRUE}`, `Feature = {"lag"}`, `MaxMsg = 2`, `MaxProbe = 4` | `SubmittedClean` | a row that comes late: probes are typed into a running turn |
| `LateEcho` with `MaxTyped = 3` | `SubmittedOnce` | a re-paste lands on top of a paste that was only read late |
| `TailUnseen` with `MaxMsg = 2`, `MaxCut = 2` | `TruncationRetried` | the one re-paste is per session, not per turn |
| `SiblingTurn` | `SpawnAvoidsSiblings` | the fresh transcript of a sibling, at a spawn |
| `SiblingTurn` with `MaxOld = 1` | `NoHistoryReplay` | a watcher left without a file by its siblings starts the first one it gets at offset 0 |
| `EmptyHang` with `Spec`, `MaxTurn = 2`, `MaxPart = 2`, `Feature = {"organic", "empty"}` | `RepliesWhole` | the terminal stop of a turn without text closes the turn after it at its first text |
| `Delivery` with `"sudden"` | `NothingDropped`, `SubmittedClean`, `EnterIsChosen` | what was typed before a dialog came up goes into it: a paste is lost, a Backspace does not erase, an Enter answers |
| `Delivery` with `"chained"` | `EnterIsChosen` | a dialog that the digit has answered closes into the next before the confirming Enter is read (`main.rs` 780; the comment 777-779 has it that the Enter is dropped when the dialog is gone) |
| `Delivery` with `Modes = {TRUE}`, `"plain"` | `NothingDropped`, `SubmittedClean` | two Backspaces for the one probe character that was echoed take a character of the text (`main.rs` 1116-1120, `session.rs` 140-142) |
| `Delivery` with `"ghost"` | `SubmittedClean`, `NothingDropped` | the Enter that confirms an answer is typed while the dialog is only a leftover, and submits what is in the box |
| `DeliveryHostile` with `"warm"` or `"swallow"` | `SubmittedOnce` | the same, when a dialect wrongly proven has piled up pastes in the box |
| `Delivery` with `NothingDropped` and `SubmittedOnce` for each message not given up itself | both | what a given-up message leaves in the box is submitted in front of, or in place of, the next one |
| `Lifecycle` with `KeysStayOut` for `NoStrayKey` | `KeysStayOut` | a user dismisses the startup dialog between the daemon's capture and its key, which lands in the prompt |
| `StrayKey` with `MaxCreate = 3`, `MaxProc = 4`, `MaxDialog = 0` | `ReadyTruthful` | the finalizer of a killed session reports the one created after it |
| `Overwritten` with `Feature = {"overtaking"}`, `MaxMsg = 2` | `NothingVanishes` | the retry carries `pending_text` or else `sent`: of a held message and one pasted past it, the second is lost |
| `Lifecycle` with `Feature = {}`, `MaxCreate = 1`, `MaxProc = 1` | `ReadyIsLive` | `ready` is emitted without a look whether the session is still there |
| `EventRelay` with two clients, `MaxEvent = 2` | `OnlyOverflowLoses` | the event being flushed when the client breaks off is in no buffer any more |
| `Stray` with `Feature = {"modes"}` | `InputHonoured` | `cmd_input` types raw bytes whatever the input mode |
| `Daemons` | `ExitKeepsNoOneWaiting` | a client in the backlog is dropped when the idle exit comes first |
| `NumberedMessage` with `Feature = {"quote"}` | `DialogIsSeen` | a reply that quotes a dialog's footer reads as a dialog |
| `NumberedMessage` with `Feature = {}`, `Drafts = {"empty", "lines"}` | `FramesAreOfTheTurn` | the second line of a draft is streamed as part of the reply |

And one without a cfg, on which `ParagraphsAreRejoined` is silent by its last
conjunct: `reflow` measures the line it has joined so far and not its last row, so
below a wrapped paragraph it takes the next paragraph in, while `reflow.rs` says it
reconstructs paragraphs to the byte. The property demands of it only that no
paragraph is left in pieces.

## 4. Bounds, and why they are enough

Every bound is a constant. `MaxTurn`, `MaxMsg`, `MaxEvent`, `MaxDialog` bound how
much happens; two turns or messages are needed for one to disturb the other, and
a third adds nothing the code keeps (the accumulator and the submit loop
remember one turn). `MaxOld` and two files give a pinned transcript and one to
roll to. `MaxPart = 3` gives a turn a tool call, its result and text, or text before and after. `BufMax` and
`SockMax` of two let buffer and socket be empty, partly full and full; three
clients let two fail in a row before one is served. `Quiet = 1` is the shortest
stillness: the fallback races the transcript as early as it can. `MaxLog` stops
ticks once that many completions are out, one more than a correct daemon emits.
`MaxTyped` and `MaxProbe` keep a frozen CLI from being probed without end. `DeliveryHostile` has
no lost Enters and no compaction: with a dialog that lingers they break `SubmittedOnce` (section 3);
`"late"` is in no passing run, and `KeysNotBlind` proves `NoBlindKey` with it and every other habit.

In `Lifecycle` three creates are one that fails or ends, one that resumes and may die,
and one after it; four processes add the retry; two messages let one wait behind
another; two dialogs let the second follow the first. The creates, once used up,
stop the system there, so deadlock is not checked.

In `Attach` a channel of one chunk makes a receiver lag after two; tokens of three
bytes make reads shorter and longer than a token, and two lives are a stream that
ends and one that follows. In `Daemons` the third daemon starts while one exits
and one is killed. In `Stream` the slice a dialog is looked for in is 7 rows for
10 in the code, the pane 5 columns and 10 rows: the dialogs, spinners and drafts
painted are smaller in the same proportion, so that replies come into the slice and go out
of it. Two turns are needed for a frame of the wrong one, two things said for a
reply that goes on.

Deadlock is checked in the runs `Turns`, `TurnsLive` and those of
`PromptDelivery`. It is off where the bounds stop the system: `RoughTurns` (the log
may be full), `EventRelay` (all connections used and closed), `Attach`, `Daemons`
and `Stream` (lives, daemons and turns used up).

## 5. Fairness

* The daemon: weak fairness of its step. `poll` runs on an interval and its code
  has no loop that waits; in `EventRelay` a write goes on as soon as it can.
* A client that has not stopped reading reads on (`Reads`). It may stop at any time
  with its socket full (`StopsReading`), and nothing makes it go away then; `ServedIsFreed`
  names that case (`Clogged`), because the code has no write time-out.
* The CLI: a row begun is finished, a message at the prompt is taken up, a tool
  answers, a turn ends. Strong, because its steps are disabled during a tick.
  Nothing makes it start turns by itself or the client send.
* Timers in `PromptDelivery`: a choice offered at every tick is taken in the end
  (strong). So is the painting of a dialog that can be parsed.
* The finalizer in `SessionLifecycle`: weak fairness of each task. It is spawned on
  the runtime and its sleeps end; nothing is assumed of the CLI or the client.
* The screen fallback in `TurnRelay`: once the screen may stay still, it does.
* `TerminalAttach`: the reader thread of each session and a task that holds the lock
  run on; a terminal outside `Stalled` reads. The broadcast channel never blocks its
  sender.
* `DaemonSockets`: a daemon takes the steps of a start and of an exit, accepts,
  reaps and looks at its clock, and a client hangs up in the end. Nobody has to
  start, end or kill a daemon.
* The client answers a question it was shown. Else a held message waits, as it
  should.

## 6. What is proved

`EventRelayProofs`, for any set of connections, buffer and socket size and number
of events (`NoClient \notin Client`, `BufMax \in Nat \ {0}`, `MaxEvent \in Nat`):
`Types`, `StreamIsKept`, `EveryEventAccounted`: all the safety invariants of the run. `InOrder` and `NoGap`
say nothing of the buffer, so they are not inductive. The invariant `IInv` adds
that the buffer is the run of events that ends with the last one emitted
(`BufferIsTail`), that it is filled only while no client is attached
(`BufferMeansGone`), and that everything sent is older than it, the last thing
sent to the client being served directly older (`SentIsOld`, `UpToDate`). Then a
flush goes on where the last write left off, and a live event where the flush
ended.

`TurnRelayProofs`, for any sessions, transcripts, number of turns and for *every*
set of habits, those of the violating runs included (`NoFile \notin File`,
`NoSession \notin Session`, `MaxTurn \in Nat`, `Quiet \in Nat \ {0}`): `Types`,
`CursorNeverBeyondEnd`, `HeldTurnsAreEmpty`, `NoRowReadTwice`, `SiblingsLeftAlone`.
The cursor facts rest on one lemma about the environment, that a transcript only
grows, and on an invariant about the offsets the watcher keeps aside: each length
noted at a pin is at most the present length (`PinInBounds`), which is what makes
a roll start inside its file. `SiblingsLeftAlone` needs that during a visit the
exclusions are the pins taken when the tick began (`TickOK`).

`TurnReplyProofs` has the promises of the run `Turns`: `EveryReplyWhole`, `NoReplyTwice`
with `RelaysInOrder`, `ScreenOnlyForSilent`, `NoReplyLost`, and `LedgerKept`, the
refinement of `TurnLedger`. They hold for any number of turns, rows of a turn and files
(`IsFiniteSet(File)`), with old conversations, title files, half-written rows, tool
calls, split final messages, interrupts, metadata and forks of a resumed transcript. Two
hypotheses: the session is alone in its directory (`Lone`; with a sibling `SiblingTurn`
breaks them), and the CLI and the client leave out eight habits (`Benign`). Of these
`ReplyFork`, `BackToBack`, `LateRow`, `LateStraddle` and `EmptyHang` with its variant
show that they break a promise. A turn that overtakes a sent message and a send into a
running turn are left out because the code takes the next turn it sees for the one sent,
and MAX_TURN because it gives a turn up on purpose. Unlike `Turns`, the theorems are not
bound to a small number of turns or parts.

The invariant is `AllRelay` (`Relay`, for each session). The accumulator is a fold over
the rows read, and no induction over rows is to be had; but it need not be computed.
Each row is tied to the one before it (`Follows`, `Chained`), so the last row read that
belongs to a turn (`LastRead`) says which turn is being put together, how many parts of
it there must be and whether the turn is held for the gate (`Holding`). This is
preserved by a row read because the next row may only follow that one, by a row written
because it goes to the end, and by a pin because at the prompt the last row on disk is
the end of a turn (`AtEnd`). Then there are three facts about the rest: the turns
relayed, with those closed in the poll under way, ascend and are over (`Ledgers`); a
reply read past is among them or held (`Relayed1`); and a watcher on another file than
the CLI's has read nothing (`Away`) and will be at offset 0 of the CLI's when it finds
it, because a title is no conversation and an old one is older (`Directory`). The
fallback is no race because a visit reads all that is on disk, and at a finished screen
that is the whole turn (`ScreenSees`): a reply in it would have been closed by the gate
(`ScreenUnsaid`). For `LedgerKept` moreover the replies closed in one poll are the
oldest not yet told (`OldestFirst`): turns come in their order in the transcript
(`TurnsRise`), and all before the last row read has been told.

`SessionLifecycleProofs`, for any number of creates, processes, messages and dialogs:
`Types` for every client; `NoOrphans` for a client that waits for `ready` before it
kills or creates (`"impatient" \notin Feature`); `MessagesKept` for one that moreover
has no message pasted past a held one. The argument for `NoOrphans` is that at most
one finalizer is at work (`OnePending`), so that what it takes out of the map without
a kill is the session it has itself found dead (`DeadWhenRetried`). `MessagesKept`
adds that text waits or is in flight, not both (`OneText`), which is why a retry that
carries one of the two loses nothing, and that only a finalizer about to respawn
carries any (`OneCarried`). The hypotheses are needed: without them `Overwritten` and
its variant violate the property. Under the first hypothesis also `KeysStayInDialogs`,
`ReadyTellsTruth` and `KillsAreFinal` (`KillIsFinal`, which is in no passing run). A key
for a startup dialog waits on the CLI's tty while the CLI paints, dies or is killed; the
invariant is that at most one such key is unread, that a dialog is up for it, and that
the finalizer at work remembers having answered this frame (`KeyForDialog`), so that it
types no second one. Between the capture and the key nothing but the finalizer itself answers that dialog, or
`disturbed` says otherwise: the theorem claims nothing then, because the key does reach the prompt. `ReadyTellsTruth` needs that a pending finalizer knows whether the CLI in
the map was resumed (`ResumedKnown`), `KillsAreFinal` that while one is pending the session
is still wanted (`WantedWhilePending`): a client that waits for `ready` kills none before.

`PromptDeliveryProofs`, for any habits, messages, dialogs and truncated pastes
(`BoundsAssumption`): `TypesOfDelivery` and `KeysNotBlind` (`NoBlindKey`): each part of a tick and
each command types, on a capture with a dialog, nothing but what the client has chosen. A dialog and
an answer to be confirmed have numbers (`DialogNumbered`, `AnswerKeyed`, `CardsNumbered`), by which the Enter
says what it is for. What the CLI then reads is another matter: `EntersAreChosen` (`EnterIsChosen`)
is about the read. Its invariant `Answered` is that while a dialog is up every Enter that lies unread is
meant for this one, which holds when it comes up because nothing is unread then, and later because only
the confirming Enter is added. It has two hypotheses, both needed: no dialog closes into the next, and
none comes up over keys not read yet. `HeldIsKept` (`HeldSurvives`) is for a CLI that keeps the whole of
a paste and shows it as one chip. It needs the types: no piece
of any text is cut, so the tail that would make the daemon hold a message again over
another one (`TailOverHeld`) never comes.

The same module has `PromptsAreClean`, `MessagesOnce` and `MessagesKept`, the promises
of the run `Delivery`, for any number of messages and dialogs, both input modes, a missed
switch between them, writes that fail, lost Enters, forks, compactions and a cold or a warm
start. They are claimed until a message has been given up (`GaveUp`). Lost Enters and a dialect wrongly
proven do lead there, and then the message is dropped with no event to the client and left in the
box; from then on the code promises nothing. `GivesUpHasCause` bounds that exception: the first give-up is for
a text an Enter was lost for, or in a dialect the CLI does not honour, so a CLI that reads every
Enter and paints nothing of its own under a probe loses no message. The hypothesis `Orderly` leaves out the habits
that break the three (`LateEcho`, `StaleWitness`, `TailUnseen` and the variants): keys read only after
a time-out, rows that come late, truncated pastes and pastes erased in part, dialogs that
chain, linger or come up over keys not read yet, a send while a
message is being submitted or a turn runs. The invariant `Once` says for each phase of the submit loop what may lie
unread and what is in the input box, and why both are needed is seen from the end: the
prompt the CLI takes up is the box, so the box must be the loop's text alone whenever an
Enter that is honoured may be read (`BoxFacts`, `TypedFacts`); for that the probe characters
in the box and on their way must be as many as the loop has counted (`ProbeFacts`), and the
Backspaces that erase them go ahead of the paste (`InOrder`). The case
that makes the invariant long is a repaint taken for the echo of a probe: the loop then
believes in a dialect that is not the CLI's, pastes may pile up in the box, and nothing
is submitted because its Enter is in that dialect too (`ForeignFacts`); such a loop ends by giving the
message up. Before the first give-up a loop that has run out of Enters in the CLI's own dialect has had one lost
(`EnterLost`). That a message is submitted
once is then a fact about who has it: held, owned by the loop, or among those submitted (`MsgFacts`),
and the loop lets go of it when it sees the turn run (`TurnFacts`).

`TerminalAttachProofs`, for any terminals, channel size, token width and bounds
(`TerminalAssumption`, `CapAssumption`, `WidthAssumption`, `BoundAssumption`): `Types`,
`PictureAndStreamJoin`, `StreamEndsWithLastByte`. The chunks broadcast lie end to end
and end where the screen model does or, between paint and broadcast, one chunk
before; a terminal that has not lagged has seen exactly what is before its place in
the channel.

`DaemonSocketsProofs`, for any daemons and connections (`DaemonAssumption`,
`ClientAssumption`): `Types`, `IncumbentStays`, `StartsSucceed`, and `ExitsClean` (no
orderly exit leaves a path that leads nowhere). The middle two are for starts that
do not race: then at most one daemon is past its probe, so whoever unlinks the path
has found nobody behind it and nobody comes between the unlink and the bind.

`LiveStreamProofs`: `StreamTypes` and `FramesOfTheTurn`, for any height and width of the
terminal, any number of turns and of things said in one, both ways to draw the box, and
every feature: dialogs left over, replies that quote a dialog, numbered messages. Two
hypotheses: `BottomRows > 5` (10 in the code), without which the box alone would hide the
dialog above it from the slice a dialog is looked for in; and `"lines" \notin Drafts`: the
second row of a draft is not told from a reply, and with one the frame holds it. The
argument starts from what a capture is that reads as no dialog: the end of what the CLI has
printed at some moment since, and the box below it (`Shape`, `ViewIs`), because a dialog has
its footer in the last rows, also one that is left over above a box. The invariant then says
three things. The conversation is a run of turns, each of which begins with its message and,
when it is over, ends with a completion or with the note of Esc (`Conversation`), so a row
below one of the turn is of the turn, and it remains to see where the extraction starts. A frame gets
through the gates only when a bullet of this turn has been painted or the turn before was
cut (`Seen`): the verdict "responding" is given for a bullet that no completion and no message
follows, and a transcript that has opened the turn has echoed it. And the baseline is at least the number
of bullets above the message on any later screen of such a cut turn (`Counts`), or the second strategy,
counting, would start in the reply before. With these, each of the four strategies and the spinner
of the last resort start at or below the message (`StartIsOfTurn`), or, after an Esc, in the turn cut.

The same module proves what is read off the screen itself. `ProgressRead` says that a settled
screen tells whether a turn is under way and whether it is over (`ProgressIsRead`);
`DialogsRead` that a screen, settled or torn, reads as a dialog when and only when it shows
one, with the dialog's own question, command and options, and that startup keys go into a
dialog and lead to the wanted answer (`DialogsAreRead`). Their hypotheses exclude what the
properties do not survive: `"quote"` and `"number"` (a quoted footer is a dialog to
`detect_state`, and a numbered message is an option under a cursor), and for dialogs `"ghost"`
and `"chat"` (the screen then shows a dialog that is gone, or a third row in it); the height
must be more than the box (`Height > 5`), or than the dialog (`Height > 6`). Both need a
second invariant, `Steady`: no row printed but a message begins with a chevron, a
message has no number and its reply begins with a bullet, no completion of the turn under way has been printed, a compaction notice stands
right below a completion. With it, the rows of any such screen are classified once
(`PaintedRows`): a chevron row is an echoed message, without a number and under no rule, or the draft, under
one, so `is_composer_row` tells them apart (`ComposersOfScreen`), no option has the cursor, and
`detect_state` finds no dialog (`NothingAsked`). Under a turn that is over stands its completion, below
the last message and after the last bullet (`CompletionShown`, `OverIsQuiet`, `CompletionIsOver`). And
a dialog's two options are the last sequence of options on the screen, whatever list stands
above, because the first of them is numbered 1 and no option precedes it with number 0 (`PickerIs`).

`StreamFresh`, in the same module, is the action property of the run: a tick over a settled
screen with a reply under way, its message in view, leaves the last row of the reply in the
stream (`StreamIsFresh`). Its hypotheses are those of `FramesOfTheTurn` and `ProgressRead`,
and each is needed: TLC violates the property with `"lines"` among the drafts, with
`"quote"`, and with `"number"` when the message is within the bottom rows. On such a screen (`Replying`, `MessageAbove`) the message is the
last one echoed, a bullet stands right below it (`Opens`, of `Steady`) and nothing below that is
a message or a completion; so the first strategy starts at that bullet,
nothing closes the response, it goes on to the end of the tail, which is the last row of the reply or the
spinner below it (`FrameWhole`, `FrameShown`), and the verdict is "responding"
(`ReplyingActive`). There remain the two guards on what was streamed before, and for them a third
invariant, `Follows`: the final frame of the turn before holds only rows of older turns and
spinners (`Olds`), so this frame is not it; and a frame already streamed of
this turn alone fits between its message and the end of the conversation, with one
row for a spinner (`Fits`), so the new frame is never less than half of it (`NoFlicker`). The theorem
is about a message in view: without it the stream may stop (`Frozen`, section 3).

Only model-checked: `RepliesAreWhole` and `ParagraphsAreRejoined` of the run `Stream`, which
speak of extractions built on folds and on selections from a sequence, about which there
is no induction to be had; and all liveness, which is beyond the proof system.

## 7. What is not modelled

* The regular expressions of the parser: a row is given by the class they put it in.
  Nor its registry, tab chips, and the cut at 1200 characters of a question's
  context. The rows of agents' pickers, nags and progress bars are in the parser,
  but the CLI of `LiveStream` does not paint them. In `PromptDelivery` and
  `TurnRelay` the parser's verdicts are given.
* In `LiveStream`: the thinking events and their dedup, which change nothing else.
  The length of a frame in rows stands for its bytes in the collapse guard.
  `FramesAreOfTheTurn` allows a spinner row in a frame. `ProgressIsRead` says
  nothing of a turn that Esc has ended, which leaves no row to tell its end by. The
  replies of different turns always differ.
* Tool and usage frames, the subagents' frames (`subagents.rs` tails other files for
  display; it decides nothing), the diagnostics log (append and rotate), `pane.rs`,
  scripts and examples.
* The TCP mode of the daemon: its port has no path to race for.
* In `TerminalAttach`: a chunk that is painted and not yet broadcast when a terminal
  captures is shown to it twice, as picture and as stream; `NoGap` is about what is
  missing. The refusal of a terminal for an unknown session is written while the lock is
  held (`main.rs` 1672-1681, 1705-1716): `Refuse` takes no time. A human typing by hand over the submit loop is outside what the daemon
  promises.
* In `DaemonSockets`: a daemon that hangs (`EventRelayStuck`) does not evaporate, and
  `OrphansEvaporate` excepts it.
* A create for a key whose session exists: it reports `ready` and changes nothing.
* Two keys at a time in `SessionLifecycle`: the map's entries share no state but the
  transcripts, which `TurnRelay` has.
* The order in which a held message and one sent later arrive.

## 8. Plan

1. The promises about replies for several sessions in one directory: `Lone` weakened to
   CLIs whose transcripts the siblings' watchers have pinned.
2. Lemmas about the extractions of `ScreenParser` (`RepliesAreWhole` for any screen), which
   needs its folds as recursive functions.
3. The subagent watcher, whose reads share the hazards of the transcript's.
