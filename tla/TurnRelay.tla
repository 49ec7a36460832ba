------------------------------ MODULE TurnRelay ------------------------------
(***************************************************************************)
(* How the daemon decides that a turn is over and relays it: the monitor's *)
(* tick (Monitor::poll of src/src/main.rs) over the transcript watchers of *)
(* its sessions, the send that starts an observed turn, the organic path,  *)
(* and the screen fallback.                                                *)
(*                                                                         *)
(* The monitor is behind one mutex and poll() awaits only when it emits,   *)
(* so a tick excludes every command.  The CLIs are other processes: they   *)
(* write between any two visits of a tick.                                 *)
(***************************************************************************)
EXTENDS JsonlWatcher, ClaudeCli

CONSTANTS
  Channel,   \* the sessions whose key names a channel: `<name>:<channel>`
  Quiet,     \* bound: the visits QUIESCENCE is counted as (8 s hold 26 of them)
  MaxOld,    \* bound: finished conversations in the directory at the start
  MaxLog     \* bound: no tick starts once this many completions are out

ASSUME QuietAssumption == Quiet \in Nat \ {0}

VARIABLES
  live,      \* the sessions that have been spawned
  observing, \* observing[s]: a message was sent and its turn is not yet closed
  asked,     \* asked[s]: the turn that message becomes
  still,     \* still[s]: visits since the screen of s last changed, up to Quiet
  tick,      \* the monitor's tick: sessions still to visit, pins taken at its start
  log        \* every `complete` event emitted so far (history)

monitorVars == <<live, observing, asked, still, tick, log>>
vars == <<transcriptVars, watcherVars, cliVars, monitorVars>>

(* via: "turn" for the turn that was sent, "organic" for one nobody sent,  *)
(* "screen" for a completion taken from the screen.                        *)
Complete == [who : Session, via : {"turn", "organic", "screen"},
             content : Seq(Part), asked : Turn]

Entry(s, via, content) == [who |-> s, via |-> via, content |-> content, asked |-> asked[s]]

Free == tick.todo = {} /\ batch = Idle

-----------------------------------------------------------------------------
(* cmd_send with nothing in the way: begin the turn, paste, submit.  A     *)
(* client sends again only once the turn before is complete.  Without      *)
(* "busySend" it also waits until the CLI is at its prompt and everything  *)
(* the CLI wrote has been read.                                            *)
CaughtUp(s) ==
  /\ CliAt(s, "prompt")
  /\ cli[s].home # NoFile => file[s] = cli[s].home /\ pos[s] >= Size(cli[s].home)

Send(s) ==
  /\ Free
  /\ s \in live /\ ~observing[s] /\ inbox[s] = 0
  /\ nextTurn <= MaxTurn
  /\ Can("busySend") \/ CaughtUp(s)
  /\ BeginTurn(s)
  /\ inbox' = [inbox EXCEPT ![s] = nextTurn]
  /\ asked' = [asked EXCEPT ![s] = nextTurn]
  /\ nextTurn' = nextTurn + 1
  /\ observing' = [observing EXCEPT ![s] = TRUE]
  /\ still' = [still EXCEPT ![s] = 0]
  /\ UNCHANGED <<transcriptVars, cli, length, owner, live, tick, log>>

-----------------------------------------------------------------------------
(* One tick: take every session's pin, then visit the sessions in the      *)
(* order the hash map yields them.                                         *)
StartTick ==
  /\ Free
  /\ Len(log) < MaxLog
  /\ tick' = [todo |-> live, pins |-> file]
  /\ UNCHANGED <<transcriptVars, watcherVars, cliVars, live, observing, asked, still, log>>

SiblingPins(s, pins) == {pins[o] : o \in live \ {s}} \ {NoFile}

Polls(s) == observing[s] \/ s \in Channel

(* Tell the watcher its siblings' transcripts, then poll it. *)
Visit(s) ==
  LET ex == SiblingPins(s, tick.pins)
  IN  /\ batch = Idle
      /\ s \in tick.todo
      /\ excluded' = [excluded EXCEPT ![s] = ex]
      /\ IF Polls(s)
         THEN PollOpen(s, ex)
         ELSE /\ file' = [file EXCEPT ![s] = Repinned(s, ex)]
              /\ pos' = [pos EXCEPT ![s] = RepinnedPos(s, ex)]
              /\ batch' = Nothing(s)
              /\ UNCHANGED <<pinnedId, hint, newSincePin>>
      /\ UNCHANGED <<transcriptVars, pinPos, atPin, atPinFiles, pinned, touched,
                     acc, cliVars, monitorVars>>

ReadStep == ReadRow /\ UNCHANGED <<cliVars, monitorVars>>

-----------------------------------------------------------------------------
(* The end of a visit: the gate of jsonl.rs, then what the monitor makes   *)
(* of the turn_complete events.                                            *)

(* Fault: of several closed turns only the first is relayed.               *)
RelayedFirstOnly(s, out) ==
  <<Entry(s, IF observing[s] THEN "turn" ELSE "organic", Head(out))>>

(* The first one closes the observed turn; the ones behind it are relayed  *)
(* as organic, if the session has a channel.                               *)
Relayed(s, out) ==
  LET organic(c) == Entry(s, "organic", c)
  IN  IF observing[s]
      THEN <<Entry(s, "turn", Head(out))>> \o
           (IF s \in Channel THEN [i \in 1 .. Len(out) - 1 |-> organic(out[i + 1])] ELSE <<>>)
      ELSE [i \in 1 .. Len(out) |-> organic(out[i])]

Leave(s) ==
  /\ still' = [still EXCEPT ![s] = IF @ < Quiet THEN @ + 1 ELSE @]
  /\ tick' = [tick EXCEPT !.todo = @ \ {s}]
  /\ batch' = Idle
  /\ UNCHANGED <<transcriptVars, pinPos, atPin, atPinFiles, pinned, touched, pinnedId,
                 hint, excluded, newSincePin, cliVars, live, asked>>

(* No turn closed: the accumulator keeps what it has. *)
CloseQuiet ==
  LET s == batch.who
  IN  /\ BatchDone
      /\ GateOut = <<>>
      /\ acc' = [acc EXCEPT ![s] = GateAcc]
      /\ UNCHANGED <<file, pos, observing, log>>
      /\ Leave(s)

(* Nothing was sent: every closed turn is organic. *)
CloseOrganic ==
  LET s == batch.who
  IN  /\ BatchDone
      /\ GateOut # <<>> /\ ~observing[s]
      /\ acc' = [acc EXCEPT ![s] = GateAcc]
      /\ log' = log \o Relayed(s, GateOut)
      /\ UNCHANGED <<file, pos, observing>>
      /\ Leave(s)

(* The observed turn is closed, and the watcher moved to the tail. *)
CloseObserved ==
  LET s == batch.who
  IN  /\ BatchDone
      /\ GateOut # <<>> /\ observing[s]
      /\ log' = log \o Relayed(s, GateOut)
      /\ observing' = [observing EXCEPT ![s] = FALSE]
      /\ PrimeToEof(s, GateAcc)
      /\ Leave(s)

(* What the screen shows after QUIESCENCE: the prompt and the end-of-turn  *)
(* mark.                                                                   *)
ScreenDone(s) ==
  /\ still[s] = Quiet
  /\ CliAt(s, "prompt")
  /\ inbox[s] = 0 \/ Can("lateRow")

(* The screen fallback: only while the transcript does not hold the turn   *)
(* open, after QUIESCENCE on a finished screen or after MAX_TURN.          *)
CloseByScreen ==
  LET s == batch.who
  IN  /\ BatchDone
      /\ GateOut = <<>> /\ observing[s]
      /\ ~GateAcc.open
      /\ ScreenDone(s) \/ Can("maxTurn")
      /\ log' = Append(log, Entry(s, "screen", <<>>))
      /\ observing' = [observing EXCEPT ![s] = FALSE]
      /\ PrimeToEof(s, GateAcc)
      /\ Leave(s)

-----------------------------------------------------------------------------
(* A write by some CLI is seen by every watcher's directory scan. *)
CliWrites ==
  /\ batch = Idle
  /\ \/ WriteSidecar /\ UNCHANGED still
     \/ \E s \in live : /\ \/ CliStep(s)
                           \/ StartOrganic(s) /\ (observing[s] => Can("backToBack"))
                        /\ still' = [still EXCEPT ![s] = 0]
  /\ touched' = [s \in Session |-> touched[s] \cup WrittenNow]
  /\ UNCHANGED <<pinVars, excluded, acc, batch, live, observing, asked, tick, log>>

-----------------------------------------------------------------------------
(* JsonlWatcher::new: a new watcher stands at the end of its transcript.   *)
NewPos(f) == Size(f)

(* spawn_into: a fresh CLI, or one resumed into an old transcript nobody   *)
(* else runs in.  JsonlWatcher::new pins the newest transcript at its end, *)
(* and set_excluded moves it off the siblings' transcripts.                *)
Spawn(s) ==
  /\ Free
  /\ s \notin live
  /\ live' = live \cup {s}
  /\ \E h \in {NoFile} \cup (Existing \ {cli[o].home : o \in Session}) :
       /\ h # NoFile => IsConversation(h)
       /\ hint' = [hint EXCEPT ![s] = h]
       /\ cli' = [cli EXCEPT ![s].home = h]
  /\ LET ex == SiblingPins(s, file)
         first == FindActive(s, {})
         f == IF first \in ex THEN FindActive(s, ex) ELSE first
     IN  /\ excluded' = [excluded EXCEPT ![s] = ex]
         /\ file' = [file EXCEPT ![s] = f]
         /\ pos' = [pos EXCEPT ![s] = NewPos(f)]
  /\ UNCHANGED <<transcriptVars, pinPos, atPin, atPinFiles, pinned, touched, pinnedId,
                 newSincePin, acc, batch, inbox, nextTurn, length, owner,
                 observing, asked, still, tick, log>>

(* No session yet, in a directory that holds up to MaxOld finished         *)
(* conversations.                                                          *)
Init ==
  /\ \E old \in SUBSET File : Cardinality(old) <= MaxOld /\ TranscriptInit(old)
  /\ CliInit
  /\ WatcherInit
  /\ live = {}
  /\ observing = [s \in Session |-> FALSE]
  /\ asked = [s \in Session |-> 0]
  /\ still = [s \in Session |-> 0]
  /\ tick = [todo |-> {}, pins |-> [s \in Session |-> NoFile]]
  /\ log = <<>>

Next ==
  \/ CliWrites
  \/ StartTick
  \/ \E s \in Session : Spawn(s) \/ Send(s) \/ Visit(s)
  \/ ReadStep
  \/ CloseQuiet \/ CloseOrganic \/ CloseObserved \/ CloseByScreen

Spec == Init /\ [][Next]_vars

(* The daemon ticks forever and finishes every visit; a CLI that started a *)
(* row or a turn goes on with it; once the screen has been still for       *)
(* QUIESCENCE it stays so, and the fallback is not passed over forever.    *)
DaemonStep ==
  StartTick \/ (\E s \in Session : Visit(s)) \/ ReadStep \/ CloseQuiet \/ CloseOrganic \/ CloseObserved

CliGoesOn(s) ==
  /\ batch = Idle
  /\ FinishRow(s) \/ StartSent(s) \/ ToolAnswers(s) \/ WriteReply(s)
  /\ still' = [still EXCEPT ![s] = 0]
  /\ touched' = [o \in Session |-> touched[o] \cup WrittenNow]
  /\ UNCHANGED <<pinVars, excluded, acc, batch, live, observing, asked, tick, log>>

FairSpec ==
  /\ Spec
  /\ WF_vars(DaemonStep)
  /\ \A s \in Session : SF_vars(CliGoesOn(s))
  /\ SF_vars(CloseByScreen)

-----------------------------------------------------------------------------
(* Type invariant. *)
TypeOK ==
  /\ TranscriptTypeOK /\ WatcherTypeOK /\ CliTypeOK
  /\ live \in SUBSET Session
  /\ observing \in [Session -> BOOLEAN]
  /\ asked \in [Session -> Turn]
  /\ still \in [Session -> 0 .. Quiet]
  /\ tick \in [todo : SUBSET Session, pins : [Session -> File \cup {NoFile}]]
  /\ log \in Seq(Complete)

FromTranscript(e) == e.via # "screen"

(* What turn t says, once it is over. *)
Reply(t) == [i \in 1 .. length[t] |-> [turn |-> t, n |-> i]]

(* The turn a completion is about; 0 when its content is no whole reply.   *)
TurnOf(e) ==
  IF FromTranscript(e)
  THEN IF \E t \in 1 .. MaxTurn : length[t] # 0 /\ e.content = Reply(t)
       THEN e.content[1].turn ELSE 0
  ELSE e.asked

Relays(t) == \E i \in DOMAIN log : TurnOf(log[i]) = t

(* A completion taken from a transcript carries all of one turn's reply    *)
(* and nothing else: no truncation, no tail of the turn before.            *)
RepliesWhole == \A i \in DOMAIN log : FromTranscript(log[i]) => TurnOf(log[i]) # 0

(* No turn is relayed twice, by whichever of the three paths.              *)
NoTurnTwice == \A i, j \in DOMAIN log : TurnOf(log[i]) = TurnOf(log[j]) => i = j

(* The screen closes a turn only if the transcript never will.             *)
ScreenIsLastResort ==
  \A i \in DOMAIN log : log[i].via = "screen" => length[log[i].asked] = 0

(* Once a channel session has read all its CLI wrote, every reply of it    *)
(* has been relayed: none was skipped by a cursor that moved past it.      *)
NothingLost ==
  \A s \in Channel \cap live :
    Free /\ CaughtUp(s) /\ ~observing[s] /\ ~acc[s].pending =>
      \A t \in 1 .. MaxTurn : owner[t] = s /\ length[t] # 0 => Relays(t)

(* A session relays only turns its own CLI ran.                            *)
OwnTurnsOnly ==
  \A i \in DOMAIN log : FromTranscript(log[i]) =>
    \A k \in DOMAIN log[i].content :
      LET t == log[i].content[k].turn IN t # 0 => owner[t] = log[i].who

(* Conversations finished before the session was spawned are not relayed.  *)
NoHistoryReplay ==
  \A i \in DOMAIN log : \A k \in DOMAIN log[i].content : log[i].content[k].turn # 0

(* A session that has just been spawned is not on a transcript the CLI of  *)
(* a sibling writes.                                                       *)
SpawnAvoidsSiblings ==
  [][\A s \in live' \ live : \A o \in live :
       file'[s] # NoFile => file'[s] # cli[o].home]_vars

(* No cursor is beyond the end of its file: the next row is never skipped. *)
CursorInBounds == \A s \in Session : pos[s] <= Size(file[s])

(* As long as a watcher stays on a file its cursor never goes back.        *)
NeverReread ==
  [][\A s \in Session : file'[s] = file[s] => pos'[s] >= pos[s]]_vars

(* Within a tick no watcher moves onto a transcript that was a sibling's   *)
(* when the tick began.                                                    *)
TickAvoidsSiblings ==
  [][\A s \in live : tick.todo # {} /\ file'[s] # file[s] =>
       file'[s] \notin SiblingPins(s, tick.pins)]_vars

(* Between polls, a turn held open for its text has no text yet.           *)
HeldOpenIsEmpty ==
  batch = Idle => \A s \in Session : acc[s].pending => acc[s].parts = <<>> /\ acc[s].open

(* A sent message does not leave its session waiting forever.              *)
EveryWaitEnds == \A s \in Session : observing[s] ~> ~observing[s]

(* Every reply reaches the client.                                         *)
EveryReplyRelayed == \A t \in 1 .. MaxTurn : length[t] # 0 ~> Relays(t)
=============================================================================
