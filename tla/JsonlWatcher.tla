---------------------------- MODULE JsonlWatcher ----------------------------
(***************************************************************************)
(* JsonlWatcher of src/src/jsonl.rs, one per session of the daemon: which  *)
(* transcript it is pinned to, from which offset it reads, and how the     *)
(* rows it reads accumulate into turns.                                    *)
(*                                                                         *)
(* poll() is one call in the code.  Here it is PollOpen (choose file and   *)
(* offset, read), one Read<Row> action per row of what was read, and the   *)
(* end-of-poll gate, which the module that composes the watcher with the   *)
(* monitor applies.  The environment is held still in between: what was    *)
(* read is fixed by PollOpen, and no row action looks at the directory.    *)
(***************************************************************************)
EXTENDS Transcripts

VARIABLES
  file,        \* file[s]: the transcript s reads, or NoFile
  pos,         \* pos[s]: offset up to which it has been read
  pinPos,      \* pos as set by the last begin_turn
  atPin,       \* atPin[s][f]: length of f at the last begin_turn
  atPinFiles,  \* the files that existed then (the keys of existing_at_pin)
  pinned,      \* begin_turn has run: pin_time is Some
  touched,     \* files written since pin_time: mtime > pin_time
  pinnedId,    \* the transcript learned from an earlier turn, or NoFile
  hint,        \* the --resume target, or NoFile
  excluded,    \* the transcripts the sibling sessions are pinned to
  newSincePin, \* a file born after the pin has been written
  acc,         \* acc[s]: the turn being accumulated
  batch        \* the poll in progress

pinVars == <<file, pos, pinPos, atPin, atPinFiles, pinned, pinnedId, hint, newSincePin>>
watcherVars == <<pinVars, touched, excluded, acc, batch>>

Part == [turn : Turn, n : Nat]
PartOf(r) == [turn |-> r.turn, n |-> r.n]

(* parts: turn_text_parts; toolIds: emitted_tool_ids; closed:              *)
(* completed_since_pin; lastUser: the turn whose user row last_user_text   *)
(* holds, 0 for None.                                                      *)
Accumulator ==
  [parts : Seq(Part), toolIds : SUBSET Part, open : BOOLEAN,
   pending : BOOLEAN, closed : BOOLEAN, lastUser : Turn]

EmptyAcc == [parts |-> <<>>, toolIds |-> {}, open |-> FALSE,
             pending |-> FALSE, closed |-> FALSE, lastUser |-> 0]

(* The reset begin_turn and prime_to_eof share.                            *)
Cleared(a) == [parts |-> <<>>, toolIds |-> {}, open |-> FALSE,
               pending |-> FALSE, closed |-> FALSE, lastUser |-> a.lastUser]

(* next .. upto are the rows of `of` read and not yet processed; completed *)
(* is poll()'s local, out the turn_complete events pushed so far.  The     *)
(* live frames (tool_use, tool_result, replace) are left out.              *)
Nothing(s) == [who |-> s, of |-> NoFile, next |-> 1, upto |-> 0,
               completed |-> FALSE, out |-> <<>>]
Idle == Nothing(NoSession)

Batch == [who : Session \cup {NoSession}, of : File \cup {NoFile}, next : Nat, upto : Nat,
          completed : BOOLEAN, out : Seq(Seq(Part))]

-----------------------------------------------------------------------------
(* Choosing a transcript.                                                  *)

(* Fault: the siblings' transcripts are not left out.                      *)
FindActiveOfAnyone(s, ex) ==
  LET convs == {f \in Existing : IsConversation(f)}
  IN  IF convs # {} THEN Newest(convs) ELSE Newest(Existing)

(* find_active_jsonl: the newest conversation that is no sibling's, else   *)
(* the newest file that is no sibling's.                                   *)
FindActive(s, ex) ==
  LET cands == Existing \ ex
      convs == {f \in cands : IsConversation(f)}
  IN  IF convs # {} THEN Newest(convs) ELSE Newest(cands)

PinTarget(s) ==
  IF hint[s] \in Existing THEN hint[s]
  ELSE IF pinnedId[s] \in Existing THEN pinnedId[s]
  ELSE FindActive(s, excluded[s])

IsNew(s, f) == f \notin atPinFiles[s]
StartOf(s, f) == IF IsNew(s, f) THEN 0 ELSE atPin[s][f]

(* Fault: the scan is over the snapshot taken at the pin.                  *)
ConsideredOfSnapshot(s, f, ex) ==
  IF pinned[s] THEN ((atPinFiles[s] \cap touched[s]) \ {f}) \ ex ELSE {}

(* Files find_rolled_transcript looks at when s reads f. *)
Considered(s, f, ex) ==
  IF pinned[s] THEN ((Existing \cap touched[s]) \ {f}) \ ex ELSE {}

(* Nothing has arrived since the pin: the cursor p is where it was set. *)
PinnedSilent(s, p) == p = pinPos[s]

RollTargets(s, f, p, ex) ==
  {g \in Considered(s, f, ex) :
     /\ ConversationSince(g, StartOf(s, g))
     /\ IsNew(s, g) \/ g \in {pinnedId[s], hint[s]} \/ PinnedSilent(s, p)}

SeesNewFile(s, f, ex) == \E g \in Considered(s, f, ex) : IsNew(s, g)

-----------------------------------------------------------------------------
(* begin_turn: called when a message is sent.                              *)
BeginTurn(s) ==
  LET f == PinTarget(s)
  IN  /\ file' = [file EXCEPT ![s] = f]
      /\ pinnedId' = [pinnedId EXCEPT ![s] = IF f = NoFile THEN @ ELSE f]
      /\ pos' = [pos EXCEPT ![s] = Size(f)]
      /\ pinPos' = [pinPos EXCEPT ![s] = Size(f)]
      /\ pinned' = [pinned EXCEPT ![s] = TRUE]
      /\ touched' = [touched EXCEPT ![s] = {}]
      /\ atPinFiles' = [atPinFiles EXCEPT ![s] = Existing]
      /\ atPin' = [atPin EXCEPT ![s] = [g \in File |-> Size(g)]]
      /\ newSincePin' = [newSincePin EXCEPT ![s] = FALSE]
      /\ acc' = [acc EXCEPT ![s] = Cleared(@)]
      /\ UNCHANGED <<hint, excluded, batch>>

(* set_excluded: a file a sibling is pinned to is not ours; a watcher that *)
(* is on one re-pins at the end of whatever else there is.                 *)
Repinned(s, ex) == IF file[s] \in ex THEN FindActive(s, ex) ELSE file[s]
RepinnedPos(s, ex) == IF file[s] \in ex THEN Size(FindActive(s, ex)) ELSE pos[s]

(* Faults: the file is re-chosen, and the old offset kept or that of the   *)
(* pin taken.                                                              *)
PrimeKeepingOffset(s, a) ==
  /\ file' = [file EXCEPT ![s] = FindActive(s, excluded[s])]
  /\ pos' = pos
  /\ acc' = [acc EXCEPT ![s] = Cleared(a)]
PrimeToPin(s, a) ==
  /\ file' = [file EXCEPT ![s] = FindActive(s, excluded[s])]
  /\ pos' = [pos EXCEPT ![s] = pinPos[s]]
  /\ acc' = [acc EXCEPT ![s] = Cleared(a)]

(* prime_to_eof: re-anchor at the tail, drop the turn in flight, keep the  *)
(* pin.                                                                    *)
PrimeToEof(s, a) ==
  LET f == FindActive(s, excluded[s])
  IN  /\ file' = [file EXCEPT ![s] = f]
      /\ pos' = [pos EXCEPT ![s] = Size(f)]
      /\ acc' = [acc EXCEPT ![s] = Cleared(a)]

-----------------------------------------------------------------------------
(* poll.                                                                   *)

(* read_new from offset `from` of f: everything up to the last newline; a  *)
(* row the offset falls inside does not parse and is skipped.              *)
Reading(s, f, from) ==
  IF 2 * Whole(f) <= from THEN Nothing(s)
  ELSE [who |-> s, of |-> f, next |-> (from + 1) \div 2 + 1, upto |-> Whole(f),
        completed |-> FALSE, out |-> <<>>]

(* Fault: the cursor stays.                                                *)
ReadToNowhere(f, from) == from

ReadTo(f, from) == IF 2 * Whole(f) <= from THEN from ELSE 2 * Whole(f)

(* The cases of poll() up to and including its read, for a watcher that    *)
(* set_excluded left on file f at offset p.                                *)

(* No file yet: take the newest from offset 0. *)
PollFirstFile(s, ex) ==
  LET f == FindActive(s, ex)
  IN  /\ file' = [file EXCEPT ![s] = f]
      /\ pos' = [pos EXCEPT ![s] = IF f = NoFile THEN 0 ELSE ReadTo(f, 0)]
      /\ batch' = IF f = NoFile THEN Nothing(s) ELSE Reading(s, f, 0)
      /\ UNCHANGED <<pinnedId, hint, newSincePin>>

(* The pinned file has grown: read on. *)
PollGrown(s, f, p) ==
  /\ Size(f) > p
  /\ file' = [file EXCEPT ![s] = f]
  /\ pos' = [pos EXCEPT ![s] = ReadTo(f, p)]
  /\ batch' = Reading(s, f, p)
  /\ UNCHANGED <<pinnedId, hint, newSincePin>>

(* The pinned file is silent and no other file qualifies. *)
PollSilent(s, f, p, ex) ==
  /\ Size(f) <= p
  /\ RollTargets(s, f, p, ex) = {}
  /\ file' = [file EXCEPT ![s] = f]
  /\ pos' = [pos EXCEPT ![s] = p]
  /\ newSincePin' = [newSincePin EXCEPT ![s] = @ \/ SeesNewFile(s, f, ex)]
  /\ batch' = Nothing(s)
  /\ UNCHANGED <<pinnedId, hint>>

(* A turn that is already closed has nothing left to read. *)
RollStart(s, g) == IF acc[s].closed THEN Size(g) ELSE StartOf(s, g)

(* The session rolled to another transcript: re-anchor, at the start of    *)
(* what was written since the pin, or at the end if this turn is closed.   *)
PollRoll(s, f, p, ex) ==
  LET g == Newest(RollTargets(s, f, p, ex))
      from == RollStart(s, g)
  IN  /\ Size(f) <= p
      /\ g # NoFile
      /\ file' = [file EXCEPT ![s] = g]
      /\ pos' = [pos EXCEPT ![s] = ReadTo(g, from)]
      /\ pinnedId' = [pinnedId EXCEPT ![s] = g]
      /\ hint' = [hint EXCEPT ![s] = NoFile]
      /\ newSincePin' = [newSincePin EXCEPT ![s] = @ \/ SeesNewFile(s, f, ex)]
      /\ batch' = Reading(s, g, from)

PollOpen(s, ex) ==
  LET f == Repinned(s, ex)
      p == RepinnedPos(s, ex)
  IN  \/ f = NoFile /\ PollFirstFile(s, ex)
      \/ f # NoFile /\ (PollGrown(s, f, p) \/ PollSilent(s, f, p, ex) \/ PollRoll(s, f, p, ex))

-----------------------------------------------------------------------------
(* One arm of the row loop each.                                           *)

InBatch == batch.who \in Session /\ batch.next <= batch.upto
CurrentRow == rows[batch.of][batch.next]
Mine == acc[batch.who]

Advance(out, completed) ==
  batch' = [batch EXCEPT !.next = @ + 1, !.out = out, !.completed = completed]

SetAcc(a) == acc' = [acc EXCEPT ![batch.who] = a]

ReadMeta ==
  /\ InBatch /\ CurrentRow.kind = "meta"
  /\ Advance(batch.out, batch.completed)
  /\ UNCHANGED acc

(* A text block; textEnd carries a terminal stop reason. *)
ReadText ==
  /\ InBatch /\ CurrentRow.kind \in {"text", "textEnd"}
  /\ SetAcc([Mine EXCEPT !.parts = Append(@, PartOf(CurrentRow))])
  /\ Advance(batch.out, batch.completed \/ CurrentRow.kind = "textEnd")

(* The thinking block of a final message: terminal stop, no content. *)
ReadThinkEnd ==
  /\ InBatch /\ CurrentRow.kind = "thinkEnd"
  /\ Advance(batch.out, TRUE)
  /\ UNCHANGED acc

(* A tool call, relayed once per id; its stop reason opens the turn. *)
ReadToolUse ==
  LET fresh == PartOf(CurrentRow) \notin Mine.toolIds
  IN  /\ InBatch /\ CurrentRow.kind = "tool"
      /\ SetAcc([Mine EXCEPT
                   !.toolIds = @ \cup {PartOf(CurrentRow)},
                   !.parts = IF fresh THEN Append(@, PartOf(CurrentRow)) ELSE @,
                   !.open = TRUE])
      /\ Advance(batch.out, batch.completed)

ReadToolResult ==
  /\ InBatch /\ CurrentRow.kind = "result"
  /\ SetAcc([Mine EXCEPT !.parts = Append(@, PartOf(CurrentRow)), !.open = TRUE])
  /\ Advance(batch.out, batch.completed)

(* Fault: the interrupt row is taken for the start of a turn.              *)
ReadInterruptAsUser ==
  /\ InBatch /\ CurrentRow.kind = "interrupt"
  /\ SetAcc([Mine EXCEPT !.parts = <<>>, !.toolIds = {}, !.open = TRUE, !.pending = FALSE])
  /\ Advance(batch.out, batch.completed)

(* Esc: the running turn ends here without a completion. *)
ReadInterrupt ==
  /\ InBatch /\ CurrentRow.kind = "interrupt"
  /\ SetAcc([Mine EXCEPT !.parts = <<>>, !.toolIds = {}, !.open = FALSE, !.pending = FALSE])
  /\ Advance(batch.out, batch.completed)

(* Fault: only a turn held open by an earlier poll is flushed.             *)
FlushesHeldOnly == Mine.pending /\ Mine.parts # <<>>

(* A terminal stop with text stands before this user row. *)
Flushes == (batch.completed \/ Mine.pending) /\ Mine.parts # <<>>

(* A genuine user row: close the turn before it, open the next one. *)
ReadUser ==
  /\ InBatch /\ CurrentRow.kind = "user"
  /\ SetAcc([parts |-> <<>>, toolIds |-> {}, open |-> TRUE, pending |-> FALSE,
             closed |-> FALSE, lastUser |-> CurrentRow.turn])
  /\ Advance(IF Flushes THEN Append(batch.out, Mine.parts) ELSE batch.out,
             batch.completed /\ ~Flushes)

ReadRow ==
  /\ \/ ReadMeta \/ ReadText \/ ReadThinkEnd \/ ReadToolUse
     \/ ReadToolResult \/ ReadInterrupt \/ ReadUser
  /\ UNCHANGED <<transcriptVars, pinVars, touched, excluded>>

(* The end-of-poll gate: close only with content to close with. *)
WantComplete == batch.of # NoFile /\ (batch.completed \/ Mine.pending)
(* Fault: a terminal stop closes the turn without any text.                *)
ClosesEmpty == WantComplete

Closes == WantComplete /\ Mine.parts # <<>>

GateAcc ==
  IF Closes THEN [Mine EXCEPT !.parts = <<>>, !.open = FALSE, !.pending = FALSE, !.closed = TRUE]
  ELSE IF WantComplete THEN [Mine EXCEPT !.open = TRUE, !.pending = TRUE]
  ELSE Mine

GateOut == IF Closes THEN Append(batch.out, Mine.parts) ELSE batch.out

BatchDone == batch.who \in Session /\ batch.next > batch.upto

WatcherInit ==
  /\ excluded = [s \in Session |-> {}]
  /\ file = [s \in Session |-> NoFile]
  /\ pos = [s \in Session |-> 0]
  /\ pinPos = [s \in Session |-> 0]
  /\ atPin = [s \in Session |-> [f \in File |-> 0]]
  /\ atPinFiles = [s \in Session |-> {}]
  /\ pinned = [s \in Session |-> FALSE]
  /\ touched = [s \in Session |-> {}]
  /\ pinnedId = [s \in Session |-> NoFile]
  /\ hint = [s \in Session |-> NoFile]
  /\ newSincePin = [s \in Session |-> FALSE]
  /\ acc = [s \in Session |-> EmptyAcc]
  /\ batch = Idle

WatcherTypeOK ==
  /\ file \in [Session -> File \cup {NoFile}]
  /\ pos \in [Session -> Nat]
  /\ pinPos \in [Session -> Nat]
  /\ atPin \in [Session -> [File -> Nat]]
  /\ atPinFiles \in [Session -> SUBSET File]
  /\ pinned \in [Session -> BOOLEAN]
  /\ touched \in [Session -> SUBSET File]
  /\ pinnedId \in [Session -> File \cup {NoFile}]
  /\ hint \in [Session -> File \cup {NoFile}]
  /\ excluded \in [Session -> SUBSET File]
  /\ newSincePin \in [Session -> BOOLEAN]
  /\ acc \in [Session -> Accumulator]
  /\ batch \in Batch
=============================================================================
