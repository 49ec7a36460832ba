---------------------------- MODULE Transcripts ----------------------------
(***************************************************************************)
(* The project directory of the Claude CLI as the transcript watcher of    *)
(* src/src/jsonl.rs sees it: `.jsonl` files that only grow, one JSON row   *)
(* per line, of which the last may still be half written.                  *)
(*                                                                         *)
(* Offsets are counted in half rows, so that a cursor can fall inside a    *)
(* row: row i occupies the two units 2(i-1) .. 2i-1, and a row whose       *)
(* newline is not on disk yet occupies the first one only.                 *)
(***************************************************************************)
EXTENDS Naturals, Sequences, FiniteSets

CONSTANTS
  File,      \* the transcripts the directory may come to hold
  NoFile,    \* no transcript: Option::None
  MaxTurn,   \* bound: turns are numbered 1..MaxTurn; turn 0 is old history
  Session,   \* the sessions of the daemon, all in this working directory
  NoSession

ASSUME FileAssumption == NoFile \notin File
ASSUME DirectoryAssumption == IsFiniteSet(File)
ASSUME TurnAssumption == MaxTurn \in Nat
ASSUME SessionAssumption == NoSession \notin Session

VARIABLES
  rows,      \* rows[f]: the rows of f, oldest first; a file exists iff it has one
  half,      \* half[f]: the last row of f has no newline yet
  newer      \* pairs of existing files: the first was written after the second

transcriptVars == <<rows, half, newer>>

Turn == 0 .. MaxTurn

(* What poll() of jsonl.rs tells rows apart by: the genuine user row, the  *)
(* marker of an Esc, assistant rows by content block and stop reason, and  *)
(* rows of neither type (permission-mode, summary, system).                *)
Kind == {"user", "interrupt", "text", "textEnd", "thinkEnd", "tool", "result", "meta"}

(* n is the ordinal of the row's content within its turn, 0 for rows that  *)
(* carry none.                                                             *)
Row == [kind : Kind, turn : Turn, n : Nat]

MkRow(k, t, i) == [kind |-> k, turn |-> t, n |-> i]

Existing == {f \in File : rows[f] # <<>>}

(* Rows of f that end in a newline. *)
Whole(f) == IF half[f] THEN Len(rows[f]) - 1 ELSE Len(rows[f])

(* fs::metadata(f).len(), 0 when there is no file. *)
Size(f) == IF f = NoFile THEN 0
           ELSE 2 * Len(rows[f]) - (IF half[f] THEN 1 ELSE 0)

(* A row an offset may start at and still be parsed. *)
StartsAtOrAfter(i, from) == 2 * (i - 1) >= from

IsConversationRow(r) == r.kind # "meta"

(* has_conversation_since: a parseable user/assistant row from `from` on. *)
ConversationSince(f, from) ==
  \E i \in 1 .. Whole(f) : StartsAtOrAfter(i, from) /\ IsConversationRow(rows[f][i])

(* is_conversation_transcript; the 64 KiB tail is taken to hold the file. *)
IsConversation(f) == ConversationSince(f, 0)

(* The most recently modified file of a set. *)
Newest(S) ==
  LET top == {f \in S : \A g \in S \ {f} : <<f, g>> \in newer}
  IN  IF top = {} THEN NoFile ELSE CHOOSE f \in top : TRUE

(* f is written. *)
Touch(f) ==
  newer' = (newer \ (File \X {f})) \cup ({f} \X (Existing \ {f}))

(* The files a step has written. *)
WrittenNow == {f \in File : rows'[f] # rows[f] \/ half'[f] # half[f]}

TranscriptTypeOK ==
  /\ rows \in [File -> Seq(Row)]
  /\ half \in [File -> BOOLEAN]
  /\ newer \in SUBSET (File \X File)
  /\ \A f \in File : half[f] => rows[f] # <<>>

(* The directory before the daemon starts a session: the files of `old`    *)
(* each hold one finished conversation.                                    *)
History == <<MkRow("user", 0, 0), MkRow("textEnd", 0, 1)>>

TranscriptInit(old) ==
  /\ rows = [f \in File |-> IF f \in old THEN History ELSE <<>>]
  /\ half = [f \in File |-> FALSE]
  /\ newer \in SUBSET (old \X old)
  /\ \A f, g \in old : f # g => (<<f, g>> \in newer) # (<<g, f>> \in newer)
  /\ \A f, g, h \in old :
       /\ <<f, f>> \notin newer
       /\ <<f, g>> \in newer /\ <<g, h>> \in newer => <<f, h>> \in newer
=============================================================================
