------------------------------ MODULE ClaudeCli ------------------------------
(***************************************************************************)
(* The Claude CLI of each session, as far as the daemon sees it: it takes  *)
(* a message at its prompt, runs a turn, and appends the turn's rows to a  *)
(* transcript.  The CLI is no part of the repository; what it may do is    *)
(* what the comments and tests of src/src/jsonl.rs report of it.           *)
(*                                                                         *)
(* Feature selects the habits an instance gives it:                        *)
(*   "tools"      tool calls, written as a tool_use row and a result row   *)
(*   "straddle"   a reply split in a thinking row and a text row, both     *)
(*                with end_turn                                            *)
(*   "lateStraddle" the same after earlier text or tool calls of the turn  *)
(*   "half"       rows that a poll can catch half written                  *)
(*   "interrupt"  Esc ends the turn with an interrupt row                  *)
(*   "organic"    turns nobody sent: background agents, /loop ticks        *)
(*   "meta"       a metadata row after a turn                              *)
(*   "resumeFork" a resumed CLI moves to a fresh transcript for its turn   *)
(*   "replyFork"  the CLI forks the conversation after a reply             *)
(*   "sidecar"    a title is written to a transcript of its own            *)
(*   "empty"      a turn that ends without any text                        *)
(*   "backToBack" an organic turn starts before the daemon has closed the  *)
(*                turn it observes                                         *)
(*   "overtake"   an organic turn starts while a sent message still waits  *)
(*   "lateRow"    the screen shows a turn finished before the transcript   *)
(*                has any row of it                                        *)
(*   "maxTurn"    a turn may last MAX_TURN                                 *)
(*   "busySend"   the client sends although the CLI is not at its prompt,  *)
(*                or before the daemon has read all it wrote               *)
(***************************************************************************)
EXTENDS Transcripts

CONSTANTS Feature, MaxPart

VARIABLES
  cli,       \* cli[s]: what the CLI of s is doing
  inbox,     \* inbox[s]: the message pasted and not yet taken up, 0 for none
  nextTurn,  \* the number the next turn gets
  length,    \* length[t]: content rows of turn t once it ended with a reply
  owner      \* owner[t]: the session whose CLI ran turn t

cliVars == <<cli, inbox, nextTurn, length, owner>>

Stage == {"prompt", "body", "tool", "reply"}
CliState == [stage : Stage, turn : Turn, n : Nat, home : File \cup {NoFile}]

CliTypeOK ==
  /\ cli \in [Session -> CliState]
  /\ inbox \in [Session -> Turn]
  /\ nextTurn \in 1 .. MaxTurn + 1
  /\ length \in [1 .. MaxTurn -> Nat]
  /\ owner \in [1 .. MaxTurn -> Session \cup {NoSession}]

CliInit ==
  /\ cli = [s \in Session |-> [stage |-> "prompt", turn |-> 0, n |-> 0, home |-> NoFile]]
  /\ inbox = [s \in Session |-> 0]
  /\ nextTurn = 1
  /\ length = [t \in 1 .. MaxTurn |-> 0]
  /\ owner = [t \in 1 .. MaxTurn |-> NoSession]

Can(habit) == habit \in Feature

CliAt(s, stage) ==
  /\ cli[s].stage = stage
  /\ cli[s].home # NoFile => ~half[cli[s].home]

(* Append one row to f, or, with "half", only its first half. *)
Append1(f, row) ==
  /\ rows' = [rows EXCEPT ![f] = Append(@, row)]
  /\ \E cut \in BOOLEAN : /\ cut => Can("half")
                         /\ half' = [half EXCEPT ![f] = cut]
  /\ Touch(f)

(* The rest of a half-written row. *)
FinishRow(s) ==
  LET f == cli[s].home
  IN  /\ f # NoFile /\ half[f]
      /\ half' = [half EXCEPT ![f] = FALSE]
      /\ Touch(f)
      /\ UNCHANGED <<rows, cliVars>>

(* Where a turn of s may be written. *)
Fresh == File \ Existing
HomeOf(s) == IF cli[s].home = NoFile THEN Fresh ELSE {cli[s].home}

TakeUp(s, t) ==
  /\ owner' = [owner EXCEPT ![t] = s]
  /\ \E f \in HomeOf(s) :
       /\ Append1(f, MkRow("user", t, 0))
       /\ cli' = [cli EXCEPT ![s] = [stage |-> "body", turn |-> t, n |-> 0, home |-> f]]

(* The message waiting in the input box is submitted. *)
StartSent(s) ==
  /\ CliAt(s, "prompt")
  /\ inbox[s] # 0
  /\ TakeUp(s, inbox[s])
  /\ inbox' = [inbox EXCEPT ![s] = 0]
  /\ UNCHANGED <<nextTurn, length>>

(* A turn of the CLI's own. *)
StartOrganic(s) ==
  /\ Can("organic")
  /\ CliAt(s, "prompt")
  /\ inbox[s] = 0 \/ Can("overtake")
  /\ nextTurn <= MaxTurn
  /\ TakeUp(s, nextTurn)
  /\ nextTurn' = nextTurn + 1
  /\ UNCHANGED <<inbox, length>>

(* Room for `k` more content rows. *)
Room(s, k) == cli[s].n + k <= MaxPart

Write(s, kind, stage) ==
  LET i == IF kind \in {"text", "textEnd", "tool", "result"} THEN cli[s].n + 1 ELSE cli[s].n
  IN  /\ Append1(cli[s].home,
                 MkRow(kind, cli[s].turn, IF i > cli[s].n THEN i ELSE 0))
      /\ cli' = [cli EXCEPT ![s].stage = stage, ![s].n = i]
      /\ UNCHANGED <<inbox, nextTurn, owner>>

WriteText(s) ==
  /\ CliAt(s, "body") /\ Room(s, 2)
  /\ Write(s, "text", "body")
  /\ UNCHANGED length

CallTool(s) ==
  /\ Can("tools") /\ CliAt(s, "body") /\ Room(s, 3)
  /\ Write(s, "tool", "tool")
  /\ UNCHANGED length

ToolAnswers(s) ==
  /\ CliAt(s, "tool")
  /\ Write(s, "result", "body")
  /\ UNCHANGED length

(* The final message, in one row or after its thinking row. *)
WriteReply(s) ==
  /\ CliAt(s, "body") \/ CliAt(s, "reply")
  /\ Write(s, "textEnd", "prompt")
  /\ length' = [length EXCEPT ![cli[s].turn] = cli[s].n + 1]

WriteThinking(s) ==
  /\ CliAt(s, "body")
  /\ IF cli[s].n = 0 THEN Can("straddle") ELSE Can("lateStraddle")
  /\ Write(s, "thinkEnd", "reply")
  /\ UNCHANGED length

(* A terminal stop that no text follows. *)
EndEmpty(s) ==
  /\ Can("empty") /\ CliAt(s, "body") /\ cli[s].n = 0
  /\ Write(s, "thinkEnd", "prompt")
  /\ UNCHANGED length

Interrupt(s) ==
  /\ Can("interrupt")
  /\ CliAt(s, "body") \/ CliAt(s, "tool")
  /\ Write(s, "interrupt", "prompt")
  /\ UNCHANGED length

LastRow(f) == rows[f][Len(rows[f])]

WriteMeta(s) ==
  /\ Can("meta") /\ CliAt(s, "prompt")
  /\ cli[s].home # NoFile /\ LastRow(cli[s].home).kind # "meta"
  /\ Append1(cli[s].home, MkRow("meta", 0, 0))
  /\ UNCHANGED cliVars

(* A resumed CLI abandons the transcript it resumed: the next turn goes to *)
(* a fresh file that starts with metadata.                                 *)
ResumeFork(s) ==
  /\ Can("resumeFork") /\ CliAt(s, "prompt")
  /\ cli[s].turn = 0 /\ cli[s].home # NoFile /\ LastRow(cli[s].home).kind # "meta"
  /\ \E f \in Fresh :
       /\ Append1(f, MkRow("meta", 0, 0))
       /\ cli' = [cli EXCEPT ![s].home = f]
  /\ UNCHANGED <<inbox, nextTurn, length, owner>>

(* Right after a reply the CLI forks the whole conversation into a fresh   *)
(* transcript, and goes on there.                                          *)
ReplyFork(s) ==
  /\ Can("replyFork") /\ CliAt(s, "prompt")
  /\ cli[s].turn # 0 /\ length[cli[s].turn] # 0
  /\ Cardinality(Existing) = 1
  /\ \E f \in Fresh :
       /\ rows' = [rows EXCEPT ![f] = rows[cli[s].home]]
       /\ Touch(f)
       /\ cli' = [cli EXCEPT ![s].home = f]
  /\ UNCHANGED <<half, inbox, nextTurn, length, owner>>

(* The auto-title, in a transcript of its own. *)
WriteSidecar ==
  /\ Can("sidecar")
  /\ \A f \in Existing : rows[f] # <<MkRow("meta", 0, 0)>>
  /\ \E f \in Fresh : /\ rows' = [rows EXCEPT ![f] = <<MkRow("meta", 0, 0)>>]
                       /\ Touch(f)
  /\ UNCHANGED <<half, cliVars>>

CliStep(s) ==
  \/ FinishRow(s) \/ StartSent(s)
  \/ WriteText(s) \/ CallTool(s) \/ ToolAnswers(s)
  \/ WriteReply(s) \/ WriteThinking(s) \/ EndEmpty(s) \/ Interrupt(s)
  \/ WriteMeta(s) \/ ResumeFork(s) \/ ReplyFork(s)
=============================================================================
