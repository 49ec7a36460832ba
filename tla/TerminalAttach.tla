--------------------------- MODULE TerminalAttach ---------------------------
(***************************************************************************)
(* The output of a CLI on its way to the screen model and to attached      *)
(* terminals, and raw input on its way back: the reader thread that        *)
(* Session::spawn starts, subscribe and capture_formatted (session.rs),    *)
(* handle_attach, cmd_input, cmd_keystroke, startup_paste_ok (main.rs).    *)
(*                                                                         *)
(* The reader is a thread of its own and takes no lock of the monitor; a   *)
(* terminal is a task that holds that lock while it looks up its session.  *)
(* The sessions that live one after the other under one key are numbered.  *)
(*                                                                         *)
(* Output is a sequence of tokens of Width bytes each, so that a read of the *)
(* pty may cut one in half: plain text, and the escape sequences the       *)
(* reader looks for.  Feature "again" lets the client kill the session and *)
(* create another under its key; with "modes" the CLI switches             *)
(* win32-input-mode.                                                       *)
(***************************************************************************)
EXTENDS Integers, Sequences, FiniteSets, Functions

CONSTANTS
  Terminal,     \* connections to the attach socket
  NoTerminal,
  Stalled,      \* those that may stop reading for good
  Feature,
  Cap,          \* chunks the broadcast channel holds (512 in the code)
  Width,        \* bytes of a token
  MaxLife,      \* bound: sessions under the key
  MaxSay        \* bound: tokens the CLIs write

ASSUME TerminalAssumption == NoTerminal \notin Terminal
ASSUME CapAssumption == Cap \in Nat \ {0}
ASSUME WidthAssumption == Width \in Nat \ {0}
ASSUME BoundAssumption == MaxLife \in Nat \ {0} /\ MaxSay \in Nat

Life == 1 .. MaxLife
Token == {"text"} \cup (IF "modes" \in Feature THEN {"win32On", "win32Off"} ELSE {})

VARIABLES
  \* the CLI of each session, and the session the map holds (0: none)
  said,      \* what it has written
  gone,      \* it has ended
  current,
  \* the reader thread of each session
  step,      \* "reading", "counted" (flags set), "shown" (screen updated), "ended"
  taken,     \* bytes read from the pty: out_bytes
  win32,     \* the flag that keystrokes are encoded by
  painted,   \* bytes the screen model has processed
  sent,      \* the last byte of each chunk sent to the channel
  \* handle_attach of each terminal
  at,        \* where it is
  of,        \* the session it is attached to
  next,      \* the chunk its receiver takes next
  seen,      \* the bytes it has been shown
  lagged,    \* the channel told it that it missed some
  lock,      \* the terminal that holds the monitor's lock
  \* history: keystrokes of a terminal have gone to a session it does not
  \* show, and the commands that have typed in a dialect the CLI ignores
  strayed, garbled

cliVars == <<said, gone, current>>
readerVars == <<step, taken, win32, painted, sent>>
terminalVars == <<at, of, next, seen, lagged, lock>>
typedVars == <<strayed, garbled>>
vars == <<cliVars, readerVars, terminalVars, typedVars>>

Written(s) == Width * Len(said[s])
Alive(s) == current = s /\ ~gone[s]

(* The last byte of the n-th chunk; no chunk, no byte. *)
EndOf(s, n) == IF n = 0 THEN 0 ELSE sent[s][n]
LastEnd(s) == EndOf(s, Len(sent[s]))

-----------------------------------------------------------------------------
(* The CLI, and the commands that end and start one.                       *)
SaidByAll == FoldFunction(+, 0, [s \in Life |-> Len(said[s])])

Say(s) ==
  /\ Alive(s) /\ SaidByAll < MaxSay
  /\ \E t \in Token : said' = [said EXCEPT ![s] = Append(@, t)]
  /\ UNCHANGED <<gone, current, readerVars, terminalVars, typedVars>>

Quit(s) ==
  /\ Alive(s)
  /\ gone' = [gone EXCEPT ![s] = TRUE]
  /\ UNCHANGED <<said, current, readerVars, terminalVars, typedVars>>

(* cmd_kill, or a reap: the session leaves the map, its CLI is killed. *)
Kill ==
  /\ "again" \in Feature /\ lock = NoTerminal /\ current # 0
  /\ gone' = [gone EXCEPT ![current] = TRUE]
  /\ current' = 0
  /\ UNCHANGED <<said, readerVars, terminalVars, typedVars>>

(* cmd_create under the same key: the next number that never lived. *)
Create ==
  /\ "again" \in Feature /\ lock = NoTerminal /\ current = 0
  /\ \E s \in Life : /\ ~gone[s] /\ \A r \in Life : r < s => gone[r]
                     /\ current' = s
  /\ UNCHANGED <<said, gone, readerVars, terminalVars, typedVars>>

-----------------------------------------------------------------------------
(* The reader thread.                                                      *)

(* A token is seen when one read has both its bytes: windows(8). *)
InChunk(s, lo, hi, t) == \E i \in DOMAIN said[s] : said[s][i] = t /\ lo <= Width * (i - 1) /\ Width * i <= hi

(* What the chunk does to the win32 flag: first "on", then "off". *)
FlagAfter(s, lo, hi) ==
  ~InChunk(s, lo, hi, "win32Off") /\ (win32[s] \/ InChunk(s, lo, hi, "win32On"))

ReadChunk(s) ==
  /\ step[s] = "reading"
  /\ \E hi \in taken[s] + 1 .. Written(s) :
       /\ taken' = [taken EXCEPT ![s] = hi]
       /\ win32' = [win32 EXCEPT ![s] = FlagAfter(s, taken[s], hi)]
  /\ step' = [step EXCEPT ![s] = "counted"]
  /\ UNCHANGED <<cliVars, painted, sent, terminalVars, typedVars>>

Process(s) ==
  /\ step[s] = "counted"
  /\ painted' = [painted EXCEPT ![s] = taken[s]]
  /\ step' = [step EXCEPT ![s] = "shown"]
  /\ UNCHANGED <<cliVars, taken, win32, sent, terminalVars, typedVars>>

(* fault: a bounded channel that waits for its slowest receiver. *)
TeeWaits(s) ==
  /\ step[s] = "shown"
  /\ \A t \in Terminal :
       at[t] \in {"subscribed", "live"} /\ of[t] = s => Len(sent[s]) - next[t] + 1 < Cap
  /\ sent' = [sent EXCEPT ![s] = Append(@, taken[s])]
  /\ step' = [step EXCEPT ![s] = "reading"]
  /\ UNCHANGED <<cliVars, taken, win32, painted, terminalVars, typedVars>>

Tee(s) ==
  /\ step[s] = "shown"
  /\ sent' = [sent EXCEPT ![s] = Append(@, taken[s])]
  /\ step' = [step EXCEPT ![s] = "reading"]
  /\ UNCHANGED <<cliVars, taken, win32, painted, terminalVars, typedVars>>

(* fault: the reader stops when the child has exited, whatever is unread. *)
EndOnExit(s) ==
  /\ step[s] = "reading" /\ gone[s]
  /\ step' = [step EXCEPT ![s] = "ended"]
  /\ UNCHANGED <<cliVars, taken, win32, painted, sent, terminalVars, typedVars>>

(* End of file, or the error that stands for it: the last sender goes. *)
EndOfOutput(s) ==
  /\ step[s] = "reading" /\ gone[s] /\ taken[s] = Written(s)
  /\ step' = [step EXCEPT ![s] = "ended"]
  /\ UNCHANGED <<cliVars, taken, win32, painted, sent, terminalVars, typedVars>>

(* fault: a chunk is sent to the terminals before the screen has it. *)
ReaderSendsFirst(s) ==
  \/ ReadChunk(s) \/ EndOfOutput(s)
  \/ /\ step[s] = "counted"
     /\ sent' = [sent EXCEPT ![s] = Append(@, taken[s])]
     /\ step' = [step EXCEPT ![s] = "shown"]
     /\ UNCHANGED <<cliVars, taken, win32, painted, terminalVars, typedVars>>
  \/ /\ step[s] = "shown"
     /\ painted' = [painted EXCEPT ![s] = taken[s]]
     /\ step' = [step EXCEPT ![s] = "reading"]
     /\ UNCHANGED <<cliVars, taken, win32, sent, terminalVars, typedVars>>

Reader(s) == ReadChunk(s) \/ Process(s) \/ Tee(s) \/ EndOfOutput(s)

-----------------------------------------------------------------------------
(* handle_attach.                                                          *)

(* The selector asks for the list, or names no session: one line, and the  *)
(* connection is closed.                                                   *)
Refuse(t) ==
  /\ at[t] = "asked" /\ lock = NoTerminal
  /\ at' = [at EXCEPT ![t] = "closed"]
  /\ UNCHANGED <<cliVars, readerVars, of, next, seen, lagged, lock, typedVars>>

(* Under the lock: subscribe, then capture.  The reader moves in between.  *)
Subscribe(t) ==
  /\ at[t] = "asked" /\ lock = NoTerminal /\ current # 0
  /\ lock' = t
  /\ of' = [of EXCEPT ![t] = current]
  /\ next' = [next EXCEPT ![t] = Len(sent[current]) + 1]
  /\ at' = [at EXCEPT ![t] = "subscribed"]
  /\ UNCHANGED <<cliVars, readerVars, seen, lagged, typedVars>>

Capture(t) ==
  /\ at[t] = "subscribed"
  /\ seen' = [seen EXCEPT ![t] = 1 .. painted[of[t]]]
  /\ at' = [at EXCEPT ![t] = "live"]
  /\ lock' = NoTerminal
  /\ UNCHANGED <<cliVars, readerVars, of, next, lagged, typedVars>>

(* The chunks the channel still holds start here. *)
Oldest(s) == IF Len(sent[s]) > Cap THEN Len(sent[s]) - Cap + 1 ELSE 1

Chunk(s, n) == EndOf(s, n - 1) + 1 .. EndOf(s, n)

(* recv: the next chunk, or Lagged, which moves the receiver on and is     *)
(* passed over.                                                            *)
Receive(t) ==
  /\ at[t] = "live" /\ next[t] <= Len(sent[of[t]])
  /\ IF next[t] < Oldest(of[t])
     THEN /\ next' = [next EXCEPT ![t] = Oldest(of[t])]
          /\ lagged' = [lagged EXCEPT ![t] = TRUE]
          /\ UNCHANGED seen
     ELSE /\ seen' = [seen EXCEPT ![t] = @ \cup Chunk(of[t], next[t])]
          /\ next' = [next EXCEPT ![t] = @ + 1]
          /\ UNCHANGED lagged
  /\ UNCHANGED <<cliVars, readerVars, at, of, lock, typedVars>>

(* Both senders are gone and all chunks received: the forwarding task ends, *)
(* and nothing tells the terminal.                                          *)
StreamEnds(t) ==
  /\ at[t] = "live" /\ next[t] = Len(sent[of[t]]) + 1
  /\ step[of[t]] = "ended" /\ current # of[t]
  /\ at' = [at EXCEPT ![t] = "deaf"]
  /\ UNCHANGED <<cliVars, readerVars, of, next, seen, lagged, lock, typedVars>>

(* The connection is closed: the receiver is dropped. *)
Close(t) ==
  /\ at' = [at EXCEPT ![t] = "closed"]
  /\ seen' = [seen EXCEPT ![t] = {}] /\ next' = [next EXCEPT ![t] = 1]
  /\ lagged' = [lagged EXCEPT ![t] = FALSE]

HangUp(t) ==
  /\ at[t] \in {"asked", "live", "deaf"}
  /\ Close(t)
  /\ UNCHANGED <<cliVars, readerVars, of, lock, typedVars>>

-----------------------------------------------------------------------------
(* Raw input.                                                              *)

(* The CLI's input mode, by what it has written. *)
Win32Mode(s) ==
  \E i \in DOMAIN said[s] :
     said[s][i] = "win32On" /\ \A j \in DOMAIN said[s] : j > i => said[s][j] # "win32Off"

(* A terminal's keystrokes go to the session its key names by now; without *)
(* one the connection is closed.                                           *)
TypeRaw(t) ==
  /\ at[t] \in {"live", "deaf"} /\ lock = NoTerminal
  /\ IF current # 0
     THEN strayed' = (strayed \/ current # of[t]) /\ UNCHANGED <<at, next, seen, lagged>>
     ELSE Close(t) /\ UNCHANGED strayed
  /\ UNCHANGED <<cliVars, readerVars, of, lock, garbled>>

(* cmd_input writes raw bytes, cmd_keystroke encodes by the win32 flag.    *)
InputCommand ==
  /\ lock = NoTerminal /\ current # 0
  /\ \E by \in {"input", "keystroke"} :
       LET dialect == by = "keystroke" /\ win32[current]
       IN  garbled' = IF dialect = Win32Mode(current) THEN garbled ELSE garbled \cup {by}
  /\ UNCHANGED <<cliVars, readerVars, terminalVars, strayed>>

-----------------------------------------------------------------------------
Init ==
  /\ said = [s \in Life |-> <<>>]
  /\ gone = [s \in Life |-> FALSE]
  /\ current = 1
  /\ step = [s \in Life |-> "reading"] /\ taken = [s \in Life |-> 0]
  /\ win32 = [s \in Life |-> FALSE]
  /\ painted = [s \in Life |-> 0] /\ sent = [s \in Life |-> <<>>]
  /\ at = [t \in Terminal |-> "asked"] /\ of = [t \in Terminal |-> 1]
  /\ next = [t \in Terminal |-> 1] /\ seen = [t \in Terminal |-> {}]
  /\ lagged = [t \in Terminal |-> FALSE]
  /\ lock = NoTerminal
  /\ strayed = FALSE /\ garbled = {}

Next ==
  \/ \E s \in Life : Say(s) \/ Quit(s) \/ Reader(s)
  \/ Kill \/ Create
  \/ \E t \in Terminal : \/ Refuse(t) \/ Subscribe(t) \/ Capture(t)
                         \/ Receive(t) \/ StreamEnds(t) \/ HangUp(t) \/ TypeRaw(t)
  \/ InputCommand

Spec == Init /\ [][Next]_vars

(* The reader thread runs, a task that holds the lock goes on, and a       *)
(* terminal outside Stalled reads what it is sent.                         *)
FairSpec ==
  /\ Spec
  /\ \A s \in Life : WF_vars(Reader(s))
  /\ \A t \in Terminal : WF_vars(Capture(t))
  /\ \A t \in Terminal \ Stalled : WF_vars(Receive(t))

-----------------------------------------------------------------------------
(* Every variable has its type. *)
TypeOK ==
  /\ said \in [Life -> Seq(Token)]
  /\ gone \in [Life -> BOOLEAN]
  /\ current \in 0 .. MaxLife
  /\ step \in [Life -> {"reading", "counted", "shown", "ended"}]
  /\ taken \in [Life -> Nat] /\ painted \in [Life -> Nat]
  /\ win32 \in [Life -> BOOLEAN]
  /\ sent \in [Life -> Seq(Nat)]
  /\ at \in [Terminal -> {"asked", "subscribed", "live", "deaf", "closed"}]
  /\ of \in [Terminal -> Life] /\ next \in [Terminal -> Nat \ {0}]
  /\ seen \in [Terminal -> SUBSET Nat]
  /\ lagged \in [Terminal -> BOOLEAN]
  /\ lock \in Terminal \cup {NoTerminal}
  /\ strayed \in BOOLEAN /\ garbled \subseteq {"input", "keystroke"}

Attached(t) == at[t] \in {"live", "deaf"}

(* The paint and the stream after it join: whatever the reader does while  *)
(* a terminal attaches, the terminal has been shown the CLI's output from  *)
(* its first byte without a gap, unless the channel has told it that it    *)
(* was too slow (subscribe before capture, process before send).           *)
NoGap ==
  \A t \in Terminal : Attached(t) /\ ~lagged[t] =>
     \E n \in 0 .. painted[of[t]] : seen[t] = 1 .. n

(* When the stream of a session has ended, its terminal has seen the last  *)
(* byte, and one that never lagged all of them.                            *)
EndIsShown ==
  \A t \in Terminal : at[t] = "deaf" =>
     LET all == Written(of[t])
     IN  (all > 0 => all \in seen[t]) /\ (~lagged[t] => 1 .. all \subseteq seen[t])

(* A terminal that goes on reading is shown what the CLI has written or    *)
(* later output, also when it has lagged and while others do not read.     *)
CatchesUp ==
  \A t \in Terminal \ Stalled, n \in 1 .. MaxSay :
     at[t] = "live" /\ Len(said[of[t]]) >= n ~> at[t] = "closed" \/ \E m \in seen[t] : m >= Width * n

(* ---- what the code does not promise, or does not keep                   *)

(* A terminal types into the session it shows. *)
TypesWhereItLooks == ~strayed

(* The reader that has read everything knows the CLI's input mode. *)
ModeTracked ==
  \A s \in Life : step[s] = "reading" /\ taken[s] = Written(s) => win32[s] = Win32Mode(s)

(* What the input command types is in a dialect the CLI honours. *)
InputHonoured == "input" \notin garbled
=============================================================================
