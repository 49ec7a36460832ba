-------------------------- MODULE SessionLifecycle --------------------------
(***************************************************************************)
(* The life of the session behind one key of the daemon: cmd_create and    *)
(* its background half finalize_create, cmd_send as far as it needs a      *)
(* session, cmd_kill, and the reaping of dead and of idle sessions in      *)
(* Monitor::poll (src/src/main.rs).                                        *)
(*                                                                         *)
(* A command and a tick hold the monitor's lock throughout.  A finalizer   *)
(* takes it for one look or one change at a time, and anything may happen  *)
(* in between: hence its program counter `at`.                             *)
(*                                                                         *)
(* Feature selects the habits of client and machine:                       *)
(*   "impatient"  the client kills and creates while a create is still     *)
(*                being finished                                           *)
(*   "slow"       a CLI may be 5 s old before its finalizer has looked     *)
(*   "overtaking" a message is pasted while an earlier one is still held   *)
(***************************************************************************)
EXTENDS Naturals, Sequences, Functions

CONSTANTS
  Feature,
  MaxCreate,  \* bound: creates that spawn
  MaxProc,    \* bound: CLI processes
  MaxMsg,     \* bound: messages the client sends
  MaxDialog   \* bound: startup dialogs

ASSUME BoundsAssumption == {MaxCreate, MaxProc, MaxMsg, MaxDialog} \subseteq Nat

VARIABLES
  session,   \* the entry of Monitor.sessions; proc 0 when there is none
  stash,     \* Monitor.reaped holds a conversation to resume
  task,      \* task[c]: finalize_create of the c-th create

  alive,     \* the CLI processes that run
  young,     \* ... and were spawned less than 5 s ago
  resuming,  \* ... with --resume
  screen,    \* what the session's CLI shows
  keys,      \* startup keys it has not read yet

  procs, nextMsg, dialogs,  \* processes, messages, dialogs so far
  delivered, \* messages whose turn is complete
  told,      \* messages the client knows are lost with their session
  wanted,    \* the client's last word was a create, not a kill
  stray,     \* a startup key was read at the prompt
  disturbed  \* a dialog moved, or was painted anew, under a decision or a key
             \* of the daemon, by none of its keys

machineVars == <<alive, young, resuming, procs>>
dialogVars == <<dialogs, stray, disturbed>>
screenVars == <<screen, keys, dialogVars>>
clientVars == <<nextMsg, delivered, told, wanted>>
vars == <<session, stash, task, machineVars, screenVars, clientVars>>

Can(habit) == habit \in Feature

Proc == 1 .. MaxProc
Msg == 1 .. MaxMsg
Text == Seq(Msg)

(* held: pending_text; flight: sent, while observing. *)
NoSession == [proc |-> 0, held |-> <<>>, flight |-> <<>>]
Live == session.proc # 0

(* at: where finalize_create is ("answer": between its decision on a       *)
(* capture and the keystroke); carry: the message it carries over; acted:  *)
(* the capture it decided to answer last shows the dialog as it is now.    *)
Stage == {"none", "check", "carry", "respawn", "dialogs", "answer", "ready", "done"}
NoTask == [at |-> "none", resumed |-> FALSE, carry |-> <<>>, acted |-> FALSE]
Pending(c) == task[c].at \notin {"none", "done"}
Patient == \A c \in DOMAIN task : ~Pending(c)

(* A new picture on the screen. *)
Repainted(tasks) == [c \in DOMAIN tasks |-> [tasks[c] EXCEPT !.acted = FALSE]]

Go(c, stage) == [task EXCEPT ![c].at = stage]

(* spawn_into; what the map held under the key is dropped, not killed. *)
Spawned(resume, text) ==
  /\ procs < MaxProc
  /\ procs' = procs + 1
  /\ alive' = alive \cup {procs + 1} /\ young' = young \cup {procs + 1}
  /\ resuming' = IF resume THEN resuming \cup {procs + 1} ELSE resuming
  /\ session' = [proc |-> procs + 1, held |-> text, flight |-> <<>>]
  /\ screen' = "boot" /\ keys' = 0

(* Fault: the CLI is left running.                                         *)
RemovedOnly ==
  /\ session' = NoSession
  /\ UNCHANGED alive

(* The session is taken out of the map and its CLI killed. *)
Removed ==
  /\ session' = NoSession
  /\ alive' = alive \ {session.proc}

TellLost == told' = told \cup Range(session.held \o session.flight)

-----------------------------------------------------------------------------
(* The commands. *)

(* cmd_create without a session under the key; with one it only reports    *)
(* "ready".                                                                *)
Create(c) ==
  /\ ~Live /\ (Patient \/ Can("impatient"))
  /\ task[c] = NoTask /\ \A b \in DOMAIN task : b < c => task[b] # NoTask
  /\ stash' = FALSE
  /\ wanted' = TRUE
  /\ \/ /\ Spawned(stash, <<>>)
        /\ task' = Repainted([task EXCEPT ![c] = [NoTask EXCEPT !.at = "check", !.resumed = stash]])
     \/ /\ task' = Go(c, "done")
        /\ UNCHANGED <<session, machineVars, screen, keys>>
  /\ UNCHANGED <<dialogVars, nextMsg, delivered, told>>

(* cmd_send: an error, or held, or pasted at the prompt (PromptDelivery    *)
(* has the details).  The client waits for the turn it has started.        *)
Send ==
  /\ nextMsg <= MaxMsg /\ session.flight = <<>>
  /\ nextMsg' = nextMsg + 1
  /\ \/ ~Live /\ told' = told \cup {nextMsg} /\ UNCHANGED session
     \/ Live /\ session' = [session EXCEPT !.held = Append(@, nextMsg)] /\ UNCHANGED told
     \/ /\ Live /\ screen = "prompt" /\ (session.held = <<>> \/ Can("overtaking"))
        /\ session' = [session EXCEPT !.flight = <<nextMsg>>]
        /\ UNCHANGED told
  /\ UNCHANGED <<stash, task, machineVars, screenVars, delivered, wanted>>

(* cmd_kill, with store_resume or without. *)
Kill ==
  /\ Live /\ (Patient \/ Can("impatient"))
  /\ stash' \in {stash, TRUE}
  /\ Removed /\ TellLost
  /\ wanted' = FALSE
  /\ UNCHANGED <<task, young, resuming, procs, screenVars, nextMsg, delivered>>

-----------------------------------------------------------------------------
(* The tick. *)

(* A session whose CLI has exited, 5 s after its spawn or later. *)
ReapDead ==
  /\ Live /\ session.proc \notin alive \cup young
  /\ Removed /\ TellLost
  /\ UNCHANGED <<stash, task, young, resuming, procs, screenVars, nextMsg, delivered, wanted>>

(* Nothing has moved on the screen for IDLE_REAP: no turn runs, unless it  *)
(* waits in a dialog.                                                      *)
ReapIdle ==
  /\ Live /\ Patient /\ session.proc \notin young
  /\ session.flight = <<>> \/ screen = "unknown"
  /\ stash' = TRUE
  /\ Removed /\ TellLost
  /\ UNCHANGED <<task, young, resuming, procs, screenVars, nextMsg, delivered, wanted>>

Dispatch ==
  /\ Live /\ screen = "prompt" /\ session.held # <<>> /\ session.flight = <<>>
  /\ session' = [session EXCEPT !.held = <<>>, !.flight = session.held]
  /\ UNCHANGED <<stash, task, machineVars, screenVars, clientVars>>

Complete ==
  /\ session.proc \in alive /\ session.flight # <<>> /\ screen = "prompt"
  /\ delivered' = delivered \cup Range(session.flight)
  /\ session' = [session EXCEPT !.flight = <<>>]
  /\ UNCHANGED <<stash, task, machineVars, screenVars, nextMsg, told, wanted>>

-----------------------------------------------------------------------------
(* finalize_create, one acquisition of the lock each. *)

(* After 1.5 s: has --resume failed?  No session at all counts as dead. *)
Check(c) ==
  /\ task[c].at = "check"
  /\ task' = Go(c, IF task[c].resumed /\ session.proc \notin alive THEN "carry" ELSE "dialogs")
  /\ UNCHANGED <<session, stash, machineVars, screenVars, clientVars>>

(* Fault: only a message that is held is carried over.                     *)
CarriedHeldOnly == session.held
Carried == IF session.held # <<>> THEN session.held ELSE session.flight

(* The dead session leaves the map, and its message is kept. *)
Carry(c) ==
  /\ task[c].at = "carry"
  /\ task' = [task EXCEPT ![c].at = "respawn", ![c].carry = Carried]
  /\ session' = NoSession
  /\ UNCHANGED <<stash, machineVars, screenVars, clientVars>>

(* Fault: the fresh CLI is still reported as resumed.                      *)
RespawnStillResumed(c) ==
  /\ task[c].at = "respawn"
  /\ \/ /\ Spawned(FALSE, task[c].carry)
        /\ task' = Repainted([task EXCEPT ![c].at = "dialogs", ![c].carry = <<>>])
        /\ UNCHANGED told
     \/ /\ told' = told \cup Range(task[c].carry)
        /\ task' = [task EXCEPT ![c].at = "done", ![c].carry = <<>>]
        /\ UNCHANGED <<session, machineVars, screen, keys>>
  /\ UNCHANGED <<stash, dialogVars, nextMsg, delivered, wanted>>

(* A fresh CLI takes its place and holds the message, or the spawn fails.  *)
Respawn(c) ==
  /\ task[c].at = "respawn"
  /\ \/ /\ Spawned(FALSE, task[c].carry)
        /\ task' = Repainted([task EXCEPT ![c].at = "dialogs", ![c].resumed = FALSE,
                                          ![c].carry = <<>>])
        /\ UNCHANGED told
     \/ /\ told' = told \cup Range(task[c].carry)
        /\ task' = [task EXCEPT ![c].at = "done", ![c].carry = <<>>]
        /\ UNCHANGED <<session, machineVars, screen, keys>>
  /\ UNCHANGED <<stash, dialogVars, nextMsg, delivered, wanted>>

(* Fault: a frame that was acted on is acted on again.                     *)
CapturesAny(c) ==
  /\ task[c].at = "dialogs" /\ Live
  /\ \/ screen \in {"dialog", "ghost"} /\ keys < 2
        /\ task' = [task EXCEPT ![c].at = "answer", ![c].acted = TRUE]
     \/ screen = "boot" /\ task' = [task EXCEPT ![c].acted = FALSE]
     \/ screen \in {"prompt", "unknown"} /\ task' = Go(c, "ready")
  /\ UNCHANGED <<session, stash, machineVars, screenVars, clientVars>>

(* One capture of the screen, and startup_action: a dialog it recognises,  *)
(* also one that is dismissed and still in the picture, is to be answered, *)
(* once per frame; a splash is waited for; the prompt and a dialog it does *)
(* not know end the loop.                                                  *)
Captures(c) ==
  /\ task[c].at = "dialogs" /\ Live
  /\ \/ screen \in {"dialog", "ghost"} /\ ~task[c].acted
        /\ task' = [task EXCEPT ![c].at = "answer", ![c].acted = TRUE]
     \/ screen = "boot" /\ task' = [task EXCEPT ![c].acted = FALSE]
     \/ screen \in {"prompt", "unknown"} /\ task' = Go(c, "ready")
  /\ UNCHANGED <<session, stash, machineVars, screenVars, clientVars>>

(* One keystroke toward dismissing it, into whatever session has the key,  *)
(* if any.                                                                 *)
TypesKey(c) ==
  /\ task[c].at = "answer"
  /\ keys' = IF Live THEN keys + 1 ELSE keys
  /\ task' = Go(c, "dialogs")
  /\ UNCHANGED <<session, stash, machineVars, screen, dialogVars, clientVars>>

(* Fault: the loop has no deadline.                                        *)
StartupOverAtPrompt(c) ==
  /\ task[c].at = "dialogs"
  /\ ~Live \/ screen \in {"prompt", "unknown"}
  /\ task' = Go(c, "ready")
  /\ UNCHANGED <<session, stash, machineVars, screenVars, clientVars>>

(* The session is gone, or 20 s have passed. *)
StartupOver(c) ==
  /\ task[c].at = "dialogs"
  /\ task' = Go(c, "ready")
  /\ UNCHANGED <<session, stash, machineVars, screenVars, clientVars>>

(* The event `ready`. *)
Ready(c) ==
  /\ task[c].at = "ready"
  /\ task' = Go(c, "done")
  /\ UNCHANGED <<session, stash, machineVars, screenVars, clientVars>>

Finalize(c) ==
  \/ Check(c) \/ Carry(c) \/ Respawn(c)
  \/ Captures(c) \/ TypesKey(c) \/ StartupOver(c)
  \/ Ready(c)

-----------------------------------------------------------------------------
(* The CLIs and the clock. *)
Exits(p) ==
  /\ p \in alive
  /\ alive' = alive \ {p}
  /\ UNCHANGED <<session, stash, task, young, resuming, procs, screenVars, clientVars>>

(* A CLI turns 5 s old; its finalizer has looked at it before. *)
Ages(p) ==
  /\ p \in young
  /\ Can("slow") \/ \A c \in DOMAIN task : task[c].at \notin {"check", "carry", "respawn"}
  /\ young' = young \ {p}
  /\ UNCHANGED <<session, stash, task, alive, resuming, procs, screenVars, clientVars>>

Running == session.proc \in alive

(* The first picture, after a splash.  A dialog may look as the last did.  *)
Boots ==
  /\ Running /\ screen = "boot"
  /\ \/ screen' = "prompt" /\ task' = Repainted(task) /\ UNCHANGED dialogs
     \/ screen' \in {"dialog", "unknown"} /\ dialogs < MaxDialog /\ dialogs' = dialogs + 1
        /\ (task' = Repainted(task) \/ (screen' = "dialog" /\ UNCHANGED task))
  /\ UNCHANGED <<session, stash, machineVars, keys, stray, disturbed, clientVars>>

(* A startup key: it moves the cursor of the dialog, or dismisses it, and  *)
(* then the picture of the dialog may stay for a while.                    *)
ReadsKey ==
  /\ Running /\ keys > 0 /\ screen # "boot"
  /\ keys' = keys - 1
  /\ \/ /\ screen = "dialog"
        /\ \/ screen' = "prompt" /\ task' = Repainted(task) /\ UNCHANGED dialogs
           \/ screen' \in {"boot", "ghost"} /\ UNCHANGED <<task, dialogs>>
           \/ /\ dialogs < MaxDialog /\ dialogs' = dialogs + 1
              /\ task' = Repainted(task) /\ UNCHANGED screen
        /\ UNCHANGED stray
     \/ /\ screen # "dialog"
        /\ stray' = TRUE
        /\ UNCHANGED <<screen, dialogs, task>>
  /\ UNCHANGED <<session, stash, machineVars, disturbed, clientVars>>

(* The picture of a dismissed dialog goes. *)
Clears ==
  /\ Running /\ screen = "ghost"
  /\ screen' = "prompt"
  /\ task' = Repainted(task)
  /\ UNCHANGED <<session, stash, machineVars, keys, dialogVars, clientVars>>

(* The daemon has decided on the dialog as it is painted, or typed for it. *)
Engaged ==
  \/ keys > 0
  \/ \E c \in DOMAIN task : task[c].at \in {"dialogs", "answer"} /\ task[c].acted

(* The user answers a dialog at an attached terminal, or nobody does and   *)
(* it goes by itself.                                                      *)
UserAnswers ==
  /\ Running /\ screen \in {"dialog", "unknown"}
  /\ screen' = "prompt"
  /\ task' = Repainted(task)
  /\ disturbed' = (disturbed \/ Engaged)
  /\ UNCHANGED <<session, stash, machineVars, keys, dialogs, stray, clientVars>>

(* A dialog is painted anew: the terminal was resized, an animation.       *)
Repaints ==
  /\ Running /\ screen \in {"dialog", "ghost"} /\ dialogs < MaxDialog
  /\ dialogs' = dialogs + 1
  /\ task' = Repainted(task)
  /\ disturbed' = (disturbed \/ Engaged)
  /\ UNCHANGED <<session, stash, machineVars, screen, keys, stray, clientVars>>

-----------------------------------------------------------------------------
Init ==
  /\ session = NoSession
  /\ stash = FALSE
  /\ task = [c \in 1 .. MaxCreate |-> NoTask]
  /\ alive = {} /\ young = {} /\ resuming = {}
  /\ screen = "boot" /\ keys = 0
  /\ procs = 0 /\ nextMsg = 1 /\ dialogs = 0
  /\ delivered = {} /\ told = {} /\ wanted = FALSE
  /\ stray = FALSE /\ disturbed = FALSE

Next ==
  \/ \E c \in DOMAIN task : Create(c) \/ Finalize(c)
  \/ Send \/ Kill
  \/ ReapDead \/ ReapIdle \/ Dispatch \/ Complete
  \/ \E p \in Proc : Exits(p) \/ Ages(p)
  \/ Boots \/ ReadsKey \/ Clears \/ UserAnswers \/ Repaints

Spec == Init /\ [][Next]_vars

(* A finalizer is a task of the runtime: it goes on, and its sleeps end.   *)
FairSpec == Spec /\ \A c \in 1 .. MaxCreate : WF_vars(Finalize(c))

-----------------------------------------------------------------------------
(* Type invariant. *)
TypeOK ==
  /\ session \in {NoSession} \cup [proc : Proc, held : Text, flight : Text]
  /\ {stash, wanted, stray, disturbed} \subseteq BOOLEAN
  /\ task \in [1 .. MaxCreate -> [at : Stage, resumed : BOOLEAN, carry : Text, acted : BOOLEAN]]
  /\ alive \subseteq Proc /\ young \subseteq Proc /\ resuming \subseteq Proc
  /\ screen \in {"boot", "dialog", "ghost", "unknown", "prompt"}
  /\ {keys, dialogs} \subseteq Nat
  /\ procs \in 0 .. MaxProc /\ nextMsg \in 1 .. MaxMsg + 1
  /\ delivered \subseteq Msg /\ told \subseteq Msg

(* A message the daemon took is with the session, or carried over to the   *)
(* next CLI, or its turn is complete, or the client has been told that its *)
(* session ended: through kills, reaps, and a --resume that dies.          *)
NothingVanishes ==
  \A m \in 1 .. nextMsg - 1 :
    \/ m \in Range(session.held \o session.flight) \cup delivered \cup told
    \/ \E c \in DOMAIN task : m \in Range(task[c].carry)

(* No CLI runs behind the daemon's back: one that is alive is the one of   *)
(* the session.                                                            *)
NoOrphan == alive \subseteq {session.proc}

(* `ready` says "resumed" just when the CLI that runs was resumed. *)
ReadyTruthful ==
  [][\A c \in DOMAIN task : task[c].at = "ready" /\ task'[c].at = "done" /\ Live =>
       task[c].resumed = (session.proc \in resuming)]_vars

(* A keystroke decided on one capture of a startup dialog and typed later, *)
(* in another acquisition of the lock, never lands in the prompt, also     *)
(* when the dialog stays in the picture after it was dismissed: unless it  *)
(* was another hand that dismissed or repainted the dialog in between.     *)
NoStrayKey == stray => disturbed

(* It lands in the prompt never at all. *)
KeysStayOut == ~stray

(* After a kill there is no session until the client creates one. *)
KillIsFinal == Live => wanted

(* What is reported ready is there. *)
ReadyIsLive ==
  [][\A c \in DOMAIN task : task[c].at = "ready" /\ task'[c].at = "done" => Live]_vars

(* Every create is answered in the end, by `ready` or by an error. *)
EveryCreateAnswered == \A c \in 1 .. MaxCreate : Pending(c) ~> task[c].at = "done"
=============================================================================
