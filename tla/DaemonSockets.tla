--------------------------- MODULE DaemonSockets ---------------------------
(***************************************************************************)
(* The daemons of one user that share a socket path: bind_listeners, the   *)
(* signal task, the idle exit and the accept loop of main (main.rs), for   *)
(* Unix sockets.                                                           *)
(*                                                                         *)
(* Each system call of a start and of an exit is a step of its own; those  *)
(* of other daemons come in between.  A daemon may be killed at any step,  *)
(* which leaves its files behind.  What a client and the monitor do in a   *)
(* connection is EventRelay's and only matters here in so far as it keeps  *)
(* a daemon alive, or hangs it.                                            *)
(*                                                                         *)
(* The probe of a start that finds a live daemon is, to that daemon, one   *)
(* more connection in its backlog.                                         *)
(***************************************************************************)
EXTENDS Integers, Sequences

CONSTANTS
  Daemon,     \* the processes started
  NoDaemon,
  MaxClient   \* bound: connections that clients make

ASSUME DaemonAssumption == NoDaemon \notin Daemon
ASSUME ClientAssumption == MaxClient \in Nat

Path == {"control", "attach"}

VARIABLES
  pc,         \* pc[d]: where d is between its start and its end
  file,       \* file[p]: the daemon whose listener the path names, if any
  waiting,    \* waiting[d]: connections to d that it has not accepted
  conn,       \* conn[d]: the connection d serves, if any
  sessions,   \* sessions[d]: d has sessions
  hung,       \* hung[d]: d waits for the lock that it holds itself
  clients,    \* connections made so far (bound)
  raced       \* two starts have both found no live daemon (history)

loopVars == <<waiting, conn, sessions, hung, clients>>
vars == <<pc, file, loopVars, raced>>

(* A connection is broken when an event could not be written to it: its    *)
(* lines are still read, but the daemon has no client any more.            *)
Conn == {"none", "client", "broken"}

(* The steps of a start, and those of an exit. *)
Starting(d) == pc[d] \in {"clear", "bind", "clearAttach", "bindAttach"}
Leaving(d) == pc[d] \in {"unlink", "unlinkAttach"}

(* The kernel takes connections for d from its bind to its end. *)
Listening(d) == pc[d] \in {"clearAttach", "bindAttach", "serving"} \/ Leaving(d)

Goes(d, where) == pc' = [pc EXCEPT ![d] = where]

-----------------------------------------------------------------------------
(* bind_listeners.                                                         *)

(* fault: the file is taken for stale without a look.                      *)
ProbeNothing(d) ==
  /\ pc[d] = "new"
  /\ Goes(d, "clear")
  /\ raced' = (raced \/ \E e \in Daemon : Starting(e))
  /\ UNCHANGED <<file, loopVars>>

(* exists, then connect: a daemon that answers is left alone.              *)
Probe(d) ==
  LET owner == file["control"]
  IN  /\ pc[d] = "new"
      /\ IF owner # NoDaemon /\ Listening(owner)
         THEN /\ Goes(d, "refused")
              /\ waiting' = [waiting EXCEPT ![owner] = Append(@, "probe")]
              /\ UNCHANGED raced
         ELSE /\ Goes(d, "clear")
              /\ raced' = (raced \/ \E e \in Daemon : Starting(e))
              /\ UNCHANGED waiting
      /\ UNCHANGED <<file, conn, sessions, hung, clients>>

(* fault: a stale file stays. *)
LeaveStale(d) ==
  /\ pc[d] = "clear" /\ Goes(d, "bind")
  /\ UNCHANGED <<file, loopVars, raced>>

ClearControl(d) ==
  /\ pc[d] = "clear" /\ Goes(d, "bind")
  /\ file' = [file EXCEPT !["control"] = NoDaemon]
  /\ UNCHANGED <<loopVars, raced>>

(* A path that exists cannot be bound: the start fails. *)
BindControl(d) ==
  /\ pc[d] = "bind"
  /\ IF file["control"] = NoDaemon
     THEN file' = [file EXCEPT !["control"] = d] /\ Goes(d, "clearAttach")
     ELSE Goes(d, "failed") /\ UNCHANGED file
  /\ UNCHANGED <<loopVars, raced>>

ClearAttach(d) ==
  /\ pc[d] = "clearAttach" /\ Goes(d, "bindAttach")
  /\ file' = [file EXCEPT !["attach"] = NoDaemon]
  /\ UNCHANGED <<loopVars, raced>>

(* Without an attach listener the daemon serves all the same. *)
BindAttach(d) ==
  /\ pc[d] = "bindAttach" /\ Goes(d, "serving")
  /\ file' = IF file["attach"] = NoDaemon THEN [file EXCEPT !["attach"] = d] ELSE file
  /\ UNCHANGED <<loopVars, raced>>

Start(d) ==
  Probe(d) \/ ClearControl(d) \/ BindControl(d) \/ ClearAttach(d) \/ BindAttach(d)

-----------------------------------------------------------------------------
(* Clients, and the daemon's tasks.                                        *)

Connect ==
  LET owner == file["control"]
  IN  /\ clients < MaxClient /\ owner # NoDaemon /\ Listening(owner)
      /\ waiting' = [waiting EXCEPT ![owner] = Append(@, "client")]
      /\ clients' = clients + 1
      /\ UNCHANGED <<pc, file, conn, sessions, hung, raced>>

(* The client served creates a session, cannot be written to, or hangs up. *)
CreateSession(d) ==
  /\ pc[d] = "serving" /\ conn[d] # "none" /\ ~hung[d]
  /\ sessions' = [sessions EXCEPT ![d] = TRUE]
  /\ UNCHANGED <<pc, file, waiting, conn, hung, clients, raced>>

EmitFails(d) ==
  /\ pc[d] = "serving" /\ conn[d] = "client" /\ ~hung[d]
  /\ conn' = [conn EXCEPT ![d] = "broken"]
  /\ UNCHANGED <<pc, file, waiting, sessions, hung, clients, raced>>

HangUp(d) ==
  /\ pc[d] = "serving" /\ conn[d] # "none"
  /\ conn' = [conn EXCEPT ![d] = "none"]
  /\ UNCHANGED <<pc, file, waiting, sessions, hung, clients, raced>>

(* The accept loop.  A probe has closed its end: the handshake fails, and  *)
(* the loop waits for the lock its own condition holds.  Or the probe is   *)
(* accepted while it is still open, and is a client that leaves at once.   *)
Accept(d) ==
  /\ pc[d] = "serving" /\ ~hung[d] /\ conn[d] = "none" /\ waiting[d] # <<>>
  /\ waiting' = [waiting EXCEPT ![d] = Tail(@)]
  /\ \/ Head(waiting[d]) = "client" /\ conn' = [conn EXCEPT ![d] = "client"] /\ UNCHANGED hung
     \/ Head(waiting[d]) = "probe" /\ UNCHANGED conn /\ hung' \in {hung, [hung EXCEPT ![d] = TRUE]}
  /\ UNCHANGED <<pc, file, sessions, clients, raced>>

(* The tick reaps what is idle or dead. *)
Reap(d) ==
  /\ pc[d] = "serving" /\ ~hung[d] /\ sessions[d]
  /\ sessions' = [sessions EXCEPT ![d] = FALSE]
  /\ UNCHANGED <<pc, file, waiting, conn, hung, clients, raced>>

(* fault: only a daemon that can still be reached looks at its idle clock. *)
IdleExitReachable(d) ==
  /\ pc[d] = "serving" /\ ~hung[d] /\ ~sessions[d] /\ conn[d] # "client"
  /\ file["control"] = d
  /\ Goes(d, "unlink")
  /\ UNCHANGED <<file, loopVars, raced>>

(* The tick: no session and no client for LIT_BRIDGE_RS_IDLE_EXIT_SECS.    *)
(* The connections that wait to be accepted are not looked at.             *)
IdleExit(d) ==
  /\ pc[d] = "serving" /\ ~hung[d] /\ ~sessions[d] /\ conn[d] # "client"
  /\ Goes(d, "unlink")
  /\ UNCHANGED <<file, loopVars, raced>>

(* SIGTERM or SIGINT, once the handler is there; the signal task needs no lock. *)
Terminate(d) ==
  /\ pc[d] = "serving" /\ Goes(d, "unlink")
  /\ UNCHANGED <<file, loopVars, raced>>

UnlinkControl(d) ==
  /\ pc[d] = "unlink" /\ Goes(d, "unlinkAttach")
  /\ file' = [file EXCEPT !["control"] = NoDaemon]
  /\ UNCHANGED <<loopVars, raced>>

UnlinkAttach(d) ==
  /\ pc[d] = "unlinkAttach" /\ Goes(d, "left")
  /\ file' = [file EXCEPT !["attach"] = NoDaemon]
  /\ UNCHANGED <<loopVars, raced>>

Leave(d) == UnlinkControl(d) \/ UnlinkAttach(d)

(* SIGKILL at any step; SIGTERM before there is a handler. *)
Killed(d) ==
  /\ Starting(d) \/ Listening(d)
  /\ Goes(d, "killed")
  /\ UNCHANGED <<file, loopVars, raced>>

Init ==
  /\ pc = [d \in Daemon |-> "new"]
  /\ file = [p \in Path |-> NoDaemon]
  /\ waiting = [d \in Daemon |-> <<>>]
  /\ conn = [d \in Daemon |-> "none"] /\ sessions = [d \in Daemon |-> FALSE]
  /\ hung = [d \in Daemon |-> FALSE]
  /\ clients = 0 /\ raced = FALSE

Next ==
  \/ Connect
  \/ \E d \in Daemon : \/ Start(d) \/ CreateSession(d) \/ EmitFails(d) \/ HangUp(d)
                       \/ Accept(d) \/ Reap(d) \/ IdleExit(d) \/ Terminate(d) \/ Leave(d) \/ Killed(d)

Spec == Init /\ [][Next]_vars

(* A daemon takes the steps of a start and of an exit, accepts, reaps, and *)
(* looks at its clock; a client hangs up in the end.                       *)
Fairness ==
  \A d \in Daemon : /\ WF_vars(ClearControl(d) \/ BindControl(d) \/ ClearAttach(d) \/ BindAttach(d))
                    /\ WF_vars(Leave(d)) /\ WF_vars(Accept(d)) /\ WF_vars(HangUp(d))
                    /\ WF_vars(Reap(d)) /\ WF_vars(IdleExit(d))

FairSpec == Spec /\ Fairness

-----------------------------------------------------------------------------
(* Every variable has its type. *)
TypeOK ==
  /\ pc \in [Daemon -> {"new", "clear", "bind", "clearAttach", "bindAttach", "serving", "unlink",
                        "unlinkAttach", "refused", "failed", "left", "killed"}]
  /\ file \in [Path -> Daemon \cup {NoDaemon}]
  /\ waiting \in [Daemon -> Seq({"client", "probe"})]
  /\ conn \in [Daemon -> Conn] /\ sessions \in [Daemon -> BOOLEAN]
  /\ hung \in [Daemon -> BOOLEAN]
  /\ clients \in 0 .. MaxClient /\ raced \in BOOLEAN

(* REFUSE TO STEAL: unless two starts have raced, the control path names   *)
(* the daemon that listens until it takes the path down itself, whatever   *)
(* exits, kills and stale files there are.                                 *)
NeverDisconnected ==
  ~raced => \A d \in Daemon : Listening(d) /\ pc[d] # "unlinkAttach" => file["control"] = d

(* A start fails only for another daemon: files that killed daemons left,   *)
(* or that an exiting one is taking down, do not stop it.                  *)
StaleNeverBlocks == ~raced => \A d \in Daemon : pc[d] # "failed"

(* No daemon that was told to end, or has idled out, leaves a path behind  *)
(* that leads nowhere.                                                     *)
NoDeadEnds == \A d \in Daemon, p \in Path : pc[d] = "left" => file[p] # d

(* Orphans evaporate: a daemon no path leads to ends, unless it hangs.     *)
OrphansEvaporate ==
  \A d \in Daemon :
     pc[d] = "serving" /\ file["control"] # d ~> pc[d] \in {"left", "killed"} \/ hung[d]

(* ---- what the code does not promise, or does not keep                   *)

(* A daemon that serves can be attached to. *)
AttachLeadsHome == \A d \in Daemon : pc[d] = "serving" => file["attach"] = d

(* No start disconnects a daemon that serves. *)
NeverStolen == \A d \in Daemon : pc[d] = "serving" => file["control"] = d

(* A start that is refused does no harm to the daemon that is there. *)
ProbeIsHarmless == \A d \in Daemon : ~hung[d]

(* Whoever could connect is served, unless the daemon is told to end. *)
ExitKeepsNoOneWaiting ==
  [][\A d \in Daemon : IdleExit(d) => \A i \in DOMAIN waiting[d] : waiting[d][i] # "client"]_vars
=============================================================================
