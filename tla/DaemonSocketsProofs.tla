------------------------- MODULE DaemonSocketsProofs -------------------------
(***************************************************************************)
(* The safety invariants of DaemonSockets, for any number of daemons and   *)
(* of connections.                                                         *)
(***************************************************************************)
EXTENDS DaemonSockets, TLAPS

(* Between its probe and its bind. *)
Binding(d) == pc[d] \in {"clear", "bind"}

(* A daemon that can be reached by the control path, and has not taken it  *)
(* down.                                                                   *)
Up(d) == Listening(d) /\ pc[d] # "unlinkAttach"

(* Without a race only one start is about to bind, no daemon is up then,   *)
(* and once the start has cleared the path it stays clear.                 *)
BindsAlone ==
  \A d, e \in Daemon : Binding(d) /\ d # e => ~Binding(e) /\ ~Up(e)
PathIsClear == \A d \in Daemon : pc[d] = "bind" => file["control"] = NoDaemon
PathLeadsHome == \A d \in Daemon : Up(d) => file["control"] = d
NoneFailed == \A d \in Daemon : pc[d] # "failed"

(* An exit takes down first one path, then the other. *)
TakenDown ==
  \A d \in Daemon : /\ pc[d] \in {"unlinkAttach", "left"} => file["control"] # d
                    /\ pc[d] = "left" => file["attach"] # d

InOrder == ~raced => BindsAlone /\ PathIsClear /\ PathLeadsHome /\ NoneFailed

IInv == TypeOK /\ InOrder /\ TakenDown

-----------------------------------------------------------------------------
LEMMA TypesInit == Init => TypeOK
<1>1. <<>> \in Seq({"client", "probe"})
  OBVIOUS
<1>2. Init => raced \in BOOLEAN
  <2>1. Init => raced = FALSE
    BY DEF Init
  <2> QED
    BY <2>1
<1> QED
  BY <1>1, <1>2, ClientAssumption DEF Init, TypeOK, Conn

LEMMA TypesStep ==
  ASSUME TypeOK, [Next]_vars
  PROVE  TypeOK'
<1> USE DEF TypeOK, Goes, Path, loopVars
<1>1. CASE Connect
  <2> DEFINE owner == file["control"]
  <2>1. /\ owner \in Daemon /\ waiting' = [waiting EXCEPT ![owner] = Append(@, "client")]
        /\ clients' = clients + 1 /\ clients < MaxClient
        /\ UNCHANGED <<pc, file, conn, sessions, hung, raced>>
    BY <1>1 DEF Connect
  <2>2. waiting' \in [Daemon -> Seq({"client", "probe"})]
    <3>1. Append(waiting[owner], "client") \in Seq({"client", "probe"})
      BY <2>1
    <3> QED
      BY <2>1, <3>1
  <2> QED
    BY <2>1, <2>2, ClientAssumption
<1>2. ASSUME NEW d \in Daemon, Probe(d) PROVE TypeOK'
  <2> DEFINE owner == file["control"]
  <2>1. CASE owner # NoDaemon /\ Listening(owner)
    <3>1. /\ owner \in Daemon /\ waiting' = [waiting EXCEPT ![owner] = Append(@, "probe")]
          /\ pc' = [pc EXCEPT ![d] = "refused"]
          /\ UNCHANGED <<file, conn, sessions, hung, clients, raced>>
      BY <1>2, <2>1 DEF Probe
    <3>2. waiting' \in [Daemon -> Seq({"client", "probe"})]
      <4>1. Append(waiting[owner], "probe") \in Seq({"client", "probe"})
        BY <3>1
      <4> QED
        BY <3>1, <4>1
    <3> QED
      BY <3>1, <3>2
  <2>2. CASE ~(owner # NoDaemon /\ Listening(owner))
    <3>1. /\ pc' = [pc EXCEPT ![d] = "clear"]
          /\ UNCHANGED <<waiting, file, conn, sessions, hung, clients>>
      BY <1>2, <2>2 DEF Probe
    <3>2. raced' \in BOOLEAN
      BY <1>2, <2>2 DEF Probe
    <3> QED
      BY <3>1, <3>2
  <2> QED
    BY <2>1, <2>2
<1>3. ASSUME NEW d \in Daemon, Start(d), ~Probe(d) PROVE TypeOK'
  <2>1. /\ UNCHANGED <<waiting, conn, sessions, hung, clients, raced>>
    BY <1>3 DEF Start, ClearControl, BindControl, ClearAttach, BindAttach
  <2>2. pc' \in [Daemon -> {"new", "clear", "bind", "clearAttach", "bindAttach", "serving", "unlink",
                            "unlinkAttach", "refused", "failed", "left", "killed"}]
    BY <1>3 DEF Start, ClearControl, BindControl, ClearAttach, BindAttach
  <2>3. file' \in [{"control", "attach"} -> Daemon \cup {NoDaemon}]
    BY <1>3 DEF Start, ClearControl, BindControl, ClearAttach, BindAttach
  <2> QED
    BY <2>1, <2>2, <2>3
<1>4. ASSUME NEW d \in Daemon, CreateSession(d) \/ EmitFails(d) \/ HangUp(d) \/ Reap(d) PROVE TypeOK'
  BY <1>4 DEF CreateSession, EmitFails, HangUp, Conn, Reap
<1>5. ASSUME NEW d \in Daemon, Accept(d) PROVE TypeOK'
  <2>1. /\ UNCHANGED <<pc, file, sessions, clients, raced>>
        /\ waiting' = [waiting EXCEPT ![d] = Tail(@)] /\ waiting[d] # <<>>
    BY <1>5 DEF Accept
  <2>2. waiting' \in [Daemon -> Seq({"client", "probe"})]
    <3>1. Tail(waiting[d]) \in Seq({"client", "probe"})
      BY <2>1
    <3> QED
      BY <2>1, <3>1
  <2>3. conn' \in [Daemon -> Conn]
    BY <1>5 DEF Accept, Conn
  <2>4. hung' \in [Daemon -> BOOLEAN]
    BY <1>5 DEF Accept
  <2> QED
    BY <2>1, <2>2, <2>3, <2>4
<1>6. ASSUME NEW d \in Daemon, IdleExit(d) \/ Terminate(d) \/ Leave(d) \/ Killed(d) PROVE TypeOK'
  BY <1>6 DEF IdleExit, Terminate, Leave, UnlinkControl, UnlinkAttach, Killed
<1>7. CASE UNCHANGED vars
  BY <1>7 DEF vars
<1> QED
  BY <1>1, <1>2, <1>3, <1>4, <1>5, <1>6, <1>7 DEF Next

-----------------------------------------------------------------------------
(* The steps of a daemon that neither start nor end it. *)
LEMMA LoopStep ==
  ASSUME TypeOK, [Next]_vars,
         ~ \E d \in Daemon : Start(d) \/ IdleExit(d) \/ Terminate(d) \/ Leave(d) \/ Killed(d)
  PROVE  UNCHANGED <<pc, file, raced>>
BY DEF Next, Connect, CreateSession, EmitFails, HangUp, Accept, Reap, vars

(* A start that finds no live daemon finds none that is up; and if there is *)
(* no other start, it is alone.                                            *)
LEMMA ProbeStep ==
  ASSUME TypeOK, InOrder, TakenDown, NEW d \in Daemon, Probe(d)
  PROVE  InOrder' /\ TakenDown'
<1> USE DEF TypeOK, Goes, Path, Binding, Up, Listening, Leaving, Starting
<1>1. CASE file["control"] # NoDaemon /\ Listening(file["control"])
  <2>1. pc' = [pc EXCEPT ![d] = "refused"] /\ UNCHANGED <<file, raced>> /\ pc[d] = "new"
    BY <1>1 DEF Probe
  <2> QED
    BY <2>1 DEF InOrder, TakenDown, BindsAlone, PathIsClear, PathLeadsHome, NoneFailed
<1>2. CASE ~(file["control"] # NoDaemon /\ Listening(file["control"]))
  <2>1. /\ pc' = [pc EXCEPT ![d] = "clear"] /\ UNCHANGED file /\ pc[d] = "new"
        /\ ~raced' => ~raced /\ ~ \E e \in Daemon : Starting(e)
    BY <1>2 DEF Probe
  <2>2. ASSUME ~raced' PROVE \A e \in Daemon : ~Up(e) /\ ~Binding(e)
    <3>1. ASSUME NEW e \in Daemon, Up(e) PROVE FALSE
      <4>1. file["control"] = e /\ Listening(e)
        BY <2>1, <2>2, <3>1 DEF InOrder, PathLeadsHome
      <4> QED
        BY <4>1, <1>2, DaemonAssumption
    <3> QED
      BY <2>1, <2>2, <3>1
  <2>3. ASSUME ~raced' PROVE BindsAlone' /\ PathIsClear' /\ PathLeadsHome' /\ NoneFailed'
    BY <2>1, <2>2, <2>3 DEF InOrder, BindsAlone, PathIsClear, PathLeadsHome, NoneFailed
  <2>4. TakenDown'
    BY <2>1 DEF TakenDown
  <2> QED
    BY <2>3, <2>4 DEF InOrder
<1> QED
  BY <1>1, <1>2

(* The other steps of a start. *)
LEMMA BindStep ==
  ASSUME TypeOK, InOrder, TakenDown, NEW d \in Daemon, Start(d), ~Probe(d)
  PROVE  InOrder' /\ TakenDown'
<1> USE DEF TypeOK, Goes, Path, Binding, Up, Listening, Leaving, loopVars
<1>1. CASE ClearControl(d)
  <2>1. /\ pc[d] = "clear" /\ pc' = [pc EXCEPT ![d] = "bind"]
        /\ file' = [file EXCEPT !["control"] = NoDaemon] /\ raced' = raced
    BY <1>1 DEF ClearControl
  <2>2. TakenDown'
    BY <2>1, DaemonAssumption DEF TakenDown
  <2>3. InOrder'
    BY <2>1 DEF InOrder, BindsAlone, PathIsClear, PathLeadsHome, NoneFailed
  <2> QED
    BY <2>2, <2>3
<1>2. CASE BindControl(d)
  <2>1. CASE file["control"] = NoDaemon
    <3>1. /\ pc[d] = "bind" /\ pc' = [pc EXCEPT ![d] = "clearAttach"]
          /\ file' = [file EXCEPT !["control"] = d] /\ raced' = raced
      BY <1>2, <2>1 DEF BindControl
    <3>2. TakenDown'
      BY <3>1 DEF TakenDown
    <3>3. InOrder'
      BY <3>1 DEF InOrder, BindsAlone, PathIsClear, PathLeadsHome, NoneFailed
    <3> QED
      BY <3>2, <3>3
  <2>2. CASE file["control"] # NoDaemon
    <3>1. /\ pc[d] = "bind" /\ pc' = [pc EXCEPT ![d] = "failed"] /\ file' = file /\ raced' = raced
      BY <1>2, <2>2 DEF BindControl
    <3>2. raced
      BY <3>1, <2>2 DEF InOrder, PathIsClear
    <3> QED
      BY <3>1, <3>2 DEF InOrder, TakenDown
  <2> QED
    BY <2>1, <2>2
<1>3. CASE ClearAttach(d)
  <2>1. /\ pc[d] = "clearAttach" /\ pc' = [pc EXCEPT ![d] = "bindAttach"]
        /\ file' = [file EXCEPT !["attach"] = NoDaemon] /\ raced' = raced
    BY <1>3 DEF ClearAttach
  <2> QED
    BY <2>1, DaemonAssumption DEF InOrder, TakenDown, BindsAlone, PathIsClear, PathLeadsHome, NoneFailed
<1>4. CASE BindAttach(d)
  <2>1. /\ pc[d] = "bindAttach" /\ pc' = [pc EXCEPT ![d] = "serving"] /\ raced' = raced
        /\ file'["control"] = file["control"]
        /\ \A e \in Daemon \ {d} : file["attach"] # e => file'["attach"] # e
    BY <1>4 DEF BindAttach
  <2>2. TakenDown'
    BY <2>1 DEF TakenDown
  <2>3. InOrder'
    BY <2>1 DEF InOrder, BindsAlone, PathIsClear, PathLeadsHome, NoneFailed
  <2> QED
    BY <2>2, <2>3
<1> QED
  BY <1>1, <1>2, <1>3, <1>4 DEF Start

(* An exit takes down paths that are its own. *)
LEMMA ExitStep ==
  ASSUME TypeOK, InOrder, TakenDown, NEW d \in Daemon,
         IdleExit(d) \/ Terminate(d) \/ Leave(d) \/ Killed(d)
  PROVE  InOrder' /\ TakenDown'
<1> USE DEF TypeOK, Goes, Path, Binding, Up, Listening, Leaving, Starting, loopVars
<1>1. CASE IdleExit(d) \/ Terminate(d)
  <2>1. pc[d] = "serving" /\ pc' = [pc EXCEPT ![d] = "unlink"] /\ UNCHANGED <<file, raced>>
    BY <1>1 DEF IdleExit, Terminate
  <2> QED
    BY <2>1 DEF InOrder, TakenDown, BindsAlone, PathIsClear, PathLeadsHome, NoneFailed
<1>2. CASE UnlinkControl(d)
  <2>1. /\ pc[d] = "unlink" /\ pc' = [pc EXCEPT ![d] = "unlinkAttach"]
        /\ file' = [file EXCEPT !["control"] = NoDaemon] /\ raced' = raced
    BY <1>2 DEF UnlinkControl
  <2>2. TakenDown'
    BY <2>1, DaemonAssumption DEF TakenDown
  <2>3. InOrder'
    BY <2>1 DEF InOrder, BindsAlone, PathIsClear, PathLeadsHome, NoneFailed
  <2> QED
    BY <2>2, <2>3
<1>3. CASE UnlinkAttach(d)
  <2>1. /\ pc[d] = "unlinkAttach" /\ pc' = [pc EXCEPT ![d] = "left"]
        /\ file' = [file EXCEPT !["attach"] = NoDaemon] /\ raced' = raced
    BY <1>3 DEF UnlinkAttach
  <2>2. TakenDown'
    BY <2>1, DaemonAssumption DEF TakenDown
  <2>3. InOrder'
    BY <2>1 DEF InOrder, BindsAlone, PathIsClear, PathLeadsHome, NoneFailed
  <2> QED
    BY <2>2, <2>3
<1>4. CASE Killed(d)
  <2>1. pc' = [pc EXCEPT ![d] = "killed"] /\ UNCHANGED <<file, raced>>
    BY <1>4 DEF Killed
  <2> QED
    BY <2>1 DEF InOrder, TakenDown, BindsAlone, PathIsClear, PathLeadsHome, NoneFailed
<1> QED
  BY <1>1, <1>2, <1>3, <1>4 DEF Leave

LEMMA Inductive == Spec => []IInv
<1>1. Init => IInv
  <2> SUFFICES ASSUME Init PROVE IInv
    OBVIOUS
  <2>1. TypeOK
    BY TypesInit
  <2>2. \A d \in Daemon : pc[d] = "new"
    BY DEF Init
  <2> QED
    BY <2>1, <2>2 DEF IInv, InOrder, TakenDown, BindsAlone, PathIsClear, PathLeadsHome,
                      NoneFailed, Binding, Up, Listening, Leaving
<1>2. IInv /\ [Next]_vars => IInv'
  <2> SUFFICES ASSUME TypeOK, InOrder, TakenDown, [Next]_vars PROVE InOrder' /\ TakenDown'
    BY TypesStep DEF IInv
  <2>1. CASE ~ \E d \in Daemon : Start(d) \/ IdleExit(d) \/ Terminate(d) \/ Leave(d) \/ Killed(d)
    <3>1. UNCHANGED <<pc, file, raced>>
      BY <2>1, LoopStep
    <3> QED
      BY <3>1 DEF InOrder, TakenDown, BindsAlone, PathIsClear, PathLeadsHome, NoneFailed,
                  Binding, Up, Listening, Leaving
  <2> QED
    BY <2>1, ProbeStep, BindStep, ExitStep
<1> QED
  BY <1>1, <1>2, PTL DEF Spec

(* Every variable has its type. *)
THEOREM Types == Spec => []TypeOK
<1>1. IInv => TypeOK
  BY DEF IInv
<1> QED
  BY <1>1, Inductive, PTL

(* Unless two starts race, no daemon is ever disconnected from its control *)
(* path by another one's start or exit.                                    *)
THEOREM IncumbentStays == Spec => []NeverDisconnected
<1>1. IInv => NeverDisconnected
  BY DEF IInv, InOrder, PathLeadsHome, NeverDisconnected, Up
<1> QED
  BY <1>1, Inductive, PTL

(* Unless two starts race, none fails over a file it finds.                *)
THEOREM StartsSucceed == Spec => []StaleNeverBlocks
<1>1. IInv => StaleNeverBlocks
  BY DEF IInv, InOrder, NoneFailed, StaleNeverBlocks
<1> QED
  BY <1>1, Inductive, PTL

(* A daemon that has left has left no path behind, races or not.           *)
THEOREM ExitsClean == Spec => []NoDeadEnds
<1>1. IInv => NoDeadEnds
  BY DEF IInv, TakenDown, NoDeadEnds, Path
<1> QED
  BY <1>1, Inductive, PTL
=============================================================================
