----------------------- MODULE SessionLifecycleProofs -----------------------
(***************************************************************************)
(* Proofs about SessionLifecycle, for every number of creates, processes,  *)
(* messages and dialogs.  That no CLI runs outside the map and that no     *)
(* message vanishes need a client that waits for `ready`: then at most one *)
(* finalizer is at work, and what it takes out of the map is the session   *)
(* it has found dead.                                                      *)
(***************************************************************************)
EXTENDS SessionLifecycle, TLAPS

Task == [at : Stage, resumed : BOOLEAN, carry : Text, acted : BOOLEAN]

(* No two finalizers are at work. *)
OnePending == \A b, c \in DOMAIN task : Pending(b) /\ Pending(c) => b = c

(* Between its look and its spawn the finalizer has no CLI. *)
DeadWhenRetried ==
  \A c \in DOMAIN task :
    /\ task[c].at = "carry" => session.proc \notin alive
    /\ task[c].at = "respawn" => session = NoSession

(* The message carried over is the only one under way. *)
OneCarried == \A c \in DOMAIN task : task[c].at # "respawn" => task[c].carry = <<>>

(* Text waits or is in flight, not both. *)
OneText == session.held = <<>> \/ session.flight = <<>>

(* What holds of sessions and finalizers, and what of the messages. *)
Structure == TypeOK /\ OnePending /\ DeadWhenRetried /\ NoOrphan
Messages == OneCarried /\ OneText /\ NothingVanishes

(* A startup key that is not read yet is for the dialog on the screen, is  *)
(* the only one, and the finalizer that typed it knows this frame; one     *)
(* that is about to type has decided on it; a picture that lingers is one  *)
(* it has acted on.  All this until another hand is in it.                 *)
InDialog ==
  /\ keys \in {0, 1}
  /\ keys = 1 => screen = "dialog"
  /\ \A c \in DOMAIN task :
       /\ task[c].at \in {"check", "carry", "respawn"} => keys = 0 /\ screen # "ghost"
       /\ task[c].at = "dialogs" /\ (keys = 1 \/ screen = "ghost") => task[c].acted
       /\ task[c].at = "answer" => keys = 0 /\ screen = "dialog" /\ task[c].acted

KeyForDialog == ~disturbed => InDialog

(* A finalizer at work knows whether the CLI of the session was resumed.   *)
ResumedKnown ==
  /\ resuming \subseteq 1 .. procs
  /\ \A c \in DOMAIN task : Pending(c) /\ Live => task[c].resumed = (session.proc \in resuming)

(* A session, or a finalizer that may still make one, is wanted.           *)
WantedWhilePending == KillIsFinal /\ \A c \in DOMAIN task : Pending(c) => wanted

(* Where a message may be. *)
Carrying == {m \in Msg : \E c \in DOMAIN task : m \in Range(task[c].carry)}
Where == Range(session.held) \cup Range(session.flight) \cup delivered \cup told \cup Carrying
AllPlaced == \A m \in 1 .. nextMsg - 1 : m \in Where

-----------------------------------------------------------------------------
(* A spawn gives the key a running CLI of its own, with the text it holds. *)
LEMMA SpawnFacts ==
  ASSUME TypeOK, NEW text \in Text, NEW resume \in BOOLEAN, Spawned(resume, text)
  PROVE  /\ session' \in [proc : Proc, held : Text, flight : Text]
         /\ session'.held = text /\ session'.flight = <<>>
         /\ alive' = alive \cup {session'.proc}
         /\ alive' \subseteq Proc /\ young' \subseteq Proc /\ resuming' \subseteq Proc
         /\ procs' \in 0 .. MaxProc
         /\ screen' = "boot" /\ keys' = 0
<1>1. MaxProc \in Nat
  BY BoundsAssumption
<1>2. procs + 1 \in Proc /\ procs + 1 \in 0 .. MaxProc
  BY <1>1 DEF Spawned, TypeOK, Proc
<1>3. <<>> \in Text
  BY DEF Text
<1> QED BY <1>2, <1>3 DEF Spawned, TypeOK

(* A repaint touches nothing but `acted`. *)
LEMMA RepaintFacts ==
  ASSUME NEW tasks \in [1 .. MaxCreate -> Task]
  PROVE  /\ Repainted(tasks) \in [1 .. MaxCreate -> Task]
         /\ \A c \in 1 .. MaxCreate :
              /\ Repainted(tasks)[c].at = tasks[c].at
              /\ Repainted(tasks)[c].resumed = tasks[c].resumed
              /\ Repainted(tasks)[c].carry = tasks[c].carry
BY DEF Repainted, Task

(* So a step of the CLI or of the user leaves the finalizers where they are. *)
LEMMA PaintFacts ==
  ASSUME TypeOK, task' = task \/ task' = Repainted(task)
  PROVE  \A c \in 1 .. MaxCreate :
           /\ task'[c].at = task[c].at
           /\ task'[c].resumed = task[c].resumed
           /\ task'[c].carry = task[c].carry
<1>1. task \in [1 .. MaxCreate -> Task]
  BY DEF TypeOK, Task
<1>2. \A c \in 1 .. MaxCreate :
        /\ Repainted(task)[c].at = task[c].at
        /\ Repainted(task)[c].resumed = task[c].resumed
        /\ Repainted(task)[c].carry = task[c].carry
  BY <1>1, RepaintFacts
<1>3. CASE task' = task
  BY <1>3
<1>4. CASE task' = Repainted(task)
  BY <1>2, <1>4
<1> QED BY <1>3, <1>4

(* The finalizer goes on to the dialogs of a fresh CLI, nothing carried. *)
LEMMA RetryFacts ==
  ASSUME task \in [1 .. MaxCreate -> Task], NEW c \in 1 .. MaxCreate
  PROVE  LET tasks == [task EXCEPT ![c].at = "dialogs", ![c].resumed = FALSE,
                                   ![c].carry = <<>>]
         IN  /\ tasks \in [1 .. MaxCreate -> Task]
             /\ tasks[c].at = "dialogs" /\ tasks[c].carry = <<>> /\ ~tasks[c].resumed
             /\ \A b \in 1 .. MaxCreate : b # c => tasks[b] = task[b]
<1>1. <<>> \in Text
  BY DEF Text
<1>2. [task EXCEPT ![c].at = "dialogs", ![c].resumed = FALSE, ![c].carry = <<>>]
        \in [1 .. MaxCreate -> Task]
  BY <1>1 DEF Task, Stage
<1>3. task[c] \in Task
  OBVIOUS
<1> QED BY <1>2, <1>3 DEF Task

(* What a sequence of messages holds. *)
LEMMA RangeFacts ==
  ASSUME NEW s \in Text, NEW t \in Text, NEW m
  PROVE  /\ Range(s \o t) = Range(s) \cup Range(t)
         /\ Range(Append(s, m)) = Range(s) \cup {m}
         /\ Range(<<m>>) = {m}
         /\ Range(<<>>) = {}
         /\ Range(s) \subseteq Msg
<1>1. Range(s \o t) = Range(s) \cup Range(t)
  <2>1. Len(s) \in Nat /\ Len(t) \in Nat /\ DOMAIN s = 1 .. Len(s) /\ DOMAIN t = 1 .. Len(t)
        /\ DOMAIN (s \o t) = 1 .. Len(s) + Len(t)
    BY DEF Text
  <2>2. \A i \in 1 .. Len(s) : (s \o t)[i] = s[i]
    BY DEF Text
  <2>3. \A i \in 1 .. Len(t) : i + Len(s) \in 1 .. Len(s) + Len(t) /\ (s \o t)[i + Len(s)] = t[i]
    BY DEF Text
  <2>4. \A i \in 1 .. Len(s) + Len(t) : i \notin 1 .. Len(s) =>
          i - Len(s) \in 1 .. Len(t) /\ (s \o t)[i] = t[i - Len(s)]
    BY DEF Text
  <2>5. ASSUME NEW x \in Range(s \o t) PROVE x \in Range(s) \cup Range(t)
    <3>1. PICK i \in 1 .. Len(s) + Len(t) : x = (s \o t)[i]
      BY <2>1, <2>5 DEF Range
    <3> QED BY <3>1, <2>1, <2>2, <2>4 DEF Range
  <2>6. ASSUME NEW x \in Range(s) PROVE x \in Range(s \o t)
    <3>1. PICK i \in 1 .. Len(s) : x = s[i]
      BY <2>1, <2>6 DEF Range
    <3>2. i \in 1 .. Len(s) + Len(t)
      BY <2>1
    <3> QED BY <3>1, <3>2, <2>1, <2>2 DEF Range
  <2>7. ASSUME NEW x \in Range(t) PROVE x \in Range(s \o t)
    <3>1. PICK i \in 1 .. Len(t) : x = t[i]
      BY <2>1, <2>7 DEF Range
    <3> QED BY <3>1, <2>1, <2>3 DEF Range
  <2> QED BY <2>5, <2>6, <2>7
<1>2. Range(Append(s, m)) = Range(s) \cup {m}
  <2>1. DOMAIN Append(s, m) = 1 .. Len(s) + 1 /\ DOMAIN s = 1 .. Len(s) /\ Len(s) \in Nat
    BY DEF Text
  <2>2. \A i \in 1 .. Len(s) : Append(s, m)[i] = s[i]
    BY DEF Text
  <2>3. Append(s, m)[Len(s) + 1] = m
    BY DEF Text
  <2>4. \A i \in 1 .. Len(s) + 1 : i \in 1 .. Len(s) \/ i = Len(s) + 1
    BY <2>1
  <2>5. 1 .. Len(s) \subseteq 1 .. Len(s) + 1 /\ Len(s) + 1 \in 1 .. Len(s) + 1
    BY <2>1
  <2> QED BY <2>1, <2>2, <2>3, <2>4, <2>5 DEF Range
<1>3. Range(<<m>>) = {m} /\ Range(<<>>) = {}
  BY DEF Range
<1>4. Range(s) \subseteq Msg
  BY DEF Range, Text
<1> QED BY <1>1, <1>2, <1>3, <1>4

-----------------------------------------------------------------------------
(* The daemon starts with nothing that could go wrong. *)
LEMMA InitInv == Init => Structure /\ Messages
<1> SUFFICES ASSUME Init PROVE Structure /\ Messages
  OBVIOUS
<1>1. <<>> \in Text /\ "none" \in Stage
  BY DEF Text, Stage
<1>2. NoTask \in Task /\ NoTask.carry = <<>> /\ NoTask.at = "none"
  BY <1>1 DEF NoTask, Task
<1>3. task \in [1 .. MaxCreate -> Task]
  BY <1>2 DEF Init
<1>4. {MaxProc, MaxMsg} \subseteq Nat
  BY BoundsAssumption
<1>5. TypeOK
  <2>1. session \in {NoSession} \cup [proc : Proc, held : Text, flight : Text]
    BY DEF Init
  <2>2. procs \in 0 .. MaxProc /\ nextMsg \in 1 .. MaxMsg + 1 /\ {keys, dialogs} \subseteq Nat
    BY <1>4 DEF Init
  <2>3. {stash, wanted, stray} \subseteq BOOLEAN
    BY DEF Init
  <2> QED BY <1>3, <2>1, <2>2, <2>3 DEF Init, TypeOK, Task
<1>6. OnePending /\ DeadWhenRetried /\ OneCarried
  BY <1>2, <1>3 DEF Init, OnePending, DeadWhenRetried, OneCarried, Pending
<1>7. OneText /\ NoOrphan
  BY DEF Init, OneText, NoOrphan, NoSession
<1>8. NothingVanishes
  BY DEF Init, NothingVanishes
<1> QED BY <1>5, <1>6, <1>7, <1>8 DEF Structure, Messages

(* Every step of every client keeps the types. *)
LEMMA TypeStep == TypeOK /\ [Next]_vars => TypeOK'
<1> SUFFICES ASSUME TypeOK, [Next]_vars PROVE TypeOK'
  OBVIOUS
<1>a. {MaxProc, MaxMsg} \subseteq Nat /\ <<>> \in Text
  BY BoundsAssumption DEF Text
<1>b. task \in [1 .. MaxCreate -> Task]
  BY DEF TypeOK, Task
<1>c. NoTask \in Task
  BY <1>a DEF NoTask, Task, Stage
<1>d. \A c \in 1 .. MaxCreate, s \in Stage : Go(c, s) \in [1 .. MaxCreate -> Task]
  BY <1>b DEF Go, Task
<1>e. Repainted(task) \in [1 .. MaxCreate -> Task]
  BY <1>b, RepaintFacts
<1>f. session.held \in Text /\ session.flight \in Text /\ session.proc \in {0} \cup Proc
  BY <1>a DEF TypeOK, NoSession
<1>g. told \cup Range(session.held \o session.flight) \subseteq Msg
  <2>1. session.held \o session.flight \in Text
    BY <1>f DEF Text
  <2> QED BY <2>1, RangeFacts DEF TypeOK
<1>1. ASSUME NEW c \in DOMAIN task, Create(c) PROVE TypeOK'
  <2>1. CASE task' = Go(c, "done") /\ UNCHANGED <<session, machineVars, screen, keys>>
    <3>1. task' \in [1 .. MaxCreate -> Task]
      BY <2>1, <1>b, <1>d DEF Stage
    <3> QED BY <1>1, <2>1, <3>1 DEF Create, TypeOK, Task, machineVars, dialogVars
  <2>2. CASE /\ Spawned(stash, <<>>)
             /\ task' = Repainted([task EXCEPT ![c] = [NoTask EXCEPT !.at = "check", !.resumed = stash]])
    <3>1. [NoTask EXCEPT !.at = "check", !.resumed = stash] \in Task
      BY <1>c DEF Task, Stage, TypeOK
    <3>2. task' \in [1 .. MaxCreate -> Task]
      BY <3>1, <2>2, <1>b, RepaintFacts
    <3>3. Spawned(stash, <<>>) /\ stash \in BOOLEAN
      BY <2>2 DEF TypeOK
    <3>4. /\ session' \in [proc : Proc, held : Text, flight : Text]
          /\ alive' \subseteq Proc /\ young' \subseteq Proc /\ resuming' \subseteq Proc
          /\ procs' \in 0 .. MaxProc /\ screen' = "boot" /\ keys' = 0
      BY <3>3, <1>a, SpawnFacts
    <3>5. stash' = FALSE /\ wanted' = TRUE
          /\ UNCHANGED <<dialogs, stray, disturbed, nextMsg, delivered, told>>
      BY <1>1 DEF Create, dialogVars
    <3>6. stray \in BOOLEAN /\ disturbed \in BOOLEAN /\ dialogs \in Nat
      BY DEF TypeOK
    <3>7. stash' \in BOOLEAN
      BY <3>5
    <3>8. wanted' \in BOOLEAN
      BY <3>5
    <3>9. stray' \in BOOLEAN /\ disturbed' \in BOOLEAN
      BY <3>5, <3>6
    <3>10. {keys', dialogs'} \subseteq Nat
      BY <3>4, <3>5, <3>6
    <3> QED BY <3>2, <3>4, <3>5, <3>7, <3>8, <3>9, <3>10 DEF TypeOK, Task
  <2> QED BY <1>1, <2>1, <2>2 DEF Create
<1>2. ASSUME NEW c \in DOMAIN task, Respawn(c) PROVE TypeOK'
  <2>1. task[c] \in Task /\ task[c].carry \in Text
    BY <1>b DEF Task
  <2>2. told \cup Range(task[c].carry) \subseteq Msg
    BY <2>1, RangeFacts DEF TypeOK
  <2>3. CASE Spawned(FALSE, task[c].carry)
             /\ task' = Repainted([task EXCEPT ![c].at = "dialogs", ![c].resumed = FALSE,
                                               ![c].carry = <<>>]) /\ UNCHANGED told
    <3>1. [task EXCEPT ![c].at = "dialogs", ![c].resumed = FALSE, ![c].carry = <<>>]
            \in [1 .. MaxCreate -> Task]
      BY <1>b, RetryFacts
    <3>2. task' \in [1 .. MaxCreate -> Task]
      BY <3>1, <2>3, RepaintFacts
    <3>3. /\ session' \in [proc : Proc, held : Text, flight : Text]
          /\ alive' \subseteq Proc /\ young' \subseteq Proc /\ resuming' \subseteq Proc
          /\ procs' \in 0 .. MaxProc /\ screen' = "boot" /\ keys' = 0
      BY <2>1, <2>3, SpawnFacts
    <3>4. UNCHANGED <<stash, dialogs, stray, disturbed, nextMsg, delivered, wanted, told>>
      BY <1>2, <2>3 DEF Respawn, dialogVars
    <3> QED BY <3>2, <3>3, <3>4 DEF TypeOK, Task
  <2>4. CASE /\ told' = told \cup Range(task[c].carry)
             /\ task' = [task EXCEPT ![c].at = "done", ![c].carry = <<>>]
             /\ UNCHANGED <<session, machineVars, screen, keys>>
    <3>1. task' \in [1 .. MaxCreate -> Task]
      BY <2>4, <1>a, <1>b DEF Task, Stage
    <3> QED BY <1>2, <2>2, <2>4, <3>1 DEF Respawn, TypeOK, Task, machineVars, dialogVars
  <2> QED BY <1>2, <2>3, <2>4 DEF Respawn
<1>3. ASSUME NEW c \in DOMAIN task, Carry(c) PROVE TypeOK'
  <2>1. task' \in [1 .. MaxCreate -> Task]
    BY <1>3, <1>b, <1>f DEF Carry, Carried, Task, Stage
  <2> QED BY <1>3, <2>1 DEF Carry, TypeOK, Task, machineVars, screenVars, dialogVars, clientVars
<1>4. ASSUME NEW c \in DOMAIN task, Check(c) \/ StartupOver(c) \/ Ready(c) PROVE TypeOK'
  <2>1. task' \in [1 .. MaxCreate -> Task]
    BY <1>4, <1>b, <1>d DEF Check, StartupOver, Ready, Stage
  <2> QED BY <1>4, <2>1 DEF Check, StartupOver, Ready, TypeOK, Task, machineVars, screenVars, dialogVars, clientVars
<1>5. ASSUME NEW c \in DOMAIN task, Captures(c) \/ TypesKey(c) PROVE TypeOK'
  <2>1. task' \in [1 .. MaxCreate -> Task]
    <3>1. CASE Captures(c)
      <4>1. \A a \in BOOLEAN : [task EXCEPT ![c].acted = a] \in [1 .. MaxCreate -> Task]
        BY <1>b DEF Task
      <4>2. [task EXCEPT ![c].at = "answer", ![c].acted = TRUE] \in [1 .. MaxCreate -> Task]
        BY <1>b DEF Task, Stage
      <4>3. c \in 1 .. MaxCreate /\ "ready" \in Stage
        BY <1>b DEF Stage
      <4>4. \/ task' = [task EXCEPT ![c].at = "answer", ![c].acted = TRUE]
            \/ task' = [task EXCEPT ![c].acted = FALSE]
            \/ task' = Go(c, "ready")
        BY <3>1 DEF Captures
      <4>5. Go(c, "ready") \in [1 .. MaxCreate -> Task]
        BY <4>3, <1>d
      <4>6. [task EXCEPT ![c].acted = FALSE] \in [1 .. MaxCreate -> Task]
        BY <4>1
      <4>7. CASE task' = [task EXCEPT ![c].at = "answer", ![c].acted = TRUE]
        BY <4>2, <4>7
      <4>8. CASE task' = [task EXCEPT ![c].acted = FALSE]
        BY <4>6, <4>8
      <4>9. CASE task' = Go(c, "ready")
        BY <4>5, <4>9
      <4> QED BY <4>4, <4>7, <4>8, <4>9
    <3>2. CASE TypesKey(c)
      BY <3>2, <1>b, <1>d DEF TypesKey, Stage
    <3> QED BY <1>5, <3>1, <3>2
  <2>2. keys' \in Nat
    BY <1>5 DEF Captures, TypesKey, screenVars, TypeOK
  <2> QED BY <1>5, <2>1, <2>2
        DEF Captures, TypesKey, TypeOK, Task, machineVars, screenVars, dialogVars, clientVars
<1>6. CASE Send
  <2>1. nextMsg \in Msg /\ nextMsg + 1 \in 1 .. MaxMsg + 1
    BY <1>6, <1>a DEF Send, TypeOK, Msg
  <2>2. Append(session.held, nextMsg) \in Text /\ <<nextMsg>> \in Text
    BY <2>1, <1>f DEF Text
  <2>3. Live => session \in [proc : Proc, held : Text, flight : Text]
    BY DEF Live, TypeOK, NoSession
  <2>4. session' \in {NoSession} \cup [proc : Proc, held : Text, flight : Text]
    BY <1>6, <2>2, <2>3 DEF Send, TypeOK
  <2> QED BY <1>6, <2>1, <2>4 DEF Send, TypeOK, machineVars, screenVars, dialogVars
<1>7. CASE Kill \/ ReapDead \/ ReapIdle
  BY <1>7, <1>g DEF Kill, ReapDead, ReapIdle, Removed, TellLost, TypeOK, screenVars, dialogVars
<1>8. CASE Dispatch \/ Complete
  <2>1. session \in [proc : Proc, held : Text, flight : Text]
    BY <1>8 DEF Dispatch, Complete, Live, TypeOK, NoSession, Proc
  <2>2. Range(session.flight) \subseteq Msg
    BY <1>f, RangeFacts
  <2>3. session' \in [proc : Proc, held : Text, flight : Text]
    BY <1>8, <2>1, <1>a DEF Dispatch, Complete
  <2> QED BY <1>8, <2>2, <2>3 DEF Dispatch, Complete, TypeOK, machineVars, screenVars, dialogVars, clientVars
<1>9. CASE (\E p \in Proc : Exits(p) \/ Ages(p)) \/ vars' = vars
  BY <1>9 DEF Exits, Ages, TypeOK, vars, machineVars, screenVars, dialogVars, clientVars
<1>10. CASE Boots \/ ReadsKey \/ Clears \/ UserAnswers \/ Repaints
  <2>1. task' \in [1 .. MaxCreate -> Task]
    BY <1>10, <1>b, <1>e DEF Boots, ReadsKey, Clears, UserAnswers, Repaints
  <2>2. {keys', dialogs'} \subseteq Nat
    <3>1. keys \in Nat /\ dialogs \in Nat
      BY DEF TypeOK
    <3>2. CASE ReadsKey
      BY <3>1, <3>2 DEF ReadsKey
    <3>3. CASE Boots \/ Clears \/ UserAnswers \/ Repaints
      BY <3>1, <3>3 DEF Boots, Clears, UserAnswers, Repaints, dialogVars
    <3> QED BY <1>10, <3>2, <3>3
  <2>3. screen' \in {"boot", "dialog", "ghost", "unknown", "prompt"}
    BY <1>10 DEF Boots, ReadsKey, Clears, UserAnswers, Repaints, TypeOK
  <2>5. stray' \in BOOLEAN
    BY <1>10 DEF Boots, ReadsKey, Clears, UserAnswers, Repaints, TypeOK, dialogVars
  <2>6. disturbed' \in BOOLEAN
    BY <1>10 DEF Boots, ReadsKey, Clears, UserAnswers, Repaints, TypeOK, dialogVars
  <2>4. UNCHANGED <<session, stash, alive, young, resuming, procs, nextMsg, delivered, told, wanted>>
    BY <1>10 DEF Boots, ReadsKey, Clears, UserAnswers, Repaints, machineVars, clientVars
  <2> QED BY <2>1, <2>2, <2>3, <2>4, <2>5, <2>6 DEF TypeOK, Task
<1> QED BY <1>1, <1>2, <1>3, <1>4, <1>5, <1>6, <1>7, <1>8, <1>9, <1>10 DEF Next, Finalize, vars

(* Session, messages, finalizers and CLIs keep their types, through kills, *)
(* reaps, resumes that die and dialogs, for any client.                    *)
THEOREM Types == Spec => []TypeOK
<1>1. Init => TypeOK
  BY InitInv DEF Structure
<1> QED BY <1>1, TypeStep, PTL DEF Spec

-----------------------------------------------------------------------------
(* With a client that waits for `ready`, every step leaves at most one     *)
(* finalizer at work, and every CLI that runs in the map.                  *)
LEMMA StructureStep == ~Can("impatient") /\ Structure /\ [Next]_vars => Structure'
<1> SUFFICES ASSUME ~Can("impatient"), Structure, [Next]_vars PROVE Structure'
  OBVIOUS
<1>a. TypeOK /\ TypeOK'
  BY TypeStep DEF Structure
<1>b. task \in [1 .. MaxCreate -> Task] /\ task' \in [1 .. MaxCreate -> Task]
  BY <1>a DEF TypeOK, Task
<1>c. 0 \notin Proc /\ alive \subseteq Proc /\ alive \subseteq {session.proc}
  BY <1>a DEF TypeOK, Proc, Structure, NoOrphan
<1>d. ~Live => alive = {}
  BY <1>c DEF Live
<1>e. NoSession.proc = 0
  BY DEF NoSession
<1>f. <<>> \in Text
  BY DEF Text
<1>1. ASSUME NEW c \in DOMAIN task, Create(c) PROVE Structure'
  <2>1. alive = {} /\ Patient
    BY <1>1, <1>d DEF Create
  <2>2. alive' \subseteq {session'.proc}
    <3>1. CASE Spawned(stash, <<>>)
      <4>1. stash \in BOOLEAN /\ <<>> \in Text
        BY <1>a DEF TypeOK, Text
      <4>2. alive' = alive \cup {session'.proc}
        BY <3>1, <4>1, <1>a, SpawnFacts
      <4> QED BY <4>2, <2>1
    <3>2. CASE UNCHANGED <<session, machineVars, screen, keys>>
      BY <3>2, <2>1 DEF machineVars
    <3> QED BY <1>1, <3>1, <3>2 DEF Create
  <2>3. task'[c].at \in {"check", "done"}
        /\ \A b \in DOMAIN task : b # c => task'[b].at = task[b].at
    <3>1. CASE task' = Go(c, "done")
      BY <3>1, <1>b, <1>1 DEF Go, Task
    <3>2. CASE task' = Repainted([task EXCEPT ![c] = [NoTask EXCEPT !.at = "check", !.resumed = stash]])
      <4> DEFINE tasks == [task EXCEPT ![c] = [NoTask EXCEPT !.at = "check", !.resumed = stash]]
      <4>0. NoTask \in Task /\ stash \in BOOLEAN
        BY <1>a, <1>f DEF NoTask, Task, Stage, TypeOK
      <4>1. [NoTask EXCEPT !.at = "check", !.resumed = stash] \in Task
        BY <4>0 DEF Task, Stage
      <4>2. tasks \in [1 .. MaxCreate -> Task] /\ tasks[c].at = "check"
            /\ \A b \in DOMAIN task : b # c => tasks[b] = task[b]
        BY <4>1, <1>b DEF NoTask
      <4> HIDE DEF tasks
      <4> QED BY <3>2, <4>2, <1>b, RepaintFacts DEF tasks
    <3> QED BY <1>1, <3>1, <3>2 DEF Create
  <2>4. \A b \in DOMAIN task : b # c => task[b].at \in {"none", "done"}
    BY <2>1 DEF Patient, Pending
  <2> QED BY <2>2, <2>3, <2>4, <1>a, <1>b
        DEF Structure, OnePending, Pending, DeadWhenRetried, NoOrphan
<1>2. ASSUME NEW c \in DOMAIN task, Check(c) PROVE Structure'
  <2>1. task'[c].at = "dialogs" \/ (task'[c].at = "carry" /\ session.proc \notin alive)
    <3>1. task'[c].at = IF task[c].resumed /\ session.proc \notin alive THEN "carry" ELSE "dialogs"
      BY <1>2, <1>b DEF Check, Go, Task
    <3>2. CASE task[c].resumed /\ session.proc \notin alive
      BY <3>1, <3>2
    <3>3. CASE ~(task[c].resumed /\ session.proc \notin alive)
      BY <3>1, <3>3
    <3> QED BY <3>2, <3>3
  <2>2. \A b \in DOMAIN task : b # c => task'[b].at = task[b].at
    BY <1>2, <1>b DEF Check, Go
  <2>3. Pending(c) /\ UNCHANGED <<session, alive>>
    BY <1>2 DEF Check, Pending, machineVars
  <2> QED BY <2>1, <2>2, <2>3, <1>a, <1>b
        DEF Structure, OnePending, Pending, DeadWhenRetried, NoOrphan
<1>3. ASSUME NEW c \in DOMAIN task, Carry(c) PROVE Structure'
  <2>1. task'[c].at = "respawn" /\ \A b \in DOMAIN task : b # c => task'[b].at = task[b].at
    BY <1>3, <1>b DEF Carry, Task
  <2>2. Pending(c) /\ session.proc \notin alive /\ alive = {}
    BY <1>3, <1>c DEF Carry, Pending, Structure, DeadWhenRetried
  <2>3. session' = NoSession /\ alive' = {}
    BY <1>3, <2>2 DEF Carry, machineVars
  <2> QED BY <2>1, <2>2, <2>3, <1>a, <1>b
        DEF Structure, OnePending, Pending, DeadWhenRetried, NoOrphan
<1>4. ASSUME NEW c \in DOMAIN task, Respawn(c) PROVE Structure'
  <2>1. session = NoSession /\ alive = {} /\ Pending(c)
    BY <1>4, <1>d, <1>e DEF Respawn, Pending, Structure, DeadWhenRetried, Live
  <2>2. task[c] \in Task /\ task[c].carry \in Text
    BY <1>b DEF Task
  <2>3. alive' \subseteq {session'.proc}
    <3>1. CASE Spawned(FALSE, task[c].carry)
      <4>1. alive' = alive \cup {session'.proc}
        BY <3>1, <2>2, <1>a, SpawnFacts
      <4> QED BY <4>1, <2>1
    <3>2. CASE UNCHANGED <<session, machineVars, screen, keys>>
      BY <3>2, <2>1 DEF machineVars
    <3> QED BY <1>4, <3>1, <3>2 DEF Respawn
  <2>4. task'[c].at \in {"dialogs", "done"}
        /\ \A b \in DOMAIN task : b # c => task'[b].at = task[b].at
    <3>1. CASE task' = [task EXCEPT ![c].at = "done", ![c].carry = <<>>]
      BY <3>1, <1>b DEF Task
    <3>2. CASE task' = Repainted([task EXCEPT ![c].at = "dialogs", ![c].resumed = FALSE,
                                              ![c].carry = <<>>])
      <4> DEFINE tasks == [task EXCEPT ![c].at = "dialogs", ![c].resumed = FALSE, ![c].carry = <<>>]
      <4>1. c \in 1 .. MaxCreate /\ DOMAIN task = 1 .. MaxCreate
        BY <1>b
      <4>2. /\ tasks \in [1 .. MaxCreate -> Task] /\ tasks[c].at = "dialogs"
            /\ \A b \in 1 .. MaxCreate : b # c => tasks[b] = task[b]
        BY <4>1, <1>b, RetryFacts
      <4> HIDE DEF tasks
      <4> QED BY <3>2, <4>1, <4>2, RepaintFacts DEF tasks
    <3> QED BY <1>4, <3>1, <3>2 DEF Respawn
  <2>5. \A b \in DOMAIN task : b # c => ~Pending(b)
    BY <2>1 DEF Structure, OnePending
  <2> QED BY <2>3, <2>4, <2>5, <1>a, <1>b
        DEF Structure, OnePending, Pending, DeadWhenRetried, NoOrphan
<1>5. ASSUME NEW c \in DOMAIN task, Captures(c) \/ TypesKey(c) \/ StartupOver(c) \/ Ready(c)
      PROVE  Structure'
  <2>1. task'[c].at \in {"dialogs", "answer", "ready", "done"} /\ Pending(c)
    BY <1>5, <1>b DEF Captures, TypesKey, StartupOver, Ready, Go, Pending, Task
  <2>2. \A b \in DOMAIN task : b # c => task'[b].at = task[b].at
    BY <1>5, <1>b DEF Captures, TypesKey, StartupOver, Ready, Go
  <2>3. UNCHANGED <<session, alive>>
    BY <1>5 DEF Captures, TypesKey, StartupOver, Ready, machineVars
  <2> QED BY <2>1, <2>2, <2>3, <1>a, <1>b
        DEF Structure, OnePending, Pending, DeadWhenRetried, NoOrphan
<1>6. CASE Send \/ Dispatch \/ Complete
  <2>1. UNCHANGED <<task, alive>>
    BY <1>6 DEF Send, Dispatch, Complete, machineVars
  <2>2. session' = session \/ (Live /\ session'.proc = session.proc)
    <3>1. Live => session \in [proc : Proc, held : Text, flight : Text]
      BY <1>a DEF Live, TypeOK, NoSession
    <3>2. Complete => Live
      BY <1>c DEF Complete, Live
    <3> QED BY <1>6, <3>1, <3>2 DEF Send, Dispatch, Complete
  <2> QED BY <2>1, <2>2, <1>a, <1>e
        DEF Structure, OnePending, Pending, DeadWhenRetried, NoOrphan, Live
<1>7. CASE Kill \/ ReapDead \/ ReapIdle
  <2>1. session' = NoSession /\ alive' = {} /\ task' = task
    BY <1>7, <1>c DEF Kill, ReapDead, ReapIdle, Removed
  <2> QED BY <2>1, <1>a DEF Structure, OnePending, Pending, DeadWhenRetried, NoOrphan
<1>8. CASE (\E p \in Proc : Exits(p) \/ Ages(p)) \/ vars' = vars
  <2>1. UNCHANGED <<session, task>> /\ alive' \subseteq alive
    BY <1>8 DEF Exits, Ages, vars, machineVars
  <2> QED BY <2>1, <1>a DEF Structure, OnePending, Pending, DeadWhenRetried, NoOrphan
<1>9. CASE Boots \/ ReadsKey \/ Clears \/ UserAnswers \/ Repaints
  <2>1. UNCHANGED <<session, alive>>
    BY <1>9 DEF Boots, ReadsKey, Clears, UserAnswers, Repaints, machineVars
  <2>2. \A b \in DOMAIN task : task'[b].at = task[b].at
    <3>1. task' = task \/ task' = Repainted(task)
      BY <1>9 DEF Boots, ReadsKey, Clears, UserAnswers, Repaints
    <3> QED BY <3>1, <1>a, <1>b, PaintFacts DEF Structure
  <2> QED BY <2>1, <2>2, <1>a, <1>b
        DEF Structure, OnePending, Pending, DeadWhenRetried, NoOrphan
<1> QED BY <1>1, <1>2, <1>3, <1>4, <1>5, <1>6, <1>7, <1>8, <1>9 DEF Next, Finalize, vars

(* A client that waits for `ready` never has a CLI running that the map    *)
(* does not hold: a kill or a reap reaches every CLI there is.             *)
THEOREM NoOrphans == ~Can("impatient") => (Spec => []NoOrphan)
<1> SUFFICES ASSUME ~Can("impatient") PROVE Spec => []NoOrphan
  OBVIOUS
<1>1. Init => Structure
  BY InitInv
<1>2. Structure /\ [Next]_vars => Structure'
  BY StructureStep
<1>3. Structure => NoOrphan
  BY DEF Structure
<1> QED BY <1>1, <1>2, <1>3, PTL DEF Spec

(* Where a message may be, in one set. *)
LEMMA WhereFacts ==
  TypeOK => (NothingVanishes <=> AllPlaced)
<1> SUFFICES ASSUME TypeOK
             PROVE  NothingVanishes <=> AllPlaced
  OBVIOUS
<1>0. <<>> \in Text
  BY DEF Text
<1>1. session.held \in Text /\ session.flight \in Text
  BY <1>0 DEF TypeOK, NoSession
<1>2. Range(session.held \o session.flight) = Range(session.held) \cup Range(session.flight)
  BY <1>1, RangeFacts
<1>3. \A c \in DOMAIN task : Range(task[c].carry) \subseteq Msg
  <2>1. \A c \in DOMAIN task : task[c].carry \in Text
    BY DEF TypeOK
  <2> QED BY <2>1, RangeFacts
<1> QED BY <1>2, <1>3 DEF NothingVanishes, AllPlaced, Where, Carrying

(* A message is never pasted past one that is held: then no step of such a *)
(* client loses the place of a message.                                    *)
LEMMA MessagesStep ==
  ~Can("impatient") /\ ~Can("overtaking") /\ Structure /\ Messages /\ [Next]_vars => Messages'
<1> SUFFICES ASSUME ~Can("impatient"), ~Can("overtaking"), Structure, Messages, [Next]_vars
             PROVE  Messages'
  OBVIOUS
<1>a. TypeOK /\ TypeOK'
  BY TypeStep DEF Structure
<1>b. task \in [1 .. MaxCreate -> Task] /\ task' \in [1 .. MaxCreate -> Task]
      /\ DOMAIN task = 1 .. MaxCreate /\ DOMAIN task' = 1 .. MaxCreate
  BY <1>a DEF TypeOK, Task
<1>c. session.held \in Text /\ session.flight \in Text /\ <<>> \in Text /\ nextMsg \in Nat
  <2>1. <<>> \in Text
    BY DEF Text
  <2>2. MaxMsg \in Nat
    BY BoundsAssumption
  <2> QED BY <1>a, <2>1, <2>2 DEF TypeOK, NoSession
<1>d. Range(<<>>) = {} /\ NoSession.held = <<>> /\ NoSession.flight = <<>>
  BY <1>c, RangeFacts DEF NoSession
<1>e. AllPlaced
  BY <1>a, WhereFacts DEF Messages
<1>p. TypeOK' => (NothingVanishes' <=> AllPlaced')
  BY WhereFacts, PTL
<1>f. ASSUME nextMsg' = nextMsg, Where \subseteq Where', OneCarried', OneText'
      PROVE  Messages'
  <2>1. AllPlaced'
    BY <1>e, <1>f DEF AllPlaced
  <2> QED BY <1>a, <1>f, <2>1, <1>p DEF Messages
<1>g. ASSUME \A b \in 1 .. MaxCreate : task'[b].at = task[b].at /\ task'[b].carry = task[b].carry
      PROVE  Carrying' = Carrying /\ OneCarried'
  BY <1>b, <1>g DEF Carrying, OneCarried, Messages
<1>h. ~Live => session = NoSession
  BY <1>a DEF Live, TypeOK, Proc
<1>1. ASSUME NEW c \in DOMAIN task, Create(c) PROVE Messages'
  <2>1. session = NoSession /\ UNCHANGED <<nextMsg, delivered, told>>
    BY <1>1, <1>h DEF Create
  <2>2. session'.held = <<>> /\ session'.flight = <<>>
    <3>1. CASE Spawned(stash, <<>>)
      <4>1. stash \in BOOLEAN
        BY <1>a DEF TypeOK
      <4> QED BY <3>1, <4>1, <1>a, <1>c, SpawnFacts
    <3>2. CASE UNCHANGED <<session, machineVars, screen, keys>>
      BY <3>2, <2>1, <1>d
    <3> QED BY <1>1, <3>1, <3>2 DEF Create
  <2>3. task[c].carry = <<>>
    BY <1>1 DEF Create, NoTask
  <2>4. task'[c].carry = <<>> /\ task'[c].at # "respawn"
        /\ \A b \in 1 .. MaxCreate : b # c => task'[b].at = task[b].at /\ task'[b].carry = task[b].carry
    <3>1. CASE task' = Go(c, "done")
      BY <3>1, <2>3, <1>b DEF Go, Task
    <3>2. CASE task' = Repainted([task EXCEPT ![c] = [NoTask EXCEPT !.at = "check", !.resumed = stash]])
      <4> DEFINE tasks == [task EXCEPT ![c] = [NoTask EXCEPT !.at = "check", !.resumed = stash]]
      <4>1. NoTask \in Task /\ stash \in BOOLEAN
        BY <1>a, <1>c DEF NoTask, Task, Stage, TypeOK
      <4>2. [NoTask EXCEPT !.at = "check", !.resumed = stash] \in Task
        BY <4>1 DEF Task, Stage
      <4>3. tasks \in [1 .. MaxCreate -> Task] /\ tasks[c].at = "check" /\ tasks[c].carry = <<>>
            /\ \A b \in 1 .. MaxCreate : b # c => tasks[b] = task[b]
        BY <4>2, <1>b DEF NoTask
      <4> HIDE DEF tasks
      <4> QED BY <3>2, <4>3, <1>b, RepaintFacts DEF tasks
    <3> QED BY <1>1, <3>1, <3>2 DEF Create
  <2>5. OneCarried' /\ Carrying' = Carrying
    BY <2>3, <2>4, <1>b DEF OneCarried, Carrying, Messages
  <2> QED BY <2>1, <2>2, <2>5, <1>d, <1>f DEF Where, OneText
<1>2. ASSUME NEW c \in DOMAIN task, Check(c) \/ StartupOver(c) \/ Ready(c) \/ Captures(c) \/ TypesKey(c)
      PROVE  Messages'
  <2>1. UNCHANGED <<session, nextMsg, delivered, told>>
    BY <1>2 DEF Check, StartupOver, Ready, Captures, TypesKey, clientVars
  <2>2. task[c].at # "respawn" /\ task'[c].at # "respawn" /\ task'[c].carry = task[c].carry
    <3>1. CASE Check(c)
      BY <3>1, <1>b DEF Check, Go, Task
    <3>2. CASE StartupOver(c) \/ Ready(c) \/ Captures(c) \/ TypesKey(c)
      BY <3>2, <1>b DEF StartupOver, Ready, Captures, TypesKey, Go, Task
    <3> QED BY <1>2, <3>1, <3>2
  <2>3. \A b \in 1 .. MaxCreate : b # c => task'[b] = task[b]
    BY <1>2, <1>b DEF Check, StartupOver, Ready, Captures, TypesKey, Go
  <2>4. OneCarried' /\ Carrying' = Carrying
    BY <2>2, <2>3, <1>b DEF OneCarried, Carrying, Messages
  <2> QED BY <2>1, <2>4, <1>f DEF Where, OneText, Messages
<1>3. ASSUME NEW c \in DOMAIN task, Carry(c) PROVE Messages'
  <2>1. session' = NoSession /\ UNCHANGED <<nextMsg, delivered, told>>
    BY <1>3 DEF Carry, clientVars
  <2>2. task[c].carry = <<>>
    BY <1>3 DEF Carry, OneCarried, Messages
  <2>3. task'[c].at = "respawn" /\ task'[c].carry = Carried
        /\ \A b \in 1 .. MaxCreate : b # c => task'[b] = task[b]
    BY <1>3, <1>b DEF Carry, Task
  <2>4. Range(Carried) = Range(session.held) \cup Range(session.flight)
    BY <1>d DEF Carried, OneText, Messages
  <2>5. Range(session.held) \subseteq Msg /\ Range(session.flight) \subseteq Msg
    BY <1>c, RangeFacts
  <2>6. Carrying' = Carrying \cup Range(Carried)
    BY <2>2, <2>3, <2>4, <2>5, <1>b, <1>d DEF Carrying
  <2>7. OneCarried'
    BY <2>3, <1>b DEF OneCarried, Messages
  <2> QED BY <2>1, <2>4, <2>6, <2>7, <1>d, <1>f DEF Where, OneText
<1>4. ASSUME NEW c \in DOMAIN task, Respawn(c) PROVE Messages'
  <2>1. session = NoSession
    BY <1>4 DEF Respawn, Structure, DeadWhenRetried
  <2>2. task[c].carry \in Text /\ c \in 1 .. MaxCreate
    BY <1>b DEF Task
  <2>3. nextMsg' = nextMsg /\ delivered' = delivered
    BY <1>4 DEF Respawn
  <2>4. /\ task'[c].carry = <<>>
        /\ \A b \in 1 .. MaxCreate : b # c => task'[b].carry = task[b].carry /\ task'[b].at = task[b].at
    <3>1. CASE task' = [task EXCEPT ![c].at = "done", ![c].carry = <<>>]
      BY <3>1, <1>b DEF Task
    <3>2. CASE task' = Repainted([task EXCEPT ![c].at = "dialogs", ![c].resumed = FALSE,
                                              ![c].carry = <<>>])
      <4> DEFINE tasks == [task EXCEPT ![c].at = "dialogs", ![c].resumed = FALSE, ![c].carry = <<>>]
      <4>1. /\ tasks \in [1 .. MaxCreate -> Task] /\ tasks[c].carry = <<>>
            /\ \A b \in 1 .. MaxCreate : b # c => tasks[b] = task[b]
        BY <2>2, <1>b, RetryFacts
      <4> HIDE DEF tasks
      <4> QED BY <3>2, <4>1, <2>2, RepaintFacts DEF tasks
    <3> QED BY <1>4, <3>1, <3>2 DEF Respawn
  <2>5. OneCarried'
    BY <2>4, <1>b DEF OneCarried, Messages
  <2>6. Carrying \subseteq Carrying' \cup Range(task[c].carry)
    BY <2>4, <1>b DEF Carrying
  <2>7. OneText' /\ Range(task[c].carry) \subseteq Range(session'.held) \cup told' /\ told \subseteq told'
    <3>1. CASE Spawned(FALSE, task[c].carry) /\ UNCHANGED told
      <4>1. session'.held = task[c].carry /\ session'.flight = <<>>
        BY <3>1, <2>2, <1>a, SpawnFacts
      <4> QED BY <3>1, <4>1 DEF OneText
    <3>2. CASE /\ told' = told \cup Range(task[c].carry)
               /\ UNCHANGED <<session, machineVars, screen, keys>>
      BY <3>2 DEF OneText, Messages
    <3> QED BY <1>4, <3>1, <3>2 DEF Respawn
  <2> QED BY <2>1, <2>3, <2>5, <2>6, <2>7, <1>d, <1>f DEF Where
<1>5. CASE Send
  <2>1. UNCHANGED <<task, delivered>> /\ nextMsg' = nextMsg + 1 /\ session.flight = <<>>
    BY <1>5 DEF Send
  <2>2. Carrying' = Carrying /\ OneCarried'
    BY <2>1 DEF Carrying, OneCarried, Messages
  <2>3. Live => session \in [proc : Proc, held : Text, flight : Text]
    BY <1>a DEF Live, TypeOK, NoSession
  <2>4. Where \cup {nextMsg} \subseteq Where' /\ OneText'
    <3>1. CASE told' = told \cup {nextMsg} /\ UNCHANGED session
      BY <3>1, <2>1, <2>2 DEF Where, OneText, Messages
    <3>2. CASE Live /\ session' = [session EXCEPT !.held = Append(@, nextMsg)] /\ UNCHANGED told
      <4>1. session'.held = Append(session.held, nextMsg) /\ session'.flight = <<>>
        BY <3>2, <2>1, <2>3
      <4>2. Range(session'.held) = Range(session.held) \cup {nextMsg}
        BY <4>1, <1>c, RangeFacts
      <4> QED BY <3>2, <4>1, <4>2, <2>1, <2>2 DEF Where, OneText
    <3>3. CASE Live /\ session.held = <<>> /\ session' = [session EXCEPT !.flight = <<nextMsg>>]
               /\ UNCHANGED told
      <4>1. session'.held = <<>> /\ session'.flight = <<nextMsg>>
        BY <3>3, <2>3
      <4>2. Range(<<nextMsg>>) = {nextMsg}
        BY <1>c, RangeFacts
      <4> QED BY <3>3, <4>1, <4>2, <2>1, <2>2, <1>d DEF Where, OneText
    <3> QED BY <1>5, <3>1, <3>2, <3>3 DEF Send
  <2>5. \A m \in 1 .. nextMsg' - 1 : m \in 1 .. nextMsg - 1 \/ m = nextMsg
    BY <2>1, <1>c
  <2>6. AllPlaced'
    BY <2>4, <2>5, <1>e DEF AllPlaced
  <2> QED BY <2>2, <2>4, <2>6, <1>a, <1>p DEF Messages
<1>6. CASE Kill \/ ReapDead \/ ReapIdle
  <2>1. session' = NoSession /\ UNCHANGED <<task, nextMsg, delivered>>
        /\ told' = told \cup Range(session.held \o session.flight)
    BY <1>6 DEF Kill, ReapDead, ReapIdle, Removed, TellLost
  <2>2. Range(session.held \o session.flight) = Range(session.held) \cup Range(session.flight)
    BY <1>c, RangeFacts
  <2>3. Carrying' = Carrying /\ OneCarried'
    BY <2>1, <1>g
  <2> QED BY <2>1, <2>2, <2>3, <1>d, <1>f DEF Where, OneText
<1>7. CASE Dispatch \/ Complete
  <2>1. UNCHANGED <<task, nextMsg, told>>
    BY <1>7 DEF Dispatch, Complete, clientVars
  <2>2. Carrying' = Carrying /\ OneCarried'
    BY <2>1, <1>g
  <2>3. session \in [proc : Proc, held : Text, flight : Text]
    BY <1>7, <1>a DEF Dispatch, Complete, Live, TypeOK, NoSession, Proc
  <2>4. CASE Dispatch
    <3>1. /\ session.flight = <<>> /\ delivered' = delivered
          /\ session'.held = <<>> /\ session'.flight = session.held
      BY <2>3, <2>4 DEF Dispatch, clientVars
    <3> QED BY <3>1, <2>1, <2>2, <1>d, <1>f DEF Where, OneText
  <2>5. CASE Complete
    <3>1. /\ delivered' = delivered \cup Range(session.flight)
          /\ session'.held = session.held /\ session'.flight = <<>>
      BY <2>3, <2>5 DEF Complete
    <3> QED BY <3>1, <2>1, <2>2, <1>d, <1>f DEF Where, OneText
  <2> QED BY <1>7, <2>4, <2>5
<1>8. CASE (\E p \in Proc : Exits(p) \/ Ages(p)) \/ vars' = vars
  <2>1. UNCHANGED <<session, task, nextMsg, delivered, told>>
    BY <1>8 DEF Exits, Ages, vars, clientVars
  <2>2. Carrying' = Carrying /\ OneCarried'
    BY <2>1, <1>g
  <2> QED BY <2>1, <2>2, <1>f DEF Where, OneText, Messages
<1>9. CASE Boots \/ ReadsKey \/ Clears \/ UserAnswers \/ Repaints
  <2>1. UNCHANGED <<session, nextMsg, delivered, told>>
    BY <1>9 DEF Boots, ReadsKey, Clears, UserAnswers, Repaints, clientVars
  <2>2. task' = task \/ task' = Repainted(task)
    BY <1>9 DEF Boots, ReadsKey, Clears, UserAnswers, Repaints
  <2>3. Carrying' = Carrying /\ OneCarried'
    BY <2>2, <1>a, <1>g, PaintFacts
  <2> QED BY <2>1, <2>3, <1>f DEF Where, OneText, Messages
<1> QED BY <1>1, <1>2, <1>3, <1>4, <1>5, <1>6, <1>7, <1>8, <1>9 DEF Next, Finalize, vars

(* For a client that waits for `ready` and for what it has sent: a message *)
(* the daemon took is with the session, carried over to the next CLI,      *)
(* answered, or declared lost.                                             *)
THEOREM MessagesKept ==
  ~Can("impatient") /\ ~Can("overtaking") => (Spec => []NothingVanishes)
<1> SUFFICES ASSUME ~Can("impatient"), ~Can("overtaking") PROVE Spec => []NothingVanishes
  OBVIOUS
<1>1. Init => Structure /\ Messages
  BY InitInv
<1>2. Structure /\ Messages /\ [Next]_vars => (Structure /\ Messages)'
  BY StructureStep, MessagesStep
<1>3. Structure /\ Messages => NothingVanishes
  BY DEF Messages
<1> QED BY <1>1, <1>2, <1>3, PTL DEF Spec

-----------------------------------------------------------------------------
(* What a step does to the finalizers: it repaints their frame, or it is a *)
(* step of one of them.                                                    *)
LEMMA OthersKeep ==
  ASSUME TypeOK, Next, NEW c \in DOMAIN task, Create(c) \/ Finalize(c)
  PROVE  \A b \in DOMAIN task : b # c =>
           /\ task'[b].at = task[b].at /\ task'[b].resumed = task[b].resumed
<1>1. task \in [1 .. MaxCreate -> Task] /\ DOMAIN task = 1 .. MaxCreate
  BY DEF TypeOK, Task
<1>2. CASE Create(c)
  <2>1. CASE task' = Go(c, "done")
    BY <2>1, <1>1 DEF Go
  <2>2. CASE task' = Repainted([task EXCEPT ![c] = [NoTask EXCEPT !.at = "check", !.resumed = stash]])
    <3> DEFINE tasks == [task EXCEPT ![c] = [NoTask EXCEPT !.at = "check", !.resumed = stash]]
    <3>1. <<>> \in Text /\ stash \in BOOLEAN
      BY DEF Text, TypeOK
    <3>2. NoTask \in Task
      BY <3>1 DEF NoTask, Task, Stage
    <3>3. [NoTask EXCEPT !.at = "check", !.resumed = stash] \in Task
      BY <3>1, <3>2 DEF Task, Stage
    <3>4. tasks \in [1 .. MaxCreate -> Task] /\ \A b \in 1 .. MaxCreate : b # c => tasks[b] = task[b]
      BY <3>3, <1>1
    <3> HIDE DEF tasks
    <3> QED BY <2>2, <3>4, <1>1, RepaintFacts DEF tasks
  <2> QED BY <1>2, <2>1, <2>2 DEF Create
<1>3. CASE Respawn(c)
  <2>1. CASE task' = [task EXCEPT ![c].at = "done", ![c].carry = <<>>]
    BY <2>1, <1>1
  <2>2. CASE task' = Repainted([task EXCEPT ![c].at = "dialogs", ![c].resumed = FALSE,
                                            ![c].carry = <<>>])
    <3> DEFINE tasks == [task EXCEPT ![c].at = "dialogs", ![c].resumed = FALSE, ![c].carry = <<>>]
    <3>1. /\ tasks \in [1 .. MaxCreate -> Task]
          /\ \A b \in 1 .. MaxCreate : b # c => tasks[b] = task[b]
      BY <1>1, RetryFacts
    <3> HIDE DEF tasks
    <3> QED BY <2>2, <3>1, <1>1, RepaintFacts DEF tasks
  <2> QED BY <1>3, <2>1, <2>2 DEF Respawn
<1>4. CASE Check(c) \/ Carry(c) \/ Captures(c) \/ TypesKey(c) \/ StartupOver(c) \/ Ready(c)
  BY <1>4, <1>1 DEF Check, Carry, Captures, TypesKey, StartupOver, Ready, Go
<1> QED BY <1>2, <1>3, <1>4 DEF Finalize

(* The task a create or a retry leaves behind.                             *)
LEMMA CreateFacts ==
  ASSUME TypeOK, NEW c \in DOMAIN task, Create(c)
  PROVE  \/ /\ Spawned(stash, <<>>) /\ task'[c].at = "check" /\ task'[c].resumed = stash
         \/ task'[c].at = "done" /\ UNCHANGED <<session, machineVars, screen, keys>>
<1>1. task \in [1 .. MaxCreate -> Task] /\ DOMAIN task = 1 .. MaxCreate /\ <<>> \in Text
  BY DEF TypeOK, Task, Text
<1>2. CASE task' = Go(c, "done") /\ UNCHANGED <<session, machineVars, screen, keys>>
  BY <1>2, <1>1 DEF Go, Task
<1>3. CASE /\ Spawned(stash, <<>>)
           /\ task' = Repainted([task EXCEPT ![c] = [NoTask EXCEPT !.at = "check", !.resumed = stash]])
  <2> DEFINE new == [NoTask EXCEPT !.at = "check", !.resumed = stash]
  <2>1. NoTask \in Task /\ stash \in BOOLEAN
    BY <1>1 DEF NoTask, Task, Stage, TypeOK
  <2>2. new \in Task /\ new.at = "check" /\ new.resumed = stash
    BY <2>1 DEF Task, Stage, NoTask
  <2> HIDE DEF new
  <2>3. [task EXCEPT ![c] = new] \in [1 .. MaxCreate -> Task] /\ [task EXCEPT ![c] = new][c] = new
    BY <2>2, <1>1
  <2> QED BY <1>3, <2>2, <2>3, <1>1, RepaintFacts DEF new
<1> QED BY <1>2, <1>3 DEF Create

LEMMA RespawnFacts ==
  ASSUME TypeOK, NEW c \in DOMAIN task, Respawn(c)
  PROVE  \/ /\ Spawned(FALSE, task[c].carry) /\ task[c].carry \in Text
            /\ task'[c].at = "dialogs" /\ ~task'[c].resumed
         \/ task'[c].at = "done" /\ UNCHANGED <<session, machineVars, screen, keys>>
<1>1. task \in [1 .. MaxCreate -> Task] /\ DOMAIN task = 1 .. MaxCreate /\ task[c].carry \in Text
  BY DEF TypeOK, Task
<1>2. CASE /\ task' = [task EXCEPT ![c].at = "done", ![c].carry = <<>>]
           /\ UNCHANGED <<session, machineVars, screen, keys>>
  BY <1>2, <1>1 DEF Task
<1>3. CASE /\ Spawned(FALSE, task[c].carry)
           /\ task' = Repainted([task EXCEPT ![c].at = "dialogs", ![c].resumed = FALSE,
                                             ![c].carry = <<>>])
  <2> DEFINE tasks == [task EXCEPT ![c].at = "dialogs", ![c].resumed = FALSE, ![c].carry = <<>>]
  <2>1. tasks \in [1 .. MaxCreate -> Task] /\ tasks[c].at = "dialogs" /\ ~tasks[c].resumed
    BY <1>1, RetryFacts
  <2> HIDE DEF tasks
  <2> QED BY <1>3, <2>1, <1>1, RepaintFacts DEF tasks
<1> QED BY <1>2, <1>3 DEF Respawn

(* The finalizer at work is the only one: what holds of it holds of all.   *)
LEMMA OnlyPending ==
  ASSUME Structure, ~Can("impatient"), Next, NEW c \in DOMAIN task, Create(c) \/ Finalize(c)
  PROVE  /\ DOMAIN task' = DOMAIN task
         /\ \A b \in DOMAIN task : b # c =>
              /\ ~Pending(b) /\ task'[b].at = task[b].at
              /\ task'[b].at \notin {"check", "carry", "respawn", "dialogs", "answer", "ready"}
<1>1. TypeOK /\ TypeOK' /\ OnePending
  BY TypeStep DEF Structure
<1>2. DOMAIN task' = DOMAIN task /\ \A b \in DOMAIN task : task[b].at \in Stage
  BY <1>1 DEF TypeOK
<1>3. CASE Create(c)
  BY <1>1, <1>2, <1>3, OthersKeep DEF Create, Patient, Pending
<1>4. CASE Finalize(c)
  <2>1. Pending(c)
    BY <1>4 DEF Finalize, Check, Carry, Respawn, Captures, TypesKey, StartupOver, Ready, Pending
  <2>2. \A b \in DOMAIN task : b # c => ~Pending(b)
    BY <2>1, <1>1 DEF OnePending
  <2> QED BY <2>2, <1>1, <1>2, <1>4, OthersKeep DEF Pending
<1> QED BY <1>3, <1>4

LEMMA KeyStep ==
  ASSUME ~Can("impatient"), Structure, KeyForDialog, [Next]_vars
  PROVE  KeyForDialog'
<1> SUFFICES ASSUME ~disturbed' PROVE InDialog'
  BY DEF KeyForDialog
<1>a. TypeOK /\ TypeOK' /\ DOMAIN task' = DOMAIN task /\ task \in [1 .. MaxCreate -> Task]
  BY TypeStep DEF Structure, TypeOK, Task
<1>b. ~disturbed
  BY DEF Next, Finalize, Create, Check, Carry, Respawn, Captures, TypesKey, StartupOver, Ready,
         Send, Kill, ReapDead, ReapIdle, Dispatch, Complete, Exits, Ages, Boots, ReadsKey, Clears,
         UserAnswers, Repaints, vars, screenVars, dialogVars
<1>c. InDialog
  BY <1>b DEF KeyForDialog
<1>1. ASSUME NEW c \in DOMAIN task, Create(c) PROVE InDialog'
  <2>0. Next
    BY <1>1 DEF Next
  <2>1. CASE Spawned(stash, <<>>) /\ task'[c].at = "check"
    <3>1. keys' = 0 /\ screen' = "boot"
      BY <2>1 DEF Spawned
    <3> QED BY <1>1, <2>0, <2>1, <3>1, <1>a, OnlyPending DEF InDialog
  <2>2. CASE task'[c].at = "done" /\ UNCHANGED <<session, machineVars, screen, keys>>
    BY <1>1, <2>0, <2>2, <1>a, <1>c, OnlyPending DEF InDialog
  <2> QED BY <1>1, <2>1, <2>2, <1>a, CreateFacts
<1>2. ASSUME NEW c \in DOMAIN task, Respawn(c) PROVE InDialog'
  <2>0. Next /\ Finalize(c)
    BY <1>2 DEF Next, Finalize
  <2>1. CASE Spawned(FALSE, task[c].carry) /\ task'[c].at = "dialogs"
    <3>1. keys' = 0 /\ screen' = "boot"
      BY <2>1 DEF Spawned
    <3> QED BY <2>0, <2>1, <3>1, <1>a, OnlyPending DEF InDialog
  <2>2. CASE task'[c].at = "done" /\ UNCHANGED <<session, machineVars, screen, keys>>
    BY <2>0, <2>2, <1>a, <1>c, OnlyPending DEF InDialog
  <2> QED BY <1>2, <2>1, <2>2, <1>a, RespawnFacts
<1>3. ASSUME NEW c \in DOMAIN task, Check(c) \/ Carry(c) \/ StartupOver(c) \/ Ready(c)
      PROVE  InDialog'
  <2>1. UNCHANGED <<screen, keys>>
    BY <1>3 DEF Check, Carry, StartupOver, Ready, screenVars
  <2>2. /\ task'[c].at \in {"carry", "dialogs"} => task[c].at = "check"
        /\ task'[c].at = "respawn" => task[c].at = "carry"
        /\ task'[c].at \notin {"check", "answer"}
    BY <1>3, <1>a DEF Check, Carry, StartupOver, Ready, Go, Task
  <2>3. Next /\ Finalize(c)
    BY <1>3 DEF Next, Finalize
  <2>4. task'[c].at \in {"check", "carry", "respawn", "dialogs"} => keys = 0 /\ screen # "ghost"
    BY <2>2, <1>c DEF InDialog
  <2> QED BY <2>1, <2>2, <2>3, <2>4, <1>a, <1>c, OnlyPending DEF InDialog
<1>4. ASSUME NEW c \in DOMAIN task, Captures(c) PROVE InDialog'
  <2>1. task[c].at = "dialogs" /\ UNCHANGED <<screen, keys>>
    BY <1>4 DEF Captures, screenVars
  <2>2. \/ screen = "dialog" /\ keys = 0 /\ task'[c].at = "answer" /\ task'[c].acted
        \/ screen = "boot" /\ task'[c].at = "dialogs"
        \/ task'[c].at = "ready"
    BY <1>4, <1>a, <1>c DEF Captures, Go, Task, InDialog
  <2>3. Next /\ Finalize(c)
    BY <1>4 DEF Next, Finalize
  <2> QED BY <2>1, <2>2, <2>3, <1>a, <1>c, OnlyPending DEF InDialog
<1>5. ASSUME NEW c \in DOMAIN task, TypesKey(c) PROVE InDialog'
  <2>1. keys = 0 /\ screen = "dialog" /\ task[c].acted
    BY <1>5, <1>c DEF TypesKey, InDialog
  <2>2. keys' \in {0, 1} /\ screen' = "dialog"
    BY <1>5, <2>1 DEF TypesKey
  <2>3. task'[c].at = "dialogs" /\ task'[c].acted
    BY <1>5, <2>1, <1>a DEF TypesKey, Go, Task
  <2>4. Next /\ Finalize(c)
    BY <1>5 DEF Next, Finalize
  <2> QED BY <2>2, <2>3, <2>4, <1>a, OnlyPending DEF InDialog
<1>6. CASE Boots \/ Clears
  <2>1. keys' = 0 /\ screen' # "ghost" /\ screen \in {"boot", "ghost"}
    BY <1>6, <1>c DEF Boots, Clears, InDialog
  <2>2. task' = task \/ task' = Repainted(task)
    BY <1>6 DEF Boots, Clears
  <2>3. \A c \in DOMAIN task : task'[c].at = task[c].at
    BY <2>2, <1>a, PaintFacts
  <2> QED BY <2>1, <2>3, <1>a, <1>c DEF InDialog
<1>7. CASE ReadsKey
  <2>1. keys = 1 /\ keys' = 0 /\ screen = "dialog"
    BY <1>7, <1>c DEF ReadsKey, InDialog
  <2>2. \A c \in DOMAIN task : task[c].at \notin {"check", "carry", "respawn", "answer"}
    BY <2>1, <1>c DEF InDialog
  <2>3. \/ task' = task
        \/ screen' # "ghost" /\ task' = Repainted(task)
    BY <1>7, <2>1 DEF ReadsKey
  <2>4. \A c \in DOMAIN task : task'[c].at = task[c].at
    BY <2>3, <1>a, PaintFacts
  <2> QED BY <2>1, <2>2, <2>3, <2>4, <1>a, <1>c DEF InDialog
<1>8. CASE UserAnswers \/ Repaints
  <2>1. ~Engaged
    BY <1>8 DEF UserAnswers, Repaints
  <2>2. keys = 0 /\ \A c \in DOMAIN task : task[c].at \in {"dialogs", "answer"} => ~task[c].acted
    BY <2>1, <1>c DEF Engaged, InDialog
  <2>3. keys' = 0 /\ (screen' = screen \/ screen' = "prompt") /\ task' = Repainted(task)
    BY <1>8, <2>2 DEF UserAnswers, Repaints
  <2>4. \A c \in DOMAIN task : task'[c].at = task[c].at
    BY <2>3, <1>a, PaintFacts
  <2> QED BY <2>2, <2>3, <2>4, <1>a, <1>c DEF InDialog
<1>9. CASE UNCHANGED <<task, screen, keys>>
  BY <1>9, <1>c DEF InDialog
<1> QED
  BY <1>1, <1>2, <1>3, <1>4, <1>5, <1>6, <1>7, <1>8, <1>9
  DEF Next, Finalize, Send, Kill, ReapDead, ReapIdle, Dispatch, Complete, Exits, Ages, vars, screenVars

LEMMA ResumedStep ==
  ASSUME ~Can("impatient"), Structure, ResumedKnown, [Next]_vars
  PROVE  ResumedKnown'
<1>a. TypeOK /\ TypeOK' /\ DOMAIN task' = DOMAIN task /\ task \in [1 .. MaxCreate -> Task]
  BY TypeStep DEF Structure, TypeOK, Task
<1>b. procs \in Nat /\ <<>> \in Text /\ stash \in BOOLEAN /\ MaxProc \in Nat
  BY <1>a, BoundsAssumption DEF TypeOK, Text
<1>s. ASSUME NEW resume \in BOOLEAN, NEW text \in Text, Spawned(resume, text)
      PROVE  resuming' \subseteq 1 .. procs' /\ resume = (session'.proc \in resuming')
  BY <1>s, <1>b DEF Spawned, ResumedKnown
<1>1. ASSUME NEW c \in DOMAIN task, Create(c) PROVE ResumedKnown'
  <2>0. Next
    BY <1>1 DEF Next
  <2>1. CASE Spawned(stash, <<>>) /\ task'[c].resumed = stash
    BY <2>0, <1>1, <2>1, <1>s, <1>a, <1>b, OnlyPending DEF ResumedKnown, Pending
  <2>2. CASE task'[c].at = "done" /\ UNCHANGED <<session, machineVars, screen, keys>>
    BY <2>0, <1>1, <2>2, <1>a, OnlyPending DEF ResumedKnown, Pending, machineVars
  <2> QED BY <1>1, <2>1, <2>2, <1>a, CreateFacts
<1>2. ASSUME NEW c \in DOMAIN task, Respawn(c) PROVE ResumedKnown'
  <2>0. Next /\ Finalize(c)
    BY <1>2 DEF Next, Finalize
  <2>1. CASE Spawned(FALSE, task[c].carry) /\ task[c].carry \in Text /\ ~task'[c].resumed
    <3>1. task'[c].resumed \in BOOLEAN
      BY <1>a DEF TypeOK
    <3>2. task'[c].resumed = (session'.proc \in resuming') /\ resuming' \subseteq 1 .. procs'
      BY <2>1, <3>1, <1>s
    <3> QED BY <2>0, <3>2, <1>a, OnlyPending DEF ResumedKnown, Pending
  <2>2. CASE task'[c].at = "done" /\ UNCHANGED <<session, machineVars, screen, keys>>
    BY <2>0, <2>2, <1>a, OnlyPending DEF ResumedKnown, Pending, machineVars
  <2> QED BY <1>2, <2>1, <2>2, <1>a, RespawnFacts
<1>3. ASSUME NEW c \in DOMAIN task,
             Check(c) \/ Carry(c) \/ Captures(c) \/ TypesKey(c) \/ StartupOver(c) \/ Ready(c)
      PROVE  ResumedKnown'
  <2>1. UNCHANGED <<procs, resuming>> /\ (session' = session \/ session' = NoSession)
    BY <1>3 DEF Check, Carry, Captures, TypesKey, StartupOver, Ready, machineVars
  <2>2. task'[c].resumed = task[c].resumed /\ Pending(c)
    BY <1>3, <1>a DEF Check, Carry, Captures, TypesKey, StartupOver, Ready, Go, Task, Pending
  <2>3. Next /\ Finalize(c)
    BY <1>3 DEF Next, Finalize
  <2> QED BY <2>1, <2>2, <2>3, <1>a, OnlyPending DEF ResumedKnown, Pending, Live, NoSession
<1>4. CASE Boots \/ ReadsKey \/ Clears \/ UserAnswers \/ Repaints
  <2>1. UNCHANGED <<session, resuming, procs>> /\ (task' = task \/ task' = Repainted(task))
    BY <1>4 DEF Boots, ReadsKey, Clears, UserAnswers, Repaints, machineVars
  <2>2. \A c \in DOMAIN task : task'[c].at = task[c].at /\ task'[c].resumed = task[c].resumed
    BY <2>1, <1>a, PaintFacts
  <2> QED BY <2>1, <2>2, <1>a DEF ResumedKnown, Pending, Live
<1>5. CASE UNCHANGED <<task, resuming, procs>> /\ (session'.proc \in {session.proc, 0})
  BY <1>5 DEF ResumedKnown, Pending, Live
<1>6. Send \/ Dispatch \/ Complete => session'.proc = session.proc
  <2>1. session \in {NoSession} \cup [proc : Proc, held : Text, flight : Text]
    BY <1>a DEF TypeOK
  <2> QED BY <2>1, <1>a DEF Send, Dispatch, Complete, NoSession
<1>7. Kill \/ ReapDead \/ ReapIdle => session'.proc = 0
  <2>1. Kill \/ ReapDead \/ ReapIdle => session' = NoSession
    BY DEF Kill, ReapDead, ReapIdle, Removed
  <2> QED BY <2>1 DEF NoSession
<1> QED
  BY <1>1, <1>2, <1>3, <1>4, <1>5, <1>6, <1>7
  DEF Next, Finalize, Send, Kill, ReapDead, ReapIdle, Dispatch, Complete, Exits, Ages, vars, machineVars

LEMMA WantedStep ==
  ASSUME ~Can("impatient"), Structure, WantedWhilePending, [Next]_vars
  PROVE  WantedWhilePending'
<1>a. TypeOK /\ TypeOK' /\ DOMAIN task' = DOMAIN task /\ task \in [1 .. MaxCreate -> Task]
  BY TypeStep DEF Structure, TypeOK, Task
<1>1. ASSUME NEW c \in DOMAIN task, Create(c) PROVE WantedWhilePending'
  BY <1>1 DEF Create, WantedWhilePending, KillIsFinal
<1>2. ASSUME NEW c \in DOMAIN task, Finalize(c) PROVE WantedWhilePending'
  <2>1. Pending(c) /\ wanted
    BY <1>2 DEF Finalize, Check, Carry, Respawn, Captures, TypesKey, StartupOver, Ready, Pending,
                WantedWhilePending
  <2>2. wanted' = wanted
    BY <1>2 DEF Finalize, Check, Carry, Respawn, Captures, TypesKey, StartupOver, Ready, clientVars
  <2> QED BY <2>1, <2>2 DEF WantedWhilePending, KillIsFinal
<1>3. CASE Kill
  BY <1>3, <1>a DEF Kill, Removed, Patient, WantedWhilePending, KillIsFinal, Live, NoSession, Pending
<1>4. CASE UNCHANGED <<task, wanted>> /\ session'.proc \in {session.proc, 0}
  BY <1>4 DEF WantedWhilePending, KillIsFinal, Live, Pending
<1>5. CASE Boots \/ ReadsKey \/ Clears \/ UserAnswers \/ Repaints
  <2>1. UNCHANGED <<session, wanted>> /\ (task' = task \/ task' = Repainted(task))
    BY <1>5 DEF Boots, ReadsKey, Clears, UserAnswers, Repaints, clientVars
  <2>2. \A c \in DOMAIN task : task'[c].at = task[c].at
    BY <2>1, <1>a, PaintFacts
  <2> QED BY <2>1, <2>2, <1>a DEF WantedWhilePending, KillIsFinal, Live, Pending
<1>6. Send \/ Dispatch \/ Complete => session'.proc = session.proc
  <2>1. session \in {NoSession} \cup [proc : Proc, held : Text, flight : Text]
    BY <1>a DEF TypeOK
  <2> QED BY <2>1, <1>a DEF Send, Dispatch, Complete, NoSession
<1>7. ReapDead \/ ReapIdle => session'.proc = 0
  BY DEF ReapDead, ReapIdle, Removed, NoSession
<1> QED
  BY <1>1, <1>2, <1>3, <1>4, <1>5, <1>6, <1>7
  DEF Next, Send, ReapDead, ReapIdle, Dispatch, Complete, Exits, Ages, vars, clientVars

(* With a client that waits for `ready`: a startup key is read by the      *)
(* dialog it was decided for, however long after the capture it is typed   *)
(* and read, and lands in the prompt only if another hand moved or painted *)
(* the dialog between (finalize_create types once per frame, and its own   *)
(* last frame is the one on screen, also when a dismissed dialog lingers). *)
THEOREM KeysStayInDialogs == ~Can("impatient") => (Spec => []NoStrayKey)
<1> SUFFICES ASSUME ~Can("impatient") PROVE Spec => []NoStrayKey
  OBVIOUS
<1>1. Init => Structure /\ KeyForDialog /\ NoStrayKey
  BY InitInv DEF Init, KeyForDialog, InDialog, NoTask, NoStrayKey
<1>2. Structure /\ KeyForDialog /\ NoStrayKey /\ [Next]_vars => (Structure /\ KeyForDialog /\ NoStrayKey)'
  <2> SUFFICES ASSUME Structure, KeyForDialog, NoStrayKey, [Next]_vars
               PROVE  Structure' /\ KeyForDialog' /\ NoStrayKey'
    OBVIOUS
  <2>1. disturbed => disturbed'
    BY DEF Next, Finalize, Create, Check, Carry, Respawn, Captures, TypesKey, StartupOver, Ready,
           Send, Kill, ReapDead, ReapIdle, Dispatch, Complete, Exits, Ages, Boots, ReadsKey, Clears,
           UserAnswers, Repaints, vars, screenVars, dialogVars
  <2>2. ~disturbed => (stray' => stray)
    <3>1. CASE ReadsKey
      <4>1. ~disturbed => screen = "dialog"
        BY <3>1 DEF ReadsKey, KeyForDialog, InDialog
      <4> QED BY <3>1, <4>1 DEF ReadsKey
    <3>2. CASE ~ReadsKey
      BY <3>2 DEF Next, Finalize, Create, Check, Carry, Respawn, Captures, TypesKey, StartupOver,
           Ready, Send, Kill, ReapDead, ReapIdle, Dispatch, Complete, Exits, Ages, Boots, Clears,
           UserAnswers, Repaints, vars, screenVars, dialogVars
    <3> QED BY <3>1, <3>2
  <2> QED BY <2>1, <2>2, StructureStep, KeyStep DEF NoStrayKey
<1> QED BY <1>1, <1>2, PTL DEF Spec

(* With such a client `ready` says "resumed" just when the CLI in the map  *)
(* was started with --resume: also when the retry has replaced it.         *)
THEOREM ReadyTellsTruth == ~Can("impatient") => (Spec => ReadyTruthful)
<1> SUFFICES ASSUME ~Can("impatient") PROVE Spec => ReadyTruthful
  OBVIOUS
<1>1. Init => Structure /\ ResumedKnown
  <2>1. MaxProc \in Nat
    BY BoundsAssumption
  <2> QED BY <2>1, InitInv DEF Init, ResumedKnown, Live, NoSession
<1>2. Structure /\ ResumedKnown /\ [Next]_vars => (Structure /\ ResumedKnown)'
  BY StructureStep, ResumedStep
<1>3. Structure /\ ResumedKnown /\ [Next]_vars =>
        [\A c \in DOMAIN task : task[c].at = "ready" /\ task'[c].at = "done" /\ Live =>
           task[c].resumed = (session.proc \in resuming)]_vars
  BY DEF ResumedKnown, Pending
<1> QED BY <1>1, <1>2, <1>3, PTL DEF Spec, ReadyTruthful

(* With such a client a kill is the last word: no retry of a dead --resume *)
(* brings a session back after it (cmd_kill against finalize_create).      *)
THEOREM KillsAreFinal == ~Can("impatient") => (Spec => []KillIsFinal)
<1> SUFFICES ASSUME ~Can("impatient") PROVE Spec => []KillIsFinal
  OBVIOUS
<1>1. Init => Structure /\ WantedWhilePending
  BY InitInv DEF Init, WantedWhilePending, KillIsFinal, Live, NoSession, Pending, NoTask
<1>2. Structure /\ WantedWhilePending /\ [Next]_vars => (Structure /\ WantedWhilePending)'
  BY StructureStep, WantedStep
<1>3. WantedWhilePending => KillIsFinal
  BY DEF WantedWhilePending
<1> QED BY <1>1, <1>2, <1>3, PTL DEF Spec
=============================================================================
