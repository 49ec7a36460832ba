----------------------------- MODULE TurnLedger -----------------------------
(***************************************************************************)
(* What a client of one channel session is promised, whatever watches the  *)
(* CLI: every reply it gets is the whole reply of one turn, the turn it    *)
(* asked for is answered by that turn, replies come in the order the CLI   *)
(* gave them, none comes twice, and the client is told that a turn it      *)
(* asked for has ended without a reply only if it did.                     *)
(***************************************************************************)
EXTENDS Naturals, Sequences

CONSTANT MaxTurn

VARIABLES
  replied,   \* turns the CLI has finished with a reply
  waiting,   \* the turn the client waits for, 0 for none
  ledger     \* the turns told to the client, oldest first

ledgerVars == <<replied, waiting, ledger>>

Told == {ledger[i] : i \in DOMAIN ledger}

Init == replied = {} /\ waiting = 0 /\ ledger = <<>>

(* The client asks; turns are numbered as they come up. *)
Ask(t) ==
  /\ waiting = 0
  /\ \A u \in replied \cup Told : u < t
  /\ waiting' = t
  /\ UNCHANGED <<replied, ledger>>

(* The CLI finishes a turn with a reply, asked for or not. *)
Finish(t) ==
  /\ \A u \in replied : u < t
  /\ replied' = replied \cup {t}
  /\ UNCHANGED <<waiting, ledger>>

(* news lists in their order the oldest of the replies the client has not  *)
(* been told.                                                              *)
Oldest(news) ==
  /\ \A i, j \in DOMAIN news : i < j => news[i] < news[j]
  /\ \A u \in replied \ Told :
       (\E i \in DOMAIN news : u = news[i]) \/ \A i \in DOMAIN news : news[i] < u

(* The client is told the oldest replies it has not been told yet, one or  *)
(* more at once.  While it waits, the first of them is the answer, and     *)
(* ends the wait.                                                          *)
Tell(n) ==
  /\ \E news \in [1 .. n -> replied \ Told] :
       /\ Oldest(news)
       /\ waiting # 0 => waiting = news[1]
       /\ ledger' = ledger \o news
  /\ waiting' = 0
  /\ UNCHANGED replied

(* The turn asked for is over without a reply. *)
GiveUp ==
  /\ waiting # 0 /\ waiting \notin replied
  /\ ledger' = Append(ledger, waiting)
  /\ waiting' = 0
  /\ UNCHANGED replied

Next ==
  \/ \E t \in 1 .. MaxTurn : Ask(t) \/ Finish(t)
  \/ \E n \in 1 .. MaxTurn : Tell(n)
  \/ GiveUp

Spec == Init /\ [][Next]_ledgerVars
=============================================================================
