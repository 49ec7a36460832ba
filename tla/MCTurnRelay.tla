----------------------------- MODULE MCTurnRelay -----------------------------
(***************************************************************************)
(* Instances of TurnRelay for TLC: sets of CLI habits, and the mapping of  *)
(* one channel session to the promise TurnLedger states.                   *)
(***************************************************************************)
EXTENDS TurnRelay

(* Messages sent one at a time and turns nobody sent, with tool calls,     *)
(* replies in two rows, rows caught half written, Esc, trailing metadata,  *)
(* resumed CLIs that fork, title files.                                    *)
BenignTurns ==
  {"tools", "straddle", "half", "resumeFork", "sidecar", "organic", "interrupt", "meta"}

(* A CLI that is no help at all: the cursor must hold whatever it does.    *)
RoughTurns ==
  {"straddle", "half", "replyFork", "sidecar", "empty", "lateRow", "maxTurn",
   "busySend", "organic"}

(* The single session of a refinement run.                                 *)
TheSession == CHOOSE s \in Session : TRUE

(* What the promise is about, in terms of the monitor. *)
TurnsReplied == {t \in 1 .. MaxTurn : length[t] # 0}
Awaited == IF observing[TheSession] THEN asked[TheSession] ELSE 0
TurnsTold == [i \in DOMAIN log |-> TurnOf(log[i])]

Ledger == INSTANCE TurnLedger WITH
  replied <- TurnsReplied, waiting <- Awaited, ledger <- TurnsTold

(* The monitor and its watcher keep the promise of TurnLedger.             *)
KeepsLedger == Ledger!Spec
=============================================================================
