----------------------- MODULE TerminalAttachProofs -----------------------
(***************************************************************************)
(* TerminalAttach keeps its types, shows every terminal the output without *)
(* a gap, and shows it to the end, for any number of terminals, sessions   *)
(* and tokens, any token width and any size of the channel.                *)
(***************************************************************************)
EXTENDS TerminalAttach, TLAPS

(* The reader of a session: the chunks sent end in ascending order, and    *)
(* what is read but not sent yet is at most one chunk.                     *)
ChunksAscend(s) ==
  \A i, j \in 1 .. Len(sent[s]) : i < j => sent[s][i] < sent[s][j]

ChunksPositive(s) == \A i \in 1 .. Len(sent[s]) : sent[s][i] > 0

ReaderInStep(s) ==
  /\ step[s] \in {"reading", "ended"} => painted[s] = LastEnd(s) /\ taken[s] = LastEnd(s)
  /\ step[s] = "counted" => painted[s] = LastEnd(s) /\ taken[s] > LastEnd(s)
  /\ step[s] = "shown" => painted[s] = taken[s] /\ taken[s] > LastEnd(s)

EndedIsDrained(s) == step[s] = "ended" => gone[s] /\ taken[s] = Written(s)

ReaderOK == \A s \in Life : ChunksAscend(s) /\ ChunksPositive(s) /\ ReaderInStep(s)

DrainOK == \A s \in Life : EndedIsDrained(s)

Holds(t) == at[t] \in {"subscribed", "live", "deaf"}

(* The receiver of a terminal never points beyond the next chunk.          *)
ReceiverInBounds(t) == Holds(t) => next[t] <= Len(sent[of[t]]) + 1

(* Shown without a gap at least as far as the chunks received reach.       *)
ShownToReceiver(t) ==
  Attached(t) /\ ~lagged[t] =>
     \E n \in EndOf(of[t], next[t] - 1) .. painted[of[t]] : seen[t] = 1 .. n

(* A terminal that has received all chunks has seen the end of the last.   *)
LastIsSeen(t) ==
  Attached(t) /\ next[t] = Len(sent[of[t]]) + 1 /\ LastEnd(of[t]) > 0 =>
     LastEnd(of[t]) \in seen[t]

DeafHasAll(t) == at[t] = "deaf" => step[of[t]] = "ended" /\ next[t] = Len(sent[of[t]]) + 1

ViewOK(t) == ReceiverInBounds(t) /\ ShownToReceiver(t) /\ LastIsSeen(t) /\ DeafHasAll(t)

IInv == TypeOK /\ ReaderOK /\ DrainOK /\ \A t \in Terminal : ViewOK(t)

-----------------------------------------------------------------------------
(* Types.                                                                  *)

(* What is said stays a sequence of tokens. *)
LEMMA SayTypes ==
  ASSUME NEW s \in Life, NEW t \in Token, said \in [Life -> Seq(Token)]
  PROVE  [said EXCEPT ![s] = Append(@, t)] \in [Life -> Seq(Token)]
OBVIOUS

(* A chunk sent leaves a sequence of numbers. *)
LEMMA SentTypes ==
  ASSUME NEW s \in Life, NEW n \in Nat, sent \in [Life -> Seq(Nat)]
  PROVE  [sent EXCEPT ![s] = Append(@, n)] \in [Life -> Seq(Nat)]
OBVIOUS

(* The chunks of a channel have numbers for their ends. *)
LEMMA EndTypes ==
  ASSUME TypeOK, NEW s \in Life, NEW n \in 0 .. Len(sent[s])
  PROVE  EndOf(s, n) \in Nat
<1>1. sent[s] \in Seq(Nat)
  BY DEF TypeOK
<1>2. CASE n = 0
  BY <1>2 DEF EndOf
<1>3. CASE n # 0
  <2>1. sent[s][n] \in Nat
    BY <1>1, <1>3
  <2> QED
    BY <1>3, <2>1 DEF EndOf
<1> QED
  BY <1>2, <1>3

(* The variables have their types initially, and every step keeps them. *)
LEMMA TypesInit ==
  ASSUME Init PROVE TypeOK
<1>1. <<>> \in Seq(Token) /\ <<>> \in Seq(Nat)
  OBVIOUS
<1>2. 1 \in Life
  BY BoundAssumption DEF Life
<1>3. /\ said \in [Life -> Seq(Token)] /\ sent \in [Life -> Seq(Nat)]
      /\ taken \in [Life -> Nat] /\ painted \in [Life -> Nat]
      /\ gone \in [Life -> BOOLEAN] /\ win32 \in [Life -> BOOLEAN]
  <2>1. <<>> \in Seq(Token)
    OBVIOUS
  <2> QED
    BY <1>1, <2>1 DEF Init
<1>4. /\ current \in 0 .. MaxLife
      /\ step \in [Life -> {"reading", "counted", "shown", "ended"}]
      /\ at \in [Terminal -> {"asked", "subscribed", "live", "deaf", "closed"}]
      /\ of \in [Terminal -> Life]
  BY <1>2, BoundAssumption DEF Init
<1>5. /\ next \in [Terminal -> Nat \ {0}] /\ seen \in [Terminal -> SUBSET Nat]
      /\ lagged \in [Terminal -> BOOLEAN] /\ lock \in Terminal \cup {NoTerminal}
  BY DEF Init
<1>6. strayed \in BOOLEAN /\ garbled \subseteq {"input", "keystroke"}
  <2>1. strayed = FALSE
    BY DEF Init
  <2>2. garbled = {}
    BY DEF Init
  <2> QED
    BY <2>1, <2>2
<1> QED
  BY <1>3, <1>4, <1>5, <1>6 DEF TypeOK

LEMMA TypesStep ==
  ASSUME TypeOK, [Next]_vars PROVE TypeOK'
<1> USE DEF TypeOK, cliVars, readerVars, terminalVars, typedVars
<1>1. ASSUME NEW s \in Life, Say(s) PROVE TypeOK'
  <2>1. said' \in [Life -> Seq(Token)]
    <3>1. PICK t \in Token : said' = [said EXCEPT ![s] = Append(@, t)]
      BY <1>1 DEF Say
    <3> QED
      BY <3>1, SayTypes
  <2>2. UNCHANGED <<gone, current, readerVars, terminalVars, typedVars>>
    BY <1>1 DEF Say
  <2> QED
    BY <2>1, <2>2
<1>2. ASSUME NEW s \in Life, Quit(s) PROVE TypeOK'
  BY <1>2 DEF Quit
<1>3. ASSUME NEW s \in Life, ReadChunk(s) PROVE TypeOK'
  <2>1. PICK hi \in taken[s] + 1 .. Written(s) :
          /\ taken' = [taken EXCEPT ![s] = hi]
          /\ win32' = [win32 EXCEPT ![s] = FlagAfter(s, taken[s], hi)]
    BY <1>3 DEF ReadChunk
  <2>2. hi \in Nat
    <3>1. taken[s] \in Nat /\ hi >= taken[s] + 1 /\ hi \in Int
      BY <2>1
    <3> QED
      BY <3>1
  <2>3. taken' \in [Life -> Nat]
    BY <2>1, <2>2
  <2>4. FlagAfter(s, taken[s], hi) \in BOOLEAN
    BY DEF FlagAfter
  <2>5. win32' \in [Life -> BOOLEAN]
    BY <2>1, <2>4
  <2> QED
    BY <1>3, <2>3, <2>5 DEF ReadChunk
<1>4. ASSUME NEW s \in Life, Process(s) PROVE TypeOK'
  BY <1>4 DEF Process
<1>5. ASSUME NEW s \in Life, Tee(s) PROVE TypeOK'
  <2>1. sent' \in [Life -> Seq(Nat)]
    BY <1>5, SentTypes DEF Tee
  <2> QED
    BY <1>5, <2>1 DEF Tee
<1>6. ASSUME NEW s \in Life, EndOfOutput(s) PROVE TypeOK'
  BY <1>6 DEF EndOfOutput
<1>7. CASE Kill
  BY <1>7, BoundAssumption DEF Kill, Life
<1>8. CASE Create
  BY <1>8, BoundAssumption DEF Create, Life
<1>9. ASSUME NEW t \in Terminal, Refuse(t) PROVE TypeOK'
  BY <1>9 DEF Refuse
<1>10. ASSUME NEW t \in Terminal, Subscribe(t) PROVE TypeOK'
  <2>1. current \in Life
    BY <1>10, BoundAssumption DEF Subscribe, Life
  <2>2. Len(sent[current]) + 1 \in Nat \ {0}
    BY <2>1
  <2> QED
    BY <1>10, <2>1, <2>2 DEF Subscribe
<1>11. ASSUME NEW t \in Terminal, Capture(t) PROVE TypeOK'
  <2>1. 1 .. painted[of[t]] \in SUBSET Nat
    OBVIOUS
  <2> QED
    BY <1>11, <2>1 DEF Capture
<1>12. ASSUME NEW t \in Terminal, Receive(t) PROVE TypeOK'
  <2>1. CASE next[t] < Oldest(of[t])
    <3>1. Oldest(of[t]) \in Nat \ {0}
      BY CapAssumption DEF Oldest
    <3>2. next' = [next EXCEPT ![t] = Oldest(of[t])] /\ UNCHANGED seen
          /\ lagged' = [lagged EXCEPT ![t] = TRUE]
      BY <1>12, <2>1 DEF Receive
    <3> QED
      BY <1>12, <3>1, <3>2 DEF Receive
  <2>2. CASE ~(next[t] < Oldest(of[t]))
    <3>1. /\ next' = [next EXCEPT ![t] = @ + 1]
          /\ seen' = [seen EXCEPT ![t] = @ \cup Chunk(of[t], next[t])]
          /\ UNCHANGED lagged
      BY <1>12, <2>2 DEF Receive
    <3>2. next[t] - 1 \in 0 .. Len(sent[of[t]]) /\ next[t] \in 0 .. Len(sent[of[t]])
      BY <1>12 DEF Receive
    <3>3. EndOf(of[t], next[t] - 1) \in Nat /\ EndOf(of[t], next[t]) \in Nat
      BY <3>2, EndTypes
    <3>4. Chunk(of[t], next[t]) \subseteq Nat
      BY <3>3 DEF Chunk
    <3>5. seen' \in [Terminal -> SUBSET Nat]
      BY <3>1, <3>4
    <3>6. next' \in [Terminal -> Nat \ {0}]
      BY <3>1
    <3> QED
      BY <1>12, <3>1, <3>5, <3>6 DEF Receive
  <2> QED
    BY <2>1, <2>2
<1>13. ASSUME NEW t \in Terminal, StreamEnds(t) PROVE TypeOK'
  BY <1>13 DEF StreamEnds
<1>14. ASSUME NEW t \in Terminal, HangUp(t) PROVE TypeOK'
  BY <1>14 DEF HangUp, Close
<1>15. ASSUME NEW t \in Terminal, TypeRaw(t) PROVE TypeOK'
  <2>1. CASE current # 0
    <3>1. strayed' \in BOOLEAN
      BY <1>15, <2>1 DEF TypeRaw
    <3> QED
      BY <1>15, <2>1, <3>1 DEF TypeRaw
  <2>2. CASE current = 0
    <3>1. Close(t) /\ UNCHANGED strayed
      BY <1>15, <2>2 DEF TypeRaw
    <3> QED
      BY <1>15, <3>1 DEF TypeRaw, Close
  <2> QED
    BY <2>1, <2>2
<1>16. CASE InputCommand
  BY <1>16 DEF InputCommand
<1>17. CASE UNCHANGED vars
  BY <1>17 DEF vars
<1> QED
  BY <1>1, <1>2, <1>3, <1>4, <1>5, <1>6, <1>7, <1>8, <1>9, <1>10, <1>11, <1>12,
     <1>13, <1>14, <1>15, <1>16, <1>17 DEF Next, Reader

-----------------------------------------------------------------------------
(* The reader.                                                             *)

(* A chunk sent is appended to its own channel. *)
LEMMA TeeEffect ==
  ASSUME TypeOK, NEW s \in Life, Tee(s)
  PROVE  /\ \A r \in Life \ {s} : sent'[r] = sent[r]
         /\ sent'[s] = Append(sent[s], taken[s])
         /\ Len(sent'[s]) = Len(sent[s]) + 1
         /\ sent'[s][Len(sent[s]) + 1] = taken[s]
         /\ \A n \in 1 .. Len(sent[s]) : sent'[s][n] = sent[s][n]
         /\ LastEnd(s)' = taken[s]
<1>1. sent' = [sent EXCEPT ![s] = Append(@, taken[s])]
  BY DEF Tee
<1>2. sent \in [Life -> Seq(Nat)] /\ taken[s] \in Nat
  BY DEF TypeOK
<1>3. sent'[s] = Append(sent[s], taken[s])
  BY <1>1, <1>2
<1>4. \A r \in Life \ {s} : sent'[r] = sent[r]
  BY <1>1, <1>2
<1>5. /\ Len(sent'[s]) = Len(sent[s]) + 1
      /\ sent'[s][Len(sent[s]) + 1] = taken[s]
      /\ \A n \in 1 .. Len(sent[s]) : sent'[s][n] = sent[s][n]
  BY <1>2, <1>3
<1>6. LastEnd(s)' = taken[s]
  <2>1. LastEnd(s)' = IF Len(sent'[s]) = 0 THEN 0 ELSE sent'[s][Len(sent'[s])]
    BY DEF LastEnd, EndOf
  <2>2. Len(sent[s]) \in Nat
    BY <1>2
  <2> QED
    BY <2>1, <2>2, <1>5
<1> QED
  BY <1>3, <1>4, <1>5, <1>6

(* The ends of the chunks ascend up to the last. *)
LEMMA EndsAscend ==
  ASSUME TypeOK, ReaderOK, NEW s \in Life, NEW n \in 1 .. Len(sent[s])
  PROVE  /\ EndOf(s, n) \in Nat /\ EndOf(s, n - 1) \in Nat
         /\ EndOf(s, n - 1) < EndOf(s, n) /\ EndOf(s, n) <= LastEnd(s)
<1>1. EndOf(s, n) \in Nat /\ EndOf(s, n - 1) \in Nat
  BY EndTypes
<1>2. EndOf(s, n) = sent[s][n] /\ LastEnd(s) = sent[s][Len(sent[s])]
  BY DEF EndOf, LastEnd
<1>3. sent[s] \in Seq(Nat)
  BY DEF TypeOK
<1>4. ChunksAscend(s) /\ ChunksPositive(s)
  BY DEF ReaderOK
<1>5. EndOf(s, n) <= LastEnd(s)
  <2>1. CASE n = Len(sent[s])
    BY <2>1, <1>1, <1>2
  <2>2. CASE n < Len(sent[s])
    <3>1. sent[s][n] < sent[s][Len(sent[s])]
      BY <2>2, <1>3, <1>4 DEF ChunksAscend
    <3>2. sent[s][Len(sent[s])] \in Nat
      BY <1>3
    <3> QED
      BY <3>1, <3>2, <1>1, <1>2
  <2> QED
    BY <2>1, <2>2, <1>3
<1>6. EndOf(s, n - 1) < EndOf(s, n)
  <2>1. CASE n = 1
    BY <2>1, <1>2, <1>4 DEF EndOf, ChunksPositive
  <2>2. CASE n > 1
    <3>1. EndOf(s, n - 1) = sent[s][n - 1]
      BY <2>2 DEF EndOf
    <3> QED
      BY <3>1, <2>2, <1>2, <1>3, <1>4 DEF ChunksAscend
  <2> QED
    BY <2>1, <2>2
<1> QED
  BY <1>1, <1>5, <1>6

(* The end of the last chunk is a number, and the screen is at least there. *)
LEMMA LastIsPainted ==
  ASSUME TypeOK, ReaderOK, NEW s \in Life
  PROVE  LastEnd(s) \in Nat /\ LastEnd(s) <= painted[s] /\ painted[s] <= taken[s]
<1>1. Len(sent[s]) \in 0 .. Len(sent[s])
  BY DEF TypeOK
<1>2. LastEnd(s) \in Nat
  BY <1>1, EndTypes DEF LastEnd
<1>3. ReaderInStep(s) /\ step[s] \in {"reading", "counted", "shown", "ended"}
      /\ taken[s] \in Nat /\ painted[s] \in Nat
  BY DEF ReaderOK, TypeOK
<1> QED
  BY <1>2, <1>3 DEF ReaderInStep

(* Only the reader moves the reader. *)
LEMMA OthersLeaveReader ==
  ASSUME [Next]_vars, ~ \E s \in Life : Reader(s)
  PROVE  UNCHANGED readerVars
<1> USE DEF readerVars, cliVars, terminalVars, typedVars
<1>1. ASSUME NEW s \in Life, Say(s) \/ Quit(s) PROVE UNCHANGED readerVars
  BY <1>1 DEF Say, Quit
<1>2. CASE Kill \/ Create \/ InputCommand
  BY <1>2 DEF Kill, Create, InputCommand
<1>3. ASSUME NEW t \in Terminal,
             Refuse(t) \/ Subscribe(t) \/ Capture(t) \/ Receive(t) \/ StreamEnds(t) \/ HangUp(t) \/ TypeRaw(t)
      PROVE UNCHANGED readerVars
  BY <1>3 DEF Refuse, Subscribe, Capture, Receive, StreamEnds, HangUp, TypeRaw
<1>4. CASE UNCHANGED vars
  BY <1>4 DEF vars
<1> QED
  BY <1>1, <1>2, <1>3, <1>4 DEF Next

(* A step keeps the reader in order: it reads, shows and sends one chunk   *)
(* before it reads the next.                                               *)
LEMMA ReaderStep ==
  ASSUME TypeOK, ReaderOK, [Next]_vars
  PROVE  ReaderOK'
<1>1. CASE ~ \E s \in Life : Reader(s)
  <2>1. UNCHANGED readerVars
    BY <1>1, OthersLeaveReader
  <2> QED
    BY <2>1 DEF readerVars, ReaderOK, ChunksAscend, ChunksPositive, ReaderInStep, LastEnd, EndOf
<1>2. ASSUME NEW s \in Life, ReadChunk(s) PROVE ReaderOK'
  <2>1. PICK hi \in taken[s] + 1 .. Written(s) : taken' = [taken EXCEPT ![s] = hi]
    BY <1>2 DEF ReadChunk
  <2>2. /\ sent' = sent /\ painted' = painted /\ step[s] = "reading"
        /\ step' = [step EXCEPT ![s] = "counted"]
    BY <1>2 DEF ReadChunk
  <2>3. taken \in [Life -> Nat] /\ step \in [Life -> {"reading", "counted", "shown", "ended"}]
    BY DEF TypeOK
  <2>4. ASSUME NEW r \in Life PROVE ChunksAscend(r)' /\ ChunksPositive(r)'
    BY <2>2 DEF ReaderOK, ChunksAscend, ChunksPositive
  <2>5. ASSUME NEW r \in Life PROVE ReaderInStep(r)'
    <3>1. LastEnd(r)' = LastEnd(r) /\ ReaderInStep(r)
      BY <2>2 DEF LastEnd, EndOf, ReaderOK
    <3>2. CASE r = s
      <4>1. hi > taken[s] /\ painted[s] = LastEnd(s) /\ taken[s] = LastEnd(s)
        BY <2>1, <2>2, <2>3, <3>1, <3>2 DEF ReaderInStep
      <4> QED
        BY <4>1, <2>1, <2>2, <2>3, <3>1, <3>2 DEF ReaderInStep
    <3>3. CASE r # s
      BY <2>1, <2>2, <2>3, <3>1, <3>3 DEF ReaderInStep
    <3> QED
      BY <3>2, <3>3
  <2> QED
    BY <2>4, <2>5 DEF ReaderOK
<1>3. ASSUME NEW s \in Life, Process(s) PROVE ReaderOK'
  <2>1. /\ sent' = sent /\ taken' = taken /\ step[s] = "counted"
        /\ painted' = [painted EXCEPT ![s] = taken[s]]
        /\ step' = [step EXCEPT ![s] = "shown"]
    BY <1>3 DEF Process
  <2>2. painted \in [Life -> Nat] /\ step \in [Life -> {"reading", "counted", "shown", "ended"}]
    BY DEF TypeOK
  <2>3. ASSUME NEW r \in Life PROVE ChunksAscend(r)' /\ ChunksPositive(r)'
    BY <2>1 DEF ReaderOK, ChunksAscend, ChunksPositive
  <2>4. ASSUME NEW r \in Life PROVE ReaderInStep(r)'
    <3>1. LastEnd(r)' = LastEnd(r) /\ ReaderInStep(r)
      BY <2>1 DEF LastEnd, EndOf, ReaderOK
    <3>2. CASE r = s
      BY <2>1, <2>2, <3>1, <3>2 DEF ReaderInStep
    <3>3. CASE r # s
      BY <2>1, <2>2, <3>1, <3>3 DEF ReaderInStep
    <3> QED
      BY <3>2, <3>3
  <2> QED
    BY <2>3, <2>4 DEF ReaderOK
<1>4. ASSUME NEW s \in Life, Tee(s) PROVE ReaderOK'
  <2>1. /\ taken' = taken /\ painted' = painted /\ step[s] = "shown"
        /\ step' = [step EXCEPT ![s] = "reading"]
    BY <1>4 DEF Tee
  <2>2. /\ \A r \in Life \ {s} : sent'[r] = sent[r]
        /\ Len(sent'[s]) = Len(sent[s]) + 1
        /\ sent'[s][Len(sent[s]) + 1] = taken[s]
        /\ \A n \in 1 .. Len(sent[s]) : sent'[s][n] = sent[s][n]
        /\ LastEnd(s)' = taken[s]
    BY <1>4, TeeEffect
  <2>3. /\ taken[s] \in Nat /\ sent[s] \in Seq(Nat) /\ Len(sent[s]) \in Nat
        /\ step \in [Life -> {"reading", "counted", "shown", "ended"}]
    BY DEF TypeOK
  <2>4. ReaderInStep(s) /\ ChunksAscend(s) /\ ChunksPositive(s)
    BY DEF ReaderOK
  <2>5. taken[s] > LastEnd(s) /\ painted[s] = taken[s]
    BY <2>1, <2>4 DEF ReaderInStep
  <2>6. \A i \in 1 .. Len(sent[s]) : sent[s][i] < taken[s]
    <3> SUFFICES ASSUME NEW i \in 1 .. Len(sent[s]) PROVE sent[s][i] < taken[s]
      OBVIOUS
    <3>1. EndOf(s, i) <= LastEnd(s) /\ EndOf(s, i) \in Nat
      BY EndsAscend
    <3>2. EndOf(s, i) = sent[s][i] /\ LastEnd(s) \in Nat
      BY LastIsPainted DEF EndOf
    <3> QED
      BY <3>1, <3>2, <2>3, <2>5
  <2>7. ChunksAscend(s)'
    <3> SUFFICES ASSUME NEW i \in 1 .. Len(sent[s]) + 1, NEW j \in 1 .. Len(sent[s]) + 1, i < j
                 PROVE  sent'[s][i] < sent'[s][j]
      BY <2>2 DEF ChunksAscend
    <3>1. CASE j = Len(sent[s]) + 1
      <4>1. i \in 1 .. Len(sent[s])
        BY <3>1, <2>3
      <4> QED
        BY <3>1, <4>1, <2>2, <2>6
    <3>2. CASE j # Len(sent[s]) + 1
      <4>1. i \in 1 .. Len(sent[s]) /\ j \in 1 .. Len(sent[s])
        BY <3>2, <2>3
      <4> QED
        BY <4>1, <2>2, <2>4 DEF ChunksAscend
    <3> QED
      BY <3>1, <3>2
  <2>8. ChunksPositive(s)'
    <3> SUFFICES ASSUME NEW i \in 1 .. Len(sent[s]) + 1 PROVE sent'[s][i] > 0
      BY <2>2 DEF ChunksPositive
    <3>1. CASE i = Len(sent[s]) + 1
      <4>1. LastEnd(s) \in Nat
        BY LastIsPainted
      <4> QED
        BY <3>1, <4>1, <2>2, <2>3, <2>5
    <3>2. CASE i # Len(sent[s]) + 1
      <4>1. i \in 1 .. Len(sent[s])
        BY <3>2, <2>3
      <4> QED
        BY <4>1, <2>2, <2>4 DEF ChunksPositive
    <3> QED
      BY <3>1, <3>2
  <2>9. ReaderInStep(s)'
    BY <2>1, <2>2, <2>3, <2>5 DEF ReaderInStep
  <2>10. ASSUME NEW r \in Life, r # s
         PROVE  ChunksAscend(r)' /\ ChunksPositive(r)' /\ ReaderInStep(r)'
    <3>1. sent'[r] = sent[r] /\ step'[r] = step[r] /\ LastEnd(r)' = LastEnd(r)
      BY <2>10, <2>1, <2>2, <2>3 DEF LastEnd, EndOf
    <3> QED
      BY <3>1, <2>1 DEF ReaderOK, ChunksAscend, ChunksPositive, ReaderInStep
  <2> QED
    BY <2>7, <2>8, <2>9, <2>10 DEF ReaderOK
<1>5. ASSUME NEW s \in Life, EndOfOutput(s) PROVE ReaderOK'
  <2>1. /\ sent' = sent /\ taken' = taken /\ painted' = painted /\ step[s] = "reading"
        /\ step' = [step EXCEPT ![s] = "ended"]
    BY <1>5 DEF EndOfOutput
  <2>2. step \in [Life -> {"reading", "counted", "shown", "ended"}]
    BY DEF TypeOK
  <2>3. ASSUME NEW r \in Life PROVE ReaderInStep(r)'
    <3>1. LastEnd(r)' = LastEnd(r) /\ ReaderInStep(r)
      BY <2>1 DEF LastEnd, EndOf, ReaderOK
    <3> QED
      BY <3>1, <2>1, <2>2 DEF ReaderInStep
  <2> QED
    BY <2>1, <2>3 DEF ReaderOK, ChunksAscend, ChunksPositive
<1> QED
  BY <1>1, <1>2, <1>3, <1>4, <1>5 DEF Reader

(* What is sent and painted is never taken back, and a reader that has     *)
(* ended does nothing more.                                                *)
LEMMA ReaderGoesOn ==
  ASSUME TypeOK, ReaderOK, [Next]_vars, NEW s \in Life
  PROVE  /\ painted[s] <= painted'[s] /\ Len(sent[s]) <= Len(sent'[s])
         /\ \A n \in 0 .. Len(sent[s]) : EndOf(s, n)' = EndOf(s, n)
         /\ step[s] = "ended" => step'[s] = "ended" /\ sent'[s] = sent[s] /\ taken'[s] = taken[s]
<1>0. /\ painted \in [Life -> Nat] /\ taken \in [Life -> Nat] /\ Len(sent[s]) \in Nat
      /\ step \in [Life -> {"reading", "counted", "shown", "ended"}]
  BY DEF TypeOK
<1>1. CASE ~ \E r \in Life : Reader(r)
  <2>1. UNCHANGED readerVars
    BY <1>1, OthersLeaveReader
  <2> QED
    BY <2>1, <1>0 DEF readerVars, EndOf
<1>2. ASSUME NEW r \in Life, ReadChunk(r)
      PROVE  /\ UNCHANGED <<painted, sent>> /\ step[r] = "reading"
             /\ \A q \in Life \ {r} : taken'[q] = taken[q] /\ step'[q] = step[q]
  BY <1>2, <1>0 DEF ReadChunk
<1>3. ASSUME NEW r \in Life, Process(r)
      PROVE  /\ UNCHANGED <<taken, sent>> /\ step[r] = "counted" /\ painted[s] <= painted'[s]
             /\ \A q \in Life \ {r} : step'[q] = step[q]
  <2>1. /\ UNCHANGED <<taken, sent>> /\ step[r] = "counted"
        /\ painted' = [painted EXCEPT ![r] = taken[r]] /\ step' = [step EXCEPT ![r] = "shown"]
    BY <1>3 DEF Process
  <2>2. painted[r] <= taken[r]
    BY LastIsPainted
  <2> QED
    BY <2>1, <2>2, <1>0
<1>4. ASSUME NEW r \in Life, Tee(r)
      PROVE  /\ UNCHANGED <<taken, painted>> /\ step[r] = "shown"
             /\ \A q \in Life \ {r} : step'[q] = step[q] /\ sent'[q] = sent[q]
             /\ s = r => Len(sent'[s]) = Len(sent[s]) + 1
             /\ s = r => \A n \in 1 .. Len(sent[s]) : sent'[s][n] = sent[s][n]
  <2>1. UNCHANGED <<taken, painted>> /\ step[r] = "shown" /\ step' = [step EXCEPT ![r] = "reading"]
    BY <1>4 DEF Tee
  <2> QED
    BY <2>1, <1>0, <1>4, TeeEffect
<1>5. ASSUME NEW r \in Life, EndOfOutput(r)
      PROVE  /\ UNCHANGED <<taken, painted, sent>> /\ step[r] = "reading"
             /\ \A q \in Life \ {r} : step'[q] = step[q]
  BY <1>5, <1>0 DEF EndOfOutput
<1>6. CASE \E r \in Life : Tee(r)
  <2>1. PICK r \in Life : Tee(r)
    BY <1>6
  <2>2. CASE s = r
    BY <2>1, <2>2, <1>4, <1>0 DEF EndOf
  <2>3. CASE s # r
    BY <2>1, <2>3, <1>4, <1>0 DEF EndOf
  <2> QED
    BY <2>2, <2>3
<1>7. CASE \E r \in Life : ReadChunk(r) \/ Process(r) \/ EndOfOutput(r)
  BY <1>7, <1>2, <1>3, <1>5, <1>0 DEF EndOf
<1> QED
  BY <1>1, <1>6, <1>7 DEF Reader

(* A reader ends with everything read, and its CLI writes no more. *)
LEMMA DrainStep ==
  ASSUME TypeOK, ReaderOK, DrainOK, [Next]_vars
  PROVE  DrainOK'
<1> SUFFICES ASSUME NEW s \in Life, step'[s] = "ended" PROVE gone'[s] /\ taken'[s] = Written(s)'
  BY DEF DrainOK, EndedIsDrained
<1>0. /\ step \in [Life -> {"reading", "counted", "shown", "ended"}] /\ gone \in [Life -> BOOLEAN]
      /\ said \in [Life -> Seq(Token)]
  BY DEF TypeOK
<1>1. CASE step[s] = "ended"
  <2>1. gone[s] /\ taken[s] = Written(s) /\ taken'[s] = taken[s]
    BY <1>1, ReaderGoesOn DEF DrainOK, EndedIsDrained
  <2> USE DEF cliVars, readerVars, terminalVars, typedVars
  <2>2. ASSUME NEW r \in Life, Say(r) PROVE said'[s] = said[s] /\ gone'[s]
    <3>1. ~gone[r] /\ gone' = gone /\ \E t \in Token : said' = [said EXCEPT ![r] = Append(@, t)]
      BY <2>2 DEF Say, Alive
    <3> QED
      BY <3>1, <2>1, <1>0
  <2>3. ASSUME NEW r \in Life, Quit(r) PROVE said'[s] = said[s] /\ gone'[s]
    BY <2>3, <2>1, <1>0 DEF Quit
  <2>4. ASSUME NEW r \in Life, Reader(r) PROVE said'[s] = said[s] /\ gone'[s]
    BY <2>4, <2>1 DEF Reader, ReadChunk, Process, Tee, EndOfOutput
  <2>5. ASSUME NEW t \in Terminal,
               Refuse(t) \/ Subscribe(t) \/ Capture(t) \/ Receive(t) \/ StreamEnds(t) \/ HangUp(t) \/ TypeRaw(t)
        PROVE  said'[s] = said[s] /\ gone'[s]
    BY <2>5, <2>1 DEF Refuse, Subscribe, Capture, Receive, StreamEnds, HangUp, TypeRaw
  <2>6. said'[s] = said[s] /\ gone'[s]
    <3>1. Kill => said'[s] = said[s] /\ gone'[s]
      BY <2>1, <1>0 DEF Kill
    <3>2. Create \/ InputCommand => said'[s] = said[s] /\ gone'[s]
      BY <2>1 DEF Create, InputCommand
    <3>3. UNCHANGED vars => said'[s] = said[s] /\ gone'[s]
      BY <2>1 DEF vars
    <3> QED
      BY <2>2, <2>3, <2>4, <2>5, <3>1, <3>2, <3>3 DEF Next
  <2> QED
    BY <2>1, <2>6 DEF Written
<1>2. CASE step[s] # "ended"
  <2>1. EndOfOutput(s)
    <3>1. CASE ~ \E r \in Life : Reader(r)
      BY <3>1, <1>2, OthersLeaveReader DEF readerVars
    <3>2. ASSUME NEW r \in Life, ReadChunk(r) \/ Process(r) \/ Tee(r) PROVE FALSE
      BY <3>2, <1>2, <1>0 DEF ReadChunk, Process, Tee
    <3>3. ASSUME NEW r \in Life, EndOfOutput(r) PROVE r = s
      BY <3>3, <1>2, <1>0 DEF EndOfOutput
    <3> QED
      BY <3>1, <3>2, <3>3 DEF Reader
  <2> QED
    BY <2>1 DEF EndOfOutput, cliVars, Written
<1> QED
  BY <1>1, <1>2

-----------------------------------------------------------------------------
(* The terminals.                                                          *)

(* A terminal that takes no step keeps its view, whatever the reader does. *)
LEMMA OnlookerKeepsView ==
  ASSUME TypeOK, ReaderOK, [Next]_vars, NEW u \in Terminal, ViewOK(u),
         at'[u] = at[u], of'[u] = of[u], next'[u] = next[u], seen'[u] = seen[u],
         lagged'[u] = lagged[u]
  PROVE  ViewOK(u)'
<1> DEFINE s == of[u]
<1>0. /\ s \in Life /\ next[u] \in Nat \ {0} /\ Len(sent[s]) \in Nat
      /\ painted \in [Life -> Nat]
  BY DEF TypeOK
<1>1. /\ painted[s] <= painted'[s] /\ Len(sent[s]) <= Len(sent'[s])
      /\ \A n \in 0 .. Len(sent[s]) : EndOf(s, n)' = EndOf(s, n)
      /\ step[s] = "ended" => step'[s] = "ended" /\ sent'[s] = sent[s]
  BY <1>0, ReaderGoesOn
<1>2. painted'[s] \in Nat /\ Len(sent'[s]) \in Nat
  <2>1. TypeOK'
    BY TypesStep
  <2> QED
    BY <2>1, <1>0 DEF TypeOK
<1>3. ReceiverInBounds(u)'
  BY <1>0, <1>1, <1>2 DEF ViewOK, ReceiverInBounds, Holds
<1>4. ShownToReceiver(u)'
  <2> SUFFICES ASSUME Attached(u)', ~lagged'[u]
               PROVE  \E n \in EndOf(s, next[u] - 1)' .. painted'[s] : seen[u] = 1 .. n
    BY DEF ShownToReceiver, EndOf
  <2>1. Attached(u) /\ ~lagged[u]
    BY DEF Attached
  <2>2. PICK n \in EndOf(s, next[u] - 1) .. painted[s] : seen[u] = 1 .. n
    BY <2>1 DEF ViewOK, ShownToReceiver
  <2>3. next[u] - 1 \in 0 .. Len(sent[s])
    BY <2>1, <1>0 DEF ViewOK, ReceiverInBounds, Holds, Attached
  <2>4. EndOf(s, next[u] - 1) \in Nat /\ EndOf(s, next[u] - 1)' = EndOf(s, next[u] - 1)
    BY <2>3, <1>0, <1>1, EndTypes
  <2>5. n \in EndOf(s, next[u] - 1)' .. painted'[s]
    BY <2>2, <2>4, <1>0, <1>1, <1>2
  <2> QED
    BY <2>2, <2>5
<1>5. LastIsSeen(u)'
  <2> SUFFICES ASSUME Attached(u)', next[u] = Len(sent'[s]) + 1, LastEnd(s)' > 0
               PROVE  LastEnd(s)' \in seen[u]
    BY DEF LastIsSeen, LastEnd, EndOf
  <2>1. Attached(u)
    BY DEF Attached
  <2>2. next[u] <= Len(sent[s]) + 1
    BY <2>1 DEF ViewOK, ReceiverInBounds, Holds, Attached
  <2>3. Len(sent'[s]) = Len(sent[s])
    BY <2>2, <1>0, <1>1, <1>2
  <2>4. LastEnd(s)' = LastEnd(s)
    BY <2>3, <1>0, <1>1 DEF LastEnd
  <2> QED
    BY <2>1, <2>3, <2>4 DEF ViewOK, LastIsSeen
<1>6. DeafHasAll(u)'
  BY <1>1 DEF ViewOK, DeafHasAll
<1> QED
  BY <1>3, <1>4, <1>5, <1>6 DEF ViewOK

(* A step of one terminal is no step of another, nor of a reader. *)
LEMMA OneTerminalSteps ==
  ASSUME TypeOK, NEW t \in Terminal,
         Refuse(t) \/ Subscribe(t) \/ Capture(t) \/ Receive(t) \/ StreamEnds(t) \/ HangUp(t) \/ TypeRaw(t)
  PROVE  /\ UNCHANGED readerVars
         /\ \A u \in Terminal \ {t} :
              /\ at'[u] = at[u] /\ of'[u] = of[u] /\ next'[u] = next[u]
              /\ seen'[u] = seen[u] /\ lagged'[u] = lagged[u]
<1> USE DEF TypeOK
<1>1. UNCHANGED readerVars
  BY DEF Refuse, Subscribe, Capture, Receive, StreamEnds, HangUp, TypeRaw
<1> SUFFICES ASSUME NEW u \in Terminal \ {t}
             PROVE  /\ at'[u] = at[u] /\ of'[u] = of[u] /\ next'[u] = next[u]
                    /\ seen'[u] = seen[u] /\ lagged'[u] = lagged[u]
  BY <1>1
<1>2. CASE Refuse(t) \/ Subscribe(t) \/ Capture(t) \/ StreamEnds(t)
  BY <1>2 DEF Refuse, Subscribe, Capture, StreamEnds
<1>3. CASE Receive(t)
  BY <1>3 DEF Receive
<1>4. CASE HangUp(t)
  BY <1>4 DEF HangUp, Close
<1>5. CASE TypeRaw(t)
  <2>1. CASE current # 0
    BY <1>5, <2>1 DEF TypeRaw
  <2>2. CASE current = 0
    <3>1. Close(t) /\ UNCHANGED of
      BY <1>5, <2>2 DEF TypeRaw
    <3> QED
      BY <3>1 DEF Close
  <2> QED
    BY <2>1, <2>2
<1> QED
  BY <1>2, <1>3, <1>4, <1>5

(* A terminal that is not attached has nothing to be right about. *)
LEMMA AwayIsOK ==
  ASSUME NEW t \in Terminal, at'[t] \in {"asked", "closed"}
  PROVE  ViewOK(t)'
BY DEF ViewOK, ReceiverInBounds, ShownToReceiver, LastIsSeen, DeafHasAll, Holds, Attached

(* Subscribe and capture join: all that was sent has been painted. *)
LEMMA SubscribeView ==
  ASSUME TypeOK, NEW t \in Terminal, Subscribe(t)
  PROVE  ViewOK(t)'
<1>1. /\ at'[t] = "subscribed" /\ of'[t] = current
      /\ next'[t] = Len(sent[current]) + 1 /\ sent' = sent
  BY DEF Subscribe, TypeOK, readerVars
<1>2. Len(sent[current]) \in Nat
  <2>1. current \in Life
    BY BoundAssumption DEF Subscribe, TypeOK, Life
  <2> QED
    BY <2>1 DEF TypeOK
<1> QED
  BY <1>1, <1>2 DEF ViewOK, ReceiverInBounds, ShownToReceiver, LastIsSeen, DeafHasAll, Attached

LEMMA CaptureView ==
  ASSUME TypeOK, ReaderOK, NEW t \in Terminal, ViewOK(t), Capture(t)
  PROVE  ViewOK(t)'
<1> DEFINE s == of[t]
<1>1. /\ at[t] = "subscribed" /\ at'[t] = "live" /\ of'[t] = s /\ next'[t] = next[t]
      /\ seen'[t] = 1 .. painted[s] /\ sent' = sent /\ painted' = painted
  BY DEF Capture, TypeOK, readerVars
<1>2. /\ s \in Life /\ next[t] \in Nat \ {0} /\ next[t] <= Len(sent[s]) + 1
      /\ Len(sent[s]) \in Nat /\ painted[s] \in Nat
  BY <1>1 DEF TypeOK, ViewOK, ReceiverInBounds, Holds
<1>3. LastEnd(s) \in Nat /\ LastEnd(s) <= painted[s]
  BY <1>2, LastIsPainted
<1>4. EndOf(s, next[t] - 1) \in Nat /\ EndOf(s, next[t] - 1) <= LastEnd(s)
  <2>1. CASE next[t] = 1
    BY <2>1, <1>3 DEF EndOf
  <2>2. CASE next[t] # 1
    <3>1. next[t] - 1 \in 1 .. Len(sent[s])
      BY <2>2, <1>2
    <3> QED
      BY <3>1, <1>2, EndsAscend
  <2> QED
    BY <2>1, <2>2
<1>5. ShownToReceiver(t)'
  <2>1. painted[s] \in EndOf(s, next[t] - 1) .. painted[s]
    BY <1>2, <1>3, <1>4
  <2> QED
    BY <2>1, <1>1 DEF ShownToReceiver, EndOf
<1>6. LastIsSeen(t)'
  <2>1. LastEnd(s) > 0 => LastEnd(s) \in 1 .. painted[s]
    BY <1>2, <1>3
  <2> QED
    BY <2>1, <1>1 DEF LastIsSeen, LastEnd, EndOf
<1>7. ReceiverInBounds(t)' /\ DeafHasAll(t)'
  BY <1>1, <1>2 DEF ReceiverInBounds, DeafHasAll
<1> QED
  BY <1>5, <1>6, <1>7 DEF ViewOK

(* The next chunk goes on where the view ends, or is part of it already.   *)
LEMMA ReceiveView ==
  ASSUME TypeOK, ReaderOK, NEW t \in Terminal, ViewOK(t), Receive(t)
  PROVE  ViewOK(t)'
<1> DEFINE s == of[t]
           i == next[t]
<1>1. /\ at[t] = "live" /\ at'[t] = "live" /\ of'[t] = s /\ sent' = sent /\ painted' = painted
      /\ i <= Len(sent[s])
  BY DEF Receive, TypeOK, readerVars
<1>2. /\ s \in Life /\ i \in Nat \ {0} /\ Len(sent[s]) \in Nat /\ painted[s] \in Nat
      /\ i \in 1 .. Len(sent[s]) /\ Attached(t)
  BY <1>1 DEF TypeOK, Attached
<1>3. CASE i < Oldest(s)
  <2>1. next'[t] = Oldest(s) /\ lagged'[t] = TRUE
    BY <1>3 DEF Receive, TypeOK
  <2>2. Oldest(s) \in Nat /\ Oldest(s) <= Len(sent[s])
    BY <1>2, <1>3, CapAssumption DEF Oldest
  <2> QED
    BY <1>1, <1>2, <2>1, <2>2
    DEF ViewOK, ReceiverInBounds, ShownToReceiver, LastIsSeen, DeafHasAll
<1>4. CASE ~(i < Oldest(s))
  <2>1. /\ next'[t] = i + 1 /\ lagged' = lagged
        /\ seen'[t] = seen[t] \cup (EndOf(s, i - 1) + 1 .. EndOf(s, i))
    BY <1>4 DEF Receive, TypeOK, Chunk
  <2>2. /\ EndOf(s, i) \in Nat /\ EndOf(s, i - 1) \in Nat
        /\ EndOf(s, i - 1) < EndOf(s, i) /\ EndOf(s, i) <= LastEnd(s)
    BY <1>2, EndsAscend
  <2>3. LastEnd(s) \in Nat /\ LastEnd(s) <= painted[s]
    BY <1>2, LastIsPainted
  <2>4. ShownToReceiver(t)'
    <3>0. EndOf(of[t], next[t] - 1)' = EndOf(s, i)
      <4>1. next'[t] - 1 = i
        BY <1>2, <2>1
      <4> QED
        BY <4>1, <1>1 DEF EndOf
    <3> SUFFICES ASSUME ~lagged[t]
                 PROVE  \E n \in EndOf(s, i) .. painted[s] : seen'[t] = 1 .. n
      BY <3>0, <1>1, <1>2, <2>1 DEF ShownToReceiver
    <3>1. PICK m \in EndOf(s, i - 1) .. painted[s] : seen[t] = 1 .. m
      BY <1>2 DEF ViewOK, ShownToReceiver
    <3>2. m \in Nat
      BY <3>1, <2>2, <1>2
    <3>3. CASE m <= EndOf(s, i)
      <4>1. seen'[t] = 1 .. EndOf(s, i)
        BY <3>1, <3>2, <3>3, <2>1, <2>2
      <4>2. EndOf(s, i) \in EndOf(s, i) .. painted[s]
        BY <2>2, <2>3, <1>2
      <4> QED
        BY <4>1, <4>2
    <3>4. CASE m > EndOf(s, i)
      <4>1. seen'[t] = 1 .. m
        BY <3>1, <3>2, <3>4, <2>1, <2>2
      <4>2. m \in EndOf(s, i) .. painted[s]
        BY <3>1, <3>2, <3>4, <2>2, <1>2
      <4> QED
        BY <4>1, <4>2
    <3> QED
      BY <3>2, <3>3, <3>4, <2>2
  <2>5. LastIsSeen(t)'
    <3> SUFFICES ASSUME i + 1 = Len(sent[s]) + 1 PROVE LastEnd(s) \in seen'[t]
      BY <1>1, <2>1 DEF LastIsSeen, LastEnd, EndOf
    <3>1. LastEnd(s) = EndOf(s, i)
      BY <1>2 DEF LastEnd
    <3> QED
      BY <3>1, <2>1, <2>2
  <2>6. ReceiverInBounds(t)' /\ DeafHasAll(t)'
    BY <1>1, <1>2, <2>1 DEF ReceiverInBounds, DeafHasAll
  <2> QED
    BY <2>4, <2>5, <2>6 DEF ViewOK
<1> QED
  BY <1>3, <1>4

LEMMA StreamEndsView ==
  ASSUME TypeOK, NEW t \in Terminal, ViewOK(t), StreamEnds(t)
  PROVE  ViewOK(t)'
<1>1. /\ at[t] = "live" /\ at'[t] = "deaf" /\ UNCHANGED <<of, next, seen, lagged, step, sent, painted>>
      /\ next[t] = Len(sent[of[t]]) + 1 /\ step[of[t]] = "ended"
  BY DEF StreamEnds, TypeOK, readerVars
<1> QED
  BY <1>1 DEF ViewOK, ReceiverInBounds, ShownToReceiver, LastIsSeen, DeafHasAll,
              Holds, Attached, EndOf, LastEnd

(* Every step keeps every view. *)
LEMMA ViewStep ==
  ASSUME TypeOK, ReaderOK, [Next]_vars, \A t \in Terminal : ViewOK(t)
  PROVE  (\A t \in Terminal : ViewOK(t))'
<1> SUFFICES ASSUME NEW u \in Terminal PROVE ViewOK(u)'
  OBVIOUS
<1>0. at \in [Terminal -> {"asked", "subscribed", "live", "deaf", "closed"}]
  BY DEF TypeOK
<1> DEFINE Idle == /\ at'[u] = at[u] /\ of'[u] = of[u] /\ next'[u] = next[u]
                   /\ seen'[u] = seen[u] /\ lagged'[u] = lagged[u]
<1>1. Idle => ViewOK(u)'
  BY OnlookerKeepsView
<1>2. ASSUME NEW s \in Life, Say(s) \/ Quit(s) \/ Reader(s) PROVE Idle
  BY <1>2 DEF Say, Quit, Reader, ReadChunk, Process, Tee, EndOfOutput, terminalVars
<1>3. ASSUME Kill \/ Create \/ InputCommand PROVE Idle
  BY <1>3 DEF Kill, Create, InputCommand, terminalVars
<1>4. ASSUME UNCHANGED vars PROVE Idle
  BY <1>4 DEF vars, terminalVars
<1>5. ASSUME NEW t \in Terminal \ {u},
             Refuse(t) \/ Subscribe(t) \/ Capture(t) \/ Receive(t) \/ StreamEnds(t) \/ HangUp(t) \/ TypeRaw(t)
      PROVE  Idle
  BY <1>5, OneTerminalSteps
<1>6. ASSUME Refuse(u) \/ HangUp(u) PROVE ViewOK(u)'
  <2>1. at'[u] = "closed"
    BY <1>6, <1>0 DEF Refuse, HangUp, Close
  <2> QED
    BY <2>1, AwayIsOK
<1>7. ASSUME TypeRaw(u) PROVE ViewOK(u)'
  <2>1. CASE current # 0
    <3>1. Idle
      BY <1>7, <2>1 DEF TypeRaw
    <3> QED
      BY <3>1, <1>1
  <2>2. CASE current = 0
    <3>1. Close(u)
      BY <1>7, <2>2 DEF TypeRaw
    <3>2. at'[u] = "closed"
      BY <3>1, <1>0 DEF Close
    <3> QED
      BY <3>2, AwayIsOK
  <2> QED
    BY <2>1, <2>2
<1>8. ASSUME Subscribe(u) \/ Capture(u) \/ Receive(u) \/ StreamEnds(u) PROVE ViewOK(u)'
  BY <1>8, SubscribeView, CaptureView, ReceiveView, StreamEndsView
<1> QED
  BY <1>1, <1>2, <1>3, <1>4, <1>5, <1>6, <1>7, <1>8 DEF Next

-----------------------------------------------------------------------------
(* The invariant holds initially and is kept by every step. *)
LEMMA Inductive == Spec => []IInv
<1>1. Init => IInv
  <2> SUFFICES ASSUME Init PROVE IInv
    OBVIOUS
  <2>1. TypeOK
    BY TypesInit
  <2>2. ASSUME NEW s \in Life
        PROVE  ChunksAscend(s) /\ ChunksPositive(s) /\ ReaderInStep(s) /\ EndedIsDrained(s)
    <3>1. sent[s] = <<>> /\ painted[s] = 0 /\ taken[s] = 0 /\ step[s] = "reading"
      BY DEF Init
    <3>2. LastEnd(s) = 0
      BY <3>1 DEF LastEnd, EndOf
    <3> QED
      BY <3>1, <3>2 DEF ChunksAscend, ChunksPositive, ReaderInStep, EndedIsDrained
  <2>3. ASSUME NEW t \in Terminal PROVE ViewOK(t)
    <3>1. at[t] = "asked"
      BY DEF Init
    <3> QED
      BY <3>1 DEF ViewOK, ReceiverInBounds, ShownToReceiver, LastIsSeen, DeafHasAll, Holds, Attached
  <2> QED
    BY <2>1, <2>2, <2>3 DEF IInv, ReaderOK, DrainOK
<1>2. IInv /\ [Next]_vars => IInv'
  BY TypesStep, ReaderStep, DrainStep, ViewStep DEF IInv
<1> QED
  BY <1>1, <1>2, PTL DEF Spec

(* Every variable has its type. *)
THEOREM Types == Spec => []TypeOK
<1>1. IInv => TypeOK
  BY DEF IInv
<1> QED
  BY <1>1, Inductive, PTL

(* Whatever the reader thread does while a terminal subscribes and takes   *)
(* its first picture, the terminal is shown the output without a gap.      *)
THEOREM PictureAndStreamJoin == Spec => []NoGap
<1>1. IInv => NoGap
  <2> SUFFICES ASSUME IInv, NEW t \in Terminal, Attached(t), ~lagged[t]
               PROVE  \E n \in 0 .. painted[of[t]] : seen[t] = 1 .. n
    BY DEF NoGap
  <2>1. PICK n \in EndOf(of[t], next[t] - 1) .. painted[of[t]] : seen[t] = 1 .. n
    BY DEF IInv, ViewOK, ShownToReceiver
  <2>2. EndOf(of[t], next[t] - 1) \in Nat
    <3>1. TypeOK /\ ReceiverInBounds(t)
      BY DEF IInv, ViewOK
    <3>2. of[t] \in Life /\ next[t] \in Nat \ {0}
      BY <3>1 DEF TypeOK
    <3>3. sent[of[t]] \in Seq(Nat)
      BY <3>1, <3>2 DEF TypeOK
    <3>4. next[t] <= Len(sent[of[t]]) + 1
      BY <3>1 DEF ReceiverInBounds, Holds, Attached
    <3>5. next[t] - 1 \in 0 .. Len(sent[of[t]])
      BY <3>2, <3>3, <3>4
    <3> QED
      BY <3>1, <3>2, <3>5, EndTypes
  <2>3. painted[of[t]] \in Nat
    BY DEF IInv, TypeOK
  <2> QED
    BY <2>1, <2>2, <2>3
<1> QED
  BY <1>1, Inductive, PTL

(* A terminal whose stream has ended has been shown the end of the output, *)
(* and all of it if it never lagged: the reader drains the pty first.      *)
THEOREM StreamEndsWithLastByte == Spec => []EndIsShown
<1>1. IInv => EndIsShown
  <2> SUFFICES ASSUME IInv, NEW t \in Terminal, at[t] = "deaf"
               PROVE  /\ Written(of[t]) > 0 => Written(of[t]) \in seen[t]
                      /\ ~lagged[t] => 1 .. Written(of[t]) \subseteq seen[t]
    BY DEF EndIsShown
  <2> DEFINE s == of[t]
  <2>1. TypeOK /\ ReaderOK /\ DrainOK /\ ViewOK(t) /\ s \in Life /\ Attached(t)
    BY DEF IInv, TypeOK, Attached
  <2>2. step[s] = "ended" /\ next[t] = Len(sent[s]) + 1
    BY <2>1 DEF ViewOK, DeafHasAll
  <2>3. Written(s) = taken[s] /\ taken[s] = LastEnd(s) /\ painted[s] = LastEnd(s)
    BY <2>1, <2>2 DEF DrainOK, EndedIsDrained, ReaderOK, ReaderInStep
  <2>4. Written(s) > 0 => Written(s) \in seen[t]
    BY <2>1, <2>2, <2>3 DEF ViewOK, LastIsSeen
  <2>5. ASSUME ~lagged[t] PROVE 1 .. Written(s) \subseteq seen[t]
    <3>1. PICK n \in EndOf(s, next[t] - 1) .. painted[s] : seen[t] = 1 .. n
      BY <2>1, <2>5 DEF ViewOK, ShownToReceiver
    <3>2. EndOf(s, next[t] - 1) = LastEnd(s)
      <4>1. Len(sent[s]) \in Nat
        BY <2>1 DEF TypeOK
      <4>2. next[t] - 1 = Len(sent[s])
        BY <4>1, <2>2
      <4> QED
        BY <4>2 DEF LastEnd
    <3>3. LastEnd(s) \in Nat
      BY <2>1, LastIsPainted
    <3>4. n = LastEnd(s)
      BY <3>1, <3>2, <3>3, <2>3
    <3> QED
      BY <3>1, <3>4, <2>3
  <2> QED
    BY <2>4, <2>5
<1> QED
  BY <1>1, Inductive, PTL
=============================================================================
