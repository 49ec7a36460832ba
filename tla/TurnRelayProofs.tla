--------------------------- MODULE TurnRelayProofs ---------------------------
(***************************************************************************)
(* Proofs about TurnRelay, for every number of sessions, transcripts and   *)
(* turns, and for every habit the CLI may have.                            *)
(*                                                                         *)
(* The cursor theorems rest on one fact about the environment, that a      *)
(* transcript only grows (Growth), and one about the watcher, that every   *)
(* offset it keeps is a length it has seen (CursorInBounds, PinInBounds).  *)
(***************************************************************************)
EXTENDS TurnRelay, TLAPS

(* What has been read and not yet processed is in the transcript.          *)
BatchOK ==
  /\ batch.next >= 1
  /\ batch.next <= batch.upto => batch.of \in File
  /\ batch.of \in File => batch.upto <= Len(rows[batch.of])

(* A CLI that has run a turn has a transcript.                             *)
CliOK ==
  \A s \in Session :
    /\ cli[s].stage # "prompt" => cli[s].home \in File
    /\ cli[s].turn # 0 => cli[s].home \in File
    /\ s \notin live => cli[s].stage = "prompt" /\ cli[s].turn = 0

(* No length noted at the pin is beyond the end of its file.               *)
PinInBounds == \A s \in Session : \A f \in File : atPin[s][f] <= Size(f)

(* A turn is held open only without text, but for the session whose rows   *)
(* are being processed.                                                    *)
HeldOK ==
  \A s \in Session :
    (s # batch.who \/ batch.of = NoFile) /\ acc[s].pending =>
      acc[s].parts = <<>> /\ acc[s].open

(* During a visit the watcher's exclusions are the pins of the tick.       *)
TickOK ==
  /\ tick.todo \subseteq live
  /\ batch.who \in Session =>
       /\ batch.who \in tick.todo
       /\ excluded[batch.who] = SiblingPins(batch.who, tick.pins)

IInv ==
  /\ TypeOK /\ BatchOK /\ CliOK /\ CursorInBounds /\ PinInBounds /\ HeldOK /\ TickOK

-----------------------------------------------------------------------------
(* Sizes and offsets. *)
LEMMA Sizes ==
  ASSUME TranscriptTypeOK
  PROVE  /\ \A f \in File \cup {NoFile} : Size(f) \in Nat
         /\ \A f \in File : /\ Len(rows[f]) \in Nat /\ Whole(f) \in Nat
                            /\ Whole(f) <= Len(rows[f]) /\ 2 * Whole(f) <= Size(f)
         /\ Size(NoFile) = 0
<1> USE FileAssumption DEF Size, Whole
<1>1. ASSUME NEW f \in File
      PROVE  /\ Len(rows[f]) \in Nat /\ half[f] \in BOOLEAN
             /\ half[f] => Len(rows[f]) > 0
  BY DEF TranscriptTypeOK
<1>2. ASSUME NEW f \in File
      PROVE  /\ Size(f) \in Nat /\ Whole(f) \in Nat /\ Whole(f) <= Len(rows[f])
             /\ 2 * Whole(f) <= Size(f)
  <2>1. f # NoFile /\ Len(rows[f]) \in Nat /\ (half[f] => Len(rows[f]) > 0)
    BY <1>1
  <2>2. CASE half[f]
    BY <2>1, <2>2
  <2>3. CASE ~half[f]
    BY <2>1, <2>3
  <2> QED BY <2>2, <2>3
<1> QED BY <1>1, <1>2

LEMMA NewestIn ==
  ASSUME NEW S \in SUBSET File
  PROVE  Newest(S) \in S \cup {NoFile}
  BY DEF Newest

LEMMA ActiveIn ==
  ASSUME NEW s, NEW ex
  PROVE  FindActive(s, ex) \in (Existing \ ex) \cup {NoFile}
<1> DEFINE cands == Existing \ ex
           convs == {f \in cands : IsConversation(f)}
<1>1. cands \in SUBSET File /\ convs \in SUBSET File /\ convs \subseteq cands
  BY DEF Existing
<1>2. Newest(cands) \in cands \cup {NoFile} /\ Newest(convs) \in convs \cup {NoFile}
  BY <1>1, NewestIn
<1> QED BY <1>1, <1>2 DEF FindActive

-----------------------------------------------------------------------------
(* What a CLI does to the transcripts. *)
Growth ==
  /\ TranscriptTypeOK'
  /\ \A f \in File \cup {NoFile} : Size(f)' >= Size(f)

LEMMA AppendGrows ==
  ASSUME TranscriptTypeOK, NEW f \in File, NEW r \in Row, Append1(f, r)
  PROVE  Growth
<1>1. PICK cut \in BOOLEAN : half' = [half EXCEPT ![f] = cut]
  BY DEF Append1
<1>2. rows' = [rows EXCEPT ![f] = Append(@, r)] /\ Touch(f)
  BY DEF Append1
<1>3. newer' \in SUBSET (File \X File)
  BY <1>2 DEF Touch, TranscriptTypeOK, Existing
<1>4. ASSUME NEW g \in File
      PROVE  /\ rows'[g] = IF g = f THEN Append(rows[g], r) ELSE rows[g]
             /\ half'[g] = IF g = f THEN cut ELSE half[g]
             /\ Len(rows[g]) \in Nat
             /\ Len(rows'[g]) = IF g = f THEN Len(rows[g]) + 1 ELSE Len(rows[g])
             /\ rows'[g] \in Seq(Row)
  BY <1>1, <1>2 DEF TranscriptTypeOK
<1>5. TranscriptTypeOK'
  <2>1. rows' \in [File -> Seq(Row)] /\ half' \in [File -> BOOLEAN]
    BY <1>1, <1>2 DEF TranscriptTypeOK
  <2>2. \A g \in File : half'[g] => rows'[g] # <<>>
    BY <1>4 DEF TranscriptTypeOK
  <2> QED BY <1>3, <2>1, <2>2 DEF TranscriptTypeOK
<1>6. ASSUME NEW g \in File PROVE Size(g)' >= Size(g)
  <2>1. half[g] \in BOOLEAN /\ half'[g] \in BOOLEAN /\ g # NoFile
    BY <1>5, FileAssumption DEF TranscriptTypeOK
  <2>2. CASE g # f
    <3>1. rows'[g] = rows[g] /\ half'[g] = half[g]
      BY <2>2, <1>4
    <3>2. Size(g)' = Size(g)
      BY <3>1 DEF Size
    <3> QED BY <3>2, Sizes
  <2>3. CASE g = f
    <3>1. Len(rows[g]) \in Nat /\ Len(rows'[g]) = Len(rows[g]) + 1
      BY <2>3, <1>4
    <3>2. Size(g) = 2 * Len(rows[g]) \/ Size(g) = 2 * Len(rows[g]) - 1
      <4>1. CASE half[g]
        BY <4>1, <2>1, <3>1 DEF Size
      <4>2. CASE ~half[g]
        BY <4>2, <2>1, <3>1 DEF Size
      <4> QED BY <4>1, <4>2
    <3>3. Size(g)' = 2 * Len(rows'[g]) \/ Size(g)' = 2 * Len(rows'[g]) - 1
      <4>1. CASE half'[g]
        BY <4>1, <2>1, <3>1 DEF Size
      <4>2. CASE ~half'[g]
        BY <4>2, <2>1, <3>1 DEF Size
      <4> QED BY <4>1, <4>2
    <3> QED BY <3>1, <3>2, <3>3
  <2> QED BY <2>2, <2>3
<1>7. Size(NoFile)' >= Size(NoFile)
  BY DEF Size
<1> QED BY <1>5, <1>6, <1>7 DEF Growth

LEMMA FinishGrows ==
  ASSUME TranscriptTypeOK, NEW f \in File, half[f], rows' = rows,
         half' = [half EXCEPT ![f] = FALSE], Touch(f)
  PROVE  Growth
<1>1. newer' \in SUBSET (File \X File)
  BY DEF Touch, TranscriptTypeOK, Existing
<1>2. TranscriptTypeOK'
  BY <1>1 DEF TranscriptTypeOK
<1>3. \A g \in File : Len(rows[g]) \in Nat /\ half'[g] = IF g = f THEN FALSE ELSE half[g]
  BY DEF TranscriptTypeOK
<1>4. \A g \in File \cup {NoFile} : Size(g)' >= Size(g)
  BY <1>3, FileAssumption DEF Size, TranscriptTypeOK
<1> QED BY <1>2, <1>4 DEF Growth

(* A file that did not exist gets its first rows. *)
LEMMA BirthGrows ==
  ASSUME TranscriptTypeOK, NEW f \in Fresh, NEW R \in Seq(Row),
         rows' = [rows EXCEPT ![f] = R], half' = half, Touch(f)
  PROVE  Growth
<1>1. f \in File /\ rows[f] = <<>> /\ ~half[f]
  BY DEF Fresh, Existing, TranscriptTypeOK
<1>2. newer' \in SUBSET (File \X File)
  BY <1>1 DEF Touch, TranscriptTypeOK, Existing
<1>3. TranscriptTypeOK'
  BY <1>1, <1>2 DEF TranscriptTypeOK
<1>4. \A g \in File : /\ Len(rows[g]) \in Nat /\ Len(rows'[g]) \in Nat
                      /\ rows'[g] = IF g = f THEN R ELSE rows[g]
  BY <1>1, <1>3 DEF TranscriptTypeOK
<1>5. Len(rows[f]) = 0
  BY <1>1
<1>6. ASSUME NEW g \in File PROVE Size(g)' >= Size(g)
  BY <1>1, <1>4, <1>5, FileAssumption DEF Size, TranscriptTypeOK
<1>7. Size(NoFile)' >= Size(NoFile)
  BY DEF Size
<1> QED BY <1>3, <1>6, <1>7 DEF Growth

(* What a CLI step of s leaves behind. *)
CliAfter(s) ==
  /\ Growth
  /\ CliTypeOK'
  /\ cli'[s].home \in File
  /\ \A o \in Session \ {s} : cli'[o] = cli[o]

LEMMA WriteFacts ==
  ASSUME TranscriptTypeOK, CliTypeOK, NEW s \in Session, NEW kind \in Kind,
         NEW stage \in Stage, cli[s].home \in File, Write(s, kind, stage)
  PROVE  /\ Growth
         /\ cli' \in [Session -> CliState]
         /\ cli'[s].home \in File
         /\ \A o \in Session \ {s} : cli'[o] = cli[o]
         /\ UNCHANGED <<inbox, nextTurn, owner>>
<1> DEFINE i == IF kind \in {"text", "textEnd", "tool", "result"} THEN cli[s].n + 1
                ELSE cli[s].n
           m == IF i > cli[s].n THEN i ELSE 0
           r == MkRow(kind, cli[s].turn, m)
<1>1. cli[s] \in CliState /\ cli[s].n \in Nat /\ cli[s].turn \in Turn
  BY DEF CliTypeOK, CliState
<1>2. i \in Nat /\ m \in Nat
  BY <1>1
<1>3. r \in Row
  BY <1>1, <1>2 DEF MkRow, Row
<1>4. /\ Append1(cli[s].home, r)
      /\ cli' = [cli EXCEPT ![s].stage = stage, ![s].n = i]
      /\ UNCHANGED <<inbox, nextTurn, owner>>
  BY DEF Write
<1> HIDE DEF i, m, r
<1>5. Growth
  BY <1>3, <1>4, AppendGrows
<1>6. cli' \in [Session -> CliState] /\ cli'[s].home = cli[s].home
      /\ \A o \in Session \ {s} : cli'[o] = cli[o]
  BY <1>1, <1>2, <1>4 DEF CliTypeOK, CliState
<1> QED BY <1>4, <1>5, <1>6

LEMMA TakeUpFacts ==
  ASSUME TranscriptTypeOK, CliTypeOK, NEW s \in Session, NEW t \in 1 .. MaxTurn, TakeUp(s, t)
  PROVE  /\ Growth
         /\ cli' \in [Session -> CliState]
         /\ cli'[s].home \in File
         /\ \A o \in Session \ {s} : cli'[o] = cli[o]
         /\ owner' \in [1 .. MaxTurn -> Session \cup {NoSession}]
<1>1. PICK f \in HomeOf(s) :
        /\ Append1(f, MkRow("user", t, 0))
        /\ cli' = [cli EXCEPT ![s] = [stage |-> "body", turn |-> t, n |-> 0, home |-> f]]
  BY DEF TakeUp
<1>2. f \in File
  <2>1. cli[s].home \in File \cup {NoFile}
    BY DEF CliTypeOK, CliState
  <2> QED BY <2>1 DEF HomeOf, Fresh
<1>3. t \in Turn /\ MkRow("user", t, 0) \in Row
  BY TurnAssumption DEF MkRow, Row, Kind, Turn
<1>4. Growth
  BY <1>1, <1>2, <1>3, AppendGrows
<1>5. /\ cli' \in [Session -> CliState] /\ cli'[s].home \in File
      /\ \A o \in Session \ {s} : cli'[o] = cli[o]
  BY <1>1, <1>2, <1>3 DEF CliTypeOK, CliState, Stage
<1>6. owner' \in [1 .. MaxTurn -> Session \cup {NoSession}]
  BY DEF TakeUp, CliTypeOK
<1> QED BY <1>4, <1>5, <1>6

LEMMA CliStepFacts ==
  ASSUME TranscriptTypeOK, CliTypeOK, CliOK, NEW s \in Session,
         CliStep(s) \/ StartOrganic(s)
  PROVE  CliAfter(s)
<1> USE DEF CliAfter
<1>a. cli[s] \in CliState /\ cli[s].home \in File \cup {NoFile}
  BY DEF CliTypeOK, CliState
<1>1. CASE FinishRow(s)
  <2>1. cli[s].home \in File
    BY <1>1, <1>a DEF FinishRow
  <2>2. Growth
    BY <1>1, <2>1, FinishGrows DEF FinishRow
  <2> QED BY <1>1, <2>1, <2>2 DEF FinishRow, cliVars, CliTypeOK
<1>2. CASE StartSent(s)
  <2>1. inbox[s] \in 1 .. MaxTurn
    BY <1>2, TurnAssumption DEF StartSent, CliTypeOK, Turn
  <2>2. inbox' \in [Session -> Turn] /\ UNCHANGED <<nextTurn, length>>
    BY <1>2, TurnAssumption DEF StartSent, CliTypeOK, Turn
  <2> QED BY <1>2, <2>1, <2>2, TakeUpFacts DEF StartSent, CliTypeOK
<1>3. CASE StartOrganic(s)
  <2>1. nextTurn \in 1 .. MaxTurn /\ nextTurn' \in 1 .. MaxTurn + 1
    BY <1>3, TurnAssumption DEF StartOrganic, CliTypeOK
  <2> QED BY <1>3, <2>1, TakeUpFacts DEF StartOrganic, CliTypeOK
<1>4. CASE \/ WriteText(s) \/ CallTool(s) \/ ToolAnswers(s) \/ WriteThinking(s)
           \/ EndEmpty(s) \/ Interrupt(s)
  <2>1. PICK kind \in Kind, stage \in Stage : Write(s, kind, stage)
    BY <1>4 DEF WriteText, CallTool, ToolAnswers, WriteThinking, EndEmpty, Interrupt, Kind, Stage
  <2>2. cli[s].home \in File
    BY <1>4 DEF WriteText, CallTool, ToolAnswers, WriteThinking, EndEmpty, Interrupt, CliAt, CliOK
  <2>3. length' = length
    BY <1>4 DEF WriteText, CallTool, ToolAnswers, WriteThinking, EndEmpty, Interrupt
  <2> QED BY <2>1, <2>2, <2>3, WriteFacts DEF CliTypeOK
<1>5. CASE WriteReply(s)
  <2>1. cli[s].home \in File /\ Write(s, "textEnd", "prompt")
    BY <1>5 DEF WriteReply, CliAt, CliOK
  <2>2. "textEnd" \in Kind /\ "prompt" \in Stage
    BY DEF Kind, Stage
  <2>3. length' \in [1 .. MaxTurn -> Nat]
    <3>1. cli[s].n + 1 \in Nat
      BY <1>a DEF CliState
    <3> QED BY <1>5, <3>1 DEF WriteReply, CliTypeOK
  <2> QED BY <2>1, <2>2, <2>3, WriteFacts DEF CliTypeOK
<1>6. CASE WriteMeta(s)
  <2>1. cli[s].home \in File /\ MkRow("meta", 0, 0) \in Row
    BY <1>6, <1>a, TurnAssumption DEF WriteMeta, MkRow, Row, Kind, Turn
  <2> QED BY <1>6, <2>1, AppendGrows DEF WriteMeta, cliVars, CliTypeOK
<1>7. CASE ResumeFork(s)
  <2>1. PICK f \in Fresh : /\ Append1(f, MkRow("meta", 0, 0))
                           /\ cli' = [cli EXCEPT ![s].home = f]
    BY <1>7 DEF ResumeFork
  <2>2. f \in File /\ MkRow("meta", 0, 0) \in Row
    BY TurnAssumption DEF Fresh, MkRow, Row, Kind, Turn
  <2>3. Growth
    BY <2>1, <2>2, AppendGrows
  <2>4. /\ cli' \in [Session -> CliState] /\ cli'[s].home \in File
        /\ \A o \in Session \ {s} : cli'[o] = cli[o]
    BY <2>1, <2>2 DEF CliTypeOK, CliState
  <2> QED BY <1>7, <2>3, <2>4 DEF ResumeFork, CliTypeOK
<1>8. CASE ReplyFork(s)
  <2>1. PICK f \in Fresh : /\ rows' = [rows EXCEPT ![f] = rows[cli[s].home]]
                           /\ Touch(f) /\ cli' = [cli EXCEPT ![s].home = f]
    BY <1>8 DEF ReplyFork
  <2>2. f \in File /\ cli[s].home \in File
    BY <1>8 DEF Fresh, ReplyFork, CliOK
  <2>3. rows[cli[s].home] \in Seq(Row) /\ half' = half
    BY <1>8, <2>2 DEF ReplyFork, TranscriptTypeOK
  <2>4. Growth
    BY <2>1, <2>3, BirthGrows
  <2>5. /\ cli' \in [Session -> CliState] /\ cli'[s].home \in File
        /\ \A o \in Session \ {s} : cli'[o] = cli[o]
    BY <2>1, <2>2 DEF CliTypeOK, CliState
  <2> QED BY <1>8, <2>4, <2>5 DEF ReplyFork, CliTypeOK
<1> QED
  BY <1>1, <1>2, <1>3, <1>4, <1>5, <1>6, <1>7, <1>8 DEF CliStep

LEMMA SidecarFacts ==
  ASSUME TranscriptTypeOK, WriteSidecar
  PROVE  Growth /\ UNCHANGED cliVars
<1>1. PICK f \in Fresh : /\ rows' = [rows EXCEPT ![f] = <<MkRow("meta", 0, 0)>>]
                         /\ Touch(f)
  BY DEF WriteSidecar
<1>2. <<MkRow("meta", 0, 0)>> \in Seq(Row)
  BY TurnAssumption DEF MkRow, Row, Kind, Turn
<1> QED BY <1>1, <1>2, BirthGrows DEF WriteSidecar

-----------------------------------------------------------------------------
(* What the watcher does with its cursor. *)

(* A batch of s that is within its transcript. *)
GoodBatch(s, b) ==
  /\ b \in Batch /\ b.who = s /\ b.next >= 1
  /\ b.next <= b.upto => b.of \in File
  /\ b.of \in File => b.upto <= Len(rows[b.of])

LEMMA NothingFacts ==
  ASSUME NEW s \in Session \cup {NoSession}
  PROVE  GoodBatch(s, Nothing(s))
<1>1. <<>> \in Seq(Seq(Part))
  OBVIOUS
<1> QED BY <1>1, FileAssumption DEF GoodBatch, Batch, Nothing

LEMMA ReadingFacts ==
  ASSUME TranscriptTypeOK, NEW s \in Session, NEW f \in File, NEW from \in Nat
  PROVE  /\ GoodBatch(s, Reading(s, f, from))
         /\ ReadTo(f, from) \in Nat /\ ReadTo(f, from) >= from
         /\ from <= Size(f) => ReadTo(f, from) <= Size(f)
<1>1. /\ Whole(f) \in Nat /\ Whole(f) <= Len(rows[f]) /\ 2 * Whole(f) <= Size(f)
      /\ Size(f) \in Nat /\ Len(rows[f]) \in Nat
  BY Sizes
<1>2. GoodBatch(s, Nothing(s))
  BY NothingFacts
<1>3. GoodBatch(s, Reading(s, f, from))
  <2>1. CASE 2 * Whole(f) <= from
    BY <2>1, <1>2 DEF Reading
  <2>2. CASE ~(2 * Whole(f) <= from)
    <3> DEFINE k == (from + 1) \div 2 + 1
    <3>1. k \in Nat /\ k >= 1
      OBVIOUS
    <3> HIDE DEF k
    <3>2. Reading(s, f, from) = [who |-> s, of |-> f, next |-> k, upto |-> Whole(f),
                                 completed |-> FALSE, out |-> <<>>]
      BY <2>2 DEF Reading, k
    <3>3. <<>> \in Seq(Seq(Part))
      OBVIOUS
    <3> QED BY <3>1, <3>2, <3>3, <1>1 DEF GoodBatch, Batch
  <2> QED BY <2>1, <2>2
<1>4. /\ ReadTo(f, from) \in Nat /\ ReadTo(f, from) >= from
      /\ from <= Size(f) => ReadTo(f, from) <= Size(f)
  BY <1>1 DEF ReadTo
<1> QED BY <1>2, <1>3, <1>4

(* Where a watcher is after set_excluded. *)
LEMMA RepinFacts ==
  ASSUME TypeOK, CursorInBounds, NEW s \in Session, NEW ex \in SUBSET File
  PROVE  LET f == Repinned(s, ex)
             p == RepinnedPos(s, ex)
         IN  /\ f \in File \cup {NoFile} /\ p \in Nat /\ p <= Size(f)
             /\ f = file[s] => p >= pos[s]
             /\ f # file[s] => f \notin ex /\ file[s] \in ex
             /\ f \notin ex
<1>1. TranscriptTypeOK /\ file[s] \in File \cup {NoFile} /\ pos[s] \in Nat /\ pos[s] <= Size(file[s])
  BY DEF TypeOK, WatcherTypeOK, CursorInBounds
<1>2. FindActive(s, ex) \in (File \ ex) \cup {NoFile} /\ NoFile \notin ex
  BY ActiveIn, FileAssumption DEF Existing
<1>3. Size(FindActive(s, ex)) \in Nat
  BY <1>1, <1>2, Sizes
<1>4. CASE file[s] \in ex
  BY <1>1, <1>2, <1>3, <1>4 DEF Repinned, RepinnedPos
<1>5. CASE file[s] \notin ex
  BY <1>1, <1>5 DEF Repinned, RepinnedPos
<1> QED BY <1>4, <1>5

(* What a visit of s does to its cursor and batch. *)
VisitAfter(s, ex) ==
  /\ file' \in [Session -> File \cup {NoFile}] /\ pos' \in [Session -> Nat]
  /\ pos'[s] <= Size(file'[s])
  /\ file'[s] = file[s] => pos'[s] >= pos[s]
  /\ file'[s] # file[s] => file'[s] \notin ex
  /\ \A o \in Session \ {s} : file'[o] = file[o] /\ pos'[o] = pos[o]
  /\ pinnedId' \in [Session -> File \cup {NoFile}]
  /\ hint' \in [Session -> File \cup {NoFile}]
  /\ newSincePin' \in [Session -> BOOLEAN]
  /\ GoodBatch(s, batch')

(* The cursor part of it, for a watcher moved to g at q. *)
LEMMA MoveFacts ==
  ASSUME TypeOK, NEW s \in Session, NEW ex \in SUBSET File,
         NEW g \in File \cup {NoFile}, NEW q \in Nat, q <= Size(g),
         g = file[s] => q >= pos[s], g # file[s] => g \notin ex,
         file' = [file EXCEPT ![s] = g], pos' = [pos EXCEPT ![s] = q]
  PROVE  /\ file' \in [Session -> File \cup {NoFile}] /\ pos' \in [Session -> Nat]
         /\ pos'[s] <= Size(file'[s])
         /\ file'[s] = file[s] => pos'[s] >= pos[s]
         /\ file'[s] # file[s] => file'[s] \notin ex
         /\ \A o \in Session \ {s} : file'[o] = file[o] /\ pos'[o] = pos[o]
  BY DEF TypeOK, WatcherTypeOK

LEMMA PollFacts ==
  ASSUME TypeOK, CursorInBounds, PinInBounds, NEW s \in Session, NEW ex \in SUBSET File,
         PollOpen(s, ex)
  PROVE  VisitAfter(s, ex)
<1> DEFINE f == Repinned(s, ex)
           p == RepinnedPos(s, ex)
<1>1. /\ f \in File \cup {NoFile} /\ p \in Nat /\ p <= Size(f)
      /\ f = file[s] => p >= pos[s]
      /\ f # file[s] => f \notin ex /\ file[s] \in ex
      /\ f \notin ex
  BY RepinFacts
<1>2. /\ TranscriptTypeOK /\ pinnedId \in [Session -> File \cup {NoFile}]
      /\ hint \in [Session -> File \cup {NoFile}] /\ newSincePin \in [Session -> BOOLEAN]
  BY DEF TypeOK, WatcherTypeOK
<1>3. \/ (f = NoFile /\ PollFirstFile(s, ex))
      \/ (f # NoFile /\ PollGrown(s, f, p))
      \/ (f # NoFile /\ PollSilent(s, f, p, ex))
      \/ (f # NoFile /\ PollRoll(s, f, p, ex))
  BY DEF PollOpen
<1> HIDE DEF f, p
<1> USE DEF VisitAfter
<1>4. CASE f = NoFile /\ PollFirstFile(s, ex)
  <2> DEFINE g == FindActive(s, ex)
             q == IF g = NoFile THEN 0 ELSE ReadTo(g, 0)
  <2>1. g \in (File \ ex) \cup {NoFile} /\ NoFile \notin ex
    BY ActiveIn, FileAssumption DEF Existing
  <2>2. q \in Nat /\ q <= Size(g)
    BY <1>2, <2>1, ReadingFacts, Sizes
  <2>3. file' = [file EXCEPT ![s] = g] /\ pos' = [pos EXCEPT ![s] = q]
        /\ batch' = (IF g = NoFile THEN Nothing(s) ELSE Reading(s, g, 0))
        /\ UNCHANGED <<pinnedId, hint, newSincePin>>
    BY <1>4 DEF PollFirstFile
  <2>4. g = file[s] => q >= pos[s]
    <3>1. pos[s] <= Size(file[s]) /\ pos[s] \in Nat
      BY DEF CursorInBounds, TypeOK, WatcherTypeOK
    <3>2. file[s] = NoFile \/ file[s] \in ex
      BY <1>1, <1>4
    <3>3. CASE file[s] = NoFile
      BY <3>1, <3>3, <2>2, Sizes, <1>2
    <3> QED BY <3>2, <3>3, <2>1
  <2>5. GoodBatch(s, batch')
    <3>1. CASE g = NoFile
      BY <3>1, <2>3, NothingFacts
    <3>2. CASE g # NoFile
      BY <3>2, <2>1, <2>3, <1>2, ReadingFacts
    <3> QED BY <3>1, <3>2
  <2> HIDE DEF g, q
  <2> QED BY <1>2, <2>1, <2>2, <2>3, <2>4, <2>5, MoveFacts
<1>5. CASE f # NoFile /\ PollGrown(s, f, p)
  <2>1. f \in File /\ Size(f) > p
    BY <1>1, <1>5 DEF PollGrown
  <2>2. ReadTo(f, p) \in Nat /\ ReadTo(f, p) >= p /\ ReadTo(f, p) <= Size(f)
        /\ GoodBatch(s, Reading(s, f, p))
    BY <1>1, <1>2, <2>1, ReadingFacts
  <2>3. f = file[s] => ReadTo(f, p) >= pos[s]
    BY <1>1, <2>2 DEF TypeOK, WatcherTypeOK
  <2> QED BY <1>1, <1>2, <1>5, <2>1, <2>2, <2>3, MoveFacts DEF PollGrown
<1>6. CASE f # NoFile /\ PollSilent(s, f, p, ex)
  <2>1. GoodBatch(s, Nothing(s))
    BY NothingFacts
  <2>2. newSincePin' \in [Session -> BOOLEAN]
    BY <1>2, <1>6 DEF PollSilent, SeesNewFile
  <2> QED BY <1>1, <1>2, <1>6, <2>1, <2>2, MoveFacts DEF PollSilent
<1>7. CASE f # NoFile /\ PollRoll(s, f, p, ex)
  <2> DEFINE g == Newest(RollTargets(s, f, p, ex))
             from == RollStart(s, g)
  <2>1. g \in RollTargets(s, f, p, ex)
    <3>1. RollTargets(s, f, p, ex) \in SUBSET File
      BY DEF RollTargets, Considered, Existing
    <3> QED BY <3>1, <1>7, NewestIn DEF PollRoll
  <2>2. g \in File /\ g # f /\ g \notin ex
    BY <2>1 DEF RollTargets, Considered, Existing
  <2>3. g # file[s]
    BY <1>1, <2>2
  <2>4. from \in Nat /\ from <= Size(g)
    <3>1. atPin[s][g] \in Nat /\ atPin[s][g] <= Size(g) /\ Size(g) \in Nat
      BY <1>2, <2>2, Sizes DEF TypeOK, WatcherTypeOK, PinInBounds
    <3> QED BY <3>1 DEF RollStart, StartOf
  <2>5. ReadTo(g, from) \in Nat /\ ReadTo(g, from) <= Size(g) /\ GoodBatch(s, Reading(s, g, from))
    BY <1>2, <2>2, <2>4, ReadingFacts
  <2>6. /\ file' = [file EXCEPT ![s] = g] /\ pos' = [pos EXCEPT ![s] = ReadTo(g, from)]
        /\ pinnedId' = [pinnedId EXCEPT ![s] = g] /\ hint' = [hint EXCEPT ![s] = NoFile]
        /\ newSincePin' = [newSincePin EXCEPT ![s] = @ \/ SeesNewFile(s, f, ex)]
        /\ batch' = Reading(s, g, from)
    BY <1>7 DEF PollRoll
  <2>7. newSincePin' \in [Session -> BOOLEAN]
    BY <1>2, <2>6 DEF SeesNewFile
  <2> HIDE DEF g, from
  <2> QED BY <1>2, <2>2, <2>3, <2>5, <2>6, <2>7, MoveFacts
<1> QED BY <1>3, <1>4, <1>5, <1>6, <1>7
-----------------------------------------------------------------------------
(* The steps. *)

(* What stays true of offsets while transcripts only grow. *)
LEMMA OffsetsStay ==
  ASSUME IInv, Growth, UNCHANGED <<file, pos, atPin>>
  PROVE  CursorInBounds' /\ PinInBounds'
<1>1. TranscriptTypeOK /\ pos \in [Session -> Nat] /\ file \in [Session -> File \cup {NoFile}]
      /\ atPin \in [Session -> [File -> Nat]]
  BY DEF IInv, TypeOK, WatcherTypeOK
<1>2. \A f \in File \cup {NoFile} : Size(f) \in Nat
  BY <1>1, Sizes
<1>3. \A f \in File \cup {NoFile} : Size(f)' \in Nat /\ Size(f)' >= Size(f)
  <2>1. TranscriptTypeOK'
    BY DEF Growth
  <2>2. ASSUME NEW f \in File \cup {NoFile} PROVE Size(f)' \in Nat
    <3>1. CASE f = NoFile
      BY <3>1 DEF Size
    <3>2. CASE f # NoFile
      <4>1. f \in File /\ Len(rows'[f]) \in Nat /\ half'[f] \in BOOLEAN
            /\ (half'[f] => Len(rows'[f]) > 0)
        BY <2>1, <3>2 DEF TranscriptTypeOK
      <4> QED BY <4>1 DEF Size
    <3> QED BY <3>1, <3>2
  <2> QED BY <2>2 DEF Growth
<1>4. ASSUME NEW s \in Session PROVE pos'[s] <= Size(file[s])'
  <2>1. file[s] \in File \cup {NoFile} /\ pos[s] \in Nat /\ pos[s] <= Size(file[s])
    BY <1>1 DEF IInv, CursorInBounds
  <2>2. PICK f \in File \cup {NoFile} : f = file[s]
    BY <2>1
  <2>3. Size(f)' >= Size(f) /\ Size(f)' \in Nat /\ Size(f) \in Nat /\ pos[s] <= Size(f)
    BY <1>2, <1>3, <2>1, <2>2
  <2>4. Size(file[s])' = Size(f)'
    BY <2>2 DEF Size
  <2> QED BY <2>1, <2>3, <2>4
<1>5. ASSUME NEW s \in Session, NEW f \in File PROVE atPin'[s][f] <= Size(f)'
  <2>1. atPin[s][f] \in Nat /\ atPin[s][f] <= Size(f)
    BY <1>1 DEF IInv, PinInBounds
  <2> QED BY <2>1, <1>2, <1>3
<1> QED BY <1>4, <1>5 DEF CursorInBounds, PinInBounds

(* A write by a CLI. *)
LEMMA CliWritesStep ==
  ASSUME IInv, CliWrites
  PROVE  IInv'
<1>1. /\ TranscriptTypeOK /\ WatcherTypeOK /\ CliTypeOK /\ CliOK /\ TypeOK
      /\ still \in [Session -> 0 .. Quiet]
  BY DEF IInv, TypeOK
<1>2. /\ batch = Idle
      /\ UNCHANGED <<pinVars, excluded, acc, batch, live, observing, asked, tick, log>>
      /\ touched' = [s \in Session |-> touched[s] \cup WrittenNow]
  BY DEF CliWrites
<1>3. Growth /\ CliTypeOK' /\ CliOK' /\ still' \in [Session -> 0 .. Quiet]
  <2>1. CASE WriteSidecar /\ UNCHANGED still
    <3>1. Growth /\ UNCHANGED cliVars
      BY <1>1, <2>1, SidecarFacts
    <3> QED BY <1>1, <1>2, <2>1, <3>1 DEF cliVars, CliTypeOK, CliOK
  <2>2. ASSUME NEW s \in live, CliStep(s) \/ StartOrganic(s),
               still' = [still EXCEPT ![s] = 0]
        PROVE  Growth /\ CliTypeOK' /\ CliOK' /\ still' \in [Session -> 0 .. Quiet]
    <3>1. s \in Session
      BY DEF IInv, TypeOK
    <3>2. CliAfter(s)
      BY <1>1, <2>2, <3>1, CliStepFacts
    <3>3. CliOK'
      BY <1>1, <1>2, <3>1, <3>2 DEF CliOK, CliAfter
    <3>4. 0 \in 0 .. Quiet
      BY QuietAssumption
    <3> QED BY <1>1, <2>2, <3>1, <3>2, <3>3, <3>4 DEF CliAfter
  <2> QED BY <2>1, <2>2 DEF CliWrites
<1>4. touched' \in [Session -> SUBSET File]
  BY <1>1, <1>2 DEF WatcherTypeOK, WrittenNow
<1>5. TypeOK'
  BY <1>2, <1>3, <1>4 DEF IInv, TypeOK, WatcherTypeOK, Growth, pinVars
<1>6. CursorInBounds' /\ PinInBounds'
  BY <1>2, <1>3, OffsetsStay DEF pinVars
<1>7. BatchOK'
  BY <1>2, FileAssumption DEF BatchOK, Idle, Nothing
<1>8. HeldOK' /\ TickOK'
  BY <1>2 DEF IInv, HeldOK, TickOK, SiblingPins
<1> QED BY <1>3, <1>5, <1>6, <1>7, <1>8 DEF IInv

(* The transcripts are left alone. *)
LEMMA Still ==
  ASSUME TranscriptTypeOK, UNCHANGED transcriptVars
  PROVE  Growth
<1>1. \A f \in File \cup {NoFile} : Size(f) \in Nat
  BY Sizes
<1>2. TranscriptTypeOK'
  BY DEF TranscriptTypeOK, transcriptVars
<1>3. \A f \in File \cup {NoFile} : Size(f)' = Size(f)
  BY DEF Size, transcriptVars
<1> QED BY <1>1, <1>2, <1>3 DEF Growth

(* The monitor takes the pins. *)
LEMMA StartTickStep ==
  ASSUME IInv, StartTick
  PROVE  IInv'
<1>1. /\ UNCHANGED <<transcriptVars, watcherVars, cliVars, live, observing, asked, still, log>>
      /\ tick' = [todo |-> live, pins |-> file] /\ batch = Idle
  BY DEF StartTick, Free
<1>2. TypeOK'
  BY <1>1 DEF IInv, TypeOK, TranscriptTypeOK, WatcherTypeOK, CliTypeOK, transcriptVars,
              watcherVars, pinVars, cliVars
<1>3. CursorInBounds' /\ PinInBounds'
  BY <1>1, Still, OffsetsStay DEF IInv, TypeOK, watcherVars, pinVars
<1>4. BatchOK' /\ CliOK' /\ HeldOK'
  BY <1>1 DEF IInv, BatchOK, CliOK, HeldOK, transcriptVars, watcherVars, cliVars
<1>5. TickOK'
  BY <1>1, SessionAssumption DEF IInv, TickOK, watcherVars, Idle, Nothing
<1> QED BY <1>2, <1>3, <1>4, <1>5 DEF IInv
(* The two action properties. *)
CursorForward == \A s \in Session : file'[s] = file[s] => pos'[s] >= pos[s]

OffSiblings ==
  \A s \in live : tick.todo # {} /\ file'[s] # file[s] =>
    file'[s] \notin SiblingPins(s, tick.pins)

(* A watcher is moved to the end of a transcript. *)
LEMMA MovedToEnd ==
  ASSUME IInv, UNCHANGED transcriptVars, NEW s \in Session, NEW g \in File \cup {NoFile},
         file' = [file EXCEPT ![s] = g], pos' = [pos EXCEPT ![s] = Size(g)]
  PROVE  /\ file' \in [Session -> File \cup {NoFile}] /\ pos' \in [Session -> Nat]
         /\ CursorInBounds' /\ CursorForward
<1>1. /\ TranscriptTypeOK /\ pos \in [Session -> Nat] /\ file \in [Session -> File \cup {NoFile}]
      /\ CursorInBounds
  BY DEF IInv, TypeOK, WatcherTypeOK
<1>2. Size(g) \in Nat
  BY <1>1, Sizes
<1>3. \A o \in Session : pos'[o] <= Size(file'[o])
  <2> TAKE o \in Session
  <2>1. CASE o = s
    BY <1>1, <1>2, <2>1
  <2>2. CASE o # s
    BY <1>1, <2>2 DEF CursorInBounds
  <2> QED BY <2>1, <2>2
<1>4. CursorInBounds'
  <2>1. ASSUME NEW o \in Session PROVE Size(file[o])' = Size(file'[o])
    BY DEF Size, transcriptVars
  <2> QED BY <1>3, <2>1 DEF CursorInBounds
<1>5. CursorForward
  <2> SUFFICES ASSUME NEW o \in Session, file'[o] = file[o] PROVE pos'[o] >= pos[o]
    BY DEF CursorForward
  <2>1. CASE o = s
    BY <1>1, <1>2, <2>1 DEF CursorInBounds
  <2>2. CASE o # s
    BY <1>1, <2>2
  <2> QED BY <2>1, <2>2
<1> QED BY <1>1, <1>2, <1>4, <1>5

(* A message is sent. *)
LEMMA SendStep ==
  ASSUME IInv, NEW s \in Session, Send(s)
  PROVE  IInv' /\ CursorForward /\ OffSiblings
<1> DEFINE f == PinTarget(s)
<1>1. /\ TranscriptTypeOK /\ WatcherTypeOK /\ CliTypeOK /\ TypeOK
      /\ tick.todo = {} /\ batch = Idle
  BY DEF IInv, TypeOK, Send, Free
<1>2. /\ file' = [file EXCEPT ![s] = f]
      /\ pinnedId' = [pinnedId EXCEPT ![s] = IF f = NoFile THEN @ ELSE f]
      /\ pos' = [pos EXCEPT ![s] = Size(f)]
      /\ pinPos' = [pinPos EXCEPT ![s] = Size(f)]
      /\ pinned' = [pinned EXCEPT ![s] = TRUE]
      /\ touched' = [touched EXCEPT ![s] = {}]
      /\ atPinFiles' = [atPinFiles EXCEPT ![s] = Existing]
      /\ atPin' = [atPin EXCEPT ![s] = [g \in File |-> Size(g)]]
      /\ newSincePin' = [newSincePin EXCEPT ![s] = FALSE]
      /\ acc' = [acc EXCEPT ![s] = Cleared(@)]
      /\ UNCHANGED <<hint, excluded, batch, transcriptVars, cli, length, owner, live, tick, log>>
  BY DEF Send, BeginTurn
<1>3. /\ inbox' = [inbox EXCEPT ![s] = nextTurn]
      /\ asked' = [asked EXCEPT ![s] = nextTurn]
      /\ nextTurn' = nextTurn + 1 /\ nextTurn <= MaxTurn
      /\ observing' = [observing EXCEPT ![s] = TRUE]
      /\ still' = [still EXCEPT ![s] = 0]
  BY DEF Send
<1>4. f \in File \cup {NoFile} /\ Size(f) \in Nat
  <2>1. f \in File \cup {NoFile}
    BY ActiveIn DEF PinTarget, Existing
  <2> QED BY <1>1, <2>1, Sizes
<1> HIDE DEF f
<1>5. /\ file' \in [Session -> File \cup {NoFile}] /\ pos' \in [Session -> Nat]
      /\ CursorInBounds' /\ CursorForward
  BY <1>2, <1>4, MovedToEnd
<1>6. [g \in File |-> Size(g)] \in [File -> Nat]
  BY <1>1, Sizes
<1>7. WatcherTypeOK'
  <2>1. Cleared(acc[s]) \in Accumulator
    BY <1>1 DEF WatcherTypeOK, Cleared, Accumulator
  <2>2. acc' \in [Session -> Accumulator]
    BY <1>1, <1>2, <2>1 DEF WatcherTypeOK
  <2>3. pinPos' \in [Session -> Nat] /\ atPin' \in [Session -> [File -> Nat]]
    BY <1>1, <1>2, <1>4, <1>6 DEF WatcherTypeOK
  <2>4. /\ atPinFiles' \in [Session -> SUBSET File] /\ touched' \in [Session -> SUBSET File]
        /\ pinned' \in [Session -> BOOLEAN] /\ newSincePin' \in [Session -> BOOLEAN]
    BY <1>1, <1>2 DEF WatcherTypeOK, Existing
  <2>5. pinnedId' \in [Session -> File \cup {NoFile}]
    BY <1>1, <1>2, <1>4 DEF WatcherTypeOK
  <2> QED BY <1>1, <1>2, <1>5, <2>2, <2>3, <2>4, <2>5 DEF WatcherTypeOK
<1>8. nextTurn \in Turn /\ nextTurn + 1 \in 1 .. MaxTurn + 1
  BY <1>1, <1>3, TurnAssumption DEF CliTypeOK, Turn
<1>9. TypeOK'
  <2>1. TranscriptTypeOK' /\ CliTypeOK'
    BY <1>1, <1>2, <1>3, <1>8 DEF TranscriptTypeOK, transcriptVars, CliTypeOK
  <2>2. /\ observing' \in [Session -> BOOLEAN] /\ asked' \in [Session -> Turn]
        /\ still' \in [Session -> 0 .. Quiet]
    BY <1>1, <1>3, <1>8, QuietAssumption DEF TypeOK
  <2> QED BY <1>1, <1>2, <1>7, <2>1, <2>2 DEF TypeOK
<1>10. PinInBounds'
  <2> SUFFICES ASSUME NEW o \in Session, NEW g \in File PROVE atPin'[o][g] <= Size(g)
    BY <1>2 DEF PinInBounds, Size, transcriptVars
  <2>1. Size(g) \in Nat
    BY <1>1, Sizes
  <2>2. CASE o = s
    BY <1>1, <1>2, <2>1, <2>2 DEF WatcherTypeOK
  <2>3. CASE o # s
    BY <1>1, <1>2, <2>3 DEF WatcherTypeOK, IInv, PinInBounds
  <2> QED BY <2>2, <2>3
<1>11. HeldOK'
  BY <1>1, <1>2 DEF IInv, HeldOK, Cleared, WatcherTypeOK, Accumulator
<1>12. BatchOK' /\ CliOK' /\ TickOK'
  BY <1>1, <1>2, SessionAssumption
     DEF IInv, BatchOK, CliOK, TickOK, transcriptVars, Idle, Nothing
<1>13. OffSiblings
  BY <1>1 DEF OffSiblings
<1> QED BY <1>5, <1>9, <1>10, <1>11, <1>12, <1>13 DEF IInv

(* A session is spawned. *)
LEMMA SpawnStep ==
  ASSUME IInv, NEW s \in Session, Spawn(s)
  PROVE  IInv' /\ CursorForward /\ OffSiblings
<1> DEFINE ex == SiblingPins(s, file)
           first == FindActive(s, {})
           f == IF first \in ex THEN FindActive(s, ex) ELSE first
<1>1. /\ TranscriptTypeOK /\ WatcherTypeOK /\ CliTypeOK /\ TypeOK
      /\ tick.todo = {} /\ batch = Idle /\ s \notin live
  BY DEF IInv, TypeOK, Spawn, Free
<1>2. PICK h \in {NoFile} \cup File : /\ hint' = [hint EXCEPT ![s] = h]
                                      /\ cli' = [cli EXCEPT ![s].home = h]
  BY DEF NewPos, Spawn, Existing
<1>3. /\ excluded' = [excluded EXCEPT ![s] = ex]
      /\ file' = [file EXCEPT ![s] = f]
      /\ pos' = [pos EXCEPT ![s] = Size(f)]
  BY DEF NewPos, Spawn
<1>4. /\ live' = live \cup {s}
      /\ UNCHANGED <<transcriptVars, pinPos, atPin, atPinFiles, pinned, touched, pinnedId,
                     newSincePin, acc, batch, inbox, nextTurn, length, owner,
                     observing, asked, still, tick, log>>
  BY DEF NewPos, Spawn
<1>5. f \in File \cup {NoFile}
  BY ActiveIn DEF Existing
<1>6. ex \in SUBSET File
  BY <1>1 DEF SiblingPins, WatcherTypeOK, TypeOK
<1> HIDE DEF ex, first, f
<1>7. /\ file' \in [Session -> File \cup {NoFile}] /\ pos' \in [Session -> Nat]
      /\ CursorInBounds' /\ CursorForward
  BY <1>3, <1>4, <1>5, MovedToEnd
<1>8. TypeOK'
  <2>1. WatcherTypeOK'
    BY <1>1, <1>2, <1>3, <1>4, <1>6, <1>7 DEF WatcherTypeOK
  <2>2. TranscriptTypeOK' /\ CliTypeOK'
    BY <1>1, <1>2, <1>4 DEF TranscriptTypeOK, transcriptVars, CliTypeOK, CliState
  <2> QED BY <1>1, <1>4, <2>1, <2>2 DEF TypeOK
<1>9. CliOK'
  BY <1>1, <1>2, <1>4 DEF IInv, CliOK, CliTypeOK, CliState
<1>10. PinInBounds'
  BY <1>4 DEF IInv, PinInBounds, Size, transcriptVars
<1>11. BatchOK' /\ HeldOK'
  BY <1>4 DEF IInv, BatchOK, HeldOK, transcriptVars
<1>12. TickOK'
  BY <1>1, <1>4, SessionAssumption DEF TickOK, Idle, Nothing
<1>13. OffSiblings
  BY <1>1 DEF OffSiblings
<1> QED BY <1>7, <1>8, <1>9, <1>10, <1>11, <1>12, <1>13 DEF IInv
(* A visit of the tick: set_excluded, then poll up to its read. *)
LEMMA VisitStep ==
  ASSUME IInv, NEW s \in Session, Visit(s)
  PROVE  IInv' /\ CursorForward /\ OffSiblings
<1> DEFINE ex == SiblingPins(s, tick.pins)
<1>1. /\ TranscriptTypeOK /\ WatcherTypeOK /\ CliTypeOK /\ TypeOK /\ batch = Idle
      /\ s \in tick.todo
      /\ excluded' = [excluded EXCEPT ![s] = ex]
      /\ UNCHANGED <<transcriptVars, pinPos, atPin, atPinFiles, pinned, touched,
                     acc, cliVars, monitorVars>>
  BY DEF IInv, TypeOK, Visit
<1>2. tick.pins \in [Session -> File \cup {NoFile}] /\ live \in SUBSET Session
  BY <1>1 DEF TypeOK
<1>3. ex \in SUBSET File
  BY <1>2 DEF SiblingPins
<1>4. Polls(s) => PollOpen(s, ex)
  BY DEF Visit
<1>5. ~Polls(s) => /\ file' = [file EXCEPT ![s] = Repinned(s, ex)]
                   /\ pos' = [pos EXCEPT ![s] = RepinnedPos(s, ex)]
                   /\ batch' = Nothing(s)
                   /\ UNCHANGED <<pinnedId, hint, newSincePin>>
  BY DEF Visit
<1>6. TickOK'
  <2>1. SiblingPins(s, tick.pins)' = ex
    BY <1>1 DEF SiblingPins, monitorVars
  <2>2. batch'.who = s
    <3>1. CASE Polls(s)
      BY <3>1, <1>3, <1>4, PollFacts DEF IInv, VisitAfter, GoodBatch
    <3>2. CASE ~Polls(s)
      BY <3>2, <1>5 DEF Nothing
    <3> QED BY <3>1, <3>2
  <2>3. excluded'[s] = ex
    BY <1>1 DEF WatcherTypeOK
  <2> QED BY <1>1, <2>1, <2>2, <2>3 DEF IInv, TickOK, monitorVars
<1> HIDE DEF ex
<1>7. VisitAfter(s, ex)
  <2>1. CASE Polls(s)
    BY <2>1, <1>3, <1>4, PollFacts DEF IInv
  <2>2. CASE ~Polls(s)
    <3> DEFINE g == Repinned(s, ex)
               q == RepinnedPos(s, ex)
    <3>1. /\ g \in File \cup {NoFile} /\ q \in Nat /\ q <= Size(g)
          /\ g = file[s] => q >= pos[s]
          /\ g # file[s] => g \notin ex
      BY <1>1, <1>3, RepinFacts DEF IInv
    <3>2. /\ file' = [file EXCEPT ![s] = g] /\ pos' = [pos EXCEPT ![s] = q]
          /\ batch' = Nothing(s) /\ UNCHANGED <<pinnedId, hint, newSincePin>>
      BY <2>2, <1>5
    <3> HIDE DEF g, q
    <3>3. GoodBatch(s, batch')
      BY <3>2, NothingFacts
    <3> QED BY <1>1, <1>3, <3>1, <3>2, <3>3, MoveFacts DEF VisitAfter, WatcherTypeOK
  <2> QED BY <2>1, <2>2
<1>8. CursorInBounds' /\ CursorForward
  <2>1. \A o \in Session : pos'[o] <= Size(file'[o])
    BY <1>7 DEF VisitAfter, IInv, CursorInBounds
  <2>2. ASSUME NEW o \in Session PROVE Size(file[o])' = Size(file'[o])
    BY <1>1 DEF Size, transcriptVars
  <2>3. CursorForward
    <3> SUFFICES ASSUME NEW o \in Session, file'[o] = file[o] PROVE pos'[o] >= pos[o]
      BY DEF CursorForward
    <3>1. CASE o = s
      BY <1>7, <3>1 DEF VisitAfter
    <3>2. CASE o # s
      <4>1. pos'[o] = pos[o] /\ pos[o] \in Nat
        BY <1>1, <1>7, <3>2 DEF VisitAfter, WatcherTypeOK
      <4> QED BY <4>1
    <3> QED BY <3>1, <3>2
  <2> QED BY <2>1, <2>2, <2>3 DEF CursorInBounds
<1>9. OffSiblings
  BY <1>2, <1>7 DEF VisitAfter, OffSiblings, ex
<1>10. TypeOK'
  <2>1. WatcherTypeOK'
    BY <1>1, <1>3, <1>7 DEF WatcherTypeOK, VisitAfter, GoodBatch
  <2> QED BY <1>1, <2>1 DEF TypeOK, TranscriptTypeOK, transcriptVars, CliTypeOK, cliVars,
                            monitorVars
<1>11. BatchOK'
  BY <1>1, <1>7 DEF VisitAfter, GoodBatch, BatchOK, transcriptVars
<1>12. CliOK' /\ PinInBounds'
  BY <1>1 DEF IInv, CliOK, PinInBounds, Size, transcriptVars, cliVars, monitorVars
<1>13. HeldOK'
  <2>1. \A o \in Session : acc[o].pending => acc[o].parts = <<>> /\ acc[o].open
    BY <1>1 DEF IInv, HeldOK, Idle, Nothing
  <2> QED BY <1>1, <2>1 DEF HeldOK
<1> QED BY <1>6, <1>8, <1>9, <1>10, <1>11, <1>12, <1>13 DEF IInv

-----------------------------------------------------------------------------
(* A row is processed. *)

(* The row at hand, and what an arm makes of it. *)
LEMMA RowFacts ==
  ASSUME IInv, InBatch
  PROVE  /\ batch.who \in Session /\ batch.of \in File
         /\ CurrentRow \in Row /\ PartOf(CurrentRow) \in Part /\ Mine \in Accumulator
         /\ batch \in Batch
<1>1. /\ batch \in Batch /\ batch.who \in Session /\ batch.of \in File /\ batch.next >= 1
      /\ batch.next <= batch.upto /\ batch.upto <= Len(rows[batch.of])
  BY DEF IInv, TypeOK, WatcherTypeOK, BatchOK, InBatch
<1>2. rows[batch.of] \in Seq(Row) /\ Len(rows[batch.of]) \in Nat
  BY <1>1 DEF IInv, TypeOK, TranscriptTypeOK
<1>3. batch.next \in 1 .. Len(rows[batch.of])
  BY <1>1, <1>2 DEF Batch
<1>4. CurrentRow \in Row
  BY <1>2, <1>3 DEF CurrentRow
<1>5. Mine \in Accumulator
  BY <1>1 DEF IInv, TypeOK, WatcherTypeOK, Mine
<1> QED BY <1>1, <1>4, <1>5 DEF Row, PartOf, Part

LEMMA RowTypes ==
  ASSUME IInv, ReadRow
  PROVE  /\ acc' \in [Session -> Accumulator]
         /\ \A o \in Session \ {batch.who} : acc'[o] = acc[o]
         /\ \E out \in Seq(Seq(Part)), done \in BOOLEAN : Advance(out, done)
         /\ InBatch
<1>1. InBatch
  BY DEF ReadRow, ReadMeta, ReadText, ReadThinkEnd, ReadToolUse, ReadToolResult, ReadInterrupt,
         ReadUser
<1>2. /\ batch.who \in Session /\ CurrentRow \in Row /\ PartOf(CurrentRow) \in Part
      /\ Mine \in Accumulator /\ batch \in Batch
  BY <1>1, RowFacts
<1>3. /\ batch.out \in Seq(Seq(Part)) /\ batch.completed \in BOOLEAN
      /\ Mine.parts \in Seq(Part) /\ Mine.toolIds \in SUBSET Part /\ Mine.open \in BOOLEAN
      /\ Mine.pending \in BOOLEAN /\ Mine.closed \in BOOLEAN /\ Mine.lastUser \in Turn
      /\ acc \in [Session -> Accumulator]
      /\ Append(Mine.parts, PartOf(CurrentRow)) \in Seq(Part)
      /\ Append(batch.out, Mine.parts) \in Seq(Seq(Part))
  BY <1>2 DEF Batch, Accumulator, IInv, TypeOK, WatcherTypeOK
<1>4. ASSUME NEW a \in Accumulator, SetAcc(a)
      PROVE  /\ acc' \in [Session -> Accumulator]
             /\ \A o \in Session \ {batch.who} : acc'[o] = acc[o]
  BY <1>2, <1>3, <1>4 DEF SetAcc
<1>5. CASE ReadMeta \/ ReadThinkEnd
  BY <1>1, <1>3, <1>5 DEF ReadMeta, ReadThinkEnd
<1>6. CASE ReadText
  <2>1. [Mine EXCEPT !.parts = Append(@, PartOf(CurrentRow))] \in Accumulator
    BY <1>2, <1>3 DEF Accumulator
  <2>2. (batch.completed \/ CurrentRow.kind = "textEnd") \in BOOLEAN
    OBVIOUS
  <2> QED BY <1>1, <1>3, <1>4, <1>6, <2>1, <2>2 DEF ReadText
<1>7. CASE ReadToolUse
  <2> DEFINE P == IF PartOf(CurrentRow) \notin Mine.toolIds
                  THEN Append(Mine.parts, PartOf(CurrentRow)) ELSE Mine.parts
             a == [Mine EXCEPT !.toolIds = @ \cup {PartOf(CurrentRow)}, !.parts = P, !.open = TRUE]
  <2>1. P \in Seq(Part) /\ Mine.toolIds \cup {PartOf(CurrentRow)} \in SUBSET Part
    BY <1>2, <1>3
  <2>2. SetAcc(a) /\ Advance(batch.out, batch.completed)
    BY <1>7 DEF ReadToolUse
  <2> HIDE DEF P
  <2>3. a \in Accumulator
    BY <1>2, <2>1 DEF Accumulator
  <2> HIDE DEF a
  <2> QED BY <1>1, <1>3, <1>4, <2>2, <2>3
<1>8. CASE ReadToolResult
  <2>1. [Mine EXCEPT !.parts = Append(@, PartOf(CurrentRow)), !.open = TRUE] \in Accumulator
    BY <1>2, <1>3 DEF Accumulator
  <2> QED BY <1>1, <1>3, <1>4, <1>8, <2>1 DEF ReadToolResult
<1>9. CASE ReadInterrupt
  <2>1. [Mine EXCEPT !.parts = <<>>, !.toolIds = {}, !.open = FALSE, !.pending = FALSE]
          \in Accumulator
    <3> DEFINE m == Mine
    <3>1. m \in Accumulator /\ <<>> \in Seq(Part) /\ {} \in SUBSET Part
      BY <1>2
    <3> HIDE DEF m
    <3>2. [m EXCEPT !.parts = <<>>, !.toolIds = {}, !.open = FALSE, !.pending = FALSE]
            \in Accumulator
      BY <3>1 DEF Accumulator
    <3> QED BY <3>2 DEF m
  <2> QED BY <1>1, <1>3, <1>4, <1>9, <2>1 DEF ReadInterrupt
<1>10. CASE ReadUser
  <2>1. [parts |-> <<>>, toolIds |-> {}, open |-> TRUE, pending |-> FALSE,
         closed |-> FALSE, lastUser |-> CurrentRow.turn] \in Accumulator
    BY <1>2 DEF Accumulator, Row
  <2>2. (batch.completed /\ ~Flushes) \in BOOLEAN
        /\ (IF Flushes THEN Append(batch.out, Mine.parts) ELSE batch.out) \in Seq(Seq(Part))
    BY <1>3
  <2> QED BY <1>1, <1>4, <1>10, <2>1, <2>2 DEF ReadUser
<1> QED BY <1>5, <1>6, <1>7, <1>8, <1>9, <1>10 DEF ReadRow

LEMMA ReadStepStep ==
  ASSUME IInv, ReadStep
  PROVE  IInv' /\ CursorForward /\ OffSiblings
<1>1. /\ ReadRow
      /\ UNCHANGED <<transcriptVars, pinVars, touched, excluded, cliVars, monitorVars>>
  BY DEF ReadStep, ReadRow
<1>2. /\ acc' \in [Session -> Accumulator]
      /\ \A o \in Session \ {batch.who} : acc'[o] = acc[o]
      /\ InBatch
  BY <1>1, RowTypes
<1>3. PICK out \in Seq(Seq(Part)), done \in BOOLEAN : Advance(out, done)
  BY <1>1, RowTypes
<1>4. batch \in Batch /\ batch.who \in Session /\ batch.of \in File
  BY <1>2, RowFacts
<1>5. /\ batch' \in Batch /\ batch'.who = batch.who /\ batch'.of = batch.of
      /\ batch'.upto = batch.upto /\ batch'.next = batch.next + 1
  <2>1. batch' = [batch EXCEPT !.next = batch.next + 1, !.out = out, !.completed = done]
    BY <1>3 DEF Advance
  <2>2. batch.next + 1 \in Nat /\ batch.next \in Nat
    BY <1>4 DEF Batch
  <2>3. batch' \in Batch
    BY <1>4, <2>1, <2>2 DEF Batch
  <2> QED BY <1>4, <2>1, <2>2, <2>3 DEF Batch
<1>6. TypeOK'
  <2>1. WatcherTypeOK'
    BY <1>1, <1>2, <1>5 DEF IInv, TypeOK, WatcherTypeOK, pinVars
  <2> QED BY <1>1, <2>1 DEF IInv, TypeOK, TranscriptTypeOK, transcriptVars, CliTypeOK, cliVars,
                            monitorVars
<1>7. BatchOK'
  BY <1>1, <1>2, <1>4, <1>5 DEF IInv, BatchOK, transcriptVars, InBatch, Batch
<1>8. CliOK' /\ TickOK'
  BY <1>1, <1>5 DEF IInv, CliOK, TickOK, SiblingPins, cliVars, monitorVars
<1>9. CursorInBounds' /\ PinInBounds'
  BY <1>1, Still, OffsetsStay DEF IInv, TypeOK, pinVars
<1>10. HeldOK'
  BY <1>2, <1>4, <1>5, FileAssumption DEF IInv, HeldOK
<1>11. CursorForward /\ OffSiblings
  BY <1>1 DEF IInv, TypeOK, WatcherTypeOK, pinVars, CursorForward, OffSiblings
<1> QED BY <1>6, <1>7, <1>8, <1>9, <1>10, <1>11 DEF IInv
-----------------------------------------------------------------------------
(* A visit ends. *)

LEMMA GateFacts ==
  ASSUME IInv, BatchDone
  PROVE  /\ batch.who \in Session /\ Mine \in Accumulator
         /\ GateAcc \in Accumulator /\ GateOut \in Seq(Seq(Part))
         /\ GateAcc.pending => GateAcc.parts = <<>> /\ GateAcc.open
<1>1. batch.who \in Session /\ batch \in Batch /\ acc \in [Session -> Accumulator]
  BY DEF IInv, TypeOK, WatcherTypeOK, BatchDone
<1>2. Mine \in Accumulator /\ Mine = acc[batch.who]
  BY <1>1 DEF Mine
<1>3. batch.out \in Seq(Seq(Part)) /\ Mine.parts \in Seq(Part) /\ <<>> \in Seq(Part)
  BY <1>1, <1>2 DEF Batch, Accumulator
<1>4. GateOut \in Seq(Seq(Part))
  BY <1>3 DEF GateOut
<1> DEFINE m == Mine
<1>5. m \in Accumulator
  BY <1>2
<1>6. GateAcc = IF Closes
                THEN [m EXCEPT !.parts = <<>>, !.open = FALSE, !.pending = FALSE, !.closed = TRUE]
                ELSE IF WantComplete THEN [m EXCEPT !.open = TRUE, !.pending = TRUE]
                ELSE m
  BY DEF GateAcc
<1>7. CASE Closes
  <2>1. GateAcc = [m EXCEPT !.parts = <<>>, !.open = FALSE, !.pending = FALSE, !.closed = TRUE]
    BY <1>6, <1>7
  <2> HIDE DEF m
  <2>2. GateAcc \in Accumulator /\ GateAcc.pending = FALSE
    BY <1>3, <1>5, <2>1 DEF Accumulator
  <2> QED BY <1>1, <1>2, <1>4, <2>2
<1>8. CASE ~Closes /\ WantComplete
  <2>1. GateAcc = [m EXCEPT !.open = TRUE, !.pending = TRUE] /\ m.parts = <<>>
    BY <1>6, <1>8 DEF Closes
  <2> HIDE DEF m
  <2>2. GateAcc \in Accumulator /\ GateAcc.parts = <<>> /\ GateAcc.open = TRUE
    BY <1>5, <2>1 DEF Accumulator
  <2> QED BY <1>1, <1>2, <1>4, <2>2
<1>9. CASE ~Closes /\ ~WantComplete
  <2>1. GateAcc = Mine
    BY <1>6, <1>9
  <2>2. batch.of = NoFile \/ ~Mine.pending
    BY <1>9 DEF WantComplete
  <2>3. Mine.pending => Mine.parts = <<>> /\ Mine.open
    BY <1>1, <1>2, <2>2 DEF IInv, HeldOK
  <2> QED BY <1>1, <1>2, <1>4, <2>1, <2>3
<1> QED BY <1>7, <1>8, <1>9

LEMMA RelayedTypes ==
  ASSUME TypeOK, NEW s \in Session, NEW out \in Seq(Seq(Part)), out # <<>>
  PROVE  Relayed(s, out) \in Seq(Complete)
<1>1. \A via \in {"turn", "organic", "screen"}, c \in Seq(Part) : Entry(s, via, c) \in Complete
  BY DEF TypeOK, Entry, Complete
<1>2. Len(out) \in Nat /\ Len(out) >= 1 /\ \A i \in 1 .. Len(out) : out[i] \in Seq(Part)
  OBVIOUS
<1>3. Entry(s, "turn", Head(out)) \in Complete
  BY <1>1, <1>2
<1>4. [i \in 1 .. Len(out) |-> Entry(s, "organic", out[i])] \in Seq(Complete)
  <2>1. \A i \in 1 .. Len(out) : Entry(s, "organic", out[i]) \in Complete
    BY <1>1, <1>2
  <2> HIDE DEF Entry
  <2> QED BY <1>2, <2>1
<1>5. [i \in 1 .. Len(out) - 1 |-> Entry(s, "organic", out[i + 1])] \in Seq(Complete)
  <2>1. Len(out) - 1 \in Nat
    BY <1>2
  <2>2. \A i \in 1 .. Len(out) - 1 : i + 1 \in 1 .. Len(out)
    BY <1>2
  <2>3. \A i \in 1 .. Len(out) - 1 : Entry(s, "organic", out[i + 1]) \in Complete
    BY <1>1, <1>2, <2>2
  <2> QED BY <2>1, <2>3
<1>6. <<Entry(s, "turn", Head(out))>> \in Seq(Complete) /\ <<>> \in Seq(Complete)
  BY <1>3
<1> DEFINE behind == IF s \in Channel
                     THEN [i \in 1 .. Len(out) - 1 |-> Entry(s, "organic", out[i + 1])]
                     ELSE <<>>
           first == <<Entry(s, "turn", Head(out))>>
<1>7. first \in Seq(Complete) /\ behind \in Seq(Complete)
  BY <1>5, <1>6
<1>8. first \o behind \in Seq(Complete)
  <2> HIDE DEF first, behind
  <2> QED BY <1>7
<1> QED BY <1>4, <1>8 DEF Relayed

(* What every way of leaving a visit of s does. *)
Left(s) ==
  /\ acc' \in [Session -> Accumulator]
  /\ acc'[s].pending => acc'[s].parts = <<>> /\ acc'[s].open
  /\ \A o \in Session \ {s} : acc'[o] = acc[o]
  /\ observing' \in [Session -> BOOLEAN]
  /\ log' \in Seq(Complete)
  /\ \/ UNCHANGED <<file, pos>>
     \/ LET g == FindActive(s, excluded[s])
        IN  file' = [file EXCEPT ![s] = g] /\ pos' = [pos EXCEPT ![s] = Size(g)]

LEMMA LeaveStep ==
  ASSUME IInv, BatchDone, Leave(batch.who), Left(batch.who)
  PROVE  IInv' /\ CursorForward /\ OffSiblings
<1> DEFINE s == batch.who
           g == FindActive(s, excluded[s])
<1>1. s \in Session /\ TypeOK /\ TranscriptTypeOK /\ WatcherTypeOK /\ CliTypeOK
      /\ s \in tick.todo /\ excluded[s] = SiblingPins(s, tick.pins)
  BY DEF IInv, TypeOK, TickOK, BatchDone
<1>2. /\ still' = [still EXCEPT ![s] = IF @ < Quiet THEN @ + 1 ELSE @]
      /\ tick' = [tick EXCEPT !.todo = @ \ {s}]
      /\ batch' = Idle
      /\ UNCHANGED <<transcriptVars, pinPos, atPin, atPinFiles, pinned, touched, pinnedId,
                     hint, excluded, newSincePin, cliVars, live, asked>>
  BY DEF Leave
<1>3. g \in (File \ excluded[s]) \cup {NoFile}
  BY ActiveIn DEF Existing
<1>4. /\ file' \in [Session -> File \cup {NoFile}] /\ pos' \in [Session -> Nat]
      /\ CursorInBounds' /\ CursorForward
  <2>1. CASE UNCHANGED <<file, pos>>
    <3>1. CursorInBounds'
      BY <1>1, <1>2, <2>1, Still, OffsetsStay
    <3> QED BY <1>1, <2>1, <3>1 DEF CursorForward, WatcherTypeOK
  <2>2. CASE file' = [file EXCEPT ![s] = g] /\ pos' = [pos EXCEPT ![s] = Size(g)]
    <3> HIDE DEF g, s
    <3> QED BY <1>1, <1>2, <1>3, <2>2, MovedToEnd
  <2> QED BY <2>1, <2>2 DEF Left
<1>5. OffSiblings
  <2> SUFFICES ASSUME NEW o \in live, file'[o] # file[o]
               PROVE  file'[o] \notin SiblingPins(o, tick.pins)
    BY DEF OffSiblings
  <2>1. file' = [file EXCEPT ![s] = g]
    BY <1>1 DEF Left
  <2>2. o = s /\ file'[o] = g
    BY <1>1, <2>1 DEF WatcherTypeOK, TypeOK
  <2>3. NoFile \notin SiblingPins(o, tick.pins)
    BY DEF SiblingPins
  <2> HIDE DEF g
  <2> QED BY <1>1, <1>3, <2>2, <2>3
<1>6. TypeOK'
  <2>1. still' \in [Session -> 0 .. Quiet]
    <3>1. still[s] \in 0 .. Quiet /\ Quiet \in Nat
      BY <1>1, QuietAssumption DEF TypeOK
    <3>2. (IF still[s] < Quiet THEN still[s] + 1 ELSE still[s]) \in 0 .. Quiet
      BY <3>1
    <3> HIDE DEF s
    <3> QED BY <1>1, <1>2, <3>2 DEF TypeOK
  <2>2. tick' \in [todo : SUBSET Session, pins : [Session -> File \cup {NoFile}]]
    BY <1>1, <1>2 DEF TypeOK
  <2>3. batch' \in Batch
    BY <1>2, NothingFacts DEF Idle, GoodBatch
  <2>4. WatcherTypeOK'
    BY <1>1, <1>2, <1>4, <2>3 DEF Left, WatcherTypeOK
  <2>5. TranscriptTypeOK' /\ CliTypeOK'
    BY <1>1, <1>2 DEF TranscriptTypeOK, transcriptVars, CliTypeOK, cliVars
  <2> QED BY <1>1, <1>2, <2>1, <2>2, <2>4, <2>5 DEF TypeOK, Left
<1>7. BatchOK'
  BY <1>2, FileAssumption DEF BatchOK, Idle, Nothing
<1>8. CliOK' /\ PinInBounds'
  BY <1>2 DEF IInv, CliOK, PinInBounds, Size, transcriptVars, cliVars
<1>9. HeldOK'
  <2>1. \A o \in Session \ {s} : acc[o].pending => acc[o].parts = <<>> /\ acc[o].open
    BY DEF IInv, HeldOK
  <2> QED BY <2>1 DEF Left, HeldOK
<1>10. TickOK'
  <2>1. tick'.todo \subseteq tick.todo
    BY <1>1, <1>2 DEF TypeOK
  <2> QED BY <1>2, <2>1, SessionAssumption DEF IInv, TickOK, Idle, Nothing
<1> QED BY <1>4, <1>5, <1>6, <1>7, <1>8, <1>9, <1>10 DEF IInv

LEMMA CloseStep ==
  ASSUME IInv, CloseQuiet \/ CloseOrganic \/ CloseObserved \/ CloseByScreen
  PROVE  IInv' /\ CursorForward /\ OffSiblings
<1> DEFINE s == batch.who
<1>1. BatchDone /\ Leave(s)
  BY DEF CloseQuiet, CloseOrganic, CloseObserved, CloseByScreen
<1>2. /\ s \in Session /\ GateAcc \in Accumulator /\ GateOut \in Seq(Seq(Part))
      /\ GateAcc.pending => GateAcc.parts = <<>> /\ GateAcc.open
  BY <1>1, GateFacts
<1>3. /\ acc \in [Session -> Accumulator] /\ observing \in [Session -> BOOLEAN]
      /\ log \in Seq(Complete) /\ TypeOK
  BY DEF IInv, TypeOK, WatcherTypeOK
<1> HIDE DEF s
<1>4. Cleared(GateAcc) \in Accumulator /\ Cleared(GateAcc).pending = FALSE
  BY <1>2 DEF Cleared, Accumulator
<1>5. ASSUME GateOut # <<>>
      PROVE  log \o Relayed(s, GateOut) \in Seq(Complete)
  BY <1>2, <1>3, <1>5, RelayedTypes
<1>6. Left(s)
  <2>1. CASE CloseQuiet
    <3>1. acc' = [acc EXCEPT ![s] = GateAcc] /\ UNCHANGED <<file, pos, observing, log>>
      BY <2>1 DEF CloseQuiet, s
    <3> QED BY <1>2, <1>3, <3>1 DEF Left
  <2>2. CASE CloseOrganic
    <3>1. /\ acc' = [acc EXCEPT ![s] = GateAcc] /\ UNCHANGED <<file, pos, observing>>
          /\ log' = log \o Relayed(s, GateOut) /\ GateOut # <<>>
      BY <2>2 DEF CloseOrganic, s
    <3> QED BY <1>2, <1>3, <1>5, <3>1 DEF Left
  <2>3. CASE CloseObserved
    <3>1. /\ observing' = [observing EXCEPT ![s] = FALSE] /\ PrimeToEof(s, GateAcc)
          /\ log' = log \o Relayed(s, GateOut) /\ GateOut # <<>>
      BY <2>3 DEF CloseObserved, s
    <3> QED BY <1>2, <1>3, <1>4, <1>5, <3>1 DEF Left, PrimeToEof
  <2>4. CASE CloseByScreen
    <3>1. /\ observing' = [observing EXCEPT ![s] = FALSE] /\ PrimeToEof(s, GateAcc)
          /\ log' = Append(log, Entry(s, "screen", <<>>))
      BY <2>4 DEF CloseByScreen, s
    <3>2. Entry(s, "screen", <<>>) \in Complete
      BY <1>2, <1>3 DEF Entry, Complete, TypeOK
    <3> QED BY <1>2, <1>3, <1>4, <3>1, <3>2 DEF Left, PrimeToEof
  <2> QED BY <2>1, <2>2, <2>3, <2>4
<1> QED BY <1>1, <1>6, LeaveStep DEF s

-----------------------------------------------------------------------------
(* The theorems. *)

LEMMA InitIInv ==
  ASSUME Init
  PROVE  IInv
<1>1. TranscriptTypeOK
  <2>1. PICK old \in SUBSET File : TranscriptInit(old)
    BY DEF Init
  <2>2. History \in Seq(Row) /\ <<>> \in Seq(Row)
    BY TurnAssumption DEF History, MkRow, Row, Kind, Turn
  <2> HIDE DEF History
  <2>3. rows \in [File -> Seq(Row)] /\ half \in [File -> BOOLEAN]
    BY <2>1, <2>2 DEF TranscriptInit
  <2> QED BY <2>1, <2>3 DEF TranscriptInit, TranscriptTypeOK
<1>2. CliTypeOK
  BY TurnAssumption DEF Init, CliInit, CliTypeOK, CliState, Stage, Turn
<1>3. EmptyAcc \in Accumulator /\ Idle \in Batch
  <2>1. <<>> \in Seq(Part)
    OBVIOUS
  <2>2. EmptyAcc \in Accumulator
    BY <2>1, TurnAssumption DEF EmptyAcc, Accumulator, Turn
  <2> QED BY <2>2, NothingFacts DEF Idle, GoodBatch
<1>4. WatcherTypeOK
  BY <1>3 DEF Init, WatcherInit, WatcherTypeOK
<1>5. TypeOK
  BY <1>1, <1>2, <1>4, TurnAssumption, QuietAssumption DEF Init, TypeOK, Turn
<1>6. BatchOK /\ CliOK /\ HeldOK /\ TickOK
  BY FileAssumption, SessionAssumption
     DEF Init, WatcherInit, CliInit, BatchOK, CliOK, HeldOK, TickOK, Idle, Nothing, EmptyAcc
<1>7. CursorInBounds /\ PinInBounds
  BY <1>1, Sizes DEF Init, WatcherInit, CursorInBounds, PinInBounds
<1> QED BY <1>5, <1>6, <1>7 DEF IInv

(* One step of Next, or none. *)
LEMMA NextStep ==
  ASSUME IInv, [Next]_vars
  PROVE  IInv' /\ CursorForward /\ OffSiblings
<1>1. CASE CliWrites
  <2>1. UNCHANGED <<file, pos>> /\ pos \in [Session -> Nat]
    BY <1>1 DEF CliWrites, pinVars, IInv, TypeOK, WatcherTypeOK
  <2> QED BY <1>1, <2>1, CliWritesStep DEF CursorForward, OffSiblings
<1>2. CASE StartTick
  <2>1. UNCHANGED <<file, pos>> /\ pos \in [Session -> Nat]
    BY <1>2 DEF StartTick, watcherVars, pinVars, IInv, TypeOK, WatcherTypeOK
  <2> QED BY <1>2, <2>1, StartTickStep DEF CursorForward, OffSiblings
<1>3. CASE \E s \in Session : Spawn(s) \/ Send(s) \/ Visit(s)
  BY <1>3, SpawnStep, SendStep, VisitStep
<1>4. CASE ReadStep
  BY <1>4, ReadStepStep
<1>5. CASE CloseQuiet \/ CloseOrganic \/ CloseObserved \/ CloseByScreen
  BY <1>5, CloseStep
<1>6. CASE UNCHANGED vars
  <2>1. UNCHANGED <<transcriptVars, watcherVars, cliVars, monitorVars>>
    BY <1>6 DEF vars
  <2>2. TypeOK'
    BY <2>1 DEF IInv, TypeOK, TranscriptTypeOK, WatcherTypeOK, CliTypeOK, transcriptVars,
                watcherVars, pinVars, cliVars, monitorVars
  <2>3. CursorInBounds' /\ PinInBounds'
    BY <2>1, Still, OffsetsStay DEF IInv, TypeOK, watcherVars, pinVars
  <2>4. BatchOK' /\ CliOK' /\ HeldOK' /\ TickOK'
    BY <2>1 DEF IInv, BatchOK, CliOK, HeldOK, TickOK, SiblingPins, transcriptVars, watcherVars,
                pinVars, cliVars, monitorVars
  <2>5. UNCHANGED <<file, pos>> /\ pos \in [Session -> Nat]
    BY <2>1 DEF watcherVars, pinVars, IInv, TypeOK, WatcherTypeOK
  <2> QED BY <2>2, <2>3, <2>4, <2>5 DEF IInv, CursorForward, OffSiblings
<1> QED BY <1>1, <1>2, <1>3, <1>4, <1>5, <1>6 DEF Next

(* The invariant the other theorems rest on. *)
THEOREM Inductive == Spec => []IInv
<1>1. Init => IInv
  BY InitIInv
<1>2. IInv /\ [Next]_vars => IInv'
  BY NextStep
<1> QED BY <1>1, <1>2, PTL DEF Spec

(* Every variable of the monitor, its watchers and the CLIs keeps its type, *)
(* whatever the CLIs write and in whatever order the tick finds it.         *)
THEOREM Types == Spec => []TypeOK
<1>1. IInv => TypeOK
  BY DEF IInv
<1> QED BY <1>1, Inductive, PTL

(* No read_new, roll, prime or pin of jsonl.rs leaves a cursor beyond the   *)
(* end of its transcript, so the next row appended there is never skipped.  *)
THEOREM CursorNeverBeyondEnd == Spec => []CursorInBounds
<1>1. IInv => CursorInBounds
  BY DEF IInv
<1> QED BY <1>1, Inductive, PTL

(* Between polls, a turn that jsonl.rs holds open for its text              *)
(* (pending_complete) has collected none: what is held is never a reply.    *)
THEOREM HeldTurnsAreEmpty == Spec => []HeldOpenIsEmpty
<1>1. IInv => HeldOpenIsEmpty
  BY SessionAssumption DEF IInv, HeldOK, HeldOpenIsEmpty, Idle, Nothing
<1> QED BY <1>1, Inductive, PTL

(* While a watcher stays on a transcript its cursor never goes back, so no  *)
(* row is accumulated twice.                                                *)
THEOREM NoRowReadTwice == Spec => NeverReread
<1>1. IInv /\ [Next]_vars => [\A s \in Session : file'[s] = file[s] => pos'[s] >= pos[s]]_vars
  BY NextStep DEF CursorForward
<1> QED BY <1>1, Inductive, PTL DEF Spec, NeverReread

(* Within a tick, set_excluded and the scans of poll and prime_to_eof never *)
(* move a watcher onto a transcript that was a sibling's at its start.      *)
THEOREM SiblingsLeftAlone == Spec => TickAvoidsSiblings
<1>1. IInv /\ [Next]_vars =>
        [\A s \in live : tick.todo # {} /\ file'[s] # file[s] =>
           file'[s] \notin SiblingPins(s, tick.pins)]_vars
  BY NextStep DEF OffSiblings
<1> QED BY <1>1, Inductive, PTL DEF Spec, TickAvoidsSiblings
=============================================================================
