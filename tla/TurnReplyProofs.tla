--------------------------- MODULE TurnReplyProofs ---------------------------
(***************************************************************************)
(* Proofs about TurnRelay: what it relays.  One session alone in its       *)
(* directory, with a CLI that does not fork after a reply, end a turn      *)
(* without text or put off its rows, has each of its replies relayed once, *)
(* whole and in order, however the rows are split over polls.              *)
(*                                                                         *)
(* The accumulator is a function of the rows read, but one that need not   *)
(* be computed: what it holds is told by the last row read that belongs to *)
(* a turn (LastRead), because each row is tied to the one before it        *)
(* (Follows).                                                              *)
(***************************************************************************)
EXTENDS TurnRelayProofs, MCTurnRelay, FiniteSetTheorems, WellFoundedInduction

(* What is not asked of the environment. *)
Benign ==
  \A habit \in {"replyFork", "empty", "backToBack", "overtake", "lateRow", "lateStraddle",
                "maxTurn", "busySend"} : ~Can(habit)

-----------------------------------------------------------------------------
(* The rows of a transcript. *)
Said == {"text", "tool", "result"}   \* a row of content, and the turn goes on
Ended == {"textEnd", "interrupt"}    \* the last row of a turn

(* What turn t has said up to its n-th row of content. *)
Prefix(t, n) == [i \in 1 .. n |-> [turn |-> t, n |-> i]]

(* b may come right after a. *)
Follows(a, b) ==
  \/ /\ b.kind \in Said \cup {"textEnd"} /\ a.kind \in Said \cup {"user"}
     /\ b.turn = a.turn /\ b.n = a.n + 1
  \/ b.kind = "textEnd" /\ a.kind = "thinkEnd" /\ b.turn = a.turn /\ b.n = a.n + 1
  \/ /\ b.kind = "thinkEnd" /\ a.kind \in Said \cup {"user"}
     /\ b.turn = a.turn /\ b.n = 0 /\ a.n = 0
  \/ b.kind = "interrupt" /\ a.kind \in Said \cup {"user"} /\ b.turn = a.turn
  \/ b.kind = "meta" /\ a.kind \in Ended
  \/ b.kind = "user" /\ a.kind \in Ended \cup {"meta"} /\ b.n = 0

CanBegin(r) == r.kind = "meta" \/ (r.kind = "user" /\ r.n = 0)

Chained(q) ==
  /\ q # <<>> => CanBegin(q[1])
  /\ \A i \in 2 .. Len(q) : Follows(q[i - 1], q[i])

(* Turns come in their order. *)
Rising(q) ==
  \A i, j \in 1 .. Len(q) :
    i < j /\ q[i].kind \in Ended /\ q[j].kind # "meta" => q[i].turn < q[j].turn

(* The last of the first p rows that belongs to a turn, 0 for none. *)
LastRead(q, p) ==
  IF p = 0 THEN 0 ELSE IF q[p].kind # "meta" THEN p ELSE p - 1

-----------------------------------------------------------------------------
(* The directory: transcripts that are not the CLI's are finished ones     *)
(* from before, or titles.                                                 *)
IsOrder(R, S) ==
  /\ R \subseteq S \X S
  /\ \A f \in S : <<f, f>> \notin R
  /\ \A f, g \in S : f # g => <<f, g>> \in R \/ <<g, f>> \in R
  /\ \A f, g, h \in S : <<f, g>> \in R /\ <<g, h>> \in R => <<f, h>> \in R

Title == <<MkRow("meta", 0, 0)>>

Home(s) == cli[s].home

Stranger(s, f) ==
  /\ ~half[f] /\ rows[f] \in {History, Title}
  /\ f \in touched[s] => rows[f] = Title
  /\ cli[s].turn # 0 => rows[f] = Title \/ <<Home(s), f>> \in newer

Directory(s) ==
  /\ IsOrder(newer, Existing)
  /\ \A f \in Existing \ {Home(s)} : Stranger(s, f)

-----------------------------------------------------------------------------
(* The CLI and its transcript.                                             *)

(* Turn t of the CLI of s is over. *)
Over(s, t) == t < cli[s].turn \/ (t = cli[s].turn /\ cli[s].stage = "prompt")

(* A CLI that has not run a turn. *)
Unused(s) ==
  /\ cli[s].n = 0 /\ cli[s].stage = "prompt"
  /\ Home(s) # NoFile =>
       /\ rows[Home(s)] \in {History, Append(History, MkRow("meta", 0, 0)), Title}
       /\ rows[Home(s)] = History => Home(s) \notin touched[s] /\ ~half[Home(s)]

(* The last row of its transcript that belongs to a turn tells what it is  *)
(* doing.                                                                  *)
Tip(s) == LastRead(rows[Home(s)], Len(rows[Home(s)]))

Doing(s, r) ==
  /\ r.turn = cli[s].turn
  /\ cli[s].stage = "body" => r.kind \in Said \cup {"user"} /\ r.n = cli[s].n
  /\ cli[s].stage = "tool" => r.kind = "tool" /\ r.n = cli[s].n
  /\ cli[s].stage = "reply" => r.kind = "thinkEnd" /\ r.n = 0 /\ cli[s].n = 0
  /\ cli[s].stage = "prompt" => r.kind \in Ended

Used(s) ==
  /\ Home(s) # NoFile /\ Tip(s) # 0
  /\ Doing(s, rows[Home(s)][Tip(s)])
  /\ cli[s].stage # "prompt" => Tip(s) = Len(rows[Home(s)])

RowFits(s, r) ==
  /\ r.kind # "meta" => r.turn <= cli[s].turn
  /\ r.kind = "meta" => r.turn = 0
  /\ r.kind \in Ended => Over(s, r.turn)
  /\ r.turn # 0 /\ r.kind = "textEnd" => length[r.turn] = r.n
  /\ r.turn # 0 /\ r.kind = "interrupt" => length[r.turn] = 0

Script(s) ==
  Home(s) # NoFile =>
    /\ Home(s) \in Existing
    /\ Chained(rows[Home(s)]) /\ Rising(rows[Home(s)])
    /\ \A i \in 1 .. Len(rows[Home(s)]) : RowFits(s, rows[Home(s)][i])

Replied(s, t) ==
  /\ Over(s, t) /\ Home(s) # NoFile
  /\ \E i \in 1 .. Len(rows[Home(s)]) :
       rows[Home(s)][i].kind = "textEnd" /\ rows[Home(s)][i].turn = t

Cli(s) ==
  /\ IF cli[s].turn = 0 THEN Unused(s) ELSE Used(s)
  /\ Script(s)
  /\ \A t \in 1 .. MaxTurn : length[t] # 0 => Replied(s, t)

(* Turns are numbered as they come up; a message not taken up is the last. *)
Numbers(s) ==
  /\ cli[s].turn < nextTurn
  /\ inbox[s] # 0 => inbox[s] > cli[s].turn /\ inbox[s] < nextTurn

-----------------------------------------------------------------------------
(* What is relayed or, closed in the poll under way, about to be.          *)
LogTurns == [i \in 1 .. Len(log) |-> TurnOf(log[i])]
OutTurns(out) == [i \in 1 .. Len(out) |-> out[i][1].turn]
Telling == LogTurns \o OutTurns(batch.out)

Ascending(q) == \A i, j \in 1 .. Len(q) : i < j => q[i] < q[j]
Below(q, t) == \A i \in 1 .. Len(q) : q[i] < t
Contains(q, t) == \E i \in 1 .. Len(q) : q[i] = t

(* c is the whole reply of a turn. *)
IsReply(c) == \E t \in 1 .. MaxTurn : length[t] # 0 /\ c = Prefix(t, length[t])

Ledgers(s) ==
  /\ \A i \in 1 .. Len(log) : TurnOf(log[i]) # 0
  /\ \A i \in 1 .. Len(log) : log[i].via = "screen" => length[log[i].asked] = 0
  /\ \A i \in 1 .. Len(batch.out) : IsReply(batch.out[i])
  /\ Ascending(Telling)
  /\ \A i \in 1 .. Len(Telling) : Over(s, Telling[i])

-----------------------------------------------------------------------------
(* The watcher.                                                            *)
Tracks(s) == file[s] = Home(s) /\ file[s] # NoFile

(* How many rows of its file it has processed. *)
Passed(s) ==
  IF batch.next <= batch.upto THEN batch.next - 1 ELSE (pos[s] + 1) \div 2

Stopped(s) == acc[s].pending \/ batch.completed

(* Nothing of any turn has been read. *)
Blank(s) ==
  /\ acc[s].parts = <<>> /\ acc[s].toolIds = {} /\ ~acc[s].closed /\ ~Stopped(s)
  /\ log = <<>> /\ batch.out = <<>>

(* The rows from p on have not been read before: they are of turns since   *)
(* the spawn, and of the turn asked for, if one is.                        *)
News(s, q, p) ==
  \A i \in p + 1 .. Len(q) :
    q[i].kind # "meta" => q[i].turn # 0 /\ (observing[s] => q[i].turn = asked[s])

(* It reads another file than its CLI writes. *)
Away(s) ==
  /\ Blank(s)
  /\ file[s] \in Existing \cup {NoFile} /\ pos[s] = Size(file[s])
  /\ file[s] = NoFile =>
       /\ hint[s] = NoFile /\ pinnedId[s] = NoFile
       /\ Home(s) # NoFile => cli[s].turn # 0
       /\ s \in live => \A f \in Existing \ {Home(s)} : rows[f] = Title
  /\ (pinned[s] \/ file[s] = NoFile) /\ Home(s) # NoFile => News(s, rows[Home(s)], 0)
  /\ pinned[s] /\ Home(s) # NoFile => Home(s) \notin atPinFiles[s] /\ Home(s) \in touched[s]
  /\ batch.next <= batch.upto => batch.of = file[s] /\ rows[file[s]] = Title
  /\ batch.who = s /\ observing[s] /\ Home(s) # NoFile => ~ConversationSince(Home(s), 0)

(* What the accumulator holds after a row r of a turn. *)
Building(s, r) ==
  /\ r.turn # 0 /\ acc[s].parts = Prefix(r.turn, r.n) /\ Below(Telling, r.turn)
  /\ observing[s] => r.turn = asked[s]

Holding(s, r) ==
  /\ r.kind \in Said \cup {"user"} =>
       /\ Building(s, r) /\ ~Stopped(s)
       /\ \A x \in acc[s].toolIds : x.turn = r.turn /\ x.n <= r.n
  /\ r.kind = "thinkEnd" => Building(s, r) /\ Stopped(s)
  /\ r.kind = "interrupt" =>
       acc[s].parts = <<>> /\ ~Stopped(s) /\ Below(Telling, r.turn + 1)
  /\ r.kind = "textEnd" =>
       \/ batch.of # NoFile /\ Building(s, r) /\ Stopped(s)
       \/ acc[s].parts = <<>> /\ ~Stopped(s) /\ Below(Telling, r.turn + 1)

(* A reply read is relayed, or held for the gate at the end of the poll.   *)
Relayed1(s, q, p) ==
  \A i \in 1 .. p : q[i].kind = "textEnd" /\ q[i].turn # 0 =>
    Contains(Telling, q[i].turn) \/ (i = LastRead(q, p) /\ acc[s].parts # <<>>)

(* Where the cursor stands. *)
Cursor(s, q) ==
  /\ \A k \in 1 .. Len(q) : pos[s] = 2 * k - 1 => q[k].kind = "meta"
  /\ batch.who = s /\ observing[s] => pos[s] >= 2 * Whole(file[s])
  /\ batch.next <= batch.upto =>
       batch.of = file[s] /\ batch.upto = Whole(file[s]) /\ pos[s] = 2 * Whole(file[s])
  /\ batch.of \in {file[s], NoFile}

Tracking(s, q) ==
  /\ hint[s] \in {NoFile, file[s]} /\ pinnedId[s] \in {NoFile, file[s]}
  /\ hint[s] = NoFile => cli[s].turn # 0
  /\ Cursor(s, q)
  /\ News(s, q, Passed(s))
  /\ IF LastRead(q, Passed(s)) = 0 THEN Blank(s) ELSE Holding(s, q[LastRead(q, Passed(s))])
  /\ Relayed1(s, q, Passed(s))

Watcher(s) ==
  /\ cli[s].turn = 0 => Blank(s)
  /\ atPinFiles[s] \subseteq Existing /\ excluded[s] = {}
  /\ hint[s] \in Existing \cup {NoFile} /\ pinnedId[s] \in Existing \cup {NoFile}
  /\ Home(s) = NoFile => hint[s] = NoFile
  /\ IF Tracks(s) THEN Tracking(s, rows[Home(s)]) ELSE Away(s)
  /\ batch.of = NoFile => ~batch.completed /\ batch.out = <<>> /\ batch.upto = 0
  /\ batch.who = NoSession => batch = Idle

Observing(s) ==
  /\ observing[s] =>
       /\ s \in live /\ pinned[s] /\ asked[s] # 0
       /\ \/ inbox[s] = asked[s] /\ cli[s].stage = "prompt"
          \/ inbox[s] = 0 /\ cli[s].turn = asked[s]
       /\ Below(LogTurns, asked[s])
       /\ batch.out = <<>>
  /\ ~observing[s] => inbox[s] = 0

NotLive(s) ==
  s \notin live => /\ Home(s) = NoFile /\ file[s] = NoFile
                   /\ ~pinned[s] /\ ~observing[s] /\ batch = Idle

Relay(s) ==
  /\ Directory(s) /\ Cli(s) /\ Numbers(s) /\ Ledgers(s) /\ Watcher(s)
  /\ Observing(s) /\ NotLive(s)

AllRelay == \A s \in Session : Relay(s)
-----------------------------------------------------------------------------
(* Rows. *)
LEMMA Longer ==
  ASSUME NEW q \in Seq(Row), NEW r \in Row
  PROVE  /\ Append(q, r) \in Seq(Row) /\ Len(Append(q, r)) = Len(q) + 1
         /\ Len(q) \in Nat
         /\ \A i \in 1 .. Len(q) : Append(q, r)[i] = q[i]
         /\ Append(q, r)[Len(q) + 1] = r
OBVIOUS

(* The fields of a row. *)
LEMMA RowIs ==
  ASSUME NEW q \in Seq(Row), NEW i \in 1 .. Len(q)
  PROVE  q[i] \in Row /\ q[i].kind \in Kind /\ q[i].turn \in Turn /\ q[i].n \in Nat
<1>1. q[i] \in Row
  OBVIOUS
<1> QED BY <1>1 DEF Row

(* Metadata is first in its file, or right after the end of a turn. *)
LEMMA MetaFollows ==
  ASSUME NEW q \in Seq(Row), Chained(q), NEW p \in 1 .. Len(q), q[p].kind = "meta", p # 1
  PROVE  p - 1 \in 1 .. Len(q) /\ q[p - 1].kind \in Ended
<1>1. p \in 2 .. Len(q) /\ p - 1 \in 1 .. Len(q)
  OBVIOUS
<1>2. Follows(q[p - 1], q[p])
  BY <1>1 DEF Chained
<1> QED BY <1>1, <1>2 DEF Follows, Said

(* Behind the last row that belongs to a turn there is only metadata. *)
LEMMA LastReadIs ==
  ASSUME NEW q \in Seq(Row), Chained(q), NEW p \in 0 .. Len(q)
  PROVE  /\ LastRead(q, p) \in 0 .. p
         /\ LastRead(q, p) # 0 => q[LastRead(q, p)].kind # "meta"
         /\ \A i \in LastRead(q, p) + 1 .. p : q[i].kind = "meta"
<1>1. CASE p = 0
  BY <1>1 DEF LastRead
<1>2. CASE p # 0 /\ q[p].kind # "meta"
  BY <1>2 DEF LastRead
<1>3. CASE p # 0 /\ q[p].kind = "meta"
  <2>1. LastRead(q, p) = p - 1 /\ p \in 1 .. Len(q)
    BY <1>3 DEF LastRead
  <2>2. CASE p = 1
    BY <2>1, <2>2, <1>3
  <2>3. CASE p # 1
    <3>1. q[p - 1].kind \in Ended
      BY <2>1, <2>3, <1>3, MetaFollows
    <3> QED BY <2>1, <3>1, <1>3 DEF Ended
  <2> QED BY <2>2, <2>3
<1> QED BY <1>1, <1>2, <1>3

(* One row more. *)
LEMMA LastReadNext ==
  ASSUME NEW q \in Seq(Row), Chained(q), NEW p \in 0 .. Len(q) - 1
  PROVE  LastRead(q, p + 1) = IF q[p + 1].kind = "meta" THEN LastRead(q, p) ELSE p + 1
<1>1. p + 1 \in 1 .. Len(q) /\ p + 1 # 0
  OBVIOUS
<1>2. CASE q[p + 1].kind # "meta"
  BY <1>1, <1>2 DEF LastRead
<1>3. CASE q[p + 1].kind = "meta"
  <2>1. LastRead(q, p + 1) = p
    BY <1>1, <1>3 DEF LastRead
  <2>2. CASE p = 0
    BY <2>1, <2>2, <1>3 DEF LastRead
  <2>3. CASE p # 0
    <3>1. q[p].kind \in Ended
      BY <2>3, <1>1, <1>3, MetaFollows
    <3>2. q[p].kind # "meta"
      BY <3>1 DEF Ended
    <3> QED BY <2>1, <2>3, <3>2, <1>3 DEF LastRead
  <2> QED BY <2>2, <2>3
<1> QED BY <1>2, <1>3

(* A row appended does not change what was read before it. *)
LEMMA LastReadStays ==
  ASSUME NEW q \in Seq(Row), NEW r \in Row, NEW p \in 0 .. Len(q)
  PROVE  LastRead(Append(q, r), p) = LastRead(q, p)
<1>1. CASE p = 0
  BY <1>1 DEF LastRead
<1>2. CASE p # 0
  <2>1. Append(q, r)[p] = q[p]
    BY <1>2, Longer
  <2> QED BY <2>1 DEF LastRead
<1> QED BY <1>1, <1>2

(* A row that may follow the last one keeps the rows chained. *)
LEMMA ChainGrows ==
  ASSUME NEW q \in Seq(Row), NEW r \in Row, Chained(q),
         q = <<>> => CanBegin(r), q # <<>> => Follows(q[Len(q)], r)
  PROVE  Chained(Append(q, r))
<1> DEFINE a == Append(q, r)
<1>1. /\ a \in Seq(Row) /\ Len(a) = Len(q) + 1 /\ Len(q) \in Nat
      /\ \A i \in 1 .. Len(q) : a[i] = q[i]
      /\ a[Len(q) + 1] = r
  BY Longer
<1> HIDE DEF a
<1>2. CanBegin(a[1])
  <2>1. CASE q = <<>>
    BY <1>1, <2>1
  <2>2. CASE q # <<>>
    <3>1. 1 \in 1 .. Len(q)
      BY <2>2, <1>1
    <3>2. a[1] = q[1] /\ CanBegin(q[1])
      BY <1>1, <2>2, <3>1 DEF Chained
    <3> QED BY <3>2
  <2> QED BY <2>1, <2>2
<1>3. ASSUME NEW i \in 2 .. Len(a) PROVE Follows(a[i - 1], a[i])
  <2>1. CASE i <= Len(q)
    <3>1. i \in 2 .. Len(q) /\ i - 1 \in 1 .. Len(q) /\ i \in 1 .. Len(q)
      BY <1>1, <2>1
    <3>2. a[i - 1] = q[i - 1] /\ a[i] = q[i]
      BY <1>1, <3>1
    <3> QED BY <3>1, <3>2 DEF Chained
  <2>2. CASE i = Len(q) + 1
    <3>1. Len(q) >= 1 /\ i - 1 = Len(q) /\ q # <<>>
      BY <2>2, <1>1
    <3>2. a[i - 1] = q[Len(q)] /\ a[i] = r
      BY <1>1, <2>2, <3>1
    <3> QED BY <3>1, <3>2
  <2> QED BY <1>1, <2>1, <2>2
<1>4. Chained(a)
  BY <1>2, <1>3 DEF Chained
<1> QED BY <1>4 DEF a

(* A row of a turn after those that ended keeps the turns in order. *)
LEMMA RiseGrows ==
  ASSUME NEW q \in Seq(Row), NEW r \in Row, Rising(q),
         r.kind # "meta" => \A i \in 1 .. Len(q) : q[i].kind \in Ended => q[i].turn < r.turn
  PROVE  Rising(Append(q, r))
<1> DEFINE a == Append(q, r)
<1>1. /\ a \in Seq(Row) /\ Len(a) = Len(q) + 1 /\ Len(q) \in Nat
      /\ \A i \in 1 .. Len(q) : a[i] = q[i]
      /\ a[Len(q) + 1] = r
  BY Longer
<1> HIDE DEF a
<1>2. ASSUME NEW i \in 1 .. Len(a), NEW j \in 1 .. Len(a), i < j, a[i].kind \in Ended,
             a[j].kind # "meta"
      PROVE  a[i].turn < a[j].turn
  <2>1. i \in 1 .. Len(q) /\ a[i] = q[i]
    BY <1>1, <1>2
  <2>2. CASE j \in 1 .. Len(q)
    <3>1. a[j] = q[j]
      BY <1>1, <2>2
    <3> QED BY <2>1, <2>2, <3>1, <1>2 DEF Rising
  <2>3. CASE j = Len(q) + 1
    BY <1>1, <1>2, <2>1, <2>3
  <2> QED BY <1>1, <2>2, <2>3
<1>3. Rising(a)
  BY <1>2 DEF Rising
<1> QED BY <1>3 DEF a
-----------------------------------------------------------------------------
(* Replies, and the turns told. *)
LEMMA PrefixIs ==
  ASSUME NEW t \in Turn, NEW n \in Nat
  PROVE  /\ Prefix(t, n) \in Seq(Part) /\ Len(Prefix(t, n)) = n
         /\ n # 0 => Prefix(t, n) # <<>> /\ Prefix(t, n)[1].turn = t
         /\ Prefix(t, 0) = <<>>
         /\ Append(Prefix(t, n), [turn |-> t, n |-> n + 1]) = Prefix(t, n + 1)
<1>1. \A i \in 1 .. n : [turn |-> t, n |-> i] \in Part
  BY DEF Part
<1>2. Prefix(t, n) \in Seq(Part) /\ Len(Prefix(t, n)) = n
  <2> DEFINE x(i) == [turn |-> t, n |-> i]
  <2>1. \A i \in 1 .. n : x(i) \in Part
    BY <1>1
  <2>2. Prefix(t, n) = [i \in 1 .. n |-> x(i)]
    BY DEF Prefix
  <2> HIDE DEF x
  <2> QED BY <2>1, <2>2
<1>3. n # 0 => Prefix(t, n) # <<>> /\ Prefix(t, n)[1].turn = t
  <2>1. n # 0 => 1 \in 1 .. n
    OBVIOUS
  <2> QED BY <1>2, <2>1 DEF Prefix
<1>4. Prefix(t, 0) = <<>>
  <2>1. \A i \in 1 .. 0 : FALSE
    OBVIOUS
  <2> QED BY <2>1 DEF Prefix
<1>5. Append(Prefix(t, n), [turn |-> t, n |-> n + 1]) = Prefix(t, n + 1)
  <2> DEFINE y == [turn |-> t, n |-> n + 1]
             a == Append(Prefix(t, n), y)
  <2>1. y \in Part
    BY DEF Part
  <2>2. a \in Seq(Part) /\ Len(a) = n + 1
    BY <1>2, <2>1
  <2>3. a = [i \in 1 .. n + 1 |-> a[i]]
    BY <2>2
  <2>4. \A i \in 1 .. n + 1 : a[i] = [turn |-> t, n |-> i]
    <3> TAKE i \in 1 .. n + 1
    <3>1. CASE i = n + 1
      BY <1>2, <2>1, <3>1
    <3>2. CASE i \in 1 .. n
      <4>1. a[i] = Prefix(t, n)[i]
        BY <1>2, <2>1, <3>2
      <4> QED BY <3>2, <4>1 DEF Prefix
    <3>3. i = n + 1 \/ i \in 1 .. n
      OBVIOUS
    <3> QED BY <3>1, <3>2, <3>3
  <2> HIDE DEF a
  <2>5. a = Prefix(t, n + 1)
    BY <2>3, <2>4 DEF Prefix
  <2> QED BY <2>5 DEF a
<1> QED BY <1>2, <1>3, <1>4, <1>5

(* The turn a reply is of is the one its parts name. *)
LEMMA ReplyIs ==
  ASSUME length \in [1 .. MaxTurn -> Nat], NEW c, IsReply(c)
  PROVE  /\ c[1].turn \in 1 .. MaxTurn /\ c # <<>>
         /\ length[c[1].turn] # 0 /\ c = Prefix(c[1].turn, length[c[1].turn])
<1>1. PICK t \in 1 .. MaxTurn : length[t] # 0 /\ c = Prefix(t, length[t])
  BY DEF IsReply
<1>2. t \in Turn /\ length[t] \in Nat
  BY TurnAssumption DEF Turn
<1>3. c[1].turn = t /\ c # <<>>
  BY <1>1, <1>2, PrefixIs
<1> QED BY <1>1, <1>3

(* TurnOf, in terms of IsReply. *)
LEMMA TurnOfIs ==
  ASSUME length \in [1 .. MaxTurn -> Nat], NEW e \in Complete
  PROVE  /\ TurnOf(e) \in Nat
         /\ FromTranscript(e) => TurnOf(e) = IF IsReply(e.content) THEN e.content[1].turn ELSE 0
         /\ ~FromTranscript(e) => TurnOf(e) = e.asked
         /\ FromTranscript(e) /\ TurnOf(e) # 0 => IsReply(e.content)
<1>1. (\E t \in 1 .. MaxTurn : length[t] # 0 /\ e.content = Reply(t)) <=> IsReply(e.content)
  BY DEF IsReply, Reply, Prefix
<1>2. FromTranscript(e) => TurnOf(e) = IF IsReply(e.content) THEN e.content[1].turn ELSE 0
  BY <1>1 DEF TurnOf
<1>3. ~FromTranscript(e) => TurnOf(e) = e.asked
  BY DEF TurnOf
<1>4. e.asked \in Nat
  BY TurnAssumption DEF Complete, Turn
<1>5. IsReply(e.content) => e.content[1].turn \in Nat
  BY ReplyIs, TurnAssumption
<1> QED BY <1>2, <1>3, <1>4, <1>5

(* Lengths are only filled in: what was told stays told. *)
LengthsStay == \A t \in 1 .. MaxTurn : length[t] # 0 => length'[t] = length[t]

(* A whole reply stays one: the length of its turn is not touched again. *)
LEMMA ReplyStays ==
  ASSUME LengthsStay, NEW c, IsReply(c)
  PROVE  IsReply(c)'
<1>1. PICK t \in 1 .. MaxTurn : length[t] # 0 /\ c = Prefix(t, length[t])
  BY DEF IsReply
<1>2. length'[t] = length[t]
  BY <1>1 DEF LengthsStay
<1> QED BY <1>1, <1>2 DEF IsReply

(* And with it the turns of what was relayed. *)
LEMMA LogStays ==
  ASSUME length \in [1 .. MaxTurn -> Nat], length' \in [1 .. MaxTurn -> Nat], LengthsStay,
         log \in Seq(Complete), log' = log, \A i \in 1 .. Len(log) : TurnOf(log[i]) # 0
  PROVE  /\ \A i \in 1 .. Len(log) : TurnOf(log[i])' = TurnOf(log[i])
         /\ LogTurns' = LogTurns
<1>1. ASSUME NEW i \in 1 .. Len(log) PROVE TurnOf(log[i])' = TurnOf(log[i])
  <2> DEFINE e == log[i]
  <2>1. e \in Complete /\ e' = e /\ TurnOf(e) # 0
    OBVIOUS
  <2>2. CASE FromTranscript(e)
    <3>1. IsReply(e.content) /\ TurnOf(e) = e.content[1].turn
      BY <2>1, <2>2, TurnOfIs
    <3>2. PICK t \in 1 .. MaxTurn : length[t] # 0 /\ e.content = Prefix(t, length[t])
      BY <3>1 DEF IsReply
    <3>3. length'[t] # 0 /\ e.content = Prefix(t, length'[t])
      BY <3>2 DEF LengthsStay
    <3>4. TurnOf(e)' = e.content[1].turn
      BY <2>1, <2>2, <3>3 DEF TurnOf, FromTranscript, Reply, Prefix
    <3> QED BY <3>1, <3>4
  <2>3. CASE ~FromTranscript(e)
    BY <2>1, <2>3 DEF TurnOf, FromTranscript
  <2> QED BY <2>2, <2>3
<1>2. LogTurns' = LogTurns
  BY <1>1 DEF LogTurns
<1> QED BY <1>1, <1>2

(* The turns told are numbers. *)
LEMMA TellingIs ==
  ASSUME length \in [1 .. MaxTurn -> Nat], log \in Seq(Complete),
         NEW out \in Seq(Seq(Part)), \A i \in 1 .. Len(out) : IsReply(out[i])
  PROVE  /\ LogTurns \in Seq(Nat) /\ Len(LogTurns) = Len(log)
         /\ OutTurns(out) \in Seq(Nat) /\ Len(OutTurns(out)) = Len(out)
         /\ Len(out) \in Nat /\ Len(log) \in Nat
<1>1. \A i \in 1 .. Len(log) : TurnOf(log[i]) \in Nat
  BY TurnOfIs
<1>2. \A i \in 1 .. Len(out) : out[i][1].turn \in Nat
  BY ReplyIs, TurnAssumption
<1>3. Len(log) \in Nat /\ Len(out) \in Nat
  OBVIOUS
<1>4. LogTurns \in Seq(Nat) /\ Len(LogTurns) = Len(log)
  <2> DEFINE x(i) == TurnOf(log[i])
  <2>1. \A i \in 1 .. Len(log) : x(i) \in Nat
    BY <1>1
  <2>2. LogTurns = [i \in 1 .. Len(log) |-> x(i)]
    BY DEF LogTurns
  <2> HIDE DEF x
  <2> QED BY <1>3, <2>1, <2>2
<1>5. OutTurns(out) \in Seq(Nat) /\ Len(OutTurns(out)) = Len(out)
  <2> DEFINE x(i) == out[i][1].turn
  <2>1. \A i \in 1 .. Len(out) : x(i) \in Nat
    BY <1>2
  <2>2. OutTurns(out) = [i \in 1 .. Len(out) |-> x(i)]
    BY DEF OutTurns
  <2> HIDE DEF x
  <2> QED BY <1>3, <2>1, <2>2
<1> QED BY <1>3, <1>4, <1>5

(* Append on sequences of numbers. *)
LEMMA NumberAdded ==
  ASSUME NEW q \in Seq(Nat), NEW t \in Nat
  PROVE  /\ Append(q, t) \in Seq(Nat) /\ Len(Append(q, t)) = Len(q) + 1 /\ Len(q) \in Nat
         /\ \A i \in 1 .. Len(q) : Append(q, t)[i] = q[i] /\ q[i] \in Nat
         /\ Append(q, t)[Len(q) + 1] = t
OBVIOUS

(* A later turn told keeps the order. *)
LEMMA AscendingGrows ==
  ASSUME NEW q \in Seq(Nat), NEW t \in Nat, Ascending(q), Below(q, t)
  PROVE  /\ Ascending(Append(q, t)) /\ Below(Append(q, t), t + 1)
         /\ Contains(Append(q, t), t)
         /\ \A u : Contains(q, u) => Contains(Append(q, t), u)
<1> DEFINE a == Append(q, t)
<1>1. /\ a \in Seq(Nat) /\ Len(a) = Len(q) + 1 /\ Len(q) \in Nat
      /\ \A i \in 1 .. Len(q) : a[i] = q[i] /\ q[i] \in Nat
      /\ a[Len(q) + 1] = t
  OBVIOUS
<1> HIDE DEF a
<1>2. ASSUME NEW i \in 1 .. Len(a), NEW j \in 1 .. Len(a), i < j PROVE a[i] < a[j]
  <2>1. i \in 1 .. Len(q) /\ a[i] = q[i]
    BY <1>1, <1>2
  <2>2. CASE j \in 1 .. Len(q)
    BY <1>1, <1>2, <2>1, <2>2 DEF Ascending
  <2>3. CASE j = Len(q) + 1
    BY <1>1, <2>1, <2>3 DEF Below
  <2> QED BY <1>1, <2>2, <2>3
<1>3. ASSUME NEW i \in 1 .. Len(a) PROVE a[i] < t + 1
  <2>1. CASE i \in 1 .. Len(q)
    <3>1. a[i] < t /\ a[i] \in Nat
      BY <1>1, <2>1 DEF Below
    <3> QED BY <3>1
  <2>2. CASE i = Len(q) + 1
    BY <1>1, <2>2
  <2> QED BY <1>1, <2>1, <2>2
<1>4. Contains(a, t)
  <2>1. Len(q) + 1 \in 1 .. Len(a)
    BY <1>1
  <2> QED BY <1>1, <2>1 DEF Contains
<1>5. ASSUME NEW u, Contains(q, u) PROVE Contains(a, u)
  <2>1. PICK i \in 1 .. Len(q) : q[i] = u
    BY <1>5 DEF Contains
  <2>2. i \in 1 .. Len(a) /\ a[i] = u
    BY <1>1, <2>1
  <2> QED BY <2>2 DEF Contains
<1>6. Ascending(a) /\ Below(a, t + 1)
  BY <1>2, <1>3 DEF Ascending, Below
<1> QED BY <1>4, <1>5, <1>6 DEF a

(* A turn told is told one further. *)
LEMMA TellMore ==
  ASSUME NEW head \in Seq(Nat), NEW out \in Seq(Seq(Part)), NEW c \in Seq(Part),
         OutTurns(out) \in Seq(Nat), c[1].turn \in Nat
  PROVE  head \o OutTurns(Append(out, c)) = Append(head \o OutTurns(out), c[1].turn)
<1> DEFINE t == c[1].turn
           more == Append(out, c)
<1>1. /\ more \in Seq(Seq(Part)) /\ Len(more) = Len(out) + 1 /\ Len(out) \in Nat
      /\ \A i \in 1 .. Len(out) : more[i] = out[i]
      /\ more[Len(out) + 1] = c
  OBVIOUS
<1> HIDE DEF more
<1>2. Len(OutTurns(out)) = Len(out) /\ \A i \in 1 .. Len(out) : OutTurns(out)[i] = out[i][1].turn
  BY <1>1 DEF OutTurns
<1> DEFINE o == OutTurns(out)
<1>3. o \in Seq(Nat) /\ t \in Nat
  OBVIOUS
<1> HIDE DEF o, t
<1>4. OutTurns(more) = Append(o, t)
  <2> DEFINE b == Append(o, t)
  <2>1. /\ b \in Seq(Nat) /\ Len(b) = Len(o) + 1
        /\ \A i \in 1 .. Len(o) : b[i] = o[i]
        /\ b[Len(o) + 1] = t
    BY <1>3, NumberAdded
  <2> HIDE DEF b
  <2>2. b = [i \in 1 .. Len(b) |-> b[i]]
    BY <2>1
  <2>3. Len(o) = Len(out) /\ \A i \in 1 .. Len(out) : o[i] = out[i][1].turn
    BY <1>2 DEF o
  <2>4. \A i \in 1 .. Len(out) + 1 : b[i] = more[i][1].turn
    <3> TAKE i \in 1 .. Len(out) + 1
    <3>1. i = Len(out) + 1 \/ i \in 1 .. Len(out)
      BY <1>1
    <3>2. CASE i = Len(out) + 1
      BY <1>1, <2>1, <2>3, <3>2 DEF t
    <3>3. CASE i \in 1 .. Len(out)
      BY <1>1, <2>1, <2>3, <3>3
    <3> QED BY <3>1, <3>2, <3>3
  <2>5. b = OutTurns(more)
    BY <1>1, <2>1, <2>2, <2>3, <2>4 DEF OutTurns
  <2> QED BY <2>5 DEF b
<1>5. head \o Append(o, t) = Append(head \o o, t)
  BY <1>3
<1> QED BY <1>4, <1>5 DEF more, o, t
-----------------------------------------------------------------------------
(* The order of modification. *)
LEMMA NewestIsTop ==
  ASSUME IsOrder(newer, Existing), NEW S \in SUBSET Existing, NEW h \in S,
         \A g \in S \ {h} : <<h, g>> \in newer
  PROVE  Newest(S) = h
<1> DEFINE top == {f \in S : \A g \in S \ {f} : <<f, g>> \in newer}
<1>1. h \in top
  OBVIOUS
<1>2. ASSUME NEW f \in top PROVE f = h
  <2>1. SUFFICES ASSUME f # h PROVE FALSE
    OBVIOUS
  <2>2. <<f, h>> \in newer /\ <<h, f>> \in newer /\ f \in Existing /\ h \in Existing
    BY <2>1
  <2> QED BY <2>2 DEF IsOrder
<1>3. top = {h}
  BY <1>1, <1>2
<1>4. Newest(S) = IF top = {} THEN NoFile ELSE CHOOSE f \in top : TRUE
  BY DEF Newest
<1> HIDE DEF top
<1> QED BY <1>3, <1>4

(* A set of numbers that is not empty has a least one. *)
LEMMA LeastNumber ==
  ASSUME NEW K \in SUBSET Nat, K # {}
  PROVE  \E k \in K : \A m \in K : k <= m
<1>1. PICK k \in K : \A m \in K : ~(<<m, k>> \in OpToRel(<, Nat))
  BY WFMin, NatLessThanWellFounded
<1>2. \A m \in K : ~(m < k)
  BY <1>1 DEF OpToRel
<1>3. \A m \in K : m \in Nat /\ k \in Nat
  OBVIOUS
<1> QED BY <1>2, <1>3

(* A set of transcripts has a newest one. *)
LEMMA NewestExists ==
  ASSUME IsOrder(newer, Existing), NEW S \in SUBSET Existing, S # {}
  PROVE  Newest(S) \in S
<1> DEFINE D(f) == {g \in S : <<g, f>> \in newer}
<1>1. IsFiniteSet(S)
  BY DirectoryAssumption, FS_Subset DEF Existing
<1>2. \A f \in S : IsFiniteSet(D(f)) /\ Cardinality(D(f)) \in Nat
  <2> TAKE f \in S
  <2>1. D(f) \subseteq S
    OBVIOUS
  <2> QED BY <1>1, <2>1, FS_Subset, FS_CardinalityType
<1>3. PICK f \in S : \A g \in S : Cardinality(D(f)) <= Cardinality(D(g))
  <2> DEFINE K == {Cardinality(D(f)) : f \in S}
  <2>1. K \in SUBSET Nat /\ K # {}
    BY <1>2
  <2>2. PICK k \in K : \A m \in K : k <= m
    <3> HIDE DEF K
    <3> QED BY <2>1, LeastNumber
  <2> QED BY <2>2
<1>4. \A g \in S \ {f} : <<f, g>> \in newer
  <2>1. SUFFICES ASSUME NEW g \in S, g # f, <<f, g>> \notin newer PROVE FALSE
    OBVIOUS
  <2>2. g \in D(f) /\ g \in Existing /\ f \in Existing
    BY <2>1 DEF IsOrder
  <2>3. D(g) \subseteq D(f) \ {g}
    <3> SUFFICES ASSUME NEW x \in D(g) PROVE x \in D(f) /\ x # g
      OBVIOUS
    <3>1. x \in Existing /\ <<x, g>> \in newer /\ <<g, f>> \in newer
      BY <2>2
    <3>2. <<x, f>> \in newer /\ x # g
      BY <2>2, <3>1 DEF IsOrder
    <3> QED BY <3>2
  <2> DEFINE A == D(f)
             B == D(g)
  <2>4. /\ IsFiniteSet(A) /\ Cardinality(A) \in Nat /\ Cardinality(B) \in Nat
        /\ Cardinality(A) <= Cardinality(B) /\ g \in A /\ B \subseteq A \ {g}
    BY <1>2, <1>3, <2>1, <2>2, <2>3
  <2> HIDE DEF A, B
  <2>5. IsFiniteSet(A \ {g}) /\ Cardinality(A \ {g}) = Cardinality(A) - 1
    BY <2>4, FS_RemoveElement
  <2>6. Cardinality(B) <= Cardinality(A \ {g})
    BY <2>4, <2>5, FS_Subset
  <2> QED BY <2>4, <2>5, <2>6
<1> HIDE DEF D
<1>5. Newest(S) = f
  BY <1>4, NewestIsTop
<1> QED BY <1>5

(* Touching a file makes it the newest, and the order an order still. *)
LEMMA TouchOrders ==
  ASSUME IsOrder(newer, Existing), NEW f \in File, Touch(f), Existing' = Existing \cup {f}
  PROVE  /\ IsOrder(newer, Existing)'
         /\ \A g \in Existing' \ {f} : <<f, g>> \in newer'
         /\ \A g, h \in Existing : h # f /\ <<g, h>> \in newer => <<g, h>> \in newer'
<1>1. newer' = (newer \ (File \X {f})) \cup ({f} \X (Existing \ {f}))
  BY DEF Touch
<1>2. Existing \subseteq File /\ newer \subseteq Existing \X Existing
  BY DEF Existing, IsOrder
<1>3. \A g, h : <<g, h>> \in newer' <=>
        \/ <<g, h>> \in newer /\ h # f
        \/ g = f /\ h \in Existing \ {f}
  BY <1>1, <1>2
<1> DEFINE E == Existing
           F == Existing'
           R == newer
           P == newer'
<1>4. /\ IsOrder(R, E) /\ F = E \cup {f} /\ R \subseteq E \X E
      /\ \A g, h : <<g, h>> \in P <=> \/ <<g, h>> \in R /\ h # f
                                      \/ g = f /\ h \in E \ {f}
      /\ P = (R \ (File \X {f})) \cup ({f} \X (E \ {f}))
  BY <1>1, <1>2, <1>3
<1> HIDE DEF E, F, R, P
<1>5. IsOrder(P, F)
  <2>1. P \subseteq F \X F
    BY <1>4
  <2>2. \A g \in F : <<g, g>> \notin P
    BY <1>4 DEF IsOrder
  <2>3. \A g, h \in F : g # h => <<g, h>> \in P \/ <<h, g>> \in P
    BY <1>4 DEF IsOrder
  <2>4. ASSUME NEW g \in F, NEW h \in F, NEW k \in F, <<g, h>> \in P, <<h, k>> \in P
        PROVE  <<g, k>> \in P
    <3>1. CASE g = f
      BY <1>4, <2>4, <3>1 DEF IsOrder
    <3>2. CASE g # f
      <4>1. <<g, h>> \in R /\ h # f /\ <<h, k>> \in R /\ k # f
        BY <1>4, <2>4, <3>2
      <4>2. g \in E /\ h \in E /\ k \in E
        BY <1>4, <4>1
      <4>3. <<g, k>> \in R
        BY <1>4, <4>1, <4>2 DEF IsOrder
      <4> QED BY <1>4, <4>1, <4>3
    <3> QED BY <3>1, <3>2
  <2> QED BY <2>1, <2>2, <2>3, <2>4 DEF IsOrder
<1>6. \A g \in F \ {f} : <<f, g>> \in P
  BY <1>4
<1>7. \A g, h \in E : h # f /\ <<g, h>> \in R => <<g, h>> \in P
  BY <1>4
<1>8. IsOrder(newer, Existing)'
  BY <1>5 DEF P, F, IsOrder
<1> QED BY <1>6, <1>7, <1>8 DEF E, F, R, P

-----------------------------------------------------------------------------
(* Which transcript find_active_jsonl takes. *)
LEMMA TitleIs ==
  ASSUME NEW f, rows[f] = Title
  PROVE  /\ rows[f] # <<>> /\ Len(rows[f]) = 1 /\ rows[f][1].kind = "meta"
         /\ \A from : ~ConversationSince(f, from)
<1>1. rows[f] # <<>> /\ Len(rows[f]) = 1 /\ rows[f][1].kind = "meta"
  BY DEF Title, MkRow
<1>2. \A i \in 1 .. Whole(f) : i = 1
  <2>1. Whole(f) = 1 \/ Whole(f) = 0
    BY <1>1 DEF Whole
  <2> QED BY <2>1
<1> QED BY <1>1, <1>2 DEF ConversationSince, IsConversationRow

(* A conversation newer than the others is what find_active finds. *)
LEMMA ActiveIsHome ==
  ASSUME IsOrder(newer, Existing), NEW s, NEW h \in Existing, IsConversation(h),
         \A g \in Existing \ {h} : IsConversation(g) => <<h, g>> \in newer
  PROVE  FindActive(s, {}) = h
<1> DEFINE C == {f \in Existing : IsConversation(f)}
<1>1. C \in SUBSET Existing /\ h \in C /\ \A g \in C \ {h} : <<h, g>> \in newer
  OBVIOUS
<1>2. Existing \ {} = Existing
  OBVIOUS
<1>3. FindActive(s, {}) = IF C # {} THEN Newest(C) ELSE Newest(Existing)
  BY <1>2 DEF FindActive
<1> HIDE DEF C
<1> QED BY <1>1, <1>3, NewestIsTop

(* find_active finds a file of the directory, and a conversation if there   *)
(* is one.                                                                  *)
LEMMA ActiveIs ==
  ASSUME IsOrder(newer, Existing), NEW s
  PROVE  /\ Existing # {} => FindActive(s, {}) \in Existing
         /\ Existing = {} => FindActive(s, {}) = NoFile
         /\ (\E f \in Existing : IsConversation(f)) => IsConversation(FindActive(s, {}))
<1> DEFINE C == {f \in Existing : IsConversation(f)}
<1>1. C \in SUBSET Existing /\ \A f \in C : IsConversation(f)
  OBVIOUS
<1>2. Existing \ {} = Existing
  OBVIOUS
<1>3. FindActive(s, {}) = IF C # {} THEN Newest(C) ELSE Newest(Existing)
  BY <1>2 DEF FindActive
<1>4. (\E f \in Existing : IsConversation(f)) => C # {}
  OBVIOUS
<1> HIDE DEF C
<1>5. C # {} => Newest(C) \in C
  BY <1>1, NewestExists
<1>6. Existing # {} => Newest(Existing) \in Existing
  BY NewestExists
<1>7. Existing = {} => C = {} /\ Newest(Existing) = NoFile
  BY <1>1 DEF Newest
<1> QED BY <1>1, <1>3, <1>4, <1>5, <1>6, <1>7
-----------------------------------------------------------------------------
(* What IInv says of one session. *)
LEMMA Typed ==
  ASSUME IInv, NEW s \in Session
  PROVE  /\ rows \in [File -> Seq(Row)] /\ half \in [File -> BOOLEAN]
         /\ \A f \in File : half[f] => rows[f] # <<>>
         /\ cli \in [Session -> CliState] /\ cli[s].stage \in Stage
         /\ cli[s].turn \in 0 .. MaxTurn /\ cli[s].n \in Nat /\ Home(s) \in File \cup {NoFile}
         /\ inbox \in [Session -> 0 .. MaxTurn] /\ nextTurn \in 1 .. MaxTurn + 1
         /\ length \in [1 .. MaxTurn -> Nat]
         /\ file[s] \in File \cup {NoFile} /\ pos[s] \in Nat /\ pos[s] <= Size(file[s])
         /\ acc[s] \in Accumulator /\ acc[s].parts \in Seq(Part)
         /\ batch \in Batch /\ batch.next \in Nat /\ batch.upto \in Nat
         /\ batch.out \in Seq(Seq(Part))
         /\ log \in Seq(Complete) /\ asked[s] \in 0 .. MaxTurn /\ observing[s] \in BOOLEAN
         /\ TranscriptTypeOK
<1>1. TranscriptTypeOK /\ WatcherTypeOK /\ CliTypeOK /\ CursorInBounds
  BY DEF IInv, TypeOK
<1>2. /\ cli[s] \in CliState /\ cli[s].stage \in Stage /\ cli[s].turn \in Turn
      /\ cli[s].n \in Nat /\ cli[s].home \in File \cup {NoFile}
  <2>1. cli[s] \in CliState
    BY <1>1 DEF CliTypeOK
  <2> QED BY <2>1 DEF CliState
<1>3. acc[s] \in Accumulator /\ acc[s].parts \in Seq(Part)
  <2>1. acc[s] \in Accumulator
    BY <1>1 DEF WatcherTypeOK
  <2> QED BY <2>1 DEF Accumulator
<1>4. /\ batch \in Batch /\ batch.next \in Nat /\ batch.upto \in Nat
      /\ batch.out \in Seq(Seq(Part))
  <2>1. batch \in Batch
    BY <1>1 DEF WatcherTypeOK
  <2> QED BY <2>1 DEF Batch
<1>5. log \in Seq(Complete) /\ asked[s] \in Turn /\ observing[s] \in BOOLEAN
  BY DEF IInv, TypeOK
<1>6. file[s] \in File \cup {NoFile} /\ pos[s] \in Nat /\ pos[s] <= Size(file[s])
  BY <1>1 DEF WatcherTypeOK, CursorInBounds
<1>7. rows \in [File -> Seq(Row)] /\ half \in [File -> BOOLEAN]
      /\ \A f \in File : half[f] => rows[f] # <<>>
  BY <1>1 DEF TranscriptTypeOK
<1>8. /\ cli \in [Session -> CliState] /\ inbox \in [Session -> Turn]
      /\ nextTurn \in 1 .. MaxTurn + 1 /\ length \in [1 .. MaxTurn -> Nat]
  BY <1>1 DEF CliTypeOK
<1> QED BY <1>1, <1>2, <1>3, <1>4, <1>5, <1>6, <1>7, <1>8 DEF Home, Turn

-----------------------------------------------------------------------------
(* The CLI writes a row r to h: its transcript, its first one, or, when it *)
(* gives up the one it resumed, another one.                               *)
Grown(s, h, r) ==
  /\ h \in File /\ r \in Row /\ Home(s)' = h
  /\ rows' = [rows EXCEPT ![h] = Append(@, r)]
  /\ \E cut \in BOOLEAN : half' = [half EXCEPT ![h] = cut]
  /\ Touch(h)
  /\ Home(s) # NoFile => ~half[Home(s)]
  /\ \/ h = Home(s)
     \/ rows[h] = <<>> /\ Home(s) = NoFile /\ r.kind # "meta"
     \/ rows[h] = <<>> /\ cli[s].turn = 0 /\ cli'[s].turn = 0 /\ r.kind = "meta"
        /\ Home(s) # NoFile /\ rows[Home(s)] = History
  /\ touched'[s] = touched[s] \cup {h}

(* What the write of a row changes in the directory. *)
LEMMA GrownFacts ==
  ASSUME IInv, NEW s \in Session, NEW h, NEW r, Grown(s, h, r), Directory(s)
  PROVE  /\ h \in File /\ h # NoFile /\ Existing' = Existing \cup {h} /\ h \in Existing'
         /\ \A f \in File \ {h} : rows'[f] = rows[f] /\ half'[f] = half[f]
         /\ rows[h] \in Seq(Row) /\ rows'[h] = Append(rows[h], r)
         /\ rows'[h] \in Seq(Row) /\ Len(rows'[h]) = Len(rows[h]) + 1
         /\ Len(rows[h]) \in Nat
         /\ \A i \in 1 .. Len(rows[h]) : rows'[h][i] = rows[h][i]
         /\ rows'[h][Len(rows[h]) + 1] = r
         /\ IsOrder(newer, Existing)'
         /\ \A g \in Existing' \ {h} : <<h, g>> \in newer'
<1>1. /\ rows \in [File -> Seq(Row)] /\ half \in [File -> BOOLEAN]
  BY Typed
<1>2. h \in File /\ r \in Row /\ rows' = [rows EXCEPT ![h] = Append(@, r)] /\ Touch(h)
  BY DEF Grown
<1>3. PICK cut \in BOOLEAN : half' = [half EXCEPT ![h] = cut]
  BY DEF Grown
<1>4. \A f \in File \ {h} : rows'[f] = rows[f] /\ half'[f] = half[f]
  BY <1>1, <1>2, <1>3
<1>5. rows[h] \in Seq(Row) /\ rows'[h] = Append(rows[h], r)
  BY <1>1, <1>2
<1>6. /\ rows'[h] \in Seq(Row) /\ Len(rows'[h]) = Len(rows[h]) + 1
      /\ Len(rows[h]) \in Nat
      /\ \A i \in 1 .. Len(rows[h]) : rows'[h][i] = rows[h][i]
      /\ rows'[h][Len(rows[h]) + 1] = r
  BY <1>2, <1>5, Longer
<1>7. rows'[h] # <<>>
  BY <1>6
<1>8. Existing' = Existing \cup {h}
  BY <1>2, <1>4, <1>7 DEF Existing
<1>9. IsOrder(newer, Existing)' /\ \A g \in Existing' \ {h} : <<h, g>> \in newer'
  BY <1>2, <1>8, TouchOrders DEF Directory
<1> QED BY <1>2, <1>4, <1>5, <1>6, <1>8, <1>9, FileAssumption

(* The rest of the directory is as finished as it was. *)
LEMMA GrownDirectory ==
  ASSUME IInv, NEW s \in Session, NEW h, NEW r, Grown(s, h, r), Directory(s),
         cli[s].turn = 0 => Unused(s)
  PROVE  Directory(s)'
<1>1. /\ h \in File /\ h # NoFile /\ Existing' = Existing \cup {h}
      /\ \A f \in File \ {h} : rows'[f] = rows[f] /\ half'[f] = half[f]
      /\ IsOrder(newer, Existing)'
      /\ \A g \in Existing' \ {h} : <<h, g>> \in newer'
  BY GrownFacts
<1>2. Home(s)' = h /\ touched'[s] = touched[s] \cup {h}
  BY DEF Grown
<1>3. ASSUME NEW f \in Existing' \ {h} PROVE Stranger(s, f)'
  <2>1. f \in Existing /\ f \in File \ {h} /\ <<h, f>> \in newer'
    BY <1>1, <1>3 DEF Existing
  <2>2. /\ rows'[f] = rows[f] /\ half'[f] = half[f]
        /\ f \in touched'[s] <=> f \in touched[s]
    BY <1>1, <1>2, <2>1
  <2>3. CASE f # Home(s)
    <3>1. Stranger(s, f)
      BY <2>1, <2>3 DEF Directory
    <3>2. ~half[f] /\ rows[f] \in {History, Title} /\ (f \in touched[s] => rows[f] = Title)
      BY <3>1 DEF Stranger
    <3>3. Title' = Title /\ History' = History
      BY DEF Title, History
    <3> QED BY <1>2, <2>1, <2>2, <3>2, <3>3 DEF Stranger
  <2>4. CASE f = Home(s)
    <3>1. Home(s) # NoFile /\ h # Home(s)
      BY <2>1, <2>4, FileAssumption
    <3>2. cli[s].turn = 0 /\ rows[f] = History /\ ~half[f]
      BY <3>1, <2>4 DEF Grown
    <3>3. f \notin touched[s]
      BY <3>1, <3>2, <2>4 DEF Unused
    <3>4. Title' = Title /\ History' = History
      BY DEF Title, History
    <3> QED BY <1>2, <2>1, <2>2, <3>2, <3>3, <3>4 DEF Stranger
  <2> QED BY <2>3, <2>4
<1> QED BY <1>1, <1>2, <1>3 DEF Directory

(* The turns that were over are, and what they said stands. *)
Onward(s) ==
  /\ cli'[s].turn \in Nat /\ cli[s].turn <= cli'[s].turn
  /\ cli[s].turn = cli'[s].turn /\ cli[s].stage = "prompt" => cli'[s].stage = "prompt"
  /\ length' \in [1 .. MaxTurn -> Nat]
  /\ \A t \in 1 .. MaxTurn : Over(s, t) => length'[t] = length[t]

(* They stay over, and no reply changes. *)
LEMMA OverStays ==
  ASSUME IInv, NEW s \in Session, Cli(s), Onward(s)
  PROVE  /\ \A t \in Nat : Over(s, t) => Over(s, t)'
         /\ LengthsStay
<1>1. cli[s].turn \in Nat /\ cli'[s].turn \in Nat
  BY Typed DEF Onward
<1>2. \A t \in Nat : Over(s, t) => Over(s, t)'
  BY <1>1 DEF Over, Onward
<1>3. \A t \in 1 .. MaxTurn : length[t] # 0 => Over(s, t)
  BY DEF Cli, Replied
<1> QED BY <1>2, <1>3 DEF LengthsStay, Onward

(* r comes after what h holds and tells what the CLI is doing now. *)
Joins(s, h, r) ==
  /\ rows[h] = <<>> => CanBegin(r)
  /\ rows[h] # <<>> => Follows(rows[h][Len(rows[h])], r)
  /\ r.kind # "meta" =>
       /\ r.turn # 0 /\ Doing(s, r)'
       /\ \A i \in 1 .. Len(rows[h]) : rows[h][i].kind \in Ended => rows[h][i].turn < r.turn
  /\ r.kind = "meta" =>
       /\ r = MkRow("meta", 0, 0)
       /\ cli'[s].turn = cli[s].turn /\ cli'[s].stage = cli[s].stage /\ cli'[s].n = cli[s].n
       /\ cli[s].stage = "prompt"
  /\ RowFits(s, r)'
  /\ Onward(s)
  /\ \A t \in 1 .. MaxTurn :
       length'[t] # length[t] => r.kind = "textEnd" /\ r.turn = t /\ Over(s, t)'

(* Rows already written keep fitting the state of the CLI. *)
LEMMA RowFitsStays ==
  ASSUME IInv, NEW s \in Session, NEW x \in Row, Cli(s), Onward(s), RowFits(s, x)
  PROVE  RowFits(s, x)'
<1>1. x.turn \in Nat /\ (x.turn # 0 => x.turn \in 1 .. MaxTurn)
  BY TurnAssumption DEF Row, Turn
<1>2. cli[s].turn \in Nat /\ cli'[s].turn \in Nat /\ cli[s].turn <= cli'[s].turn
  BY Typed DEF Onward
<1>3. x.kind \in Ended => Over(s, x.turn) /\ Over(s, x.turn)'
  BY <1>1, OverStays DEF RowFits
<1>4. x.kind \in Ended /\ x.turn # 0 => length'[x.turn] = length[x.turn]
  BY <1>1, <1>3 DEF Onward
<1> QED BY <1>1, <1>2, <1>3, <1>4 DEF RowFits, Ended

(* The transcript with the new row is chained and in order. *)
LEMMA GrownScript ==
  ASSUME IInv, NEW s \in Session, NEW h, NEW r, Grown(s, h, r), Directory(s), Cli(s),
         Joins(s, h, r)
  PROVE  Script(s)'
<1> DEFINE q == rows[h]
           z == rows'[h]
<1>1. /\ h \in File /\ h # NoFile /\ h \in Existing'
      /\ q \in Seq(Row) /\ z = Append(q, r)
      /\ z \in Seq(Row) /\ Len(z) = Len(q) + 1 /\ Len(q) \in Nat
      /\ \A i \in 1 .. Len(q) : z[i] = q[i]
      /\ z[Len(q) + 1] = r
  BY GrownFacts
<1>2. Home(s)' = h /\ r \in Row /\ (h = Home(s) \/ q = <<>>)
  BY DEF Grown
<1>3. Chained(q) /\ Rising(q) /\ \A i \in 1 .. Len(q) : RowFits(s, q[i])
  <2>1. CASE h = Home(s)
    BY <1>1, <2>1 DEF Cli, Script
  <2>2. CASE q = <<>>
    BY <2>2 DEF Chained, Rising
  <2> QED BY <1>2, <2>1, <2>2
<1>4. Chained(z)
  BY <1>1, <1>2, <1>3, ChainGrows DEF Joins
<1>5. Rising(z)
  BY <1>1, <1>2, <1>3, RiseGrows DEF Joins
<1>6. ASSUME NEW i \in 1 .. Len(z) PROVE \E x \in Row : x = z[i] /\ RowFits(s, x)'
  <2>1. CASE i = Len(q) + 1
    BY <1>1, <1>2, <2>1 DEF Joins
  <2>2. CASE i \in 1 .. Len(q)
    <3>1. PICK x \in Row : x = q[i]
      BY <1>1, <2>2, RowIs
    <3>2. RowFits(s, x)
      BY <1>3, <2>2, <3>1
    <3>3. RowFits(s, x)'
      BY <3>2, RowFitsStays DEF Joins
    <3> QED BY <1>1, <2>2, <3>1, <3>3
  <2> QED BY <1>1, <2>1, <2>2
<1>7. \A i \in 1 .. Len(rows'[h]) : RowFits(s, rows[h][i])'
  BY <1>6 DEF RowFits, Over
<1>8. Home(s)' \in Existing' /\ Chained(rows[Home(s)])' /\ Rising(rows[Home(s)])'
  <2>1. Home(s)' \in Existing'
    BY <1>1, <1>2
  <2>2. z = rows'[Home(s)']
    BY <1>1, <1>2
  <2>3. Chained(rows[Home(s)])'
    BY <1>4, <2>2 DEF Chained, Follows, CanBegin
  <2>4. Rising(rows[Home(s)])'
    BY <1>5, <2>2 DEF Rising
  <2> QED BY <2>1, <2>3, <2>4
<1>9. \A i \in 1 .. Len(rows'[Home(s)']) : RowFits(s, rows[Home(s)][i])'
  BY <1>2, <1>7 DEF RowFits, Over
<1> QED BY <1>8, <1>9 DEF Script

(* A CLI that has not run a turn still has not after metadata. *)
LEMMA GrownUnused ==
  ASSUME IInv, NEW s \in Session, NEW h, NEW r, Grown(s, h, r), Directory(s), Cli(s),
         Joins(s, h, r), cli'[s].turn = 0
  PROVE  Unused(s)'
<1>1. /\ h \in File /\ h # NoFile
      /\ rows[h] \in Seq(Row) /\ rows'[h] = Append(rows[h], r)
  BY GrownFacts
<1>2. cli[s].turn = 0 /\ Unused(s)
  BY Typed DEF Joins, Onward, Cli
<1>3. r = MkRow("meta", 0, 0) /\ r.kind = "meta"
  BY DEF Joins, Doing
<1>4. cli'[s].n = 0 /\ cli'[s].stage = "prompt"
  BY <1>2, <1>3 DEF Joins, Unused
<1>5. Home(s)' = h /\ (h = Home(s) \/ rows[h] = <<>>)
  BY DEF Grown
<1>6. CASE rows[h] = <<>>
  <2>1. rows'[h] = Title /\ Title' = Title /\ Title # History /\ History' = History
    BY <1>1, <1>3, <1>6 DEF Title, MkRow, History
  <2> QED BY <1>1, <1>4, <1>5, <2>1 DEF Unused
<1>7. CASE rows[h] # <<>> /\ h = Home(s)
  <2>1. rows[h] \in {History, Append(History, MkRow("meta", 0, 0)), Title}
    BY <1>1, <1>2, <1>7 DEF Unused
  <2>2. rows[h][Len(rows[h])].kind \in Ended
    BY <1>3, <1>7 DEF Joins, Follows, Said
  <2>3. rows[h] = History
    BY <2>1, <2>2 DEF History, Title, MkRow, Ended
  <2>4. /\ rows'[h] = Append(History, MkRow("meta", 0, 0)) /\ rows'[h] # History
        /\ History' = History
    BY <1>1, <1>3, <2>3 DEF History, MkRow
  <2> QED BY <1>4, <1>5, <2>4 DEF Unused, MkRow
<1> QED BY <1>5, <1>6, <1>7

(* The new row tells what the CLI is doing. *)
LEMMA GrownUsed ==
  ASSUME IInv, NEW s \in Session, NEW h, NEW r, Grown(s, h, r), Directory(s), Cli(s),
         Joins(s, h, r), cli'[s].turn # 0
  PROVE  Used(s)'
<1> DEFINE q == rows[h]
           z == rows'[h]
<1>1. /\ h \in File /\ h # NoFile
      /\ q \in Seq(Row) /\ z = Append(q, r)
      /\ z \in Seq(Row) /\ Len(z) = Len(q) + 1 /\ Len(q) \in Nat
      /\ \A i \in 1 .. Len(q) : z[i] = q[i]
      /\ z[Len(q) + 1] = r
  BY GrownFacts
<1>2. Home(s)' = h /\ r \in Row
  BY DEF Grown
<1>3. Chained(z)
  BY GrownScript, <1>1, <1>2 DEF Script
<1>4. Tip(s)' = LastRead(z, Len(q) + 1)
  BY <1>1, <1>2 DEF Tip, LastRead
<1>5. LastRead(z, Len(q) + 1) =
        IF r.kind # "meta" THEN Len(q) + 1 ELSE LastRead(q, Len(q))
  <2> HIDE DEF z, q
  <2>1. Len(q) \in 0 .. Len(z) - 1
    BY <1>1
  <2>2. LastRead(z, Len(q) + 1) =
          IF z[Len(q) + 1].kind = "meta" THEN LastRead(z, Len(q)) ELSE Len(q) + 1
    BY <1>1, <1>3, <2>1, LastReadNext
  <2>3. LastRead(z, Len(q)) = LastRead(q, Len(q))
    BY <1>1, <1>2, LastReadStays
  <2> QED BY <1>1, <2>2, <2>3
<1>6. CASE r.kind # "meta"
  <2>1. Tip(s)' = Len(z) /\ Tip(s)' # 0 /\ z[Tip(s)'] = r
    BY <1>1, <1>4, <1>5, <1>6
  <2>2. Doing(s, r)'
    BY <1>6 DEF Joins
  <2>3. Doing(s, rows[Home(s)][Tip(s)])'
    BY <1>2, <2>1, <2>2 DEF Doing
  <2> QED BY <1>1, <1>2, <2>1, <2>3 DEF Used
<1>7. CASE r.kind = "meta"
  <2>1. /\ cli'[s].turn = cli[s].turn /\ cli'[s].stage = cli[s].stage
        /\ cli'[s].n = cli[s].n /\ cli[s].stage = "prompt"
    BY <1>7 DEF Joins
  <2>2. Used(s) /\ h = Home(s)
    BY <2>1 DEF Cli, Used, Grown
  <2>3. Tip(s) = LastRead(q, Len(q)) /\ Tip(s) # 0 /\ Doing(s, q[Tip(s)])
    BY <2>2 DEF Used, Tip
  <2>4. Chained(q)
    BY <1>1, <2>2 DEF Cli, Script
  <2>5. LastRead(q, Len(q)) \in 1 .. Len(q)
    <3> HIDE DEF q
    <3> QED BY <1>1, <2>3, <2>4, LastReadIs
  <2>6. Tip(s)' = Tip(s) /\ z[Tip(s)] = q[Tip(s)]
    BY <1>1, <1>4, <1>5, <1>7, <2>3, <2>5
  <2>7. Doing(s, rows[Home(s)][Tip(s)])'
    <3>1. PICK x \in Row : x = q[Tip(s)]
      BY <1>1, <2>5, RowIs, <2>3
    <3>2. Doing(s, x) /\ x.kind \in Ended /\ x.turn = cli[s].turn
      BY <2>1, <2>3, <3>1 DEF Doing
    <3>3. x = rows'[Home(s)'][Tip(s)']
      BY <1>2, <2>6, <3>1
    <3> QED BY <2>1, <3>2, <3>3 DEF Doing
  <2> QED BY <1>1, <1>2, <2>1, <2>3, <2>6, <2>7 DEF Used
<1> QED BY <1>6, <1>7

(* Together: the invariant of the CLI after a row. *)
LEMMA GrownCli ==
  ASSUME IInv, NEW s \in Session, NEW h, NEW r, Grown(s, h, r), Directory(s), Cli(s),
         Joins(s, h, r)
  PROVE  Cli(s)'
<1>1. /\ h \in File /\ h # NoFile /\ Len(rows[h]) \in Nat
      /\ Len(rows'[h]) = Len(rows[h]) + 1
      /\ \A i \in 1 .. Len(rows[h]) : rows'[h][i] = rows[h][i]
      /\ rows'[h][Len(rows[h]) + 1] = r
  BY GrownFacts
<1>2. Home(s)' = h
  BY DEF Grown
<1>3. ASSUME NEW t \in 1 .. MaxTurn, length'[t] # 0 PROVE Replied(s, t)'
  <2>1. t \in Nat
    OBVIOUS
  <2>2. CASE length[t] # 0
    <3>1. Replied(s, t)
      BY <2>2 DEF Cli
    <3>2. Over(s, t) /\ Over(s, t)' /\ Home(s) # NoFile
      BY <2>1, <3>1, OverStays DEF Replied, Joins
    <3>3. h = Home(s)
      <4>1. cli[s].turn # 0
        BY <2>1, <3>2, Typed DEF Over
      <4> QED BY <3>2, <4>1 DEF Grown
    <3>4. PICK i \in 1 .. Len(rows[h]) : rows[h][i].kind = "textEnd" /\ rows[h][i].turn = t
      BY <3>1, <3>3 DEF Replied
    <3>5. i \in 1 .. Len(rows'[h]) /\ rows'[h][i].kind = "textEnd" /\ rows'[h][i].turn = t
      BY <1>1, <3>4
    <3> QED BY <1>1, <1>2, <3>2, <3>5 DEF Replied
  <2>3. CASE length[t] = 0
    <3>1. r.kind = "textEnd" /\ r.turn = t /\ Over(s, t)'
      BY <1>3, <2>3 DEF Joins
    <3>2. Len(rows[h]) + 1 \in 1 .. Len(rows'[h])
      BY <1>1
    <3> QED BY <1>1, <1>2, <3>1, <3>2 DEF Replied
  <2> QED BY <2>2, <2>3
<1>4. Script(s)'
  BY GrownScript
<1>5. IF cli'[s].turn = 0 THEN Unused(s)' ELSE Used(s)'
  BY GrownUnused, GrownUsed
<1> QED BY <1>3, <1>4, <1>5 DEF Cli

(* What has been told is told. *)
LEMMA EnvLedgers ==
  ASSUME IInv, NEW s \in Session, Cli(s), Ledgers(s), Onward(s), log' = log,
         batch'.out = batch.out
  PROVE  Ledgers(s)' /\ Telling' = Telling /\ LogTurns' = LogTurns
<1>1. /\ log \in Seq(Complete) /\ length \in [1 .. MaxTurn -> Nat]
      /\ length' \in [1 .. MaxTurn -> Nat] /\ batch.out \in Seq(Seq(Part))
  BY Typed DEF Onward
<1>2. LengthsStay /\ \A t \in Nat : Over(s, t) => Over(s, t)'
  BY OverStays
<1>3. \A i \in 1 .. Len(log) : TurnOf(log[i]) # 0
  BY DEF Ledgers
<1>4. (\A i \in 1 .. Len(log) : TurnOf(log[i])' = TurnOf(log[i])) /\ LogTurns' = LogTurns
  BY <1>1, <1>2, <1>3, LogStays
<1>5. Telling' = Telling
  BY <1>4 DEF Telling, OutTurns
<1>6. /\ LogTurns \in Seq(Nat) /\ Len(LogTurns) = Len(log)
      /\ OutTurns(batch.out) \in Seq(Nat)
  BY <1>1, TellingIs DEF Ledgers
<1>7. Telling \in Seq(Nat) /\ \A i \in 1 .. Len(log) : i \in 1 .. Len(Telling) /\ Telling[i] = LogTurns[i]
  <2> DEFINE a == LogTurns
             b == OutTurns(batch.out)
  <2>1. a \in Seq(Nat) /\ b \in Seq(Nat) /\ Len(a) = Len(log) /\ Len(log) \in Nat
    BY <1>1, <1>6
  <2> HIDE DEF a, b
  <2>2. a \o b \in Seq(Nat) /\ \A i \in 1 .. Len(log) : i \in 1 .. Len(a \o b) /\ (a \o b)[i] = a[i]
    BY <2>1
  <2> QED BY <2>2 DEF Telling, a, b
<1>8. ASSUME NEW i \in 1 .. Len(log), log[i].via = "screen" PROVE length'[log[i].asked] = 0
  <2>1. log[i] \in Complete /\ TurnOf(log[i]) = log[i].asked /\ log[i].asked # 0
    BY <1>1, <1>3, <1>8 DEF TurnOf, FromTranscript
  <2>2. log[i].asked \in 1 .. MaxTurn
    BY <2>1, TurnAssumption DEF Complete, Turn
  <2>3. Telling[i] = log[i].asked /\ i \in 1 .. Len(Telling)
    BY <1>7, <2>1 DEF LogTurns
  <2>4. Over(s, log[i].asked)
    BY <2>3 DEF Ledgers
  <2> QED BY <1>8, <2>2, <2>4 DEF Onward, Ledgers
<1>9. \A i \in 1 .. Len(log) : TurnOf(log[i])' # 0
  BY <1>3, <1>4
<1>10. ASSUME NEW i \in 1 .. Len(batch.out) PROVE IsReply(batch.out[i])'
  <2>1. PICK c : c = batch.out[i]
    OBVIOUS
  <2>2. IsReply(c)
    BY <2>1 DEF Ledgers
  <2>3. IsReply(c)'
    BY <1>2, <2>2, ReplyStays
  <2> QED BY <2>1, <2>3 DEF IsReply
<1>11. ASSUME NEW i \in 1 .. Len(Telling) PROVE Over(s, Telling[i])'
  <2>1. PICK t : t = Telling[i]
    OBVIOUS
  <2>2. t \in Nat /\ Over(s, t)
    BY <1>7, <2>1 DEF Ledgers
  <2>3. Over(s, t)'
    BY <1>2, <2>2
  <2> QED BY <1>5, <2>1, <2>3 DEF Over
<1>12. Ascending(Telling)'
  BY <1>5 DEF Ledgers, Ascending
<1>13. /\ \A i \in 1 .. Len(log') : TurnOf(log[i])' # 0
       /\ \A i \in 1 .. Len(log') : log'[i].via = "screen" => length'[log'[i].asked] = 0
       /\ \A i \in 1 .. Len(batch'.out) : IsReply(batch.out[i])'
       /\ \A i \in 1 .. Len(Telling') : Over(s, Telling[i])'
  BY <1>5, <1>8, <1>9, <1>10, <1>11
<1> QED BY <1>4, <1>5, <1>12, <1>13 DEF Ledgers

-----------------------------------------------------------------------------
(* The watcher while the CLI writes. *)
EnvSame(s) ==
  /\ UNCHANGED <<file, pos, atPinFiles, pinned, pinnedId, hint, excluded, acc, batch,
                 observing, asked, log>>
  /\ Telling' = Telling /\ LogTurns' = LogTurns

(* The rows processed are rows of the file. *)
LEMMA PassedIs ==
  ASSUME IInv, NEW s \in Session, Tracks(s), Cursor(s, rows[Home(s)])
  PROVE  /\ file[s] \in File /\ Len(rows[file[s]]) \in Nat
         /\ Passed(s) \in 0 .. Len(rows[file[s]])
         /\ pos[s] <= 2 * Len(rows[file[s]])
<1>1. /\ file[s] \in File /\ pos[s] \in Nat /\ pos[s] <= Size(file[s]) /\ TranscriptTypeOK
      /\ batch.next \in Nat /\ batch.upto \in Nat /\ batch.next >= 1
  BY Typed DEF Tracks, IInv, BatchOK
<1>2. /\ Len(rows[file[s]]) \in Nat /\ Whole(file[s]) \in Nat
      /\ Whole(file[s]) <= Len(rows[file[s]])
  BY <1>1, Sizes
<1> DEFINE n == Len(rows[file[s]])
           w == Whole(file[s])
<1>3. Size(file[s]) <= 2 * n
  <2>1. Size(file[s]) = 2 * n - (IF half[file[s]] THEN 1 ELSE 0)
    BY <1>1, FileAssumption DEF Size
  <2> HIDE DEF n
  <2>2. n \in Nat
    BY <1>2 DEF n
  <2> QED BY <2>1, <2>2
<1>4. batch.next <= batch.upto => batch.upto = w
  BY DEF Cursor
<1>5. n \in Nat /\ w \in Nat /\ w <= n
  BY <1>2
<1> HIDE DEF n, w
<1>6. Passed(s) \in 0 .. n
  <2>1. CASE batch.next <= batch.upto
    <3>1. batch.next - 1 \in 0 .. n
      BY <1>1, <1>4, <1>5, <2>1
    <3> QED BY <2>1, <3>1 DEF Passed
  <2>2. CASE ~(batch.next <= batch.upto)
    <3>1. pos[s] <= 2 * n
      BY <1>1, <1>3, <1>5, Sizes
    <3>2. (pos[s] + 1) \div 2 \in 0 .. n
      BY <1>1, <1>5, <3>1
    <3> QED BY <2>2, <3>2 DEF Passed
  <2> QED BY <2>1, <2>2
<1>7. pos[s] <= 2 * n
  BY <1>1, <1>3, <1>5, Sizes
<1> QED BY <1>1, <1>5, <1>6, <1>7 DEF n

(* What the watcher holds is untouched by the CLI. *)
LEMMA HoldingStays ==
  ASSUME NEW s \in Session, NEW x, Holding(s, x), EnvSame(s)
  PROVE  Holding(s, x)'
<1>1. (Stopped(s) <=> Stopped(s)') /\ (Building(s, x) <=> Building(s, x)')
  BY DEF EnvSame, Stopped, Building, Below
<1> QED BY <1>1 DEF Holding, EnvSame, Below

(* A watcher that holds nothing goes on holding nothing. *)
LEMMA BlankStays ==
  ASSUME NEW s \in Session, Blank(s), EnvSame(s)
  PROVE  Blank(s)'
BY DEF Blank, EnvSame, Stopped

(* A watcher on the transcript sees one more row ahead of it. *)
LEMMA TrackingGrows ==
  ASSUME IInv, NEW s \in Session, NEW q \in Seq(Row), NEW r \in Row, NEW z \in Seq(Row),
         q = rows[Home(s)], z = Append(q, r), Tracks(s), Tracking(s, q), EnvSame(s),
         batch = Idle, cli[s].turn # 0 => cli'[s].turn # 0,
         r.kind # "meta" => r.turn # 0 /\ (observing[s] => r.turn = asked[s])
  PROVE  Tracking(s, z)'
<1>1. /\ Len(z) = Len(q) + 1 /\ Len(q) \in Nat /\ z[Len(q) + 1] = r
      /\ \A i \in 1 .. Len(q) : z[i] = q[i]
  BY Longer
<1>2. Passed(s) \in 0 .. Len(q) /\ Passed(s)' = Passed(s) /\ pos[s] <= 2 * Len(q) /\ pos[s] \in Nat
  BY PassedIs, Typed DEF Tracking, Passed, EnvSame, Tracks
<1>3. batch.who # s /\ ~(batch.next <= batch.upto) /\ batch.of = NoFile
  BY SessionAssumption DEF Idle, Nothing
<1>4. Cursor(s, z)'
  <2>1. \A k \in 1 .. Len(z) : pos[s] = 2 * k - 1 => z[k].kind = "meta"
    <3> TAKE k \in 1 .. Len(z)
    <3>1. k \in 1 .. Len(q) \/ k = Len(q) + 1
      BY <1>1
    <3> QED BY <1>1, <1>2, <3>1 DEF Tracking, Cursor
  <2> QED BY <1>3, <2>1 DEF Cursor, EnvSame
<1>5. LastRead(z, Passed(s)) = LastRead(q, Passed(s))
  BY <1>2, LastReadStays
<1>6. News(s, z, Passed(s))'
  <2>1. \A i \in Passed(s) + 1 .. Len(z) :
          z[i].kind # "meta" => z[i].turn # 0 /\ (observing[s] => z[i].turn = asked[s])
    <3> TAKE i \in Passed(s) + 1 .. Len(z)
    <3>1. i \in Passed(s) + 1 .. Len(q) \/ i = Len(q) + 1
      BY <1>1, <1>2
    <3>2. CASE i \in Passed(s) + 1 .. Len(q)
      <4>1. i \in 1 .. Len(q)
        BY <1>2, <3>2
      <4> QED BY <1>1, <3>2, <4>1 DEF Tracking, News
    <3> QED BY <1>1, <3>1, <3>2
  <2> QED BY <1>2, <2>1 DEF News, EnvSame
<1>7. Relayed1(s, z, Passed(s))'
  <2>1. \A i \in 1 .. Passed(s) : z[i] = q[i]
    BY <1>1, <1>2
  <2>2. Relayed1(s, q, Passed(s))
    BY DEF Tracking
  <2> QED BY <1>2, <1>5, <2>1, <2>2 DEF Relayed1, EnvSame, Contains
<1>8. (IF LastRead(z, Passed(s)) = 0 THEN Blank(s) ELSE Holding(s, z[LastRead(z, Passed(s))]))'
  <2>1. CASE LastRead(q, Passed(s)) = 0
    BY <1>2, <1>5, <2>1, BlankStays DEF Tracking
  <2>2. CASE LastRead(q, Passed(s)) # 0
    <3>1. LastRead(q, Passed(s)) \in 1 .. Len(q)
      BY <1>2, <2>2 DEF LastRead
    <3>2. PICK x : x = q[LastRead(q, Passed(s))]
      OBVIOUS
    <3>3. Holding(s, x)
      BY <2>2, <3>2 DEF Tracking
    <3>4. Holding(s, x)' /\ z[LastRead(z, Passed(s))] = x
      BY <1>1, <1>5, <3>1, <3>2, <3>3, HoldingStays
    <3>5. Holding(s, z[LastRead(z, Passed(s))])'
      BY <1>2, <3>4
    <3> QED BY <1>2, <1>5, <2>2, <3>5
  <2> QED BY <2>1, <2>2
<1> QED BY <1>2, <1>4, <1>6, <1>7, <1>8 DEF Tracking, EnvSame

(* A watcher elsewhere has read nothing of it. *)
LEMMA AwayGrows ==
  ASSUME IInv, NEW s \in Session, NEW h, NEW r, Grown(s, h, r), Directory(s),
         Joins(s, h, r), EnvSame(s), live' = live, batch = Idle, Watcher(s), ~Tracks(s),
         r.kind # "meta" => (observing[s] => r.turn = asked[s])
  PROVE  Away(s)' /\ ~Tracks(s)'
<1>1. /\ h \in File /\ h # NoFile /\ Existing' = Existing \cup {h}
      /\ \A f \in File \ {h} : rows'[f] = rows[f] /\ half'[f] = half[f]
      /\ rows[h] \in Seq(Row) /\ rows'[h] = Append(rows[h], r)
      /\ rows'[h] \in Seq(Row)
  BY GrownFacts
<1>2. Home(s)' = h /\ touched'[s] = touched[s] \cup {h} /\ r \in Row
  BY DEF Grown
<1>3. Away(s) /\ file[s] \in Existing \cup {NoFile} /\ file'[s] = file[s]
  BY DEF Watcher, Away, EnvSame
<1>4. h = Home(s) \/ h \notin Existing
  BY DEF Grown, Existing
<1>5. file[s] # h
  BY <1>1, <1>3, <1>4 DEF Tracks
<1>6. ~Tracks(s)'
  BY <1>2, <1>3, <1>5 DEF Tracks
<1>7. pos'[s] = Size(file[s])'
  <2>1. pos'[s] = pos[s] /\ pos[s] = Size(file[s])
    BY <1>3 DEF Away, EnvSame
  <2>2. CASE file[s] = NoFile
    BY <1>3, <2>1, <2>2 DEF Size
  <2>3. CASE file[s] # NoFile
    <3>1. rows'[file[s]] = rows[file[s]] /\ half'[file[s]] = half[file[s]]
      BY <1>1, <1>3, <1>5, <2>3 DEF Existing
    <3> QED BY <1>3, <2>1, <3>1 DEF Size
  <2> QED BY <2>2, <2>3
<1>8. Blank(s)'
  BY <1>3, BlankStays DEF Away
<1>9. file[s] = NoFile =>
        /\ cli'[s].turn # 0
        /\ s \in live => \A f \in Existing' \ {h} : rows'[f] = Title
  <2> SUFFICES ASSUME file[s] = NoFile
               PROVE  /\ cli'[s].turn # 0
                      /\ s \in live => \A f \in Existing' \ {h} : rows'[f] = Title
    OBVIOUS
  <2>1. Home(s) # NoFile => cli[s].turn # 0
    BY <1>3 DEF Away
  <2>2. s \in live => \A f \in Existing \ {Home(s)} : rows[f] = Title
    BY <1>3 DEF Away
  <2>3. h = Home(s) \/ (Home(s) = NoFile /\ r.kind # "meta")
    <3>1. \/ h = Home(s) \/ (Home(s) = NoFile /\ r.kind # "meta")
          \/ (cli[s].turn = 0 /\ Home(s) # NoFile)
      BY DEF Grown
    <3> QED BY <2>1, <3>1
  <2>4. cli'[s].turn # 0
    <3>1. CASE h = Home(s)
      BY <1>1, <2>1, <3>1, Typed DEF Joins, Onward
    <3>2. CASE r.kind # "meta"
      BY <3>2 DEF Joins, Doing
    <3> QED BY <2>3, <3>1, <3>2
  <2>5. ASSUME s \in live, NEW f \in Existing' \ {h} PROVE rows'[f] = Title
    <3>1. f \in Existing /\ f \in File \ {h} /\ f # Home(s)
      BY <1>1, <2>3, <2>5, FileAssumption DEF Existing
    <3> QED BY <1>1, <2>2, <2>5, <3>1
  <2> QED BY <2>4, <2>5
<1>10. pinned[s] \/ file[s] = NoFile => News(s, rows[h], 0)'
  <2> SUFFICES ASSUME pinned[s] \/ file[s] = NoFile PROVE News(s, rows[h], 0)'
    OBVIOUS
  <2> DEFINE q == rows[h]
             z == rows'[h]
  <2>1. /\ Len(z) = Len(q) + 1 /\ Len(q) \in Nat /\ z[Len(q) + 1] = r
        /\ \A i \in 1 .. Len(q) : z[i] = q[i]
    BY <1>1, <1>2, Longer
  <2>2. \A i \in 1 .. Len(q) :
          q[i].kind # "meta" => q[i].turn # 0 /\ (observing[s] => q[i].turn = asked[s])
    <3>1. CASE h = Home(s)
      <4>1. News(s, q, 0)
        BY <1>1, <1>3, <3>1 DEF Away
      <4> QED BY <4>1 DEF News
    <3>2. CASE h \notin Existing
      BY <1>1, <3>2 DEF Existing
    <3> QED BY <1>4, <3>1, <3>2
  <2>3. r.kind # "meta" => r.turn # 0 /\ (observing[s] => r.turn = asked[s])
    BY DEF Joins
  <2> HIDE DEF q, z
  <2>4. \A i \in 0 + 1 .. Len(z) :
          z[i].kind # "meta" => z[i].turn # 0 /\ (observing[s] => z[i].turn = asked[s])
    <3> TAKE i \in 0 + 1 .. Len(z)
    <3>1. i \in 1 .. Len(q) \/ i = Len(q) + 1
      BY <2>1
    <3> QED BY <2>1, <2>2, <2>3, <3>1
  <2> QED BY <2>4 DEF News, EnvSame, z
<1>11. pinned[s] => h \notin atPinFiles[s] /\ h \in touched'[s]
  BY <1>1, <1>2, <1>3, <1>4 DEF Away, Watcher
<1>12. /\ ~(batch.next <= batch.upto) /\ batch.who # s
  BY SessionAssumption DEF Idle, Nothing
<1>13. /\ hint[s] = hint'[s] /\ pinnedId'[s] = pinnedId[s] /\ pinned'[s] = pinned[s]
       /\ atPinFiles'[s] = atPinFiles[s] /\ batch' = batch
  BY DEF EnvSame
<1>14. file'[s] = NoFile =>
         /\ hint'[s] = NoFile /\ pinnedId'[s] = NoFile
         /\ Home(s)' # NoFile => cli'[s].turn # 0
         /\ s \in live' => \A f \in Existing' \ {Home(s)'} : rows'[f] = Title'
  <2>1. Title' = Title
    BY DEF Title
  <2> QED BY <1>2, <1>3, <1>9, <1>13, <2>1 DEF Away
<1>15. /\ (pinned'[s] \/ file'[s] = NoFile) /\ Home(s)' # NoFile => News(s, rows[Home(s)], 0)'
       /\ pinned'[s] /\ Home(s)' # NoFile =>
            Home(s)' \notin atPinFiles'[s] /\ Home(s)' \in touched'[s]
  BY <1>2, <1>3, <1>10, <1>11, <1>13 DEF News
<1>16. file'[s] \in Existing' \cup {NoFile}
  BY <1>1, <1>3
<1> QED BY <1>3, <1>6, <1>7, <1>8, <1>12, <1>13, <1>14, <1>15, <1>16 DEF Away

(* The resumed transcript has been read before its CLI leaves it.          *)
LEMMA ForkGrows ==
  ASSUME IInv, NEW s \in Session, NEW h, NEW r, Grown(s, h, r), Directory(s),
         Joins(s, h, r), EnvSame(s), batch = Idle, Watcher(s), Tracks(s),
         h # Home(s)
  PROVE  Away(s)' /\ ~Tracks(s)'
<1>1. /\ h \in File /\ h # NoFile /\ Existing' = Existing \cup {h}
      /\ \A f \in File \ {h} : rows'[f] = rows[f] /\ half'[f] = half[f]
      /\ rows[h] \in Seq(Row) /\ rows'[h] = Append(rows[h], r)
  BY GrownFacts
<1>2. /\ Home(s)' = h /\ touched'[s] = touched[s] \cup {h} /\ r \in Row
      /\ rows[h] = <<>> /\ cli[s].turn = 0 /\ r.kind = "meta"
      /\ Home(s) # NoFile /\ ~half[Home(s)] /\ rows[Home(s)] = History
  BY DEF Grown, Tracks
<1>3. /\ file[s] = Home(s) /\ file'[s] = file[s] /\ pos'[s] = pos[s] /\ batch' = batch
      /\ pinned'[s] = pinned[s] /\ atPinFiles'[s] = atPinFiles[s] /\ batch.who # s
      /\ ~(batch.next <= batch.upto)
  BY SessionAssumption DEF EnvSame, Tracks, Idle, Nothing
<1>4. Tracking(s, History)
  BY <1>2 DEF Watcher
<1>5. /\ Len(History) = 2 /\ \A i \in 1 .. 2 : History[i].kind # "meta" /\ History[i].turn = 0
      /\ History # <<>>
  BY DEF History, MkRow
<1>6. Passed(s) \in 0 .. 2 /\ Passed(s) = (pos[s] + 1) \div 2 /\ pos[s] <= 4 /\ pos[s] \in Nat
  <2>1. Cursor(s, rows[Home(s)])
    BY <1>2, <1>4 DEF Tracking
  <2>2. Passed(s) \in 0 .. 2 /\ pos[s] <= 2 * 2
    BY <1>2, <1>3, <1>5, <2>1, PassedIs
  <2> QED BY <1>3, <2>2, Typed DEF Passed
<1>7. Passed(s) = 2
  <2>1. News(s, History, Passed(s))
    BY <1>4 DEF Tracking
  <2>2. \A i \in Passed(s) + 1 .. 2 : FALSE
    <3> TAKE i \in Passed(s) + 1 .. 2
    <3>1. i \in 1 .. 2
      BY <1>6
    <3> QED BY <1>5, <2>1, <3>1 DEF News
  <2>3. Passed(s) = 2 \/ 2 \in Passed(s) + 1 .. 2
    BY <1>6
  <2> QED BY <2>2, <2>3
<1>8. pos[s] = 4
  <2>1. pos[s] # 2 * 2 - 1
    BY <1>4, <1>5 DEF Tracking, Cursor
  <2> QED BY <1>6, <1>7, <2>1
<1>9. file[s] \in Existing /\ file[s] # h /\ file[s] \in File \ {h}
  BY <1>2, <1>3, <1>5, Typed DEF Existing
<1>10. Size(file[s])' = 4
  <2>1. rows'[file[s]] = History /\ ~half'[file[s]] /\ file[s] # NoFile
    BY <1>1, <1>2, <1>3, <1>9
  <2>2. Size(file[s])' = 2 * Len(History) - 0
    BY <1>3, <2>1 DEF Size
  <2> QED BY <1>5, <2>2
<1>11. Blank(s)'
  BY <1>2, BlankStays DEF Watcher
<1>12. News(s, rows[h], 0)'
  <2>1. rows'[h] = <<r>>
    BY <1>1, <1>2
  <2> QED BY <1>2, <2>1 DEF News
<1>13. pinned[s] => h \notin atPinFiles[s] /\ h \in touched'[s]
  BY <1>2 DEF Watcher, Existing
<1>14. ~Tracks(s)'
  BY <1>2, <1>3, <1>9 DEF Tracks
<1>15. News(s, rows[Home(s)], 0)'
  BY <1>2, <1>12 DEF News
<1>16. file'[s] # NoFile /\ file'[s] \in Existing' \cup {NoFile} /\ pos'[s] = Size(file[s])'
  BY <1>1, <1>2, <1>3, <1>8, <1>9, <1>10
<1>17. pinned'[s] /\ Home(s)' # NoFile =>
         Home(s)' \notin atPinFiles'[s] /\ Home(s)' \in touched'[s]
  BY <1>2, <1>3, <1>13
<1> QED BY <1>3, <1>11, <1>14, <1>15, <1>16, <1>17 DEF Away

(* Together: the invariant of the watcher after a row. *)
LEMMA GrownWatcher ==
  ASSUME IInv, NEW s \in Session, NEW h, NEW r, Grown(s, h, r), Directory(s),
         Joins(s, h, r), EnvSame(s), live' = live, batch = Idle, Watcher(s),
         r.kind # "meta" => (observing[s] => r.turn = asked[s])
  PROVE  Watcher(s)'
<1>1. /\ h \in File /\ h # NoFile /\ Existing' = Existing \cup {h}
      /\ rows[h] \in Seq(Row) /\ rows'[h] = Append(rows[h], r) /\ rows'[h] \in Seq(Row)
  BY GrownFacts
<1>2. Home(s)' = h /\ r \in Row
  BY DEF Grown
<1>3. cli[s].turn # 0 => cli'[s].turn # 0
  BY Typed DEF Joins, Onward
<1>4. cli'[s].turn = 0 => Blank(s)'
  BY <1>3, BlankStays DEF Watcher
<1>5. IF Tracks(s)' THEN Tracking(s, rows[Home(s)])' ELSE Away(s)'
  <2>1. CASE ~Tracks(s)
    BY <2>1, AwayGrows
  <2>2. CASE Tracks(s) /\ h # Home(s)
    BY <2>2, ForkGrows
  <2>3. CASE Tracks(s) /\ h = Home(s)
    <3>1. PICK q \in Seq(Row), z \in Seq(Row) : q = rows[h] /\ z = rows'[h]
      BY <1>1
    <3>2. Tracking(s, q)
      BY <2>3, <3>1 DEF Watcher
    <3>3. Tracking(s, z)'
      BY <1>1, <1>2, <1>3, <2>3, <3>1, <3>2, TrackingGrows DEF Joins
    <3>4. Tracks(s)'
      BY <1>2, <2>3 DEF Tracks, EnvSame
    <3>5. z = rows'[Home(s)']
      BY <1>2, <3>1
    <3> QED BY <3>3, <3>4, <3>5
  <2> QED BY <2>1, <2>2, <2>3
<1>6. /\ atPinFiles'[s] \subseteq Existing' /\ excluded'[s] = {}
      /\ hint'[s] \in Existing' \cup {NoFile} /\ pinnedId'[s] \in Existing' \cup {NoFile}
  BY <1>1 DEF Watcher, EnvSame
<1>7. /\ batch'.of = NoFile => ~batch'.completed /\ batch'.out = <<>> /\ batch'.upto = 0
      /\ batch'.who = NoSession => batch' = Idle'
  BY DEF Watcher, EnvSame, Idle, Nothing
<1> QED BY <1>1, <1>2, <1>4, <1>5, <1>6, <1>7 DEF Watcher
-----------------------------------------------------------------------------
(* The steps of the CLI. *)
DaemonSame ==
  UNCHANGED <<pinVars, excluded, acc, batch, live, observing, asked, tick, log>>

(* A write leaves the daemon, and what it told, alone. *)
LEMMA SameEnv ==
  ASSUME IInv, NEW s \in Session, Relay(s), Onward(s), DaemonSame
  PROVE  EnvSame(s) /\ Ledgers(s)' /\ live' = live
<1>1. /\ UNCHANGED <<file, pos, atPinFiles, pinned, pinnedId, hint, excluded, acc, batch,
                     observing, asked, log>>
      /\ live' = live
  BY DEF DaemonSame, pinVars
<1>2. Ledgers(s)' /\ Telling' = Telling /\ LogTurns' = LogTurns
  BY <1>1, EnvLedgers DEF Relay
<1> QED BY <1>1, <1>2 DEF EnvSame

(* What is asked of a step that takes up or goes on with a turn.           *)
Sends(s) ==
  /\ observing'[s] =>
       \/ inbox'[s] = asked[s] /\ cli'[s].stage = "prompt"
       \/ inbox'[s] = 0 /\ cli'[s].turn = asked[s]
  /\ ~observing'[s] => inbox'[s] = 0

(* What the daemon expects of the turn asked for goes on to hold. *)
LEMMA EnvObserving ==
  ASSUME NEW s \in Session, Observing(s), EnvSame(s), live' = live, Sends(s)
  PROVE  Observing(s)'
BY DEF Observing, EnvSame, Sends, Below

(* Together: the invariant after a row. *)
LEMMA GrownRelay ==
  ASSUME IInv, NEW s \in Session, Relay(s), NEW h, NEW r, Grown(s, h, r), Joins(s, h, r),
         DaemonSame, batch = Idle, s \in live, Numbers(s)', Sends(s),
         r.kind # "meta" => (observing[s] => r.turn = asked[s])
  PROVE  Relay(s)'
<1>1. EnvSame(s) /\ Ledgers(s)' /\ live' = live
  BY SameEnv DEF Joins
<1>2. /\ Directory(s) /\ Cli(s) /\ Watcher(s) /\ Observing(s)
      /\ cli[s].turn = 0 => Unused(s)
  BY DEF Relay, Cli
<1>3. Directory(s)' /\ Cli(s)'
  BY <1>2, GrownDirectory, GrownCli
<1>4. Watcher(s)'
  BY <1>1, <1>2, GrownWatcher
<1>5. Observing(s)'
  BY <1>1, <1>2, EnvObserving
<1>6. NotLive(s)'
  BY <1>1 DEF NotLive
<1> QED BY <1>1, <1>3, <1>4, <1>5, <1>6 DEF Relay

(* The file a row was appended to is the one seen as written. *)
LEMMA AppendWrites ==
  ASSUME TranscriptTypeOK, NEW h \in File, NEW r \in Row, Append1(h, r)
  PROVE  WrittenNow = {h}
<1>1. rows \in [File -> Seq(Row)] /\ half \in [File -> BOOLEAN]
  BY DEF TranscriptTypeOK
<1>2. PICK cut \in BOOLEAN : half' = [half EXCEPT ![h] = cut]
  BY DEF Append1
<1>3. rows' = [rows EXCEPT ![h] = Append(@, r)]
  BY DEF Append1
<1>4. \A f \in File \ {h} : rows'[f] = rows[f] /\ half'[f] = half[f]
  BY <1>1, <1>2, <1>3
<1>5. rows'[h] # rows[h]
  <2>1. rows[h] \in Seq(Row) /\ rows'[h] = Append(rows[h], r)
    BY <1>1, <1>3
  <2>2. Len(rows'[h]) = Len(rows[h]) + 1 /\ Len(rows[h]) \in Nat
    BY <2>1, Longer
  <2> QED BY <2>2
<1> QED BY <1>4, <1>5 DEF WrittenNow

(* The row the CLI is at. *)
LEMMA AtTip ==
  ASSUME IInv, NEW s \in Session, Cli(s), Home(s) # NoFile, rows[Home(s)] # <<>>,
         NEW q \in Seq(Row), q = rows[Home(s)]
  PROVE  /\ Len(q) \in Nat \ {0} /\ q[Len(q)] \in Row
         /\ cli[s].stage # "prompt" => cli[s].turn # 0 /\ Doing(s, q[Len(q)])
         /\ cli[s].stage = "prompt" => q[Len(q)].kind \in Ended \cup {"meta"}
<1>1. Len(q) \in Nat \ {0} /\ q[Len(q)] \in Row
  OBVIOUS
<1>2. CASE cli[s].turn = 0
  <2>1. cli[s].stage = "prompt" /\ q \in {History, Append(History, MkRow("meta", 0, 0)), Title}
    BY <1>2 DEF Cli, Unused
  <2>2. /\ History[Len(History)].kind = "textEnd" /\ Title[Len(Title)].kind = "meta"
        /\ Append(History, MkRow("meta", 0, 0))[Len(Append(History, MkRow("meta", 0, 0)))].kind
             = "meta"
    BY DEF History, Title, MkRow
  <2> QED BY <1>1, <2>1, <2>2 DEF Ended
<1>3. CASE cli[s].turn # 0
  <2>1. Used(s) /\ Tip(s) = LastRead(q, Len(q))
    BY <1>3 DEF Cli, Tip
  <2>2. CASE cli[s].stage # "prompt"
    BY <1>1, <1>3, <2>1, <2>2 DEF Used
  <2>3. CASE cli[s].stage = "prompt" /\ q[Len(q)].kind # "meta"
    <3>1. Tip(s) = Len(q)
      BY <1>1, <2>1, <2>3 DEF LastRead
    <3> QED BY <1>1, <2>1, <2>3, <3>1 DEF Used, Doing
  <2> QED BY <1>1, <2>2, <2>3
<1> QED BY <1>2, <1>3

(* A CLI that has not run a turn, at a row that is no metadata. *)
LEMMA AtHistory ==
  ASSUME NEW s \in Session, Unused(s), Home(s) # NoFile, LastRow(Home(s)).kind # "meta"
  PROVE  rows[Home(s)] = History
<1>1. rows[Home(s)] \in {History, Append(History, MkRow("meta", 0, 0)), Title}
  BY DEF Unused
<1>2. /\ Title[Len(Title)].kind = "meta"
      /\ Append(History, MkRow("meta", 0, 0))[Len(Append(History, MkRow("meta", 0, 0)))].kind
           = "meta"
  BY DEF History, Title, MkRow
<1> QED BY <1>1, <1>2 DEF LastRow

Content == {"text", "tool", "result", "textEnd"}

(* The rows of a turn under way. *)
GoesOn(s, kind, stage) ==
  \/ kind = "text" /\ cli[s].stage = "body" /\ stage = "body"
  \/ kind = "tool" /\ cli[s].stage = "body" /\ stage = "tool"
  \/ kind = "result" /\ cli[s].stage = "tool" /\ stage = "body"
  \/ kind = "textEnd" /\ cli[s].stage \in {"body", "reply"} /\ stage = "prompt"
  \/ kind = "thinkEnd" /\ cli[s].stage = "body" /\ stage = "reply" /\ cli[s].n = 0
  \/ kind = "interrupt" /\ cli[s].stage \in {"body", "tool"} /\ stage = "prompt"

(* A row within a turn is such a row. *)
LEMMA WriteGrows ==
  ASSUME IInv, NEW s \in Session, Cli(s), Numbers(s), NEW kind, NEW stage,
         GoesOn(s, kind, stage), CliAt(s, cli[s].stage), Write(s, kind, stage),
         length' = IF kind = "textEnd" THEN [length EXCEPT ![cli[s].turn] = cli[s].n + 1]
                   ELSE length,
         touched'[s] = touched[s] \cup WrittenNow
  PROVE  \E h, r : /\ Grown(s, h, r) /\ Joins(s, h, r) /\ r.turn = cli[s].turn
                   /\ cli'[s].turn = cli[s].turn
<1> DEFINE i == IF kind \in Content THEN cli[s].n + 1 ELSE cli[s].n
<1>1. /\ cli \in [Session -> CliState] /\ cli[s].turn \in 0 .. MaxTurn /\ cli[s].n \in Nat
      /\ length \in [1 .. MaxTurn -> Nat] /\ TranscriptTypeOK
      /\ rows \in [File -> Seq(Row)] /\ cli[s] \in CliState
  BY Typed
<1>2. cli[s].stage # "prompt"
  BY DEF GoesOn
<1>3. /\ cli[s].turn # 0 /\ Home(s) # NoFile
  BY <1>2 DEF Cli, Unused, Used
<1>4. Home(s) \in Existing /\ Home(s) \in File /\ rows[Home(s)] # <<>>
  BY <1>3 DEF Cli, Script, Existing
<1>5. PICK h \in File, q \in Seq(Row) : h = Home(s) /\ q = rows[h]
  BY <1>1, <1>4
<1>6. PICK r : r = MkRow(kind, cli[s].turn, IF i > cli[s].n THEN i ELSE 0)
  OBVIOUS
<1>7. /\ r \in Row /\ r.kind = kind /\ r.turn = cli[s].turn
      /\ r.n = IF kind \in Content THEN cli[s].n + 1 ELSE 0
  <2>1. kind \in Kind /\ cli[s].turn \in Turn
    BY <1>1 DEF GoesOn, Kind, Turn
  <2> QED BY <1>1, <1>6, <2>1 DEF Row, MkRow
<1>8. /\ Append1(h, r)
      /\ cli' = [cli EXCEPT ![s].stage = stage, ![s].n = i]
  BY <1>5, <1>6 DEF Write, Home, Content
<1>9. /\ cli'[s].turn = cli[s].turn /\ cli'[s].stage = stage /\ cli'[s].n = i
      /\ cli'[s].home = cli[s].home
  BY <1>1, <1>8 DEF CliState
<1>10. Grown(s, h, r)
  <2>1. touched'[s] = touched[s] \cup {h}
    BY <1>1, <1>5, <1>7, <1>8, AppendWrites
  <2>2. Home(s)' = h /\ ~half[Home(s)]
    BY <1>3, <1>5, <1>9 DEF Home, CliAt
  <2> QED BY <1>5, <1>7, <1>8, <2>1, <2>2 DEF Grown, Append1
<1>11. Len(q) \in Nat \ {0} /\ q[Len(q)] \in Row /\ Doing(s, q[Len(q)])
  BY <1>2, <1>3, <1>4, <1>5, AtTip
<1>12. Follows(q[Len(q)], r)
  <2>1. PICK a \in Row : a = q[Len(q)]
    BY <1>11
  <2>2. Doing(s, a) /\ a.turn = cli[s].turn
    BY <1>11, <2>1 DEF Doing
  <2>3. Follows(a, r)
    BY <1>7, <2>2 DEF Doing, GoesOn, Follows, Said, Content
  <2> QED BY <2>1, <2>3
<1>13. Doing(s, r)'
  BY <1>7, <1>9 DEF Doing, GoesOn, Said, Ended, Content
<1>14. \A k \in 1 .. Len(q) : q[k].kind \in Ended => q[k].turn < r.turn
  <2> TAKE k \in 1 .. Len(q)
  <2>1. RowFits(s, q[k]) /\ q[k].turn \in Turn
    BY <1>3, <1>5, RowIs DEF Cli, Script
  <2>2. Over(s, q[k].turn) => q[k].turn < cli[s].turn
    BY <1>2 DEF Over
  <2> QED BY <1>7, <2>1, <2>2 DEF RowFits
<1>15. length[cli[s].turn] = 0 /\ cli[s].turn \in 1 .. MaxTurn
  <2>1. ~Over(s, cli[s].turn)
    BY <1>1, <1>2 DEF Over
  <2>2. cli[s].turn \in 1 .. MaxTurn
    BY <1>1, <1>3
  <2> QED BY <2>1, <2>2 DEF Cli, Replied
<1>16. Onward(s)
  <2>1. length' \in [1 .. MaxTurn -> Nat]
    <3>1. CASE kind = "textEnd"
      <4>1. cli[s].n + 1 \in Nat
        BY <1>1
      <4> QED BY <1>1, <3>1, <4>1
    <3>2. CASE kind # "textEnd"
      BY <1>1, <3>2
    <3> QED BY <3>1, <3>2
  <2>2. \A t \in 1 .. MaxTurn : Over(s, t) => length'[t] = length[t]
    <3> TAKE t \in 1 .. MaxTurn
    <3>1. Over(s, t) => t # cli[s].turn
      BY <1>1, <1>2 DEF Over
    <3> QED BY <1>1, <3>1
  <2> QED BY <1>1, <1>2, <1>9, <2>1, <2>2 DEF Onward
<1>17. /\ kind = "textEnd" => length'[cli[s].turn] = cli[s].n + 1
       /\ kind # "textEnd" => length'[cli[s].turn] = 0
  BY <1>1, <1>15
<1>18. kind \in Ended => Over(s, r.turn)'
  BY <1>7, <1>9 DEF Ended, Over, GoesOn
<1>19. RowFits(s, r)'
  <2>1. r.turn <= cli'[s].turn /\ r.kind # "meta"
    BY <1>1, <1>7, <1>9 DEF GoesOn
  <2>2. r.kind = "textEnd" => length'[r.turn] = r.n
    BY <1>7, <1>17 DEF Content
  <2>3. r.kind = "interrupt" => length'[r.turn] = 0
    BY <1>7, <1>17
  <2> QED BY <1>7, <1>18, <2>1, <2>2, <2>3 DEF RowFits
<1>20. \A t \in 1 .. MaxTurn :
         length'[t] # length[t] => r.kind = "textEnd" /\ r.turn = t /\ Over(s, t)'
  <2> TAKE t \in 1 .. MaxTurn
  <2>1. length'[t] # length[t] => kind = "textEnd" /\ t = cli[s].turn
    <3>1. CASE kind = "textEnd"
      BY <1>1, <3>1
    <3>2. CASE kind # "textEnd"
      BY <3>2
    <3> QED BY <3>1, <3>2
  <2>2. kind = "textEnd" /\ t = cli[s].turn => Over(s, t)'
    BY <1>9 DEF Over, GoesOn
  <2> QED BY <1>7, <2>1, <2>2
<1>21. Joins(s, h, r)
  <2>1. r.kind # "meta"
    BY <1>7 DEF GoesOn
  <2> QED BY <1>3, <1>4, <1>5, <1>7, <1>12, <1>13, <1>14, <1>16, <1>19, <1>20, <2>1 DEF Joins
<1> QED BY <1>7, <1>9, <1>10, <1>21

(* So is the first row of a turn. *)
LEMMA TakeUpGrows ==
  ASSUME IInv, NEW s \in Session, Cli(s), NEW t \in 1 .. MaxTurn, t > cli[s].turn,
         CliAt(s, "prompt"), TakeUp(s, t), length' = length,
         touched'[s] = touched[s] \cup WrittenNow
  PROVE  \E h, r : /\ Grown(s, h, r) /\ Joins(s, h, r) /\ r.turn = t
                   /\ cli'[s].turn = t
<1>1. /\ cli \in [Session -> CliState] /\ cli[s].turn \in 0 .. MaxTurn
      /\ length \in [1 .. MaxTurn -> Nat] /\ TranscriptTypeOK
      /\ rows \in [File -> Seq(Row)] /\ Home(s) \in File \cup {NoFile}
  BY Typed
<1>2. PICK h \in HomeOf(s) :
        /\ Append1(h, MkRow("user", t, 0))
        /\ cli' = [cli EXCEPT ![s] = [stage |-> "body", turn |-> t, n |-> 0, home |-> h]]
  BY DEF TakeUp
<1>3. PICK r : r = MkRow("user", t, 0)
  OBVIOUS
<1>4. r \in Row /\ r.kind = "user" /\ r.turn = t /\ r.n = 0
  <2>1. t \in Turn
    BY TurnAssumption DEF Turn
  <2> QED BY <1>3, <2>1 DEF Row, MkRow, Kind
<1>5. /\ h \in File /\ h # NoFile
      /\ h = Home(s) \/ (rows[h] = <<>> /\ Home(s) = NoFile)
  <2>1. CASE Home(s) = NoFile
    BY <2>1, FileAssumption DEF Home, HomeOf, Fresh, Existing
  <2>2. CASE Home(s) # NoFile
    BY <1>1, <2>2, FileAssumption DEF Home, HomeOf
  <2> QED BY <2>1, <2>2
<1>6. /\ cli'[s].turn = t /\ cli'[s].stage = "body" /\ cli'[s].n = 0 /\ Home(s)' = h
  BY <1>1, <1>2 DEF Home
<1>7. Grown(s, h, r)
  <2>1. touched'[s] = touched[s] \cup {h}
    BY <1>1, <1>2, <1>3, <1>4, <1>5, AppendWrites
  <2>2. Home(s) # NoFile => ~half[Home(s)]
    BY DEF Home, CliAt
  <2> QED BY <1>2, <1>3, <1>4, <1>5, <1>6, <2>1, <2>2 DEF Grown, Append1
<1>8. CanBegin(r)
  BY <1>4 DEF CanBegin
<1>9. PICK q \in Seq(Row) : q = rows[h]
  BY <1>1, <1>5
<1>10. q # <<>> => Follows(q[Len(q)], r)
  <2> SUFFICES ASSUME q # <<>> PROVE Follows(q[Len(q)], r)
    OBVIOUS
  <2>1. h = Home(s) /\ Home(s) # NoFile /\ cli[s].stage = "prompt"
    BY <1>5, <1>9 DEF CliAt
  <2>2. q[Len(q)] \in Row /\ q[Len(q)].kind \in Ended \cup {"meta"}
    BY <1>9, <2>1, AtTip
  <2> QED BY <1>4, <2>2 DEF Follows
<1>11. \A k \in 1 .. Len(q) : q[k].kind \in Ended => q[k].turn < r.turn
  <2> TAKE k \in 1 .. Len(q)
  <2>1. h = Home(s) /\ Home(s) # NoFile
    BY <1>5, <1>9
  <2>2. RowFits(s, q[k]) /\ q[k].turn \in Turn
    BY <1>9, <2>1, RowIs DEF Cli, Script
  <2>3. q[k].kind \in Ended => q[k].turn <= cli[s].turn
    BY <2>2 DEF RowFits, Ended
  <2> QED BY <1>1, <1>4, <2>2, <2>3, TurnAssumption DEF Turn
<1>12. Doing(s, r)'
  BY <1>4, <1>6 DEF Doing
<1>13. Onward(s)
  BY <1>1, <1>6 DEF Onward
<1>14. RowFits(s, r)'
  BY <1>4, <1>6 DEF RowFits, Ended
<1>15. Joins(s, h, r)
  BY <1>4, <1>8, <1>9, <1>10, <1>11, <1>12, <1>13, <1>14 DEF Joins
<1> QED BY <1>4, <1>6, <1>7, <1>15

(* So is metadata. *)
LEMMA WriteMetaGrows ==
  ASSUME IInv, NEW s \in Session, Cli(s), WriteMeta(s),
         touched'[s] = touched[s] \cup WrittenNow
  PROVE  \E h, r : Grown(s, h, r) /\ Joins(s, h, r) /\ r.kind = "meta"
<1>1. /\ cli[s].turn \in 0 .. MaxTurn
      /\ length \in [1 .. MaxTurn -> Nat] /\ TranscriptTypeOK
      /\ rows \in [File -> Seq(Row)] /\ Home(s) \in File \cup {NoFile}
  BY Typed
<1>2. PICK r : r = MkRow("meta", 0, 0)
  OBVIOUS
<1>3. /\ r \in Row /\ r.kind = "meta" /\ r.turn = 0
  BY <1>2, TurnAssumption DEF Row, MkRow, Kind, Turn
<1>4. /\ cli[s].stage = "prompt" /\ Home(s) # NoFile /\ ~half[Home(s)]
      /\ Append1(Home(s), r) /\ UNCHANGED cliVars /\ LastRow(Home(s)).kind # "meta"
  BY <1>2 DEF WriteMeta, CliAt, Home
<1>5. PICK h \in File, q \in Seq(Row) : h = Home(s) /\ q = rows[h]
  BY <1>1, <1>4
<1>6. cli' = cli /\ length' = length
  BY <1>4 DEF cliVars
<1>7. Grown(s, h, r)
  <2>1. touched'[s] = touched[s] \cup {h}
    BY <1>1, <1>3, <1>4, <1>5, AppendWrites
  <2> QED BY <1>3, <1>4, <1>5, <1>6, <2>1 DEF Grown, Append1, Home
<1>8. q # <<>>
  BY <1>4, <1>5 DEF Cli, Script, Existing
<1>9. Follows(q[Len(q)], r)
  <2>1. q[Len(q)] \in Row /\ q[Len(q)].kind \in Ended \cup {"meta"}
    BY <1>4, <1>5, <1>8, AtTip
  <2> QED BY <1>3, <1>4, <1>5, <2>1 DEF Follows, LastRow
<1>10. Onward(s)
  BY <1>1, <1>6 DEF Onward
<1>11. RowFits(s, r)'
  BY <1>3, <1>6 DEF RowFits, Ended
<1>12. Joins(s, h, r)
  BY <1>2, <1>3, <1>4, <1>5, <1>6, <1>8, <1>9, <1>10, <1>11 DEF Joins
<1> QED BY <1>3, <1>7, <1>12

(* So is the first row of the transcript a resumed CLI moves to. *)
LEMMA ForkStarts ==
  ASSUME IInv, NEW s \in Session, Cli(s), ResumeFork(s),
         touched'[s] = touched[s] \cup WrittenNow
  PROVE  /\ \E h, r : Grown(s, h, r) /\ Joins(s, h, r) /\ r.kind = "meta"
         /\ cli'[s].turn = cli[s].turn /\ cli'[s].stage = cli[s].stage
<1>1. /\ cli \in [Session -> CliState] /\ cli[s] \in CliState /\ cli[s].turn \in 0 .. MaxTurn
      /\ length \in [1 .. MaxTurn -> Nat] /\ TranscriptTypeOK
      /\ rows \in [File -> Seq(Row)]
  BY Typed
<1>2. PICK r : r = MkRow("meta", 0, 0)
  OBVIOUS
<1>3. /\ r \in Row /\ r.kind = "meta" /\ r.turn = 0
  BY <1>2, TurnAssumption DEF Row, MkRow, Kind, Turn
<1>4. PICK h \in Fresh : Append1(h, r) /\ cli' = [cli EXCEPT ![s].home = h]
  BY <1>2 DEF ResumeFork
<1>5. /\ cli[s].stage = "prompt" /\ Home(s) # NoFile /\ ~half[Home(s)]
      /\ LastRow(Home(s)).kind # "meta" /\ cli[s].turn = 0 /\ length' = length
  BY DEF ResumeFork, CliAt, Home
<1>6. h \in File /\ rows[h] = <<>>
  BY <1>4 DEF Fresh, Existing
<1>7. /\ cli'[s].turn = cli[s].turn /\ cli'[s].stage = cli[s].stage
      /\ cli'[s].n = cli[s].n /\ cli'[s].home = h
  BY <1>1, <1>4 DEF CliState
<1>8. rows[Home(s)] = History
  BY <1>5, AtHistory DEF Cli
<1>9. Grown(s, h, r)
  <2>1. touched'[s] = touched[s] \cup {h}
    BY <1>1, <1>3, <1>4, <1>6, AppendWrites
  <2>2. /\ rows' = [rows EXCEPT ![h] = Append(@, r)] /\ Touch(h)
        /\ \E cut \in BOOLEAN : half' = [half EXCEPT ![h] = cut]
    BY <1>4 DEF Append1
  <2>3. Home(s)' = h
    BY <1>7 DEF Home
  <2> QED BY <1>3, <1>5, <1>6, <1>7, <1>8, <2>1, <2>2, <2>3 DEF Grown
<1>10. Onward(s)
  BY <1>1, <1>5, <1>7 DEF Onward
<1>11. RowFits(s, r)'
  BY <1>3, <1>7 DEF RowFits, Ended
<1>12. Joins(s, h, r)
  <2>1. CanBegin(r)
    BY <1>3 DEF CanBegin
  <2> QED BY <1>2, <1>3, <1>5, <1>6, <1>7, <1>10, <1>11, <2>1 DEF Joins
<1> QED BY <1>3, <1>7, <1>9, <1>12

(* The rest of a row: nothing about it was taken for granted.              *)
LEMMA FinishRelay ==
  ASSUME IInv, NEW s \in Session, Relay(s), FinishRow(s), DaemonSame, batch = Idle,
         touched'[s] = touched[s] \cup WrittenNow
  PROVE  Relay(s)'
<1>1. PICK h : h = Home(s)
  OBVIOUS
<1>2. /\ h # NoFile /\ half[h] /\ half' = [half EXCEPT ![h] = FALSE] /\ Touch(h)
      /\ rows' = rows /\ UNCHANGED cliVars
  BY <1>1 DEF FinishRow, Home
<1>3. /\ half \in [File -> BOOLEAN] /\ h \in File /\ length \in [1 .. MaxTurn -> Nat]
      /\ cli[s].turn \in 0 .. MaxTurn
  BY <1>1, <1>2, Typed
<1>4. WrittenNow = {h}
  BY <1>2, <1>3 DEF WrittenNow
<1>5. cli' = cli /\ inbox' = inbox /\ nextTurn' = nextTurn /\ length' = length
  BY <1>2 DEF cliVars
<1>6. Existing' = Existing /\ h \in Existing /\ Existing = Existing \cup {h}
  <2>1. h \in Existing
    BY <1>1, <1>2 DEF Relay, Cli, Script
  <2> QED BY <1>2, <2>1 DEF Existing
<1>7. Onward(s)
  BY <1>3, <1>5 DEF Onward
<1>8. EnvSame(s) /\ Ledgers(s)' /\ live' = live
  BY <1>7, SameEnv
<1>9. Directory(s)'
  <2>1. IsOrder(newer, Existing)' /\ \A g \in Existing' \ {h} : <<h, g>> \in newer'
    BY <1>2, <1>3, <1>6, TouchOrders DEF Relay, Directory
  <2>2. ASSUME NEW f \in Existing' \ {h} PROVE Stranger(s, f)'
    <3>1. Stranger(s, f) /\ f \in File
      BY <1>1, <1>6, <2>2 DEF Relay, Directory, Existing
    <3>2. rows'[f] = rows[f] /\ half'[f] = half[f] /\ (f \in touched'[s] <=> f \in touched[s])
      BY <1>2, <1>3, <1>4, <2>2, <3>1
    <3>3. <<h, f>> \in newer' /\ Title' = Title /\ History' = History /\ Home(s)' = h
      BY <1>1, <1>5, <2>1, <2>2 DEF Title, History, Home
    <3> QED BY <3>1, <3>2, <3>3 DEF Stranger
  <2>3. Home(s)' = h
    BY <1>1, <1>5 DEF Home
  <2> QED BY <2>1, <2>2, <2>3 DEF Directory
<1>10. Cli(s)'
  <2>1. cli[s].turn = 0 => Unused(s)'
    <3>1. cli[s].turn = 0 => rows[h] # History
      BY <1>1, <1>2 DEF Relay, Cli, Unused
    <3> QED BY <1>1, <1>2, <1>5, <3>1 DEF Relay, Cli, Unused, Home
  <2>2. cli[s].turn # 0 => Used(s)'
    BY <1>2, <1>5 DEF Relay, Cli, Used, Home, Tip, Doing
  <2>3. Script(s)'
    BY <1>2, <1>5, <1>6 DEF Relay, Cli, Script, Home, RowFits, Over
  <2>4. \A t \in 1 .. MaxTurn : length'[t] # 0 => Replied(s, t)'
    BY <1>2, <1>5 DEF Relay, Cli, Replied, Home, Over
  <2> QED BY <1>5, <2>1, <2>2, <2>3, <2>4 DEF Cli
<1>11. Numbers(s)'
  BY <1>5 DEF Relay, Numbers
<1>12. Watcher(s)'
  <2>1. Home(s)' = Home(s) /\ file' = file /\ (Tracks(s) <=> Tracks(s)')
    BY <1>5, <1>8 DEF Home, Tracks, EnvSame
  <2>2. batch.who # s /\ ~(batch.next <= batch.upto) /\ batch' = batch
    BY <1>8, SessionAssumption DEF Idle, Nothing, EnvSame
  <2>3. ASSUME Tracks(s) PROVE Tracking(s, rows[Home(s)])'
    <3>1. PICK q : q = rows[h]
      OBVIOUS
    <3>2. Tracking(s, q)
      BY <1>1, <2>3, <3>1 DEF Relay, Watcher
    <3>3. Passed(s)' = Passed(s) /\ Cursor(s, q)'
      BY <2>2, <3>2, <1>8 DEF Tracking, Cursor, EnvSame, Passed
    <3>4. (IF LastRead(q, Passed(s)) = 0 THEN Blank(s) ELSE Holding(s, q[LastRead(q, Passed(s))]))'
      BY <1>8, <3>2, <3>3, BlankStays, HoldingStays DEF Tracking
    <3>5. News(s, q, Passed(s))' /\ Relayed1(s, q, Passed(s))'
      BY <1>8, <3>2, <3>3 DEF Tracking, News, Relayed1, EnvSame, Contains
    <3>6. Tracking(s, q)'
      BY <1>5, <1>8, <3>2, <3>3, <3>4, <3>5 DEF Tracking, EnvSame
    <3>7. q = rows'[Home(s)']
      BY <1>1, <1>2, <2>1, <3>1
    <3> QED BY <3>6, <3>7
  <2>4. ASSUME ~Tracks(s) PROVE Away(s)'
    <3>1. Away(s) /\ file[s] # h
      BY <1>1, <1>2, <2>4 DEF Relay, Watcher, Tracks
    <3>2. Size(file[s])' = Size(file[s])
      <4>1. file[s] # NoFile => half'[file[s]] = half[file[s]]
        BY <1>2, <1>3, <3>1 DEF Away, Existing
      <4> QED BY <1>2, <2>1, <4>1 DEF Size
    <3>3. Blank(s)'
      BY <1>8, <3>1, BlankStays DEF Away
    <3>4. Title' = Title
      BY DEF Title
    <3>5. pinned' = pinned /\ pos' = pos /\ hint' = hint /\ pinnedId' = pinnedId
          /\ atPinFiles' = atPinFiles
      BY <1>8 DEF EnvSame
    <3>6. (pinned'[s] \/ file'[s] = NoFile) /\ Home(s)' # NoFile => News(s, rows[Home(s)], 0)'
      BY <1>2, <1>8, <2>1, <3>1, <3>5 DEF Away, News, EnvSame
    <3>7. h \in touched'[s]
      BY <1>4
    <3> QED BY <1>1, <1>2, <1>5, <1>6, <1>8, <2>1, <2>2, <3>1, <3>2, <3>3, <3>4, <3>5, <3>6, <3>7
        DEF Away
  <2>5. cli'[s].turn = 0 => Blank(s)'
    BY <1>5, <1>8, BlankStays DEF Relay, Watcher
  <2>6. /\ atPinFiles'[s] \subseteq Existing' /\ excluded'[s] = {}
        /\ hint'[s] \in Existing' \cup {NoFile} /\ pinnedId'[s] \in Existing' \cup {NoFile}
        /\ Home(s)' = NoFile => hint'[s] = NoFile
        /\ batch'.of = NoFile => ~batch'.completed /\ batch'.out = <<>> /\ batch'.upto = 0
        /\ batch'.who = NoSession => batch' = Idle'
    BY <1>6, <1>8, <2>1 DEF Relay, Watcher, EnvSame, Idle, Nothing
  <2> QED BY <2>1, <2>3, <2>4, <2>5, <2>6 DEF Watcher
<1>13. Observing(s)'
  <2>1. Sends(s)
    BY <1>5, <1>8 DEF Relay, Observing, Sends, EnvSame
  <2> QED BY <1>8, <2>1, EnvObserving DEF Relay
<1>14. NotLive(s)'
  BY <1>5, <1>8 DEF Relay, NotLive, Home, EnvSame, Idle, Nothing
<1> QED BY <1>8, <1>9, <1>10, <1>11, <1>12, <1>13, <1>14 DEF Relay

(* A title of its own is nobody's business.                                *)
LEMMA SidecarRelay ==
  ASSUME IInv, NEW s \in Session, Relay(s), WriteSidecar, DaemonSame, batch = Idle,
         touched'[s] = touched[s] \cup WrittenNow
  PROVE  Relay(s)'
<1>1. PICK f \in Fresh : rows' = [rows EXCEPT ![f] = Title] /\ Touch(f)
  BY DEF WriteSidecar, Title
<1>2. half' = half /\ UNCHANGED cliVars
  BY DEF WriteSidecar
<1>3. /\ half \in [File -> BOOLEAN] /\ rows \in [File -> Seq(Row)]
      /\ length \in [1 .. MaxTurn -> Nat]
      /\ cli[s].turn \in 0 .. MaxTurn /\ \A g \in File : half[g] => rows[g] # <<>>
  BY Typed
<1>4. f \in File /\ f # NoFile /\ rows[f] = <<>> /\ ~half[f] /\ f \notin Existing /\ Title # <<>>
  BY <1>1, <1>3, FileAssumption DEF Fresh, Existing, Title
<1>5. /\ rows'[f] = Title /\ \A g \in File \ {f} : rows'[g] = rows[g]
  BY <1>1, <1>3, <1>4
<1>6. WrittenNow = {f} /\ Existing' = Existing \cup {f}
  BY <1>2, <1>4, <1>5 DEF WrittenNow, Existing
<1>7. cli' = cli /\ inbox' = inbox /\ nextTurn' = nextTurn /\ length' = length
  BY <1>2 DEF cliVars
<1>8. Home(s)' = Home(s) /\ Title' = Title /\ History' = History
  BY <1>7 DEF Home, Title, History
<1>9. Home(s) # NoFile => Home(s) \in Existing /\ Home(s) # f /\ rows'[Home(s)] = rows[Home(s)]
  <2>1. Home(s) # NoFile => Home(s) \in Existing
    BY DEF Relay, Cli, Script
  <2> QED BY <1>4, <1>5, <2>1 DEF Existing
<1>10. Onward(s)
  BY <1>3, <1>7 DEF Onward
<1>11. EnvSame(s) /\ Ledgers(s)' /\ live' = live
  BY <1>10, SameEnv
<1>12. Directory(s)'
  <2>1. /\ IsOrder(newer, Existing)'
        /\ \A g, h \in Existing : h # f /\ <<g, h>> \in newer => <<g, h>> \in newer'
    BY <1>1, <1>4, <1>6, TouchOrders DEF Relay, Directory
  <2>2. ASSUME NEW g \in Existing' \ {Home(s)} PROVE Stranger(s, g)'
    <3>1. CASE g = f
      BY <1>2, <1>4, <1>5, <3>1, <1>8 DEF Stranger
    <3>2. CASE g # f
      <4>1. g \in Existing /\ g \in File \ {f} /\ Stranger(s, g)
        BY <1>6, <2>2, <3>2 DEF Relay, Directory, Existing
      <4>2. rows'[g] = rows[g] /\ half'[g] = half[g] /\ (g \in touched'[s] <=> g \in touched[s])
        BY <1>2, <1>5, <1>6, <4>1
      <4>3. cli[s].turn # 0 => Home(s) \in Existing
        BY <1>9 DEF Relay, Cli, Used
      <4>4. cli[s].turn # 0 /\ <<Home(s), g>> \in newer => <<Home(s), g>> \in newer'
        BY <2>1, <3>2, <4>1, <4>3
      <4> QED BY <1>7, <1>8, <4>1, <4>2, <4>4 DEF Stranger
    <3> QED BY <3>1, <3>2
  <2> QED BY <1>8, <2>1, <2>2 DEF Directory
<1>13. Cli(s)'
  <2>1. cli[s].turn = 0 => Unused(s)'
    <3>1. Home(s) # NoFile => (Home(s) \in touched'[s] <=> Home(s) \in touched[s])
      BY <1>6, <1>9
    <3> QED BY <1>2, <1>7, <1>8, <1>9, <3>1 DEF Relay, Cli, Unused, MkRow
  <2>2. cli[s].turn # 0 => Used(s)'
    BY <1>7, <1>8, <1>9 DEF Relay, Cli, Used, Tip, Doing
  <2>3. Script(s)'
    BY <1>6, <1>7, <1>8, <1>9 DEF Relay, Cli, Script, RowFits, Over
  <2>4. \A t \in 1 .. MaxTurn : length'[t] # 0 => Replied(s, t)'
    BY <1>7, <1>8, <1>9 DEF Relay, Cli, Replied, Over
  <2> QED BY <1>7, <2>1, <2>2, <2>3, <2>4 DEF Cli
<1>14. Numbers(s)'
  BY <1>7 DEF Relay, Numbers
<1>15. Watcher(s)'
  <2>1. file' = file /\ (Tracks(s) <=> Tracks(s)')
    BY <1>8, <1>11 DEF Tracks, EnvSame
  <2>2. batch.who # s /\ ~(batch.next <= batch.upto) /\ batch' = batch
    BY <1>11, SessionAssumption DEF Idle, Nothing, EnvSame
  <2>3. ASSUME Tracks(s) PROVE Tracking(s, rows[Home(s)])'
    <3>1. PICK q : q = rows[Home(s)]
      OBVIOUS
    <3>2. Tracking(s, q)
      BY <2>3, <3>1 DEF Relay, Watcher
    <3>3. Passed(s)' = Passed(s) /\ Cursor(s, q)'
      BY <2>2, <3>2, <1>11 DEF Tracking, Cursor, EnvSame, Passed
    <3>4. (IF LastRead(q, Passed(s)) = 0 THEN Blank(s) ELSE Holding(s, q[LastRead(q, Passed(s))]))'
      BY <1>11, <3>2, <3>3, BlankStays, HoldingStays DEF Tracking
    <3>5. News(s, q, Passed(s))' /\ Relayed1(s, q, Passed(s))'
      BY <1>11, <3>2, <3>3 DEF Tracking, News, Relayed1, EnvSame, Contains
    <3>6. Tracking(s, q)'
      BY <1>7, <1>11, <3>2, <3>3, <3>4, <3>5 DEF Tracking, EnvSame
    <3>7. q = rows'[Home(s)']
      BY <1>8, <1>9, <2>3, <3>1 DEF Tracks
    <3> QED BY <3>6, <3>7
  <2>4. ASSUME ~Tracks(s) PROVE Away(s)'
    <3>1. Away(s) /\ file[s] # f
      BY <1>4, <2>4 DEF Relay, Watcher, Away
    <3>2. Size(file[s])' = Size(file[s])
      <4>1. file[s] # NoFile => rows'[file[s]] = rows[file[s]]
        BY <1>5, <3>1 DEF Away, Existing
      <4> QED BY <1>2, <2>1, <4>1 DEF Size
    <3>3. Blank(s)'
      BY <1>11, <3>1, BlankStays DEF Away
    <3>4. pinned' = pinned /\ pos' = pos /\ hint' = hint /\ pinnedId' = pinnedId
          /\ atPinFiles' = atPinFiles
      BY <1>11 DEF EnvSame
    <3>5. (pinned'[s] \/ file'[s] = NoFile) /\ Home(s)' # NoFile => News(s, rows[Home(s)], 0)'
      BY <1>8, <1>9, <1>11, <2>1, <3>1, <3>4 DEF Away, News, EnvSame
    <3>6. file[s] = NoFile /\ s \in live => \A g \in Existing' \ {Home(s)} : rows'[g] = Title
      BY <1>5, <1>6, <3>1 DEF Away, Existing
    <3> QED BY <1>6, <1>7, <1>8, <1>11, <2>1, <2>2, <3>1, <3>2, <3>3, <3>4, <3>5, <3>6 DEF Away
  <2>5. cli'[s].turn = 0 => Blank(s)'
    BY <1>7, <1>11, BlankStays DEF Relay, Watcher
  <2>6. /\ atPinFiles'[s] \subseteq Existing' /\ excluded'[s] = {}
        /\ hint'[s] \in Existing' \cup {NoFile} /\ pinnedId'[s] \in Existing' \cup {NoFile}
        /\ Home(s)' = NoFile => hint'[s] = NoFile
        /\ batch'.of = NoFile => ~batch'.completed /\ batch'.out = <<>> /\ batch'.upto = 0
        /\ batch'.who = NoSession => batch' = Idle'
    BY <1>6, <1>8, <1>11 DEF Relay, Watcher, EnvSame, Idle, Nothing
  <2> QED BY <2>1, <2>3, <2>4, <2>5, <2>6 DEF Watcher
<1>16. Observing(s)'
  <2>1. Sends(s)
    BY <1>7, <1>11 DEF Relay, Observing, Sends, EnvSame
  <2> QED BY <1>11, <2>1, EnvObserving DEF Relay
<1>17. NotLive(s)'
  BY <1>8, <1>11 DEF Relay, NotLive, EnvSame, Idle, Nothing
<1> QED BY <1>11, <1>12, <1>13, <1>14, <1>15, <1>16, <1>17 DEF Relay

(* Any step of the CLI. *)
LEMMA CliStepRelay ==
  ASSUME IInv, Benign, NEW s \in Session, Relay(s),
         CliStep(s) \/ (StartOrganic(s) /\ (observing[s] => Can("backToBack"))),
         DaemonSame, batch = Idle, s \in live, touched'[s] = touched[s] \cup WrittenNow
  PROVE  Relay(s)'
<1>1. Cli(s) /\ Numbers(s) /\ Observing(s)
  BY DEF Relay
<1>2. /\ inbox \in [Session -> 0 .. MaxTurn] /\ nextTurn \in 1 .. MaxTurn + 1
      /\ cli[s].turn \in 0 .. MaxTurn /\ observing' = observing /\ asked' = asked
  BY Typed DEF DaemonSame
<1>3. CASE FinishRow(s)
  BY <1>3, FinishRelay
<1>4. CASE StartSent(s)
  <2>1. inbox[s] \in 1 .. MaxTurn /\ inbox[s] > cli[s].turn /\ inbox[s] < nextTurn
    BY <1>1, <1>2, <1>4 DEF StartSent, Numbers
  <2>2. PICK h, r : /\ Grown(s, h, r) /\ Joins(s, h, r) /\ r.turn = inbox[s]
                    /\ cli'[s].turn = inbox[s]
    BY <1>1, <1>4, <2>1, TakeUpGrows DEF StartSent
  <2>3. inbox'[s] = 0 /\ nextTurn' = nextTurn
    BY <1>2, <1>4 DEF StartSent
  <2>4. observing[s] /\ inbox[s] = asked[s]
    BY <1>1, <1>2, <2>1 DEF Observing
  <2>5. Numbers(s)' /\ Sends(s)
    BY <1>2, <2>1, <2>2, <2>3, <2>4 DEF Numbers, Sends
  <2> QED BY <2>2, <2>4, <2>5, GrownRelay
<1>5. CASE StartOrganic(s) /\ (observing[s] => Can("backToBack"))
  <2>1. inbox[s] = 0 /\ ~observing[s]
    BY <1>5 DEF Benign, StartOrganic
  <2>2. nextTurn \in 1 .. MaxTurn /\ nextTurn > cli[s].turn
    BY <1>1, <1>2, <1>5 DEF StartOrganic, Numbers
  <2>3. PICK h, r : /\ Grown(s, h, r) /\ Joins(s, h, r) /\ r.turn = nextTurn
                    /\ cli'[s].turn = nextTurn
    BY <1>1, <1>5, <2>2, TakeUpGrows DEF StartOrganic
  <2>4. inbox' = inbox /\ nextTurn' = nextTurn + 1
    BY <1>5 DEF StartOrganic
  <2>5. Numbers(s)' /\ Sends(s)
    BY <1>2, <2>1, <2>2, <2>3, <2>4 DEF Numbers, Sends
  <2> QED BY <2>1, <2>3, <2>5, GrownRelay
<1>6. CASE WriteMeta(s)
  <2>1. PICK h, r : Grown(s, h, r) /\ Joins(s, h, r) /\ r.kind = "meta"
    BY <1>1, <1>6, WriteMetaGrows
  <2>2. cli' = cli /\ inbox' = inbox /\ nextTurn' = nextTurn
    BY <1>6 DEF WriteMeta, cliVars
  <2>3. Numbers(s)' /\ Sends(s)
    BY <1>1, <1>2, <2>2 DEF Numbers, Sends, Observing
  <2> QED BY <2>1, <2>3, GrownRelay
<1>7. CASE ResumeFork(s)
  <2>1. /\ \E h, r : Grown(s, h, r) /\ Joins(s, h, r) /\ r.kind = "meta"
        /\ cli'[s].turn = cli[s].turn /\ cli'[s].stage = cli[s].stage
    BY <1>1, <1>7, ForkStarts
  <2>2. inbox' = inbox /\ nextTurn' = nextTurn
    BY <1>7 DEF ResumeFork
  <2>3. Numbers(s)' /\ Sends(s)
    BY <1>1, <1>2, <2>1, <2>2 DEF Numbers, Sends, Observing
  <2> QED BY <2>1, <2>3, GrownRelay
<1>8. ASSUME NEW kind, NEW stage, GoesOn(s, kind, stage), CliAt(s, cli[s].stage),
             Write(s, kind, stage),
             length' = IF kind = "textEnd" THEN [length EXCEPT ![cli[s].turn] = cli[s].n + 1]
                       ELSE length
      PROVE  Relay(s)'
  <2>1. PICK h, r : /\ Grown(s, h, r) /\ Joins(s, h, r) /\ r.turn = cli[s].turn
                    /\ cli'[s].turn = cli[s].turn
    BY <1>1, <1>8, WriteGrows
  <2>2. inbox' = inbox /\ nextTurn' = nextTurn /\ cli[s].stage # "prompt"
    BY <1>8 DEF Write, GoesOn
  <2>3. observing[s] => inbox[s] = 0 /\ cli[s].turn = asked[s]
    BY <1>1, <2>2 DEF Observing
  <2>4. Numbers(s)' /\ Sends(s)
    BY <1>1, <1>2, <2>1, <2>2, <2>3 DEF Numbers, Sends, Observing
  <2> QED BY <2>1, <2>3, <2>4, GrownRelay
<1>9. CASE WriteText(s)
  BY <1>9, <1>8 DEF WriteText, GoesOn, CliAt
<1>10. CASE CallTool(s)
  BY <1>10, <1>8 DEF CallTool, GoesOn, CliAt
<1>11. CASE ToolAnswers(s)
  BY <1>11, <1>8 DEF ToolAnswers, GoesOn, CliAt
<1>12. CASE WriteReply(s)
  BY <1>12, <1>8 DEF WriteReply, GoesOn, CliAt
<1>13. CASE WriteThinking(s)
  <2>1. cli[s].n = 0
    BY <1>13 DEF WriteThinking, Benign
  <2> QED BY <1>13, <1>8, <2>1 DEF WriteThinking, GoesOn, CliAt
<1>14. CASE Interrupt(s)
  BY <1>14, <1>8 DEF Interrupt, GoesOn, CliAt
<1>15. ~EndEmpty(s) /\ ~ReplyFork(s)
  BY DEF Benign, EndEmpty, ReplyFork
<1> QED BY <1>3, <1>4, <1>5, <1>6, <1>7, <1>9, <1>10, <1>11, <1>12, <1>13, <1>14, <1>15
    DEF CliStep

(* Every write of the CLI. *)
LEMMA CliWritesRelay ==
  ASSUME IInv, Benign, NEW s \in Session, Session = {s}, Relay(s), CliWrites
  PROVE  Relay(s)'
<1>1. DaemonSame /\ batch = Idle /\ touched'[s] = touched[s] \cup WrittenNow
  BY DEF CliWrites, DaemonSame
<1>2. live \subseteq {s}
  BY DEF IInv, TypeOK
<1>3. CASE WriteSidecar
  BY <1>1, <1>3, SidecarRelay
<1>4. ASSUME NEW o \in live, CliStep(o) \/ (StartOrganic(o) /\ (observing[o] => Can("backToBack")))
      PROVE  Relay(s)'
  <2>1. o = s
    BY <1>2
  <2> QED BY <1>1, <1>4, <2>1, CliStepRelay
<1> QED BY <1>3, <1>4 DEF CliWrites
-----------------------------------------------------------------------------
(* The steps of the daemon leave the directory and the CLI alone. *)
WorldSame(s) ==
  /\ UNCHANGED <<transcriptVars, cli, length>>
  /\ touched'[s] \subseteq touched[s]

(* Then what is said of them stays true. *)
LEMMA WorldStays ==
  ASSUME IInv, NEW s \in Session, Relay(s), WorldSame(s)
  PROVE  /\ Directory(s)' /\ Cli(s)' /\ Onward(s)
         /\ Existing' = Existing /\ Home(s)' = Home(s)
         /\ rows' = rows /\ half' = half /\ newer' = newer /\ cli' = cli /\ length' = length
         /\ \A f : Size(f)' = Size(f) /\ Whole(f)' = Whole(f)
         /\ \A f, n : ConversationSince(f, n)' = ConversationSince(f, n)
         /\ \A t : Over(s, t)' = Over(s, t)
<1>1. /\ rows' = rows /\ half' = half /\ newer' = newer /\ cli' = cli /\ length' = length
      /\ touched'[s] \subseteq touched[s]
  BY DEF WorldSame, transcriptVars
<1>2. /\ Existing' = Existing /\ Home(s)' = Home(s) /\ Title' = Title /\ History' = History
  BY <1>1 DEF Existing, Home, Title, History
<1>3. /\ \A f : Size(f)' = Size(f) /\ Whole(f)' = Whole(f)
      /\ \A f, n : ConversationSince(f, n)' = ConversationSince(f, n)
      /\ \A t : Over(s, t)' = Over(s, t)
  BY <1>1 DEF Size, Whole, ConversationSince, Over
<1>4. Onward(s)
  BY <1>1, Typed DEF Onward
<1>5. Directory(s)'
  <2>1. IsOrder(newer, Existing)'
    BY <1>1, <1>2 DEF Relay, Directory, IsOrder
  <2>2. \A f \in Existing \ {Home(s)} : Stranger(s, f)'
    BY <1>1, <1>2 DEF Relay, Directory, Stranger
  <2> QED BY <1>2, <2>1, <2>2 DEF Directory
<1>6. Cli(s)'
  <2>1. cli[s].turn = 0 => Unused(s)'
    BY <1>1, <1>2 DEF Relay, Cli, Unused, MkRow
  <2>2. cli[s].turn # 0 => Used(s)'
    BY <1>1, <1>2 DEF Relay, Cli, Used, Tip, Doing
  <2>3. Script(s)'
    BY <1>1, <1>2 DEF Relay, Cli, Script, RowFits, Over
  <2>4. \A t \in 1 .. MaxTurn : length'[t] # 0 => Replied(s, t)'
    BY <1>1, <1>2, <1>3 DEF Relay, Cli, Replied
  <2> QED BY <1>1, <2>1, <2>2, <2>3, <2>4 DEF Cli
<1> QED BY <1>1, <1>2, <1>3, <1>4, <1>5, <1>6

(* A tick begins. *)
LEMMA TickRelay ==
  ASSUME IInv, NEW s \in Session, Relay(s), StartTick
  PROVE  Relay(s)'
<1>1. WorldSame(s) /\ live' = live /\ inbox' = inbox /\ nextTurn' = nextTurn /\ touched' = touched
  BY DEF StartTick, WorldSame, watcherVars, cliVars
<1>2. /\ Directory(s)' /\ Cli(s)' /\ Onward(s) /\ Existing' = Existing /\ Home(s)' = Home(s)
      /\ rows' = rows /\ cli' = cli
      /\ \A f : Size(f)' = Size(f) /\ Whole(f)' = Whole(f)
  BY <1>1, WorldStays
<1>3. DaemonSame \/ UNCHANGED <<pinVars, excluded, acc, batch, live, observing, asked, log>>
  BY DEF StartTick, watcherVars
<1>4. /\ UNCHANGED <<file, pos, atPinFiles, pinned, pinnedId, hint, excluded, acc, batch,
                     observing, asked, log>>
  BY <1>3 DEF DaemonSame, pinVars
<1>5. Ledgers(s)' /\ EnvSame(s)
  BY <1>2, <1>4, EnvLedgers DEF Relay, EnvSame
<1>6. Watcher(s)'
  <2>1. batch = Idle /\ batch.who # s /\ ~(batch.next <= batch.upto)
    BY SessionAssumption DEF StartTick, Free, Idle, Nothing
  <2>2. Tracks(s) <=> Tracks(s)'
    BY <1>2, <1>4 DEF Tracks
  <2>3. ASSUME Tracks(s) PROVE Tracking(s, rows[Home(s)])'
    <3>1. PICK q : q = rows[Home(s)]
      OBVIOUS
    <3>2. Tracking(s, q)
      BY <2>3, <3>1 DEF Relay, Watcher
    <3>3. Passed(s)' = Passed(s) /\ Cursor(s, q)'
      BY <1>4, <2>1, <3>2 DEF Tracking, Cursor, Passed
    <3>4. (IF LastRead(q, Passed(s)) = 0 THEN Blank(s) ELSE Holding(s, q[LastRead(q, Passed(s))]))'
      BY <1>5, <3>2, <3>3, BlankStays, HoldingStays DEF Tracking
    <3>5. News(s, q, Passed(s))' /\ Relayed1(s, q, Passed(s))'
      BY <1>5, <3>2, <3>3 DEF Tracking, News, Relayed1, EnvSame, Contains
    <3>6. Tracking(s, q)'
      BY <1>2, <1>5, <3>2, <3>3, <3>4, <3>5 DEF Tracking, EnvSame
    <3>7. q = rows'[Home(s)']
      BY <1>2, <3>1
    <3> QED BY <3>6, <3>7
  <2>4. ASSUME ~Tracks(s) PROVE Away(s)'
    <3>1. Away(s)
      BY <2>4 DEF Relay, Watcher
    <3>2. Blank(s)'
      BY <1>5, <3>1, BlankStays DEF Away
    <3>3. Title' = Title
      BY DEF Title
    <3>4. (pinned'[s] \/ file'[s] = NoFile) /\ Home(s)' # NoFile => News(s, rows[Home(s)], 0)'
      BY <1>2, <1>4, <3>1 DEF Away, News
    <3> QED BY <1>1, <1>2, <1>4, <2>1, <3>1, <3>2, <3>3, <3>4 DEF Away
  <2>5. cli'[s].turn = 0 => Blank(s)'
    BY <1>2, <1>5, BlankStays DEF Relay, Watcher
  <2> QED BY <1>2, <1>4, <2>2, <2>3, <2>4, <2>5 DEF Relay, Watcher, Idle, Nothing
<1>7. Observing(s)'
  <2>1. Sends(s)
    BY <1>1, <1>2, <1>4 DEF Relay, Observing, Sends
  <2> QED BY <1>1, <1>5, <2>1, EnvObserving DEF Relay
<1>8. Numbers(s)' /\ NotLive(s)'
  BY <1>1, <1>2, <1>4 DEF Relay, Numbers, NotLive, Idle, Nothing
<1> QED BY <1>2, <1>5, <1>6, <1>7, <1>8 DEF Relay

-----------------------------------------------------------------------------
(* A message is sent. *)

(* The transcript begin_turn takes is the one the CLI writes. *)
LEMMA PinIsHome ==
  ASSUME IInv, NEW s \in Session, Relay(s), Tracks(s), CliAt(s, "prompt")
  PROVE  PinTarget(s) = Home(s)
<1>1. PICK q : q = rows[Home(s)]
  OBVIOUS
<1>2. Tracking(s, q) /\ Home(s) # NoFile /\ file[s] = Home(s) /\ Home(s) \in Existing
  BY <1>1 DEF Relay, Watcher, Tracks, Cli, Script
<1>3. /\ hint[s] \in {NoFile, Home(s)} /\ pinnedId[s] \in {NoFile, Home(s)}
      /\ hint[s] = NoFile => cli[s].turn # 0
      /\ excluded[s] = {}
  BY <1>2 DEF Tracking, Relay, Watcher
<1>4. NoFile \notin Existing
  BY FileAssumption DEF Existing
<1>5. CASE hint[s] = Home(s) \/ pinnedId[s] = Home(s)
  BY <1>2, <1>3, <1>4, <1>5 DEF PinTarget
<1>6. CASE hint[s] = NoFile /\ pinnedId[s] = NoFile
  <2>1. PinTarget(s) = FindActive(s, {})
    BY <1>3, <1>4, <1>6 DEF PinTarget
  <2>2. cli[s].turn # 0 /\ Used(s)
    BY <1>3, <1>6 DEF Relay, Cli
  <2>3. IsConversation(Home(s))
    <3>1. /\ q \in Seq(Row) /\ ~half[Home(s)] /\ Whole(Home(s)) = Len(q) /\ Chained(q)
          /\ Tip(s) = LastRead(q, Len(q)) /\ Tip(s) # 0 /\ Len(q) \in 0 .. Len(q)
      BY <1>1, <1>2, <2>2, Typed DEF CliAt, Whole, Relay, Cli, Script, Used, Tip, Existing, Home
    <3>2. Tip(s) \in 1 .. Len(q) /\ q[Tip(s)].kind # "meta"
      BY <3>1, LastReadIs
    <3> QED BY <1>1, <3>1, <3>2
        DEF IsConversation, ConversationSince, IsConversationRow, StartsAtOrAfter
  <2>4. \A g \in Existing \ {Home(s)} : IsConversation(g) => <<Home(s), g>> \in newer
    <3> TAKE g \in Existing \ {Home(s)}
    <3>1. rows[g] = Title \/ <<Home(s), g>> \in newer
      BY <2>2 DEF Relay, Directory, Stranger
    <3>2. rows[g] = Title => ~IsConversation(g)
      BY TitleIs DEF IsConversation
    <3> QED BY <3>1, <3>2
  <2>5. IsOrder(newer, Existing)
    BY DEF Relay, Directory
  <2> QED BY <1>2, <2>1, <2>3, <2>4, <2>5, ActiveIsHome
<1> QED BY <1>3, <1>5, <1>6

(* The turns told, as sequences of numbers. *)
LEMMA Told ==
  ASSUME IInv, NEW s \in Session, Ledgers(s)
  PROVE  /\ Telling \in Seq(Nat) /\ LogTurns \in Seq(Nat) /\ OutTurns(batch.out) \in Seq(Nat)
         /\ Len(LogTurns) = Len(log) /\ Len(log) \in Nat
         /\ \A i \in 1 .. Len(LogTurns) : i \in 1 .. Len(Telling) /\ Telling[i] = LogTurns[i]
         /\ batch.out = <<>> => Telling = LogTurns
         /\ \A t : Below(Telling, t) => Below(LogTurns, t)
<1> DEFINE a == LogTurns
           b == OutTurns(batch.out)
<1>1. a \in Seq(Nat) /\ b \in Seq(Nat) /\ Len(a) = Len(log) /\ Len(log) \in Nat
  BY Typed, TellingIs DEF Ledgers
<1>2. batch.out = <<>> => b = <<>>
  BY DEF OutTurns
<1>3. Telling = a \o b
  BY DEF Telling
<1> HIDE DEF a, b
<1>4. a \o b \in Seq(Nat) /\ \A i \in 1 .. Len(a) : i \in 1 .. Len(a \o b) /\ (a \o b)[i] = a[i]
  BY <1>1
<1>5. b = <<>> => a \o b = a
  BY <1>1
<1>6. \A t : Below(a \o b, t) => Below(a, t)
  BY <1>1, <1>4 DEF Below
<1> QED BY <1>1, <1>2, <1>3, <1>4, <1>5, <1>6 DEF a, b

(* At the prompt the last row of a turn that was read is the end of it. *)
LEMMA AtEnd ==
  ASSUME IInv, NEW s \in Session, Relay(s), cli[s].stage = "prompt", Home(s) # NoFile,
         NEW q, q = rows[Home(s)]
  PROVE  /\ q \in Seq(Row) /\ Len(q) \in Nat \ {0} /\ Chained(q)
         /\ LastRead(q, Len(q)) \in 0 .. Len(q)
         /\ LastRead(q, Len(q)) # 0 => q[LastRead(q, Len(q))].kind \in Ended
<1>1. q \in Seq(Row) /\ Chained(q) /\ q # <<>>
  BY Typed DEF Relay, Cli, Script, Existing
<1>2. Len(q) \in Nat \ {0} /\ q[Len(q)].kind \in Ended \cup {"meta"}
  BY <1>1, AtTip DEF Relay
<1>3. LastRead(q, Len(q)) \in 0 .. Len(q)
  BY <1>1, <1>2 DEF LastRead
<1>4. CASE q[Len(q)].kind = "meta"
  <2>1. LastRead(q, Len(q)) = Len(q) - 1
    BY <1>2, <1>4 DEF LastRead
  <2>2. CASE Len(q) = 1
    BY <1>1, <1>2, <1>3, <2>1, <2>2
  <2>3. CASE Len(q) # 1
    <3>1. Len(q) \in 1 .. Len(q)
      BY <1>2
    <3>2. q[Len(q) - 1].kind \in Ended
      BY <1>1, <1>4, <2>3, <3>1, MetaFollows
    <3> QED BY <1>1, <1>2, <1>3, <2>1, <3>2
  <2> QED BY <2>2, <2>3
<1>5. CASE q[Len(q)].kind \in Ended
  <2>1. LastRead(q, Len(q)) = Len(q)
    BY <1>2, <1>5 DEF LastRead, Ended
  <2> QED BY <1>1, <1>2, <1>3, <1>5, <2>1
<1> QED BY <1>2, <1>4, <1>5

(* After the end of a turn that is not held, nothing is held. *)
LEMMA EndedHolds ==
  ASSUME NEW s \in Session, NEW x, x.kind \in Ended
  PROVE  Holding(s, x) <=>
           \/ x.kind = "textEnd" /\ batch.of # NoFile /\ Building(s, x) /\ Stopped(s)
           \/ acc[s].parts = <<>> /\ ~Stopped(s) /\ Below(Telling, x.turn + 1)
BY DEF Holding, Ended, Said

(* A message is sent: the watcher pins the transcript at its end. *)
LEMMA SendRelay ==
  ASSUME IInv, Benign, NEW s \in Session, Relay(s), Send(s)
  PROVE  Relay(s)'
<1>1. /\ batch = Idle /\ s \in live /\ ~observing[s] /\ inbox[s] = 0 /\ nextTurn <= MaxTurn
      /\ CaughtUp(s) /\ BeginTurn(s)
      /\ UNCHANGED <<transcriptVars, cli, length, live, log>>
      /\ inbox' = [inbox EXCEPT ![s] = nextTurn] /\ asked' = [asked EXCEPT ![s] = nextTurn]
      /\ nextTurn' = nextTurn + 1 /\ observing' = [observing EXCEPT ![s] = TRUE]
  BY DEF Send, Free, Benign
<1> DEFINE f == PinTarget(s)
<1>2. /\ WatcherTypeOK /\ asked \in [Session -> Turn] /\ observing \in [Session -> BOOLEAN]
      /\ inbox \in [Session -> 0 .. MaxTurn] /\ nextTurn \in 1 .. MaxTurn + 1
      /\ cli[s].turn \in 0 .. MaxTurn
  BY Typed DEF IInv, TypeOK
<1>3. /\ file'[s] = f /\ pos'[s] = Size(f) /\ pinned'[s] = TRUE /\ touched'[s] = {}
      /\ atPinFiles'[s] = Existing /\ acc'[s] = Cleared(acc[s])
      /\ pinnedId'[s] = IF f = NoFile THEN pinnedId[s] ELSE f
      /\ hint' = hint /\ excluded' = excluded /\ batch' = batch
  BY <1>1, <1>2 DEF BeginTurn, WatcherTypeOK
<1>4. inbox'[s] = nextTurn /\ asked'[s] = nextTurn /\ observing'[s] = TRUE
  BY <1>1, <1>2
<1>5. WorldSame(s)
  BY <1>1, <1>3 DEF WorldSame
<1>6. /\ Directory(s)' /\ Cli(s)' /\ Onward(s) /\ Existing' = Existing /\ Home(s)' = Home(s)
      /\ rows' = rows /\ cli' = cli
      /\ \A g : Size(g)' = Size(g)
  BY <1>5, WorldStays
<1>7. Ledgers(s)' /\ Telling' = Telling /\ LogTurns' = LogTurns
  BY <1>1, <1>3, <1>6, EnvLedgers DEF Relay
<1>8. batch.who # s /\ ~(batch.next <= batch.upto) /\ batch.of = NoFile /\ batch.out = <<>>
      /\ ~batch.completed
  BY <1>1, SessionAssumption DEF Idle, Nothing
<1>9. /\ acc'[s].parts = <<>> /\ acc'[s].toolIds = {} /\ ~acc'[s].pending /\ ~acc'[s].closed
      /\ ~Stopped(s)'
  BY <1>3, <1>8 DEF Cleared, Stopped
<1>10. Blank(s) => Blank(s)'
  BY <1>1, <1>3, <1>9 DEF Blank
<1>11. CliAt(s, "prompt") /\ cli[s].stage = "prompt"
  BY <1>1 DEF CaughtUp, CliAt
<1>12. ASSUME Tracks(s) PROVE f = Home(s) /\ Tracks(s)' /\ Tracking(s, rows[Home(s)])'
  <2>1. f = Home(s)
    BY <1>11, <1>12, PinIsHome
  <2>2. PICK q : q = rows[Home(s)]
    OBVIOUS
  <2>3. Tracking(s, q) /\ Home(s) # NoFile /\ file[s] = Home(s)
    BY <1>12, <2>2 DEF Relay, Watcher, Tracks
  <2>4. /\ q \in Seq(Row) /\ Len(q) \in Nat \ {0} /\ Chained(q)
        /\ LastRead(q, Len(q)) \in 0 .. Len(q)
        /\ LastRead(q, Len(q)) # 0 => q[LastRead(q, Len(q))].kind \in Ended
    BY <1>11, <2>2, <2>3, AtEnd
  <2>5. Size(Home(s)) = 2 * Len(q) /\ pos[s] = 2 * Len(q)
    <3>1. ~half[Home(s)] /\ pos[s] >= Size(Home(s)) /\ pos[s] <= Size(Home(s)) /\ pos[s] \in Nat
      BY <1>1, <2>3, Typed DEF CaughtUp, CliAt, Home
    <3>2. Size(Home(s)) = 2 * Len(q) - 0
      BY <2>2, <2>3, <3>1 DEF Size
    <3> QED BY <2>4, <3>1, <3>2
  <2>6. Passed(s) = Len(q) /\ Passed(s)' = Len(q)
    BY <1>3, <1>8, <2>1, <2>4, <2>5 DEF Passed
  <2>7. Cursor(s, q)'
    BY <1>3, <1>8, <2>1, <2>4, <2>5 DEF Cursor
  <2>8. acc[s].parts = <<>> /\ (IF LastRead(q, Len(q)) = 0 THEN Blank(s)'
                               ELSE Holding(s, q[LastRead(q, Len(q))])')
    <3>1. CASE LastRead(q, Len(q)) = 0
      BY <1>10, <2>3, <2>6, <3>1 DEF Tracking, Blank
    <3>2. CASE LastRead(q, Len(q)) # 0
      <4>1. PICK x : x = q[LastRead(q, Len(q))]
        OBVIOUS
      <4>2. Holding(s, x) /\ x.kind \in Ended
        BY <2>3, <2>4, <2>6, <3>2, <4>1 DEF Tracking
      <4>3. acc[s].parts = <<>> /\ Below(Telling, x.turn + 1)
        BY <1>8, <4>2, EndedHolds
      <4>4. Holding(s, x)'
        BY <1>7, <1>9, <4>2, <4>3 DEF Holding, Ended, Said, Below
      <4> QED BY <3>2, <4>1, <4>3, <4>4
    <3> QED BY <3>1, <3>2
  <2>9. Relayed1(s, q, Len(q))'
    BY <1>7, <2>3, <2>6, <2>8 DEF Tracking, Relayed1, Contains
  <2>10. News(s, q, Len(q))'
    BY <2>4 DEF News
  <2>11. Tracking(s, q)'
    <3>1. /\ hint'[s] \in {NoFile, file'[s]} /\ pinnedId'[s] \in {NoFile, file'[s]}
          /\ hint'[s] = NoFile => cli'[s].turn # 0
      BY <1>3, <1>6, <2>1, <2>3 DEF Tracking
    <3>2. News(s, q, Passed(s))' /\ Relayed1(s, q, Passed(s))'
      BY <2>6, <2>9, <2>10 DEF News, Relayed1
    <3>3. (IF LastRead(q, Passed(s)) = 0 THEN Blank(s) ELSE Holding(s, q[LastRead(q, Passed(s))]))'
      BY <2>6, <2>8
    <3> QED BY <2>7, <3>1, <3>2, <3>3 DEF Tracking
  <2>12. q = rows'[Home(s)']
    BY <1>6, <2>2
  <2>13. Tracks(s)'
    BY <1>3, <1>6, <2>1, <2>3 DEF Tracks
  <2> QED BY <2>1, <2>11, <2>12, <2>13
<1>13. ASSUME ~Tracks(s)
       PROVE  /\ f \in Existing \cup {NoFile} /\ (f = NoFile => pinnedId[s] = NoFile)
              /\ Away(s)' /\ ~Tracks(s)'
  <2>1. Home(s) = NoFile /\ hint[s] = NoFile /\ excluded[s] = {}
        /\ pinnedId[s] \in Existing \cup {NoFile}
    BY <1>1, <1>13 DEF CaughtUp, Tracks, Relay, Watcher, Home
  <2>2. NoFile \notin Existing /\ IsOrder(newer, Existing)
    BY FileAssumption DEF Existing, Relay, Directory
  <2>3. f = IF pinnedId[s] \in Existing THEN pinnedId[s] ELSE FindActive(s, {})
    BY <2>1, <2>2 DEF PinTarget
  <2>4. /\ f \in Existing \cup {NoFile}
        /\ f = NoFile => pinnedId[s] = NoFile /\ Existing = {}
    BY <2>1, <2>2, <2>3, ActiveIs
  <2> HIDE DEF f
  <2>5. Blank(s)'
    BY <1>10, <1>13 DEF Relay, Watcher, Away
  <2>6. pos'[s] = Size(file[s])'
    BY <1>3, <1>6
  <2>7. ~Tracks(s)'
    BY <1>6, <2>1 DEF Tracks
  <2>8. file'[s] = NoFile => Existing' = {} /\ pinnedId'[s] = NoFile
    BY <1>3, <1>6, <2>4
  <2> QED BY <1>3, <1>6, <1>8, <2>1, <2>4, <2>5, <2>6, <2>7, <2>8 DEF Away
<1>14. Watcher(s)'
  <2>1. cli'[s].turn = 0 => Blank(s)'
    BY <1>6, <1>10 DEF Relay, Watcher
  <2>2. pinnedId'[s] \in Existing' \cup {NoFile}
    <3>1. Tracks(s) => f \in Existing
      BY <1>12 DEF Relay, Cli, Script, Tracks
    <3> HIDE DEF f
    <3> QED BY <1>3, <1>6, <1>13, <3>1 DEF Relay, Watcher
  <2> QED BY <1>1, <1>3, <1>6, <1>12, <1>13, <2>1, <2>2 DEF Relay, Watcher, Idle, Nothing
<1>15. Numbers(s)'
  BY <1>1, <1>2, <1>4, <1>6 DEF Relay, Numbers
<1>16. Observing(s)'
  <2>1. Below(LogTurns, nextTurn)
    <3>1. ASSUME NEW i \in 1 .. Len(LogTurns) PROVE LogTurns[i] < nextTurn
      <4>1. PICK t : t = LogTurns[i]
        OBVIOUS
      <4>2. t \in Nat /\ Over(s, t)
        <5>1. Ledgers(s)
          BY DEF Relay
        <5>2. LogTurns \in Seq(Nat) /\ i \in 1 .. Len(Telling) /\ Telling[i] = t
          BY <4>1, <5>1, Told
        <5>3. t \in Nat
          BY <4>1, <5>2
        <5> QED BY <5>1, <5>2, <5>3 DEF Ledgers
      <4>3. t < nextTurn
        BY <1>2, <4>2 DEF Over, Relay, Numbers
      <4> QED BY <4>1, <4>3
    <3> QED BY <3>1 DEF Below
  <2>2. Below(LogTurns, asked[s])'
    BY <1>4, <1>7, <2>1 DEF Below
  <2> QED BY <1>1, <1>2, <1>3, <1>4, <1>6, <1>8, <1>11, <2>2 DEF Observing
<1>17. NotLive(s)'
  BY <1>1 DEF NotLive
<1> QED BY <1>6, <1>7, <1>14, <1>15, <1>16, <1>17 DEF Relay

(* The session is spawned. *)
LEMMA SpawnRelay ==
  ASSUME IInv, NEW s \in Session, Session = {s}, Relay(s), Spawn(s)
  PROVE  Relay(s)'
<1>1. /\ batch = Idle /\ s \notin live /\ live' = live \cup {s}
      /\ UNCHANGED <<transcriptVars, length, inbox, nextTurn, batch, observing, asked, log, acc>>
      /\ UNCHANGED <<touched, pinned, pinnedId, atPinFiles>>
  BY DEF Spawn, Free
<1>2. /\ WatcherTypeOK /\ cli \in [Session -> CliState] /\ cli[s] \in CliState
      /\ log \in Seq(Complete)
  BY Typed DEF IInv, TypeOK
<1>3. live = {}
  BY <1>1 DEF IInv, TypeOK
<1>4. SiblingPins(s, file) = {}
  BY <1>3 DEF SiblingPins
<1>5. PICK h \in {NoFile} \cup (Existing \ {cli[o].home : o \in Session}) :
        /\ h # NoFile => IsConversation(h)
        /\ hint' = [hint EXCEPT ![s] = h]
        /\ cli' = [cli EXCEPT ![s].home = h]
  BY DEF Spawn
<1>6. PICK f : f = FindActive(s, {})
  OBVIOUS
<1>7. /\ excluded'[s] = {} /\ file'[s] = f /\ pos'[s] = Size(f)
  <2>1. /\ excluded' = [excluded EXCEPT ![s] = {}]
        /\ file' = [file EXCEPT ![s] = f]
        /\ pos' = [pos EXCEPT ![s] = NewPos(f)]
    BY <1>4, <1>6 DEF Spawn
  <2> QED BY <1>2, <2>1 DEF WatcherTypeOK, NewPos
<1>8. /\ cli'[s].home = h /\ cli'[s].turn = cli[s].turn /\ cli'[s].stage = cli[s].stage
      /\ cli'[s].n = cli[s].n /\ hint'[s] = h /\ Home(s)' = h
  BY <1>2, <1>5 DEF CliState, WatcherTypeOK, Home
<1>9. /\ Home(s) = NoFile /\ file[s] = NoFile /\ ~pinned[s] /\ ~observing[s]
      /\ cli[s].turn = 0 /\ cli[s].stage = "prompt" /\ inbox[s] = 0
  BY <1>1 DEF Relay, NotLive, IInv, CliOK, Observing
<1>10. /\ Blank(s) /\ hint[s] = NoFile /\ pinnedId[s] = NoFile /\ cli[s].n = 0
       /\ atPinFiles[s] \subseteq Existing
  BY <1>9 DEF Relay, Watcher, Away, Tracks, Cli, Unused
<1>11. /\ IsOrder(newer, Existing) /\ \A g \in Existing : Stranger(s, g)
       /\ NoFile \notin Existing
  BY <1>9, FileAssumption DEF Relay, Directory, Existing
<1>12. /\ Existing' = Existing /\ rows' = rows /\ half' = half /\ newer' = newer
       /\ Title' = Title /\ History' = History /\ length' = length
       /\ \A g : Size(g)' = Size(g)
  BY <1>1 DEF transcriptVars, Existing, Title, History, Size
<1>13. h # NoFile => h \in Existing /\ rows[h] = History /\ ~half[h] /\ h \notin touched[s]
  <2>1. h # NoFile => rows[h] # Title
    BY <1>5, TitleIs DEF IsConversation
  <2>2. h # NoFile => h \in Existing /\ Stranger(s, h)
    BY <1>5, <1>11
  <2> QED BY <2>1, <2>2 DEF Stranger
<1>14. f \in Existing \cup {NoFile} /\ (f = NoFile => Existing = {})
  BY <1>6, <1>11, ActiveIs
<1>15. Onward(s)
  <2>1. length \in [1 .. MaxTurn -> Nat] /\ cli[s].turn \in Nat
    BY Typed
  <2> QED BY <1>8, <1>12, <2>1 DEF Onward
<1>16. Ledgers(s)' /\ Telling' = Telling /\ LogTurns' = LogTurns
  BY <1>1, <1>15, EnvLedgers DEF Relay
<1>17. Directory(s)'
  <2>1. IsOrder(newer, Existing)'
    BY <1>11, <1>12 DEF IsOrder
  <2>2. ASSUME NEW g \in Existing PROVE Stranger(s, g)'
    <3>1. ~half[g] /\ rows[g] \in {History, Title} /\ (g \in touched[s] => rows[g] = Title)
      BY <1>11 DEF Stranger
    <3> QED BY <1>1, <1>8, <1>9, <1>12, <3>1 DEF Stranger
  <2> QED BY <1>12, <2>1, <2>2 DEF Directory
<1>18. /\ Len(History) = 2 /\ History # <<>> /\ Chained(History) /\ Rising(History)
       /\ \A i \in 1 .. 2 : History[i].kind # "meta" /\ History[i].turn = 0
       /\ History[2].kind = "textEnd" /\ History[1].kind = "user"
  <2>1. /\ Len(History) = 2 /\ History # <<>>
        /\ History[2].kind = "textEnd" /\ History[1].kind = "user"
        /\ History[1].turn = 0 /\ History[2].turn = 0 /\ History[1].n = 0 /\ History[2].n = 1
    BY DEF History, MkRow
  <2>2. Chained(History)
    BY <2>1 DEF Chained, CanBegin, Follows, Said
  <2>3. Rising(History)
    <3>1. \A i, j \in 1 .. Len(History) : i < j /\ History[i].kind \in Ended => FALSE
      BY <2>1 DEF Ended
    <3> QED BY <3>1 DEF Rising
  <2>4. \A i \in 1 .. 2 : i = 1 \/ i = 2
    OBVIOUS
  <2> QED BY <2>1, <2>2, <2>3, <2>4
<1>19. Cli(s)'
  <2>1. Unused(s)'
    BY <1>1, <1>8, <1>9, <1>10, <1>12, <1>13 DEF Unused
  <2>2. Script(s)'
    <3>1. ASSUME h # NoFile
          PROVE  /\ h \in Existing' /\ rows'[Home(s)'] = History
                 /\ \A i \in 1 .. Len(History) : RowFits(s, History[i])'
      <4>1. h \in Existing' /\ rows'[Home(s)'] = History
        BY <1>8, <1>12, <1>13, <3>1
      <4>2. ASSUME NEW x, x.turn = 0, x.kind \in {"user", "textEnd"} PROVE RowFits(s, x)'
        BY <1>8, <1>9, <4>2 DEF RowFits, Ended, Over
      <4>3. \A i \in 1 .. Len(History) : \E x : x = History[i] /\ RowFits(s, x)'
        <5>1. \A i \in 1 .. Len(History) : i = 1 \/ i = 2
          BY <1>18
        <5> QED BY <1>18, <4>2, <5>1
      <4> QED BY <1>12, <4>1, <4>3 DEF RowFits, Over
    <3>2. h # NoFile => Chained(rows[Home(s)])' /\ Rising(rows[Home(s)])'
      <4>1. Chained(History)
        BY <1>18 DEF Chained, CanBegin, Follows, Said, Ended
      <4>2. Rising(History)
        BY <1>18 DEF Rising, Ended
      <4> QED BY <3>1, <4>1, <4>2 DEF Chained, Rising, CanBegin, Follows
    <3>3. h # NoFile => \A i \in 1 .. Len(rows'[Home(s)']) : RowFits(s, rows[Home(s)][i])'
      <4> SUFFICES ASSUME h # NoFile, NEW i \in 1 .. Len(rows'[Home(s)'])
                   PROVE  RowFits(s, rows[Home(s)][i])'
        OBVIOUS
      <4>1. rows'[Home(s)'] = History /\ i \in 1 .. Len(History)
        BY <3>1
      <4>2. RowFits(s, History[i])' /\ rows'[Home(s)'][i] = History[i]
        BY <3>1, <4>1
      <4> QED BY <1>12, <4>2 DEF RowFits, Over
    <3> QED BY <1>8, <3>1, <3>2, <3>3 DEF Script
  <2>3. \A t \in 1 .. MaxTurn : length'[t] # 0 => FALSE
    BY <1>9, <1>12 DEF Relay, Cli, Replied
  <2> QED BY <1>8, <1>9, <2>1, <2>2, <2>3 DEF Cli
<1>20. batch.who # s /\ ~(batch.next <= batch.upto) /\ batch.of = NoFile /\ batch.out = <<>>
       /\ ~batch.completed /\ batch' = batch
  BY <1>1, SessionAssumption DEF Idle, Nothing
<1>21. Blank(s)'
  BY <1>1, <1>10 DEF Blank, Stopped
<1>22. ASSUME Tracks(s)' PROVE Tracking(s, rows[Home(s)])'
  <2>1. f = h /\ h # NoFile /\ pos'[s] = 4
    <3>1. f = h /\ h # NoFile
      BY <1>7, <1>8, <1>22 DEF Tracks
    <3>2. Size(h) = 2 * Len(History) - 0
      BY <1>13, <3>1 DEF Size
    <3> QED BY <1>7, <1>18, <3>1, <3>2
  <2>2. PICK q : q = History
    OBVIOUS
  <2>3. Passed(s)' = 2 /\ Len(q) = 2
    BY <1>18, <1>20, <2>1, <2>2 DEF Passed
  <2>4. PICK x : x = q[2]
    OBVIOUS
  <2>5. x.kind = "textEnd" /\ x.turn = 0 /\ LastRead(q, 2) = 2
    BY <1>18, <2>2, <2>4 DEF LastRead
  <2>6. Holding(s, x)'
    <3>1. Telling' = Telling /\ Len(Telling) = 0
      <4>1. Telling = LogTurns /\ Len(LogTurns) = Len(log)
        BY <1>20, Told DEF Relay
      <4> QED BY <1>10, <1>16, <4>1 DEF Blank
    <3>2. Below(Telling, x.turn + 1)'
      BY <3>1 DEF Below
    <3> QED BY <1>21, <2>5, <3>2 DEF Holding, Blank, Said
  <2>7. Cursor(s, q)'
    BY <1>20, <2>1, <2>3 DEF Cursor
  <2>8. News(s, q, Passed(s))' /\ Relayed1(s, q, Passed(s))'
    <3>1. 3 .. 2 = {}
      OBVIOUS
    <3>2. News(s, q, Passed(s))'
      BY <2>3, <3>1 DEF News
    <3>3. \A i \in 1 .. 2 : q[i].turn = 0
      BY <1>18, <2>2
    <3>4. Relayed1(s, q, Passed(s))'
      BY <2>3, <3>3 DEF Relayed1
    <3> QED BY <3>2, <3>4
  <2>9. (IF LastRead(q, Passed(s)) = 0 THEN Blank(s) ELSE Holding(s, q[LastRead(q, Passed(s))]))'
    BY <2>3, <2>4, <2>5, <2>6
  <2>10. /\ hint'[s] \in {NoFile, file'[s]} /\ pinnedId'[s] \in {NoFile, file'[s]}
         /\ hint'[s] # NoFile
    BY <1>1, <1>7, <1>8, <1>10, <2>1
  <2>11. Tracking(s, q)'
    BY <2>7, <2>8, <2>9, <2>10 DEF Tracking
  <2>12. q = rows'[Home(s)']
    BY <1>8, <1>12, <1>13, <2>1, <2>2
  <2> QED BY <2>11, <2>12
<1>23. ASSUME ~Tracks(s)' PROVE Away(s)'
  <2>1. pos'[s] = Size(file[s])' /\ file'[s] \in Existing' \cup {NoFile}
    BY <1>7, <1>12, <1>14
  <2>2. file'[s] = NoFile => Existing' = {} /\ h = NoFile
    BY <1>5, <1>7, <1>12, <1>14
  <2>3. ~pinned'[s] /\ pinnedId'[s] = NoFile
    BY <1>1, <1>9, <1>10
  <2> QED BY <1>8, <1>20, <1>21, <2>1, <2>2, <2>3 DEF Away
<1>24. Watcher(s)'
  <2>1. /\ atPinFiles'[s] \subseteq Existing' /\ hint'[s] \in Existing' \cup {NoFile}
        /\ pinnedId'[s] \in Existing' \cup {NoFile}
    BY <1>1, <1>8, <1>10, <1>12, <1>13
  <2> QED BY <1>1, <1>7, <1>8, <1>20, <1>21, <1>22, <1>23, <2>1 DEF Watcher, Idle, Nothing
<1>25. Numbers(s)' /\ Observing(s)'
  BY <1>1, <1>8, <1>9 DEF Relay, Numbers, Observing
<1>26. NotLive(s)'
  BY <1>1 DEF NotLive
<1> QED BY <1>16, <1>17, <1>19, <1>24, <1>25, <1>26 DEF Relay
-----------------------------------------------------------------------------
(* A visit: what is to be read is chosen. *)
Kept(s) ==
  /\ UNCHANGED <<acc, observing, asked, log>>
  /\ Telling' = Telling /\ LogTurns' = LogTurns
  /\ batch'.completed = batch.completed /\ batch'.out = batch.out
  /\ batch.of # NoFile => batch'.of # NoFile

(* Then what the watcher holds is what it held. *)
LEMMA HoldingKept ==
  ASSUME NEW s \in Session, NEW x, Holding(s, x), Kept(s)
  PROVE  Holding(s, x)'
<1>1. (Stopped(s) <=> Stopped(s)') /\ (Building(s, x) <=> Building(s, x)')
  BY DEF Kept, Stopped, Building, Below
<1> QED BY <1>1 DEF Holding, Kept, Below

(* Or nothing, as before. *)
LEMMA BlankKept ==
  ASSUME NEW s \in Session, Blank(s), Kept(s)
  PROVE  Blank(s)'
BY DEF Blank, Kept, Stopped

Opened(s) ==
  /\ batch = Idle /\ s \in live /\ WorldSame(s)
  /\ UNCHANGED <<acc, observing, asked, log, atPinFiles, pinned, touched, live, inbox, nextTurn>>
  /\ excluded'[s] = {}
  /\ batch'.who = s /\ batch'.completed = FALSE /\ batch'.out = <<>>
  /\ batch'.of = NoFile => batch'.upto = 0

(* Where the watcher is after it. *)
Placed(s) ==
  /\ IF Tracks(s) THEN Tracking(s, rows[Home(s)]) ELSE Away(s)
  /\ hint[s] \in Existing \cup {NoFile} /\ pinnedId[s] \in Existing \cup {NoFile}
  /\ Home(s) = NoFile => hint[s] = NoFile

(* Opening a poll tells nothing. *)
LEMMA OpenedKept ==
  ASSUME IInv, NEW s \in Session, Relay(s), Opened(s)
  PROVE  /\ Kept(s) /\ Ledgers(s)'
         /\ batch.who # s /\ ~(batch.next <= batch.upto) /\ batch.of = NoFile
<1>1. /\ batch.who # s /\ ~(batch.next <= batch.upto) /\ batch.of = NoFile
      /\ batch.completed = FALSE /\ batch.out = <<>>
  BY SessionAssumption DEF Opened, Idle, Nothing
<1>2. Cli(s) /\ Onward(s)
  BY WorldStays DEF Opened, Relay
<1>3. log' = log /\ batch'.out = batch.out
  BY <1>1 DEF Opened
<1>4. Ledgers(s)' /\ Telling' = Telling /\ LogTurns' = LogTurns
  BY <1>2, <1>3, EnvLedgers DEF Relay
<1> QED BY <1>1, <1>3, <1>4 DEF Kept, Opened

(* If the watcher stands right after it, the invariant holds. *)
LEMMA OpenedRelay ==
  ASSUME IInv, NEW s \in Session, Relay(s), Opened(s), Placed(s)'
  PROVE  Relay(s)'
<1>1. Directory(s)' /\ Cli(s)' /\ Existing' = Existing /\ Home(s)' = Home(s) /\ cli' = cli
  BY WorldStays DEF Opened
<1>2. Kept(s) /\ Ledgers(s)' /\ batch.out = <<>>
  BY OpenedKept DEF Opened, Idle, Nothing
<1>3. Watcher(s)'
  <2>1. cli'[s].turn = 0 => Blank(s)'
    BY <1>1, <1>2, BlankKept DEF Relay, Watcher
  <2>2. atPinFiles'[s] \subseteq Existing' /\ excluded'[s] = {}
    BY <1>1 DEF Opened, Relay, Watcher
  <2>3. /\ batch'.of = NoFile => ~batch'.completed /\ batch'.out = <<>> /\ batch'.upto = 0
        /\ batch'.who # NoSession
    BY SessionAssumption DEF Opened
  <2> QED BY <2>1, <2>2, <2>3 DEF Watcher, Placed
<1>4. Numbers(s)'
  BY <1>1 DEF Relay, Numbers, Opened
<1>5. Observing(s)'
  BY <1>1, <1>2 DEF Relay, Observing, Opened, Kept, Below
<1>6. NotLive(s)'
  BY DEF NotLive, Opened
<1> QED BY <1>1, <1>2, <1>3, <1>4, <1>5, <1>6 DEF Relay

(* Nothing is read. *)
LEMMA StayRelay ==
  ASSUME IInv, NEW s \in Session, Relay(s), Opened(s), batch' = Nothing(s),
         file'[s] = file[s], pos'[s] = pos[s], hint'[s] = hint[s], pinnedId'[s] = pinnedId[s],
         observing[s] /\ Tracks(s) => pos[s] >= 2 * Whole(file[s]),
         observing[s] /\ ~Tracks(s) /\ Home(s) # NoFile => ~ConversationSince(Home(s), 0)
  PROVE  Placed(s)'
<1>1. /\ Existing' = Existing /\ Home(s)' = Home(s) /\ cli' = cli /\ rows' = rows
      /\ \A f : Size(f)' = Size(f) /\ Whole(f)' = Whole(f)
      /\ \A f, n : ConversationSince(f, n)' = ConversationSince(f, n)
  BY WorldStays DEF Opened
<1>2. /\ Kept(s) /\ batch.who # s /\ ~(batch.next <= batch.upto) /\ batch.of = NoFile
  BY OpenedKept
<1>3. /\ ~(batch'.next <= batch'.upto) /\ batch'.who = s /\ batch'.of = NoFile
  BY DEF Nothing
<1>4. Tracks(s) <=> Tracks(s)'
  BY <1>1 DEF Tracks
<1>5. /\ observing' = observing /\ asked' = asked /\ pinned' = pinned
      /\ atPinFiles' = atPinFiles /\ touched' = touched /\ live' = live
  BY DEF Opened
<1>6. ASSUME Tracks(s) PROVE Tracking(s, rows[Home(s)])'
  <2>1. PICK q : q = rows[Home(s)]
    OBVIOUS
  <2>2. Tracking(s, q)
    BY <1>6, <2>1 DEF Relay, Watcher
  <2>3. Passed(s)' = Passed(s)
    BY <1>2, <1>3 DEF Passed
  <2>4. Cursor(s, q)'
    BY <1>1, <1>3, <1>5, <1>6, <2>2 DEF Tracking, Cursor
  <2>5. (IF LastRead(q, Passed(s)) = 0 THEN Blank(s) ELSE Holding(s, q[LastRead(q, Passed(s))]))'
    BY <1>2, <2>2, <2>3, BlankKept, HoldingKept DEF Tracking
  <2>6. News(s, q, Passed(s))' /\ Relayed1(s, q, Passed(s))'
    BY <1>2, <2>2, <2>3 DEF Tracking, News, Relayed1, Kept, Contains
  <2>7. Tracking(s, q)'
    BY <1>1, <2>2, <2>3, <2>4, <2>5, <2>6 DEF Tracking
  <2>8. q = rows'[Home(s)']
    BY <1>1, <2>1
  <2> QED BY <2>7, <2>8
<1>7. ASSUME ~Tracks(s) PROVE Away(s)'
  <2>1. Away(s)
    BY <1>7 DEF Relay, Watcher
  <2>2. Blank(s)'
    BY <1>2, <2>1, BlankKept DEF Away
  <2>3. Title' = Title
    BY DEF Title
  <2>4. (pinned'[s] \/ file'[s] = NoFile) /\ Home(s)' # NoFile => News(s, rows[Home(s)], 0)'
    BY <1>1, <1>5, <2>1 DEF Away, News
  <2>5. batch'.who = s /\ observing'[s] /\ Home(s)' # NoFile => ~ConversationSince(Home(s), 0)'
    BY <1>1, <1>5, <1>7
  <2> QED BY <1>1, <1>3, <1>5, <2>1, <2>2, <2>3, <2>4, <2>5 DEF Away
<1> QED BY <1>1, <1>4, <1>6, <1>7 DEF Placed, Relay, Watcher

(* The transcript of the CLI is read on. *)
LEMMA ReadOnRelay ==
  ASSUME IInv, NEW s \in Session, Relay(s), Opened(s), Tracks(s), file'[s] = file[s],
         hint'[s] = hint[s], pinnedId'[s] = pinnedId[s],
         pos'[s] = ReadTo(file[s], pos[s]), batch' = Reading(s, file[s], pos[s])
  PROVE  Placed(s)'
<1>1. /\ Existing' = Existing /\ Home(s)' = Home(s) /\ cli' = cli /\ rows' = rows
      /\ \A f : Size(f)' = Size(f) /\ Whole(f)' = Whole(f)
  BY WorldStays DEF Opened
<1>2. /\ Kept(s) /\ batch.who # s /\ ~(batch.next <= batch.upto) /\ batch.of = NoFile
  BY OpenedKept
<1>3. /\ pos[s] \in Nat /\ Whole(file[s]) \in Nat
  BY Typed, Sizes DEF Tracks
<1>4. CASE 2 * Whole(file[s]) <= pos[s]
  <2>1. pos'[s] = pos[s] /\ batch' = Nothing(s) /\ pos[s] >= 2 * Whole(file[s])
    BY <1>3, <1>4 DEF ReadTo, Reading
  <2> QED BY <2>1, StayRelay
<1>5. CASE 2 * Whole(file[s]) > pos[s]
  <2>1. PICK w : w = Whole(file[s])
    OBVIOUS
  <2>2. /\ pos'[s] = 2 * w /\ batch'.of = file[s] /\ batch'.next = (pos[s] + 1) \div 2 + 1
        /\ batch'.upto = w /\ w \in Nat
    BY <1>3, <1>5, <2>1 DEF ReadTo, Reading
  <2>3. Passed(s)' = Passed(s)
    <3>1. Passed(s) = (pos[s] + 1) \div 2
      BY <1>2 DEF Passed
    <3>2. CASE pos[s] < 2 * w - 1
      BY <1>3, <2>2, <3>1, <3>2 DEF Passed
    <3>3. CASE pos[s] = 2 * w - 1
      BY <1>3, <2>2, <3>1, <3>3 DEF Passed
    <3> QED BY <1>3, <1>5, <2>1, <2>2, <3>2, <3>3
  <2>4. PICK q : q = rows[Home(s)]
    OBVIOUS
  <2>5. Tracking(s, q)
    BY <2>4 DEF Relay, Watcher
  <2>6. Cursor(s, q)'
    <3>1. \A k \in 1 .. Len(q) : pos'[s] # 2 * k - 1
      BY <2>2
    <3> QED BY <1>1, <2>1, <2>2, <3>1 DEF Cursor
  <2>7. (IF LastRead(q, Passed(s)) = 0 THEN Blank(s) ELSE Holding(s, q[LastRead(q, Passed(s))]))'
    BY <1>2, <2>3, <2>5, BlankKept, HoldingKept DEF Tracking
  <2>8. News(s, q, Passed(s))' /\ Relayed1(s, q, Passed(s))'
    BY <1>2, <2>3, <2>5 DEF Tracking, News, Relayed1, Kept, Contains
  <2>9. Tracking(s, q)'
    BY <1>1, <2>3, <2>5, <2>6, <2>7, <2>8 DEF Tracking
  <2>10. q = rows'[Home(s)'] /\ Tracks(s)'
    BY <1>1, <2>4 DEF Tracks
  <2>11. Tracking(s, rows[Home(s)])'
    BY <2>9, <2>10
  <2> QED BY <1>1, <2>10, <2>11 DEF Placed, Relay, Watcher
<1> QED BY <1>3, <1>4, <1>5

(* The watcher finds the transcript of the CLI, and reads all of it. *)
LEMMA FindRelay ==
  ASSUME IInv, NEW s \in Session, Relay(s), Opened(s), Away(s), Home(s) # NoFile,
         News(s, rows[Home(s)], 0), file'[s] = Home(s),
         hint'[s] = NoFile, pinnedId'[s] \in {NoFile, Home(s)}, cli[s].turn # 0,
         pos'[s] = ReadTo(Home(s), 0), batch' = Reading(s, Home(s), 0)
  PROVE  Placed(s)'
<1>1. /\ Existing' = Existing /\ Home(s)' = Home(s) /\ cli' = cli /\ rows' = rows
      /\ \A f : Size(f)' = Size(f) /\ Whole(f)' = Whole(f)
  BY WorldStays DEF Opened
<1>2. /\ Kept(s) /\ Home(s) \in Existing
  BY OpenedKept DEF Relay, Cli, Script
<1>3. PICK w : w = Whole(Home(s)) /\ w \in Nat
  BY <1>2, Typed, Sizes DEF Existing
<1>4. PICK q : q = rows[Home(s)]
  OBVIOUS
<1>5. /\ Passed(s)' = 0 /\ (pos'[s] = 0 \/ pos'[s] = 2 * w) /\ pos'[s] >= 2 * w
      /\ batch'.next <= batch'.upto =>
           batch'.of = Home(s) /\ batch'.upto = w /\ pos'[s] = 2 * w
      /\ batch'.of \in {Home(s), NoFile}
  <2>1. CASE w = 0
    <3>1. pos'[s] = 0 /\ batch' = Nothing(s)
      BY <1>3, <2>1 DEF ReadTo, Reading
    <3> QED BY <2>1, <3>1 DEF Nothing, Passed
  <2>2. CASE w > 0
    <3>1. pos'[s] = 2 * w /\ batch'.of = Home(s) /\ batch'.next = 1 /\ batch'.upto = w
      BY <1>3, <2>2 DEF ReadTo, Reading
    <3> QED BY <1>3, <2>2, <3>1 DEF Passed
  <2> QED BY <1>3, <2>1, <2>2
<1>6. Cursor(s, q)'
  <2>1. \A k \in 1 .. Len(q) : pos'[s] # 2 * k - 1
    BY <1>3, <1>5
  <2> QED BY <1>1, <1>3, <1>5, <2>1 DEF Cursor
<1>7. LastRead(q, 0) = 0 /\ Blank(s)'
  BY <1>2, BlankKept DEF LastRead, Away
<1>8. News(s, q, Passed(s))' /\ Relayed1(s, q, Passed(s))'
  BY <1>2, <1>4, <1>5 DEF News, Relayed1, Kept
<1>9. Tracking(s, q)'
  BY <1>1, <1>5, <1>6, <1>7, <1>8 DEF Tracking
<1>10. q = rows'[Home(s)'] /\ Tracks(s)'
  BY <1>1, <1>4 DEF Tracks
<1>11. Tracking(s, rows[Home(s)])'
  BY <1>9, <1>10
<1> QED BY <1>1, <1>2, <1>10, <1>11 DEF Placed

(* It finds a title.                                                       *)
LEMMA TitleRelay ==
  ASSUME IInv, NEW s \in Session, Relay(s), Opened(s), ~Tracks(s), file[s] = NoFile,
         NEW f \in Existing \ {Home(s)}, file'[s] = f, hint'[s] = hint[s],
         pinnedId'[s] = pinnedId[s], pos'[s] = ReadTo(f, 0), batch' = Reading(s, f, 0),
         observing[s] /\ Home(s) # NoFile => ~ConversationSince(Home(s), 0)
  PROVE  Placed(s)'
<1>1. /\ Existing' = Existing /\ Home(s)' = Home(s) /\ cli' = cli /\ rows' = rows
      /\ \A g : Size(g)' = Size(g) /\ Whole(g)' = Whole(g)
      /\ \A g, n : ConversationSince(g, n)' = ConversationSince(g, n)
  BY WorldStays DEF Opened
<1>2. /\ Kept(s)
  BY OpenedKept
<1>3. Away(s) /\ s \in live
  BY DEF Opened, Relay, Watcher
<1>4. /\ observing' = observing /\ asked' = asked /\ pinned' = pinned
      /\ atPinFiles' = atPinFiles /\ touched' = touched /\ live' = live
  BY DEF Opened
<1>5. rows[f] = Title /\ ~half[f] /\ f # NoFile /\ Title' = Title
  <2>1. rows[f] = Title
    BY <1>3 DEF Away
  <2>2. ~half[f]
    BY DEF Relay, Directory, Stranger
  <2> QED BY <2>1, <2>2, FileAssumption DEF Existing, Title
<1>6. Whole(f) = 1 /\ Size(f) = 2
  <2>1. Len(rows[f]) = 1
    BY <1>5, TitleIs
  <2>2. Size(f) = 2 * Len(rows[f]) - 0
    BY <1>5 DEF Size
  <2> QED BY <1>5, <2>1, <2>2 DEF Whole
<1>7. pos'[s] = 2 /\ batch'.of = f /\ batch'.who = s
  BY <1>6 DEF ReadTo, Reading
<1>8. Blank(s)'
  BY <1>2, <1>3, BlankKept DEF Away
<1>9. ~Tracks(s)'
  BY <1>1 DEF Tracks
<1>10. Home(s) # NoFile => News(s, rows[Home(s)], 0)'
  BY <1>1, <1>3, <1>4 DEF Away, News
<1>11. pinned'[s] /\ Home(s)' # NoFile =>
         Home(s)' \notin atPinFiles'[s] /\ Home(s)' \in touched'[s]
  BY <1>1, <1>3, <1>4 DEF Away
<1>12. Away(s)'
  BY <1>1, <1>4, <1>5, <1>6, <1>7, <1>8, <1>10, <1>11 DEF Away
<1> QED BY <1>1, <1>9, <1>12 DEF Placed, Relay, Watcher

(* A title does not draw the watcher away. *)
LEMMA NoRoll ==
  ASSUME IInv, NEW s \in Session, Relay(s), NEW g \in Considered(s, file[s], {}),
         ConversationSince(g, StartOf(s, g))
  PROVE  g = Home(s) /\ g # file[s] /\ pinned[s]
<1>1. g \in Existing /\ g \in touched[s] /\ g # file[s] /\ pinned[s]
  BY DEF Considered
<1>2. g # Home(s) => rows[g] = Title
  BY <1>1 DEF Relay, Directory, Stranger
<1>3. rows[g] # Title
  BY TitleIs
<1> QED BY <1>1, <1>2, <1>3

(* The poll of a session that is polled, whichever file it opens. *)
LEMMA PollRelay ==
  ASSUME IInv, NEW s \in Session, Relay(s), Opened(s), PollOpen(s, {})
  PROVE  Placed(s)'
<1>1. Repinned(s, {}) = file[s] /\ RepinnedPos(s, {}) = pos[s]
  BY DEF Repinned, RepinnedPos
<1>2. /\ WatcherTypeOK /\ pos[s] \in Nat /\ file[s] \in File \cup {NoFile}
      /\ observing[s] \in BOOLEAN /\ cli[s].turn \in 0 .. MaxTurn
  BY Typed DEF IInv, TypeOK
<1>3. Tracks(s) \/ (~Tracks(s) /\ Away(s))
  BY DEF Relay, Watcher
<1>4. /\ Home(s) # NoFile => Home(s) \in Existing
      /\ IsOrder(newer, Existing) /\ NoFile \notin Existing
      /\ observing[s] => pinned[s]
  BY FileAssumption DEF Relay, Cli, Script, Directory, Existing, Observing
<1>5. CASE file[s] = NoFile
  <2>1. PICK f : f = FindActive(s, {})
    OBVIOUS
  <2>2. PollFirstFile(s, {})
    BY <1>1, <1>5 DEF PollOpen
  <2>3. /\ file'[s] = f /\ pinnedId' = pinnedId /\ hint' = hint
        /\ pos'[s] = (IF f = NoFile THEN 0 ELSE ReadTo(f, 0))
        /\ batch' = IF f = NoFile THEN Nothing(s) ELSE Reading(s, f, 0)
    BY <1>2, <2>1, <2>2 DEF PollFirstFile, WatcherTypeOK
  <2>4. f \in Existing \cup {NoFile} /\ (f = NoFile => Existing = {})
    BY <1>4, <2>1, ActiveIs
  <2>5. /\ ~Tracks(s) /\ Away(s) /\ pos[s] = 0 /\ hint[s] = NoFile /\ pinnedId[s] = NoFile
        /\ Home(s) # NoFile => cli[s].turn # 0 /\ News(s, rows[Home(s)], 0)
    BY <1>3, <1>5 DEF Tracks, Away, Size
  <2>6. CASE f = NoFile
    BY <1>4, <1>5, <2>3, <2>4, <2>5, <2>6, StayRelay
  <2>7. CASE f # NoFile /\ f = Home(s)
    BY <2>3, <2>5, <2>7, FindRelay
  <2>8. CASE f # NoFile /\ f # Home(s)
    <3>1. f \in Existing \ {Home(s)}
      BY <2>4, <2>8
    <3>2. Home(s) # NoFile => ~ConversationSince(Home(s), 0)
      <4>1. rows[f] = Title
        BY <1>5, <2>5, <3>1 DEF Away, Opened
      <4>2. ~IsConversation(f)
        BY <4>1, TitleIs DEF IsConversation
      <4>3. \A g \in Existing : ~IsConversation(g)
        BY <1>4, <2>1, <4>2, ActiveIs
      <4> QED BY <1>4, <4>3 DEF IsConversation
    <3> QED BY <1>5, <2>3, <2>5, <2>8, <3>1, <3>2, TitleRelay
  <2> QED BY <2>6, <2>7, <2>8
<1>6. CASE file[s] # NoFile /\ PollGrown(s, file[s], pos[s])
  <2>1. /\ file'[s] = file[s] /\ pos'[s] = ReadTo(file[s], pos[s])
        /\ batch' = Reading(s, file[s], pos[s]) /\ pinnedId' = pinnedId /\ hint' = hint
    BY <1>2, <1>6 DEF PollGrown, WatcherTypeOK
  <2>2. Tracks(s)
    <3>1. Size(file[s]) > pos[s] /\ Size(file[s]) \in Nat
      BY <1>2, <1>6, Typed, Sizes DEF PollGrown
    <3> QED BY <1>2, <1>3, <3>1 DEF Away
  <2> QED BY <2>1, <2>2, ReadOnRelay
<1>7. CASE file[s] # NoFile /\ PollSilent(s, file[s], pos[s], {})
  <2>1. /\ file'[s] = file[s] /\ pos'[s] = pos[s] /\ batch' = Nothing(s)
        /\ pinnedId' = pinnedId /\ hint' = hint
        /\ Size(file[s]) <= pos[s] /\ RollTargets(s, file[s], pos[s], {}) = {}
    BY <1>2, <1>7 DEF PollSilent, WatcherTypeOK
  <2>2. pos[s] >= 2 * Whole(file[s])
    <3>1. 2 * Whole(file[s]) <= Size(file[s]) /\ Size(file[s]) \in Nat /\ Whole(file[s]) \in Nat
      BY <1>2, <1>7, Typed, Sizes
    <3> QED BY <1>2, <2>1, <3>1
  <2>3. observing[s] /\ ~Tracks(s) /\ Home(s) # NoFile => ~ConversationSince(Home(s), 0)
    <3> SUFFICES ASSUME observing[s], ~Tracks(s), Home(s) # NoFile
                 PROVE  ~ConversationSince(Home(s), 0)
      OBVIOUS
    <3>1. pinned[s] /\ Home(s) \notin atPinFiles[s] /\ Home(s) \in touched[s]
      BY <1>3, <1>4 DEF Away
    <3>2. Home(s) \in Considered(s, file[s], {}) /\ IsNew(s, Home(s))
      BY <1>4, <1>7, <3>1 DEF Considered, IsNew, Tracks
    <3>3. StartOf(s, Home(s)) = 0
      BY <3>2 DEF StartOf
    <3> QED BY <2>1, <3>2, <3>3 DEF RollTargets
  <2> QED BY <2>1, <2>2, <2>3, StayRelay
<1>8. CASE file[s] # NoFile /\ PollRoll(s, file[s], pos[s], {})
  <2>1. PICK g : g = Newest(RollTargets(s, file[s], pos[s], {}))
    OBVIOUS
  <2>2. /\ g # NoFile /\ file'[s] = g /\ pos'[s] = ReadTo(g, RollStart(s, g))
        /\ pinnedId'[s] = g /\ hint'[s] = NoFile /\ batch' = Reading(s, g, RollStart(s, g))
    BY <1>2, <1>8, <2>1 DEF PollRoll, WatcherTypeOK
  <2>3. g \in RollTargets(s, file[s], pos[s], {})
    <3>1. RollTargets(s, file[s], pos[s], {}) \in SUBSET File
      BY DEF RollTargets, Considered, Existing
    <3> QED BY <2>1, <2>2, <3>1, NewestIn
  <2>4. g \in Considered(s, file[s], {}) /\ ConversationSince(g, StartOf(s, g))
    BY <2>3 DEF RollTargets
  <2>5. g = Home(s) /\ g # file[s] /\ pinned[s]
    BY <2>4, NoRoll
  <2>6. ~Tracks(s) /\ Away(s)
    BY <1>3, <2>5 DEF Tracks
  <2>7. News(s, rows[Home(s)], 0) /\ g \notin atPinFiles[s] /\ ~acc[s].closed
    BY <2>2, <2>5, <2>6 DEF Away, Blank
  <2>8. RollStart(s, g) = 0 /\ StartOf(s, g) = 0
    BY <2>7 DEF RollStart, StartOf, IsNew
  <2>9. cli[s].turn # 0
    <3>1. ConversationSince(g, 0)
      BY <2>4, <2>8
    <3>2. PICK i \in 1 .. Whole(g) : rows[g][i].kind # "meta"
      BY <3>1 DEF ConversationSince, IsConversationRow
    <3>3. i \in 1 .. Len(rows[g]) /\ rows[g] \in Seq(Row)
      <4>1. g \in File
        BY <2>2, <2>5, Typed
      <4> QED BY <3>2, <4>1, Typed, Sizes
    <3>4. rows[g][i].turn # 0 /\ rows[g][i].turn <= cli[s].turn /\ rows[g][i].turn \in Turn
      BY <2>2, <2>5, <2>7, <3>2, <3>3, RowIs DEF News, Relay, Cli, Script, RowFits
    <3> QED BY <1>2, <3>4, TurnAssumption DEF Turn
  <2> QED BY <2>2, <2>5, <2>6, <2>7, <2>8, <2>9, FindRelay
<1> QED BY <1>1, <1>5, <1>6, <1>7, <1>8 DEF PollOpen

(* A visit begins, polled or not. *)
LEMMA VisitRelay ==
  ASSUME IInv, NEW s \in Session, Session = {s}, Relay(s), Visit(s)
  PROVE  Relay(s)'
<1>1. /\ batch = Idle /\ s \in tick.todo
      /\ UNCHANGED <<transcriptVars, touched, acc, cliVars, monitorVars, atPinFiles, pinned>>
  BY DEF Visit
<1>2. live \subseteq {s} /\ s \in live /\ WatcherTypeOK
  BY <1>1 DEF IInv, TypeOK, TickOK
<1>3. SiblingPins(s, tick.pins) = {}
  BY <1>2 DEF SiblingPins
<1>4. excluded'[s] = {}
  BY <1>2, <1>3 DEF Visit, WatcherTypeOK
<1>5. /\ WorldSame(s)
      /\ UNCHANGED <<acc, observing, asked, log, atPinFiles, pinned, touched, live, inbox, nextTurn>>
  BY <1>1 DEF WorldSame, cliVars, monitorVars
<1>6. CASE Polls(s)
  <2>1. PollOpen(s, {})
    BY <1>3, <1>6 DEF Visit
  <2>2. /\ batch'.who = s /\ batch'.completed = FALSE /\ batch'.out = <<>>
        /\ batch'.of = NoFile => batch'.upto = 0
    <3>1. ASSUME NEW f, NEW n PROVE
            /\ Reading(s, f, n).who = s /\ Reading(s, f, n).completed = FALSE
            /\ Reading(s, f, n).out = <<>>
            /\ Reading(s, f, n).of = NoFile => f = NoFile \/ Reading(s, f, n).upto = 0
      BY DEF Reading, Nothing
    <3>2. /\ Nothing(s).who = s /\ Nothing(s).completed = FALSE
          /\ Nothing(s).out = <<>> /\ Nothing(s).upto = 0
      BY DEF Nothing
    <3>3. batch' = Nothing(s) \/ \E f, n : f # NoFile /\ batch' = Reading(s, f, n)
      <4>1. CASE PollFirstFile(s, {})
        BY <4>1 DEF PollFirstFile
      <4>2. ASSUME NEW f, NEW n, f # NoFile, PollGrown(s, f, n)
            PROVE  \E g, m : g # NoFile /\ batch' = Reading(s, g, m)
        BY <4>2 DEF PollGrown
      <4>3. ASSUME NEW f, NEW n, PollSilent(s, f, n, {}) PROVE batch' = Nothing(s)
        BY <4>3 DEF PollSilent
      <4>4. ASSUME NEW f, NEW n, PollRoll(s, f, n, {})
            PROVE  \E g, m : g # NoFile /\ batch' = Reading(s, g, m)
        BY <4>4 DEF PollRoll
      <4> QED BY <2>1, <4>1, <4>2, <4>3, <4>4 DEF PollOpen
    <3> QED BY <3>1, <3>2, <3>3
  <2>3. Opened(s)
    BY <1>1, <1>2, <1>4, <1>5, <2>2 DEF Opened
  <2> QED BY <2>1, <2>3, PollRelay, OpenedRelay
<1>7. CASE ~Polls(s)
  <2>1. Repinned(s, {}) = file[s] /\ RepinnedPos(s, {}) = pos[s]
    BY DEF Repinned, RepinnedPos
  <2>2. /\ file' = [file EXCEPT ![s] = Repinned(s, {})]
        /\ pos' = [pos EXCEPT ![s] = RepinnedPos(s, {})]
        /\ batch' = Nothing(s) /\ UNCHANGED <<pinnedId, hint>>
    BY <1>3, <1>7 DEF Visit
  <2>3. file'[s] = file[s] /\ pos'[s] = pos[s] /\ pinnedId' = pinnedId /\ hint' = hint
    BY <1>2, <2>1, <2>2 DEF WatcherTypeOK
  <2>4. Opened(s)
    BY <1>1, <1>2, <1>4, <1>5, <2>2 DEF Opened, Nothing
  <2>5. ~observing[s]
    BY <1>7 DEF Polls
  <2> QED BY <2>2, <2>3, <2>4, <2>5, StayRelay, OpenedRelay
<1> QED BY <1>6, <1>7
-----------------------------------------------------------------------------
(* A row is processed. *)
RowRead(s) ==
  /\ batch.who = s /\ batch.next <= batch.upto /\ batch.of \in File
  /\ batch.next >= 1 /\ batch.upto <= Len(rows[batch.of])
  /\ WorldSame(s)
  /\ UNCHANGED <<file, pos, pinnedId, hint, atPinFiles, pinned, touched, excluded, observing,
                 asked, log, live, inbox, nextTurn>>
  /\ batch'.who = s /\ batch'.of = batch.of /\ batch'.upto = batch.upto
  /\ batch'.next = batch.next + 1

(* What each arm of the loop makes of it. *)
Arms(s, r) ==
  /\ r.kind = "meta" => Kept(s)
  /\ r.kind # "user" => batch'.out = batch.out
  /\ r.kind \in {"text", "textEnd", "result"} =>
       /\ acc'[s].parts = Append(acc[s].parts, PartOf(r)) /\ acc'[s].toolIds = acc[s].toolIds
       /\ acc'[s].pending = acc[s].pending
       /\ batch'.completed = (batch.completed \/ r.kind = "textEnd")
  /\ r.kind = "tool" =>
       /\ acc'[s].parts = IF PartOf(r) \notin acc[s].toolIds
                          THEN Append(acc[s].parts, PartOf(r)) ELSE acc[s].parts
       /\ acc'[s].toolIds = acc[s].toolIds \cup {PartOf(r)}
       /\ acc'[s].pending = acc[s].pending /\ batch'.completed = batch.completed
  /\ r.kind = "thinkEnd" => acc'[s] = acc[s] /\ batch'.completed = TRUE
  /\ r.kind = "interrupt" =>
       /\ acc'[s].parts = <<>> /\ acc'[s].pending = FALSE /\ batch'.completed = batch.completed
  /\ r.kind = "user" =>
       /\ acc'[s].parts = <<>> /\ acc'[s].toolIds = {} /\ acc'[s].pending = FALSE
       /\ batch'.completed = (batch.completed /\ ~Flushes)
       /\ batch'.out = IF Flushes THEN Append(batch.out, acc[s].parts) ELSE batch.out

(* What ReadStep does to a row of each kind. *)
LEMMA RowReadIs ==
  ASSUME IInv, NEW s \in Session, Session = {s}, Relay(s), ReadStep
  PROVE  RowRead(s) /\ Arms(s, CurrentRow)
<1>1. ReadRow /\ UNCHANGED <<transcriptVars, pinVars, touched, excluded, cliVars, monitorVars>>
  BY DEF ReadStep, ReadRow
<1>2. InBatch /\ acc' \in [Session -> Accumulator]
  BY <1>1, RowTypes
<1>3. batch \in Batch /\ batch.who = s /\ batch.of \in File /\ CurrentRow \in Row
      /\ Mine = acc[s] /\ acc[s] \in Accumulator
  BY <1>2, RowFacts DEF Mine
<1>4. batch.next >= 1 /\ batch.next <= batch.upto /\ batch.upto <= Len(rows[batch.of])
  BY <1>2, <1>3 DEF IInv, BatchOK, InBatch
<1>5. ASSUME NEW out, NEW done, Advance(out, done)
      PROVE  /\ batch'.who = s /\ batch'.of = batch.of /\ batch'.upto = batch.upto
             /\ batch'.next = batch.next + 1 /\ batch'.out = out /\ batch'.completed = done
  BY <1>3, <1>5 DEF Advance, Batch
<1>6. RowRead(s)
  <2>1. \E out \in Seq(Seq(Part)), done \in BOOLEAN : Advance(out, done)
    BY <1>1, RowTypes
  <2> QED BY <1>1, <1>3, <1>4, <1>5, <2>1
          DEF RowRead, WorldSame, pinVars, cliVars, monitorVars
<1>7. acc \in [Session -> Accumulator] /\ \A a : SetAcc(a) => acc'[s] = a
  BY <1>3 DEF IInv, TypeOK, WatcherTypeOK, SetAcc
<1>8. log' = log /\ observing' = observing /\ asked' = asked
  BY <1>1 DEF monitorVars
<1>9. CASE ReadMeta
  <2>1. /\ CurrentRow.kind = "meta" /\ acc' = acc
        /\ batch'.out = batch.out /\ batch'.completed = batch.completed /\ batch'.of = batch.of
    BY <1>5, <1>9 DEF ReadMeta
  <2>2. Telling' = Telling /\ LogTurns' = LogTurns
    BY <1>1, <1>8, <2>1
       DEF Telling, LogTurns, TurnOf, FromTranscript, Reply, OutTurns, cliVars
  <2> QED BY <1>6, <1>8, <2>1, <2>2 DEF Arms, Kept
<1>10. CASE ReadText
  <2>1. /\ CurrentRow.kind \in {"text", "textEnd"}
        /\ acc'[s] = [acc[s] EXCEPT !.parts = Append(@, PartOf(CurrentRow))]
        /\ batch'.out = batch.out
        /\ batch'.completed = (batch.completed \/ CurrentRow.kind = "textEnd")
    BY <1>3, <1>5, <1>7, <1>10 DEF ReadText
  <2>2. /\ acc'[s].parts = Append(acc[s].parts, PartOf(CurrentRow))
        /\ acc'[s].toolIds = acc[s].toolIds /\ acc'[s].pending = acc[s].pending
    BY <1>3, <2>1 DEF Accumulator
  <2> QED BY <1>6, <2>1, <2>2 DEF Arms
<1>11. CASE ReadThinkEnd
  BY <1>5, <1>6, <1>11 DEF ReadThinkEnd, Arms
<1>12. CASE ReadToolUse
  <2>1. PICK P : P = IF PartOf(CurrentRow) \notin acc[s].toolIds
                     THEN Append(acc[s].parts, PartOf(CurrentRow)) ELSE acc[s].parts
    OBVIOUS
  <2>2. /\ CurrentRow.kind = "tool"
        /\ acc'[s] = [acc[s] EXCEPT !.toolIds = @ \cup {PartOf(CurrentRow)}, !.parts = P,
                                    !.open = TRUE]
        /\ batch'.out = batch.out /\ batch'.completed = batch.completed
    BY <1>3, <1>5, <1>7, <1>12, <2>1 DEF ReadToolUse
  <2>3. /\ acc'[s].parts = P /\ acc'[s].toolIds = acc[s].toolIds \cup {PartOf(CurrentRow)}
        /\ acc'[s].pending = acc[s].pending
    BY <1>3, <2>2 DEF Accumulator
  <2> QED BY <1>6, <2>1, <2>2, <2>3 DEF Arms
<1>13. CASE ReadToolResult
  <2>1. /\ CurrentRow.kind = "result"
        /\ acc'[s] = [acc[s] EXCEPT !.parts = Append(@, PartOf(CurrentRow)), !.open = TRUE]
        /\ batch'.out = batch.out /\ batch'.completed = batch.completed
        /\ batch.completed \in BOOLEAN
    BY <1>3, <1>5, <1>7, <1>13 DEF ReadToolResult, Batch
  <2>2. /\ acc'[s].parts = Append(acc[s].parts, PartOf(CurrentRow))
        /\ acc'[s].toolIds = acc[s].toolIds /\ acc'[s].pending = acc[s].pending
    BY <1>3, <2>1 DEF Accumulator
  <2> QED BY <1>6, <2>1, <2>2 DEF Arms
<1>14. CASE ReadInterrupt
  <2>1. /\ CurrentRow.kind = "interrupt"
        /\ acc'[s] = [acc[s] EXCEPT !.parts = <<>>, !.toolIds = {}, !.open = FALSE,
                                    !.pending = FALSE]
        /\ batch'.out = batch.out /\ batch'.completed = batch.completed
    BY <1>3, <1>5, <1>7, <1>14 DEF ReadInterrupt
  <2>2. acc'[s].parts = <<>> /\ acc'[s].pending = FALSE
    BY <1>3, <2>1 DEF Accumulator
  <2> QED BY <1>6, <2>1, <2>2 DEF Arms
<1>15. CASE ReadUser
  <2>1. /\ CurrentRow.kind = "user"
        /\ acc'[s] = [parts |-> <<>>, toolIds |-> {}, open |-> TRUE, pending |-> FALSE,
                      closed |-> FALSE, lastUser |-> CurrentRow.turn]
        /\ batch'.out = (IF Flushes THEN Append(batch.out, acc[s].parts) ELSE batch.out)
        /\ batch'.completed = (batch.completed /\ ~Flushes)
    BY <1>3, <1>5, <1>7, <1>15 DEF ReadUser
  <2> QED BY <1>6, <2>1 DEF Arms
<1> QED BY <1>1, <1>6, <1>9, <1>10, <1>11, <1>12, <1>13, <1>14, <1>15 DEF ReadRow

(* What is left of the watcher's invariant once the row is taken: q is the *)
(* transcript, p rows of it were passed.                                   *)
Took(s, q, p) ==
  /\ Ledgers(s)
  /\ IF LastRead(q, p + 1) = 0 THEN Blank(s) ELSE Holding(s, q[LastRead(q, p + 1)])
  /\ Relayed1(s, q, p + 1)
  /\ observing[s] => batch.out = <<>>
  /\ cli[s].turn = 0 => Blank(s)

(* The row at hand is the next of the transcript of the CLI. *)
AtRow(s, q, p) ==
  /\ RowRead(s) /\ Relay(s) /\ Tracks(s)
  /\ q = rows[Home(s)] /\ p = batch.next - 1

(* What is known there. *)
LEMMA AtRowIs ==
  ASSUME IInv, NEW s \in Session, NEW q, NEW p, AtRow(s, q, p)
  PROVE  /\ q \in Seq(Row) /\ Chained(q) /\ Rising(q) /\ p \in 0 .. Len(q) - 1
         /\ p + 1 \in 1 .. Len(q) /\ Passed(s) = p /\ Tracking(s, q)
         /\ CurrentRow = q[p + 1] /\ q[p + 1] \in Row
         /\ Len(q) \in Nat /\ LastRead(q, p) \in 0 .. p
         /\ \A i \in 1 .. Len(q) : RowFits(s, q[i])
         /\ Home(s) # NoFile /\ batch.of = Home(s) /\ batch.of # NoFile
<1>1. /\ Home(s) # NoFile /\ file[s] = Home(s) /\ q = rows[Home(s)] /\ p = batch.next - 1
      /\ batch.next <= batch.upto /\ batch.next >= 1 /\ batch.upto <= Len(rows[batch.of])
      /\ batch.next \in Nat /\ batch.upto \in Nat
  BY Typed DEF AtRow, RowRead, Tracks
<1>2. Tracking(s, q) /\ q \in Seq(Row) /\ Chained(q) /\ Rising(q)
      /\ \A i \in 1 .. Len(q) : RowFits(s, q[i])
  BY <1>1, Typed DEF AtRow, Relay, Watcher, Cli, Script, Existing
<1>3. batch.of = Home(s)
  BY <1>1, <1>2 DEF Tracking, Cursor
<1>4. Len(q) \in Nat /\ p \in 0 .. Len(q) - 1 /\ p + 1 \in 1 .. Len(q) /\ p + 1 = batch.next
      /\ p \in 0 .. Len(q)
  BY <1>1, <1>2, <1>3
<1>5. Passed(s) = p
  BY <1>1 DEF Passed
<1>6. CurrentRow = q[p + 1] /\ q[p + 1] \in Row
  BY <1>1, <1>2, <1>3, <1>4 DEF CurrentRow
<1>7. LastRead(q, p) \in 0 .. p
  BY <1>2, <1>4, LastReadIs
<1> QED BY <1>1, <1>2, <1>3, <1>4, <1>5, <1>6, <1>7

(* A row within a turn comes after one of the same turn. *)
LEMMA WithinTurn ==
  ASSUME IInv, NEW s \in Session, NEW q, NEW p, AtRow(s, q, p),
         q[p + 1].kind \notin {"meta", "user"}
  PROVE  /\ p \in 1 .. Len(q) /\ LastRead(q, p) = p /\ LastRead(q, p + 1) = p + 1
         /\ Follows(q[p], q[p + 1]) /\ Holding(s, q[p])
         /\ q[p].turn = q[p + 1].turn /\ q[p].kind \in Said \cup {"user", "thinkEnd"}
         /\ q[p].n \in Nat /\ q[p].turn \in Turn /\ q[p].turn # 0
<1>1. /\ q \in Seq(Row) /\ Chained(q) /\ p \in 0 .. Len(q) - 1 /\ p + 1 \in 1 .. Len(q)
      /\ Passed(s) = p /\ Tracking(s, q) /\ Len(q) \in Nat
  BY AtRowIs
<1>2. p # 0
  BY <1>1 DEF Chained, CanBegin
<1>3. p \in 1 .. Len(q) /\ p + 1 \in 2 .. Len(q) /\ (p + 1) - 1 = p
  BY <1>1, <1>2
<1>4. Follows(q[p], q[p + 1])
  BY <1>1, <1>3 DEF Chained
<1>5. q[p].turn = q[p + 1].turn /\ q[p].kind \in Said \cup {"user", "thinkEnd"}
  BY <1>4 DEF Follows
<1>6. LastRead(q, p) = p
  BY <1>2, <1>5 DEF LastRead, Said
<1>7. LastRead(q, p + 1) = p + 1
  BY <1>1, LastReadNext
<1>8. Holding(s, q[p])
  BY <1>1, <1>2, <1>6 DEF Tracking
<1>9. q[p].n \in Nat /\ q[p].turn \in Turn
  BY <1>1, <1>3, RowIs
<1>10. q[p].turn # 0
  BY <1>1, <1>3, <1>5 DEF Tracking, News
<1> QED BY <1>3, <1>4, <1>5, <1>6, <1>7, <1>8, <1>9, <1>10

(* Nothing new is told. *)
LEMMA TookQuietly ==
  ASSUME IInv, NEW s \in Session, NEW q, NEW p, AtRow(s, q, p), batch'.out = batch.out
  PROVE  /\ Ledgers(s)' /\ Telling' = Telling /\ LogTurns' = LogTurns
         /\ observing'[s] => batch'.out = <<>>
         /\ \A t : Over(s, t)' = Over(s, t)
<1>1. /\ RowRead(s) /\ Relay(s) /\ WorldSame(s) /\ log' = log /\ observing' = observing
  BY DEF AtRow, RowRead
<1>2. Cli(s) /\ Ledgers(s) /\ Onward(s) /\ \A t : Over(s, t)' = Over(s, t)
  BY <1>1, WorldStays DEF Relay
<1>3. Ledgers(s)' /\ Telling' = Telling /\ LogTurns' = LogTurns
  BY <1>1, <1>2, EnvLedgers
<1>4. observing'[s] => batch'.out = <<>>
  BY <1>1 DEF Relay, Observing
<1> QED BY <1>2, <1>3, <1>4

(* Metadata leaves everything as it is. *)
LEMMA TakeMeta ==
  ASSUME IInv, NEW s \in Session, NEW q, NEW p, AtRow(s, q, p), Arms(s, q[p + 1]),
         q[p + 1].kind = "meta"
  PROVE  Took(s, q, p)'
<1>1. /\ q \in Seq(Row) /\ Chained(q) /\ p \in 0 .. Len(q) - 1 /\ p + 1 \in 1 .. Len(q)
      /\ Passed(s) = p /\ Tracking(s, q) /\ Len(q) \in Nat
  BY AtRowIs
<1>2. Kept(s) /\ batch'.out = batch.out
  BY DEF Arms, Kept
<1>3. Ledgers(s)' /\ Telling' = Telling /\ LogTurns' = LogTurns /\ (observing'[s] => batch'.out = <<>>)
  BY <1>2, TookQuietly
<1>4. LastRead(q, p + 1) = LastRead(q, p)
  BY <1>1, LastReadNext
<1>5. (IF LastRead(q, p + 1) = 0 THEN Blank(s) ELSE Holding(s, q[LastRead(q, p + 1)]))'
  BY <1>1, <1>2, <1>4, BlankKept, HoldingKept DEF Tracking
<1>6. Relayed1(s, q, p + 1)'
  BY <1>1, <1>2, <1>4 DEF Tracking, Relayed1, Kept, Contains
<1>7. cli'[s].turn = 0 => Blank(s)'
  <2>1. cli' = cli
    BY DEF AtRow, RowRead, WorldSame
  <2> QED BY <1>2, <2>1, BlankKept DEF AtRow, Relay, Watcher
<1> QED BY <1>3, <1>5, <1>6, <1>7 DEF Took

(* A row of a turn is not one of a CLI that has run none. *)
LEMMA TurnRuns ==
  ASSUME IInv, NEW s \in Session, NEW q, NEW p, AtRow(s, q, p), q[p + 1].kind # "meta"
  PROVE  /\ cli'[s].turn # 0 /\ q[p + 1].turn # 0 /\ q[p + 1].turn \in Turn
         /\ observing[s] => q[p + 1].turn = asked[s]
<1>1. /\ q \in Seq(Row) /\ p + 1 \in 1 .. Len(q) /\ Passed(s) = p /\ Tracking(s, q)
      /\ RowFits(s, q[p + 1])
  BY AtRowIs
<1>2. q[p + 1].turn # 0 /\ (observing[s] => q[p + 1].turn = asked[s])
  BY <1>1 DEF Tracking, News
<1>3. q[p + 1].turn <= cli[s].turn /\ q[p + 1].turn \in Turn /\ cli[s].turn \in 0 .. MaxTurn
  BY <1>1, RowIs, Typed DEF RowFits
<1>4. cli' = cli
  BY DEF AtRow, RowRead, WorldSame
<1> QED BY <1>2, <1>3, <1>4, TurnAssumption DEF Turn

(* Within a turn, the replies read before are relayed. *)
LEMMA RelayedBefore ==
  ASSUME IInv, NEW s \in Session, NEW q, NEW p, AtRow(s, q, p),
         q[p + 1].kind \notin {"meta", "user"}, batch'.out = batch.out,
         q[p + 1].kind = "textEnd" => acc'[s].parts # <<>>
  PROVE  Relayed1(s, q, p + 1)'
<1>1. /\ LastRead(q, p) = p /\ LastRead(q, p + 1) = p + 1 /\ q[p].kind # "textEnd"
      /\ p \in Nat
  BY WithinTurn, AtRowIs DEF Said
<1>2. Telling' = Telling /\ Passed(s) = p /\ Tracking(s, q)
  BY TookQuietly, AtRowIs
<1>3. ASSUME NEW i \in 1 .. p + 1, q[i].kind = "textEnd", q[i].turn # 0
      PROVE  Contains(Telling, q[i].turn) \/ (i = p + 1 /\ acc'[s].parts # <<>>)
  <2>1. CASE i = p + 1
    BY <1>3, <2>1
  <2>2. CASE i # p + 1
    <3>1. i \in 1 .. p /\ i # p
      BY <1>1, <1>3, <2>2
    <3> QED BY <1>1, <1>2, <1>3, <3>1 DEF Tracking, Relayed1
  <2> QED BY <2>1, <2>2
<1> QED BY <1>1, <1>2, <1>3 DEF Relayed1, Contains

(* A row of content adds to what its turn has said. *)
LEMMA ContentGrows ==
  ASSUME IInv, NEW s \in Session, NEW q, NEW p, AtRow(s, q, p),
         q[p + 1].kind \in Said \cup {"textEnd"}
  PROVE  /\ Building(s, q[p]) /\ q[p + 1].turn = q[p].turn /\ q[p + 1].n = q[p].n + 1
         /\ Append(acc[s].parts, PartOf(q[p + 1])) = Prefix(q[p + 1].turn, q[p + 1].n)
         /\ Prefix(q[p + 1].turn, q[p + 1].n) # <<>>
         /\ q[p + 1].kind \in Said => q[p].kind \in Said \cup {"user"}
<1>1. /\ Follows(q[p], q[p + 1]) /\ Holding(s, q[p]) /\ q[p].kind \in Said \cup {"user", "thinkEnd"}
      /\ q[p].n \in Nat /\ q[p].turn \in Turn
  BY WithinTurn DEF Said
<1>2. q[p + 1].turn = q[p].turn /\ q[p + 1].n = q[p].n + 1
      /\ (q[p + 1].kind \in Said => q[p].kind \in Said \cup {"user"})
  BY <1>1 DEF Follows, Said, Ended
<1>3. Building(s, q[p])
  BY <1>1 DEF Holding
<1>4. acc[s].parts = Prefix(q[p].turn, q[p].n)
  BY <1>3 DEF Building
<1>5. Append(Prefix(q[p].turn, q[p].n), [turn |-> q[p].turn, n |-> q[p].n + 1])
        = Prefix(q[p].turn, q[p].n + 1)
  BY <1>1, PrefixIs
<1>6. PartOf(q[p + 1]) = [turn |-> q[p].turn, n |-> q[p].n + 1]
  BY <1>2 DEF PartOf
<1>7. q[p + 1].n \in Nat /\ q[p + 1].n # 0 /\ q[p + 1].turn \in Turn
  BY <1>1, <1>2
<1> QED BY <1>2, <1>3, <1>4, <1>5, <1>6, <1>7, PrefixIs

(* A row of content adds its part. *)
LEMMA TakeContent ==
  ASSUME IInv, NEW s \in Session, NEW q, NEW p, AtRow(s, q, p), Arms(s, q[p + 1]),
         q[p + 1].kind \in Said \cup {"textEnd"}
  PROVE  Took(s, q, p)'
<1>1. PICK r : r = q[p + 1]
  OBVIOUS
<1>2. r.kind \in Said \cup {"textEnd"} /\ r.kind \notin {"meta", "user"} /\ batch'.out = batch.out
  BY <1>1 DEF Arms, Said
<1>3. /\ Ledgers(s)' /\ Telling' = Telling /\ LogTurns' = LogTurns
      /\ observing'[s] => batch'.out = <<>>
  BY <1>2, TookQuietly
<1>4. /\ Building(s, q[p]) /\ r.turn = q[p].turn /\ r.n = q[p].n + 1
      /\ Append(acc[s].parts, PartOf(r)) = Prefix(r.turn, r.n)
      /\ Prefix(r.turn, r.n) # <<>> /\ (r.kind \in Said => q[p].kind \in Said \cup {"user"})
  BY <1>1, <1>2, ContentGrows
<1>5. Holding(s, q[p]) /\ LastRead(q, p + 1) = p + 1 /\ q[p].n \in Nat /\ p + 1 # 0
  BY <1>1, <1>2, WithinTurn, AtRowIs
<1>6. cli'[s].turn # 0 /\ r.turn # 0 /\ (observing[s] => r.turn = asked[s])
  BY <1>1, <1>2, TurnRuns
<1>7. acc'[s].parts = Prefix(r.turn, r.n)
  <2>1. CASE r.kind = "tool"
    <3>1. \A x \in acc[s].toolIds : x.n <= q[p].n
      BY <1>4, <1>5, <2>1 DEF Holding, Said
    <3>2. PartOf(r).n = q[p].n + 1
      BY <1>4 DEF PartOf
    <3>3. PartOf(r) \notin acc[s].toolIds
      BY <1>5, <3>1, <3>2
    <3> QED BY <1>1, <1>4, <2>1, <3>3 DEF Arms
  <2>2. CASE r.kind # "tool"
    BY <1>1, <1>2, <1>4, <2>2 DEF Arms, Said
  <2> QED BY <2>1, <2>2
<1>8. batch'.of = Home(s) /\ batch'.of # NoFile /\ observing' = observing /\ asked' = asked
  BY AtRowIs DEF AtRow, RowRead
<1>9. Building(s, r)'
  <2>1. Below(Telling, r.turn)
    BY <1>4 DEF Building
  <2> QED BY <1>3, <1>6, <1>7, <1>8, <2>1 DEF Building, Below
<1>10. Holding(s, r)'
  <2>1. CASE r.kind \in Said
    <3>1. ~Stopped(s) /\ \A x \in acc[s].toolIds : x.turn = r.turn /\ x.n <= q[p].n
      BY <1>4, <1>5, <2>1 DEF Holding
    <3>2. ~Stopped(s)'
      BY <1>1, <2>1, <3>1 DEF Arms, Stopped, Said
    <3>3. /\ acc'[s].toolIds \subseteq acc[s].toolIds \cup {PartOf(r)}
          /\ PartOf(r).turn = r.turn /\ PartOf(r).n = r.n /\ acc[s].toolIds \subseteq Part
      <4>1. acc[s].toolIds \subseteq Part
        <5>1. acc[s] \in Accumulator
          BY Typed
        <5> QED BY <5>1 DEF Accumulator
      <4> QED BY <1>1, <2>1, <4>1 DEF Arms, Said, PartOf
    <3>4. \A x \in acc'[s].toolIds : x.turn = r.turn /\ x.n <= r.n
      <4> TAKE x \in acc'[s].toolIds
      <4>1. CASE x \in acc[s].toolIds
        <5>1. x.turn = r.turn /\ x.n <= q[p].n /\ x.n \in Nat
          BY <3>1, <3>3, <4>1 DEF Part
        <5> QED BY <1>4, <1>5, <5>1
      <4>2. CASE x = PartOf(r)
        <5>1. r.n \in Nat
          BY <1>4, <1>5
        <5> QED BY <3>3, <4>2, <5>1
      <4> QED BY <3>3, <4>1, <4>2
    <3> QED BY <1>9, <2>1, <3>2, <3>4 DEF Holding, Said
  <2>2. CASE r.kind = "textEnd"
    <3>1. Stopped(s)'
      BY <1>1, <2>2 DEF Arms, Stopped
    <3> QED BY <1>8, <1>9, <2>2, <3>1 DEF Holding, Said
  <2> QED BY <1>2, <2>1, <2>2
<1>11. Relayed1(s, q, p + 1)'
  BY <1>1, <1>2, <1>4, <1>7, RelayedBefore
<1>12. (IF LastRead(q, p + 1) = 0 THEN Blank(s) ELSE Holding(s, q[LastRead(q, p + 1)]))'
  BY <1>1, <1>5, <1>10
<1> QED BY <1>3, <1>6, <1>11, <1>12 DEF Took

(* A thinking row with the terminal stop holds the turn for its text. *)
LEMMA TakeThinkEnd ==
  ASSUME IInv, NEW s \in Session, NEW q, NEW p, AtRow(s, q, p), Arms(s, q[p + 1]),
         q[p + 1].kind = "thinkEnd"
  PROVE  Took(s, q, p)'
<1>1. PICK r : r = q[p + 1]
  OBVIOUS
<1>2. r.kind = "thinkEnd" /\ batch'.out = batch.out /\ acc'[s] = acc[s] /\ batch'.completed = TRUE
  BY <1>1 DEF Arms
<1>3. /\ Ledgers(s)' /\ Telling' = Telling /\ LogTurns' = LogTurns
      /\ observing'[s] => batch'.out = <<>>
  BY <1>2, TookQuietly
<1>4. /\ Holding(s, q[p]) /\ LastRead(q, p + 1) = p + 1 /\ p + 1 # 0 /\ Follows(q[p], r)
  BY <1>1, <1>2, WithinTurn, AtRowIs
<1>5. r.turn = q[p].turn /\ r.n = 0 /\ q[p].n = 0 /\ q[p].kind \in Said \cup {"user"}
  BY <1>2, <1>4 DEF Follows, Said, Ended
<1>6. cli'[s].turn # 0 /\ r.turn # 0 /\ (observing[s] => r.turn = asked[s])
  BY <1>1, <1>2, TurnRuns
<1>7. observing' = observing /\ asked' = asked
  BY DEF AtRow, RowRead
<1>8. Building(s, q[p])
  BY <1>4, <1>5 DEF Holding
<1>9. Building(s, r)' /\ Stopped(s)'
  BY <1>2, <1>3, <1>5, <1>6, <1>7, <1>8 DEF Building, Below, Stopped
<1>10. Holding(s, r)'
  BY <1>2, <1>9 DEF Holding, Said
<1>11. Relayed1(s, q, p + 1)'
  BY <1>1, <1>2, RelayedBefore
<1>12. (IF LastRead(q, p + 1) = 0 THEN Blank(s) ELSE Holding(s, q[LastRead(q, p + 1)]))'
  BY <1>1, <1>4, <1>10
<1> QED BY <1>3, <1>6, <1>11, <1>12 DEF Took

(* An interrupt drops the turn. *)
LEMMA TakeInterrupt ==
  ASSUME IInv, NEW s \in Session, NEW q, NEW p, AtRow(s, q, p), Arms(s, q[p + 1]),
         q[p + 1].kind = "interrupt"
  PROVE  Took(s, q, p)'
<1>1. PICK r : r = q[p + 1]
  OBVIOUS
<1>2. /\ r.kind = "interrupt" /\ batch'.out = batch.out /\ acc'[s].parts = <<>>
      /\ acc'[s].pending = FALSE /\ batch'.completed = batch.completed
  BY <1>1 DEF Arms
<1>3. /\ Ledgers(s)' /\ Telling' = Telling /\ LogTurns' = LogTurns
      /\ observing'[s] => batch'.out = <<>>
  BY <1>2, TookQuietly
<1>4. /\ Holding(s, q[p]) /\ LastRead(q, p + 1) = p + 1 /\ p + 1 # 0 /\ Follows(q[p], r)
      /\ q[p].turn \in Turn
  BY <1>1, <1>2, WithinTurn, AtRowIs
<1>5. r.turn = q[p].turn /\ q[p].kind \in Said \cup {"user"}
  BY <1>2, <1>4 DEF Follows, Said, Ended
<1>6. cli'[s].turn # 0
  BY <1>1, <1>2, TurnRuns
<1>7. Building(s, q[p]) /\ ~Stopped(s)
  BY <1>4, <1>5 DEF Holding
<1>8. Below(Telling, r.turn + 1)
  <2>1. Telling \in Seq(Nat) /\ r.turn \in Nat /\ Below(Telling, r.turn)
    BY <1>4, <1>5, <1>7, Told, TurnAssumption DEF AtRow, Relay, Building, Turn
  <2>2. \A i \in 1 .. Len(Telling) : Telling[i] \in Nat /\ Telling[i] < r.turn
    BY <2>1 DEF Below
  <2> QED BY <2>1, <2>2 DEF Below
<1>9. ~Stopped(s)'
  BY <1>2, <1>7 DEF Stopped
<1>10. Holding(s, r)'
  BY <1>2, <1>3, <1>8, <1>9 DEF Holding, Said, Below
<1>11. Relayed1(s, q, p + 1)'
  BY <1>1, <1>2, RelayedBefore
<1>12. (IF LastRead(q, p + 1) = 0 THEN Blank(s) ELSE Holding(s, q[LastRead(q, p + 1)]))'
  BY <1>1, <1>4, <1>10
<1> QED BY <1>3, <1>6, <1>11, <1>12 DEF Took

(* What a user row finds: nothing, or the end of an earlier turn. *)
LEMMA BeforeUser ==
  ASSUME IInv, NEW s \in Session, NEW q, NEW p, AtRow(s, q, p), q[p + 1].kind = "user",
         NEW l, l = LastRead(q, p)
  PROVE  /\ q[p + 1].n = 0 /\ LastRead(q, p + 1) = p + 1 /\ l \in 0 .. p
         /\ l = 0 => Blank(s)
         /\ l # 0 => /\ l \in 1 .. Len(q) /\ q[l].kind \in Ended /\ q[l].turn < q[p + 1].turn
                     /\ Holding(s, q[l]) /\ q[l].turn \in Turn /\ q[l].n \in Nat
                     /\ RowFits(s, q[l])
<1>1. /\ q \in Seq(Row) /\ Chained(q) /\ Rising(q) /\ p \in 0 .. Len(q) - 1
      /\ p + 1 \in 1 .. Len(q) /\ Passed(s) = p /\ Tracking(s, q) /\ Len(q) \in Nat
      /\ l \in 0 .. p /\ \A i \in 1 .. Len(q) : RowFits(s, q[i])
  BY AtRowIs
<1>2. LastRead(q, p + 1) = p + 1
  BY <1>1, LastReadNext
<1>3. l = 0 => Blank(s)
  BY <1>1 DEF Tracking
<1>4. CASE p = 0
  BY <1>1, <1>2, <1>3, <1>4 DEF Chained, CanBegin
<1>5. CASE p # 0
  <2>1. p \in 1 .. Len(q) /\ p + 1 \in 2 .. Len(q) /\ (p + 1) - 1 = p
    BY <1>1, <1>5
  <2>2. Follows(q[p], q[p + 1])
    BY <1>1, <2>1 DEF Chained
  <2>3. q[p].kind \in Ended \cup {"meta"} /\ q[p + 1].n = 0
    BY <2>2 DEF Follows, Said
  <2>4. l # 0 => l \in 1 .. Len(q) /\ q[l].kind \in Ended
    <3>1. CASE q[p].kind = "meta"
      <4>1. l = p - 1
        BY <1>5, <3>1 DEF LastRead
      <4>2. l # 0 => p # 1
        BY <4>1
      <4> QED BY <1>1, <2>1, <3>1, <4>1, <4>2, MetaFollows
    <3>2. CASE q[p].kind # "meta"
      BY <1>5, <2>1, <2>3, <3>2 DEF LastRead
    <3> QED BY <3>1, <3>2
  <2>5. l # 0 => /\ q[l].turn < q[p + 1].turn /\ Holding(s, q[l])
                 /\ q[l].turn \in Turn /\ q[l].n \in Nat
    <3> SUFFICES ASSUME l # 0 PROVE q[l].turn < q[p + 1].turn /\ Holding(s, q[l])
                                    /\ q[l].turn \in Turn /\ q[l].n \in Nat
      OBVIOUS
    <3>1. l \in 1 .. Len(q) /\ l < p + 1 /\ q[l].kind \in Ended
      BY <1>1, <2>4
    <3>2. q[l].turn < q[p + 1].turn
      BY <1>1, <3>1 DEF Rising
    <3>3. Holding(s, q[l])
      BY <1>1 DEF Tracking
    <3> QED BY <1>1, <3>1, <3>2, <3>3, RowIs
  <2> QED BY <1>1, <1>2, <1>3, <2>3, <2>4, <2>5
<1> QED BY <1>4, <1>5

(* A reply held to the end is of one row at least. *)
LEMMA ReplyHeld ==
  ASSUME IInv, NEW s \in Session, Cli(s), NEW q, q \in Seq(Row), Chained(q),
         NEW l \in 1 .. Len(q), q[l].kind = "textEnd", RowFits(s, q[l]), Building(s, q[l])
  PROVE  /\ acc[s].parts # <<>> /\ acc[s].parts[1].turn = q[l].turn
         /\ IsReply(acc[s].parts) /\ Over(s, q[l].turn)
<1>1. q[l].turn # 0 /\ acc[s].parts = Prefix(q[l].turn, q[l].n)
  BY DEF Building
<1>2. q[l].turn \in Turn /\ q[l].n \in Nat
  BY RowIs
<1>3. q[l].n # 0
  <2>1. l # 1
    BY DEF Chained, CanBegin
  <2>2. l \in 2 .. Len(q) /\ l - 1 \in 1 .. Len(q)
    BY <2>1
  <2>3. Follows(q[l - 1], q[l])
    BY <2>2 DEF Chained
  <2>4. q[l].n = q[l - 1].n + 1 /\ q[l - 1].n \in Nat
    BY <2>2, <2>3, RowIs DEF Follows
  <2> QED BY <2>4
<1>4. length[q[l].turn] = q[l].n /\ Over(s, q[l].turn)
  BY <1>1 DEF RowFits, Ended
<1>5. q[l].turn \in 1 .. MaxTurn
  BY <1>1, <1>2, TurnAssumption DEF Turn
<1>6. IsReply(acc[s].parts)
  BY <1>1, <1>3, <1>4, <1>5 DEF IsReply
<1> QED BY <1>1, <1>2, <1>3, <1>4, <1>6, PrefixIs

(* Closing it adds its turn to the turns told. *)
Adds(more, t) ==
  /\ more = Append(Telling, t) /\ more \in Seq(Nat) /\ t \in Nat
  /\ Ascending(more) /\ Below(more, t + 1) /\ Contains(more, t)
  /\ \A u : Contains(Telling, u) => Contains(more, u)
  /\ \A i \in 1 .. Len(more) : more[i] = t \/ \E j \in 1 .. Len(Telling) : more[i] = Telling[j]

(* The gate adds it after those already closed. *)
LEMMA OneMoreTold ==
  ASSUME IInv, NEW s \in Session, Ledgers(s), NEW c, IsReply(c), c \in Seq(Part),
         Below(Telling, c[1].turn)
  PROVE  Adds(LogTurns \o OutTurns(Append(batch.out, c)), c[1].turn)
<1> DEFINE t == c[1].turn
           more == LogTurns \o OutTurns(Append(batch.out, c))
<1>1. /\ Telling \in Seq(Nat) /\ LogTurns \in Seq(Nat) /\ OutTurns(batch.out) \in Seq(Nat)
      /\ batch.out \in Seq(Seq(Part)) /\ length \in [1 .. MaxTurn -> Nat]
  BY Told, Typed
<1>2. t \in Nat
  BY <1>1, ReplyIs, TurnAssumption
<1>3. more = Append(Telling, t)
  BY <1>1, <1>2, TellMore DEF Telling
<1> HIDE DEF more, t
<1>4. Ascending(Telling) /\ Below(Telling, t)
  BY DEF Ledgers, t
<1>5. /\ Ascending(more) /\ Below(more, t + 1) /\ Contains(more, t)
      /\ \A u : Contains(Telling, u) => Contains(more, u)
  BY <1>1, <1>2, <1>3, <1>4, AscendingGrows
<1>6. more \in Seq(Nat) /\ Len(more) = Len(Telling) + 1 /\ Len(Telling) \in Nat
      /\ more[Len(Telling) + 1] = t /\ \A i \in 1 .. Len(Telling) : more[i] = Telling[i]
  BY <1>1, <1>2, <1>3, NumberAdded
<1>7. \A i \in 1 .. Len(more) : more[i] = t \/ \E j \in 1 .. Len(Telling) : more[i] = Telling[j]
  <2> TAKE i \in 1 .. Len(more)
  <2>1. i = Len(Telling) + 1 \/ i \in 1 .. Len(Telling)
    BY <1>6
  <2> QED BY <1>6, <2>1
<1>8. Adds(more, t)
  BY <1>2, <1>3, <1>5, <1>6, <1>7 DEF Adds
<1> QED BY <1>8 DEF more, t

(* The next turn opens. *)
LEMMA UserOpens ==
  ASSUME IInv, NEW s \in Session, NEW q, NEW p, AtRow(s, q, p), Arms(s, q[p + 1]),
         q[p + 1].kind = "user", ~(batch.completed /\ ~Flushes), Below(Telling, q[p + 1].turn)'
  PROVE  (IF LastRead(q, p + 1) = 0 THEN Blank(s) ELSE Holding(s, q[LastRead(q, p + 1)]))'
<1>1. PICK r : r = q[p + 1]
  OBVIOUS
<1>2. /\ r.kind = "user" /\ acc'[s].parts = <<>> /\ acc'[s].toolIds = {}
      /\ acc'[s].pending = FALSE /\ ~batch'.completed
  BY <1>1 DEF Arms
<1>3. r.n = 0 /\ LastRead(q, p + 1) = p + 1 /\ p + 1 # 0
  BY <1>1, <1>2, BeforeUser, AtRowIs
<1>4. r.turn # 0 /\ r.turn \in Turn /\ (observing[s] => r.turn = asked[s])
  BY <1>1, <1>2, TurnRuns
<1>5. observing' = observing /\ asked' = asked
  BY DEF AtRow, RowRead
<1>6. acc'[s].parts = Prefix(r.turn, r.n)
  BY <1>2, <1>3, <1>4, PrefixIs
<1>7. Below(Telling, r.turn)'
  BY <1>1
<1>8. Building(s, r)'
  BY <1>4, <1>5, <1>6, <1>7 DEF Building
<1>9. ~Stopped(s)'
  BY <1>2 DEF Stopped
<1>10. Holding(s, r)'
  BY <1>2, <1>8, <1>9 DEF Holding, Said
<1> QED BY <1>1, <1>3, <1>10

(* A user row with nothing held begins the next turn. *)
LEMMA TakeUserQuiet ==
  ASSUME IInv, NEW s \in Session, NEW q, NEW p, AtRow(s, q, p), Arms(s, q[p + 1]),
         q[p + 1].kind = "user", NEW l, l = LastRead(q, p),
         l # 0 => acc[s].parts = <<>> /\ ~Stopped(s) /\ Below(Telling, q[l].turn + 1)
  PROVE  Took(s, q, p)'
<1>1. /\ l \in 0 .. p /\ LastRead(q, p + 1) = p + 1
      /\ l = 0 => Blank(s)
      /\ l # 0 => q[l].turn < q[p + 1].turn /\ q[l].turn \in Turn
  BY BeforeUser
<1>2. acc[s].parts = <<>> /\ ~Stopped(s)
  BY <1>1 DEF Blank
<1>3. Mine = acc[s] /\ Ledgers(s)
  BY DEF Mine, AtRow, RowRead, Relay
<1>4. ~Flushes /\ ~batch.completed
  BY <1>2, <1>3 DEF Flushes, Stopped
<1>5. batch'.out = batch.out
  BY <1>4 DEF Arms
<1>6. /\ Ledgers(s)' /\ Telling' = Telling /\ LogTurns' = LogTurns
      /\ observing'[s] => batch'.out = <<>>
  BY <1>5, TookQuietly
<1>7. cli'[s].turn # 0 /\ q[p + 1].turn \in Turn
  BY TurnRuns
<1>8. Below(Telling, q[p + 1].turn)
  <2>1. CASE l = 0
    <3>1. log = <<>> /\ batch.out = <<>>
      BY <1>1, <2>1 DEF Blank
    <3>2. Telling = LogTurns /\ Len(LogTurns) = 0
      BY <1>3, <3>1, Told
    <3> QED BY <3>2 DEF Below
  <2>2. CASE l # 0
    <3>1. Telling \in Seq(Nat) /\ Below(Telling, q[l].turn + 1)
      BY <1>3, <2>2, Told
    <3>2. q[l].turn \in Nat /\ q[p + 1].turn \in Nat /\ q[l].turn < q[p + 1].turn
      BY <1>1, <1>7, <2>2, TurnAssumption DEF Turn
    <3>3. \A i \in 1 .. Len(Telling) : Telling[i] \in Nat /\ Telling[i] < q[l].turn + 1
      BY <3>1 DEF Below
    <3> QED BY <3>2, <3>3 DEF Below
  <2> QED BY <2>1, <2>2
<1>9. Below(Telling, q[p + 1].turn)'
  BY <1>6, <1>8 DEF Below
<1>10. (IF LastRead(q, p + 1) = 0 THEN Blank(s) ELSE Holding(s, q[LastRead(q, p + 1)]))'
  BY <1>4, <1>9, UserOpens
<1>11. Relayed1(s, q, p + 1)'
  <2>1. Tracking(s, q) /\ Passed(s) = p /\ p \in Nat
    BY AtRowIs
  <2>2. ASSUME NEW i \in 1 .. p + 1, q[i].kind = "textEnd", q[i].turn # 0
        PROVE  Contains(Telling, q[i].turn)
    <3>1. i # p + 1 /\ i \in 1 .. p
      BY <2>1, <2>2
    <3> QED BY <1>2, <2>1, <2>2, <3>1 DEF Tracking, Relayed1
  <2> QED BY <1>6, <2>2 DEF Relayed1, Contains
<1> QED BY <1>6, <1>7, <1>10, <1>11 DEF Took

(* A user row with a reply held closes that reply first. *)
LEMMA TakeUserFlush ==
  ASSUME IInv, NEW s \in Session, NEW q, NEW p, AtRow(s, q, p), Arms(s, q[p + 1]),
         q[p + 1].kind = "user", NEW l, l = LastRead(q, p), l # 0, q[l].kind = "textEnd",
         Building(s, q[l]), Stopped(s)
  PROVE  Took(s, q, p)'
<1>1. /\ l \in 1 .. Len(q) /\ LastRead(q, p + 1) = p + 1
      /\ q[l].turn < q[p + 1].turn /\ q[l].turn \in Turn /\ RowFits(s, q[l])
  BY BeforeUser
<1>2. /\ Ledgers(s) /\ Cli(s) /\ Mine = acc[s] /\ WorldSame(s) /\ Relay(s) /\ log' = log
      /\ observing' = observing
  BY DEF Mine, AtRow, RowRead, Relay
<1>3. /\ q \in Seq(Row) /\ Chained(q) /\ Tracking(s, q) /\ Passed(s) = p /\ p \in Nat
  BY AtRowIs
<1>4. /\ q[p + 1].turn \in Turn /\ cli'[s].turn # 0 /\ (observing[s] => q[p + 1].turn = asked[s])
  BY TurnRuns
<1>5. PICK c : c = acc[s].parts
  OBVIOUS
<1>6. PICK t : t = q[l].turn
  OBVIOUS
<1>7. c # <<>> /\ c[1].turn = t /\ IsReply(c) /\ Over(s, t) /\ c \in Seq(Part)
  BY <1>1, <1>2, <1>3, <1>5, <1>6, ReplyHeld, Typed
<1>8. ~observing[s]
  <2>1. observing[s] => t = asked[s]
    BY <1>6 DEF Building
  <2> QED BY <1>1, <1>4, <1>6, <2>1, TurnAssumption DEF Turn
<1>9. Flushes
  BY <1>2, <1>5, <1>7 DEF Flushes, Stopped
<1>10. batch'.out = Append(batch.out, c)
  BY <1>5, <1>9 DEF Arms
<1>11. /\ Onward(s) /\ length' = length /\ \A u : Over(s, u)' = Over(s, u)
  BY <1>2, WorldStays
<1>12. LogTurns' = LogTurns /\ \A i \in 1 .. Len(log) : TurnOf(log[i])' = TurnOf(log[i])
  BY <1>2, <1>11 DEF LogTurns, TurnOf, FromTranscript, Reply
<1>13. PICK more : more = LogTurns \o OutTurns(Append(batch.out, c))
  OBVIOUS
<1>14. Telling' = more
  BY <1>10, <1>12, <1>13 DEF Telling, OutTurns
<1>15. Below(Telling, c[1].turn)
  BY <1>6, <1>7 DEF Building
<1>16. Adds(more, t)
  <2>1. Ledgers(s) /\ IsReply(c) /\ c \in Seq(Part) /\ Below(Telling, c[1].turn)
    BY <1>2, <1>7, <1>15
  <2>2. Adds(LogTurns \o OutTurns(Append(batch.out, c)), c[1].turn)
    BY <2>1, OneMoreTold
  <2> QED BY <1>7, <1>13, <2>2
<1>17. Ledgers(s)'
  <2>1. \A i \in 1 .. Len(log') : TurnOf(log[i])' # 0
    BY <1>2, <1>12 DEF Ledgers
  <2>2. \A i \in 1 .. Len(log') : log'[i].via = "screen" => length'[log'[i].asked] = 0
    BY <1>2, <1>11 DEF Ledgers
  <2>3. \A i \in 1 .. Len(batch'.out) : IsReply(batch.out[i])'
    <3> TAKE i \in 1 .. Len(batch'.out)
    <3>1. batch.out \in Seq(Seq(Part))
      BY Typed
    <3>2. (i \in 1 .. Len(batch.out) /\ batch'.out[i] = batch.out[i]) \/ batch'.out[i] = c
      BY <1>7, <1>10, <3>1
    <3>3. IsReply(batch'.out[i])
      BY <1>2, <1>7, <3>2 DEF Ledgers
    <3> QED BY <1>11, <3>3 DEF IsReply
  <2>4. Ascending(Telling)'
    BY <1>14, <1>16 DEF Adds, Ascending
  <2>5. \A i \in 1 .. Len(Telling') : Over(s, Telling[i])'
    <3> TAKE i \in 1 .. Len(Telling')
    <3>1. Over(s, more[i])
      BY <1>2, <1>7, <1>14, <1>16 DEF Adds, Ledgers
    <3> QED BY <1>11, <1>14, <3>1 DEF Over
  <2> QED BY <2>1, <2>2, <2>3, <2>4, <2>5 DEF Ledgers
<1>18. Below(Telling, q[p + 1].turn)'
  <2>1. t \in Nat /\ q[p + 1].turn \in Nat /\ t < q[p + 1].turn
    BY <1>1, <1>4, <1>6, TurnAssumption DEF Turn
  <2>2. \A i \in 1 .. Len(more) : more[i] \in Nat /\ more[i] < t + 1
    <3>1. more \in Seq(Nat) /\ Below(more, t + 1)
      BY <1>16 DEF Adds
    <3> QED BY <3>1 DEF Below
  <2>3. \A i \in 1 .. Len(more) : more[i] < q[p + 1].turn
    BY <2>1, <2>2
  <2> QED BY <1>14, <2>3 DEF Below
<1>19. (IF LastRead(q, p + 1) = 0 THEN Blank(s) ELSE Holding(s, q[LastRead(q, p + 1)]))'
  BY <1>9, <1>18, UserOpens
<1>20. Relayed1(s, q, p + 1)'
  <2>1. ASSUME NEW i \in 1 .. p + 1, q[i].kind = "textEnd", q[i].turn # 0
        PROVE  Contains(more, q[i].turn)
    <3>1. i # p + 1 /\ i \in 1 .. p
      BY <1>3, <2>1
    <3> QED BY <1>3, <1>6, <1>16, <2>1, <3>1 DEF Adds, Tracking, Relayed1
  <2> QED BY <1>14, <2>1 DEF Relayed1, Contains
<1> QED BY <1>2, <1>4, <1>8, <1>17, <1>19, <1>20 DEF Took

(* A user row of either kind. *)
LEMMA TakeUser ==
  ASSUME IInv, NEW s \in Session, NEW q, NEW p, AtRow(s, q, p), Arms(s, q[p + 1]),
         q[p + 1].kind = "user"
  PROVE  Took(s, q, p)'
<1>1. PICK l : l = LastRead(q, p)
  OBVIOUS
<1>2. l # 0 => q[l].kind \in Ended /\ Holding(s, q[l])
  BY <1>1, BeforeUser
<1>3. CASE l # 0 /\ q[l].kind = "textEnd" /\ Building(s, q[l]) /\ Stopped(s)
  BY <1>1, <1>3, TakeUserFlush
<1>4. CASE l # 0 => acc[s].parts = <<>> /\ ~Stopped(s) /\ Below(Telling, q[l].turn + 1)
  BY <1>1, <1>4, TakeUserQuiet
<1> QED BY <1>2, <1>3, <1>4, EndedHolds

(* The watcher after the row. *)
LEMMA TookTracks ==
  ASSUME IInv, NEW s \in Session, NEW q, NEW p, AtRow(s, q, p), Took(s, q, p)'
  PROVE  Tracks(s)' /\ Tracking(s, rows[Home(s)])'
<1>1. /\ Existing' = Existing /\ Home(s)' = Home(s) /\ cli' = cli /\ rows' = rows
      /\ \A f : Size(f)' = Size(f) /\ Whole(f)' = Whole(f)
  BY WorldStays DEF AtRow, RowRead
<1>2. /\ batch.who = s /\ batch.next <= batch.upto /\ q = rows[Home(s)] /\ p = batch.next - 1
      /\ UNCHANGED <<file, pos, pinnedId, hint, observing, asked>>
      /\ batch'.who = s /\ batch'.of = batch.of /\ batch'.upto = batch.upto
      /\ batch'.next = batch.next + 1 /\ Tracks(s)
  BY DEF AtRow, RowRead
<1>3. Tracking(s, q) /\ Passed(s) = p /\ p \in Nat /\ batch.next \in Nat /\ batch.upto \in Nat
  BY AtRowIs, Typed
<1>4. /\ batch.of = file[s] /\ batch.upto = Whole(file[s]) /\ pos[s] = 2 * batch.upto
  BY <1>2, <1>3 DEF Tracking, Cursor
<1>5. Passed(s)' = p + 1
  <2>1. CASE batch'.next <= batch'.upto
    BY <1>2, <1>3, <2>1 DEF Passed
  <2>2. CASE ~(batch'.next <= batch'.upto)
    <3>1. batch.upto = p + 1 /\ pos'[s] = 2 * (p + 1)
      BY <1>2, <1>3, <1>4, <2>2
    <3>2. (2 * (p + 1) + 1) \div 2 = p + 1
      BY <1>3
    <3> QED BY <2>2, <3>1, <3>2 DEF Passed
  <2> QED BY <2>1, <2>2
<1>6. Cursor(s, q)'
  BY <1>1, <1>2, <1>3, <1>4 DEF Tracking, Cursor
<1>7. News(s, q, p + 1)'
  BY <1>2, <1>3 DEF Tracking, News
<1>8. /\ Relayed1(s, q, p + 1)'
      /\ (IF LastRead(q, p + 1) = 0 THEN Blank(s) ELSE Holding(s, q[LastRead(q, p + 1)]))'
  BY DEF Took
<1>9. News(s, q, Passed(s))' /\ Relayed1(s, q, Passed(s))'
  BY <1>5, <1>7, <1>8 DEF News, Relayed1
<1>10. (IF LastRead(q, Passed(s)) = 0 THEN Blank(s) ELSE Holding(s, q[LastRead(q, Passed(s))]))'
  BY <1>5, <1>8
<1>11. /\ hint'[s] \in {NoFile, file'[s]} /\ pinnedId'[s] \in {NoFile, file'[s]}
       /\ hint'[s] = NoFile => cli'[s].turn # 0
  BY <1>1, <1>2, <1>3 DEF Tracking
<1>12. Tracking(s, q)'
  BY <1>6, <1>9, <1>10, <1>11 DEF Tracking
<1>13. q = rows'[Home(s)'] /\ Tracks(s)'
  BY <1>1, <1>2 DEF Tracks
<1> QED BY <1>12, <1>13

(* The one row of a title. *)
LEMMA TookTitle ==
  ASSUME IInv, NEW s \in Session, RowRead(s), Arms(s, CurrentRow), Relay(s), ~Tracks(s)
  PROVE  Kept(s) /\ ~Tracks(s)' /\ Away(s)'
<1>1. /\ Existing' = Existing /\ Home(s)' = Home(s) /\ cli' = cli /\ rows' = rows
      /\ \A f : Size(f)' = Size(f) /\ Whole(f)' = Whole(f)
      /\ \A f, n : ConversationSince(f, n)' = ConversationSince(f, n)
  BY WorldStays DEF RowRead
<1>2. /\ batch.who = s /\ batch.next <= batch.upto /\ batch.of \in File
      /\ batch.next >= 1 /\ batch.upto <= Len(rows[batch.of])
      /\ UNCHANGED <<file, pos, pinnedId, hint, atPinFiles, pinned, touched, observing, asked,
                     live>>
      /\ batch'.who = s /\ batch'.of = batch.of
  BY DEF RowRead
<1>3. Away(s) /\ Title' = Title
  BY DEF Relay, Watcher, Title
<1>4. batch.of = file[s] /\ rows[file[s]] = Title
  BY <1>2, <1>3 DEF Away
<1>5. batch.next = 1
  <2>1. Len(rows[batch.of]) = 1
    BY <1>4, TitleIs
  <2> QED BY <1>2, <2>1, Typed
<1>6. CurrentRow.kind = "meta"
  BY <1>4, <1>5, TitleIs DEF CurrentRow
<1>7. Kept(s)
  BY <1>6 DEF Arms
<1>8. Blank(s)'
  BY <1>3, <1>7, BlankKept DEF Away
<1>9. ~Tracks(s)'
  BY <1>1, <1>2 DEF Tracks
<1>10. (pinned'[s] \/ file'[s] = NoFile) /\ Home(s)' # NoFile => News(s, rows[Home(s)], 0)'
  BY <1>1, <1>2, <1>3 DEF Away, News
<1>11. Away(s)'
  BY <1>1, <1>2, <1>3, <1>4, <1>8, <1>10 DEF Away
<1> QED BY <1>7, <1>9, <1>11

(* A row is read. *)
LEMMA ReadRelay ==
  ASSUME IInv, NEW s \in Session, Session = {s}, Relay(s), ReadStep
  PROVE  Relay(s)'
<1>1. RowRead(s) /\ Arms(s, CurrentRow)
  BY RowReadIs
<1>2. /\ Directory(s)' /\ Cli(s)' /\ Onward(s) /\ Existing' = Existing /\ Home(s)' = Home(s)
      /\ cli' = cli
  BY <1>1, WorldStays DEF RowRead
<1>3. /\ batch.who = s /\ batch.of \in File /\ log' = log
      /\ UNCHANGED <<file, pinned, pinnedId, hint, atPinFiles, excluded, observing, asked, live,
                     inbox, nextTurn>>
      /\ batch'.who = s /\ batch'.of = batch.of
  BY <1>1 DEF RowRead
<1>4. /\ Ledgers(s)' /\ (observing'[s] => batch'.out = <<>>) /\ LogTurns' = LogTurns
      /\ cli'[s].turn = 0 => Blank(s)'
      /\ (IF Tracks(s) THEN Tracking(s, rows[Home(s)]) ELSE Away(s))'
  <2>1. CASE ~Tracks(s)
    <3>1. Kept(s) /\ ~Tracks(s)' /\ Away(s)'
      BY <1>1, <2>1, TookTitle
    <3>2. batch'.out = batch.out
      BY <3>1 DEF Kept
    <3>3. Ledgers(s)' /\ LogTurns' = LogTurns
      BY <1>2, <1>3, <3>2, EnvLedgers DEF Relay
    <3>4. observing'[s] => batch'.out = <<>>
      BY <1>3, <3>2 DEF Relay, Observing
    <3> QED BY <3>1, <3>3, <3>4 DEF Away
  <2>2. CASE Tracks(s)
    <3>1. PICK q, p : q = rows[Home(s)] /\ p = batch.next - 1
      OBVIOUS
    <3>2. AtRow(s, q, p)
      BY <1>1, <2>2, <3>1 DEF AtRow
    <3>3. CurrentRow = q[p + 1] /\ q[p + 1] \in Row
      BY <3>2, AtRowIs
    <3>4. q[p + 1].kind \in {"meta", "thinkEnd", "interrupt", "user"} \/ q[p + 1].kind \in Said \cup {"textEnd"}
      BY <3>3 DEF Row, Kind, Said
    <3>5. Arms(s, q[p + 1])
      BY <1>1, <3>3
    <3>6. Took(s, q, p)'
      BY <3>2, <3>4, <3>5, TakeMeta, TakeThinkEnd, TakeInterrupt, TakeUser, TakeContent
    <3>7. Tracks(s)' /\ Tracking(s, rows[Home(s)])'
      BY <3>2, <3>6, TookTracks
    <3>8. LogTurns' = LogTurns
      <4>1. length' = length
        BY <1>1 DEF RowRead, WorldSame
      <4> QED BY <1>3, <4>1 DEF LogTurns, TurnOf, FromTranscript, Reply
    <3> QED BY <3>6, <3>7, <3>8 DEF Took
  <2> QED BY <2>1, <2>2
<1>5. Watcher(s)'
  <2>1. batch'.of # NoFile /\ batch'.who # NoSession
    BY <1>3, FileAssumption, SessionAssumption
  <2>2. /\ atPinFiles'[s] \subseteq Existing' /\ excluded'[s] = {}
        /\ hint'[s] \in Existing' \cup {NoFile} /\ pinnedId'[s] \in Existing' \cup {NoFile}
        /\ Home(s)' = NoFile => hint'[s] = NoFile
    BY <1>2, <1>3 DEF Relay, Watcher
  <2> QED BY <1>4, <2>1, <2>2 DEF Watcher
<1>6. Numbers(s)'
  BY <1>2, <1>3 DEF Relay, Numbers
<1>7. Observing(s)'
  BY <1>2, <1>3, <1>4 DEF Relay, Observing, Below
<1>8. NotLive(s)'
  <2>1. s \in live
    BY <1>3, SessionAssumption DEF Relay, NotLive, Idle, Nothing
  <2> QED BY <1>3, <2>1 DEF NotLive
<1> QED BY <1>2, <1>4, <1>5, <1>6, <1>7, <1>8 DEF Relay
-----------------------------------------------------------------------------
(* A visit ends. *)
Leaving(s) ==
  /\ BatchDone /\ batch.who = s /\ batch' = Idle /\ WorldSame(s)
  /\ UNCHANGED <<atPinFiles, pinned, pinnedId, hint, excluded, live, asked, inbox, nextTurn>>

(* That is what Leave does. *)
LEMMA LeaveIs ==
  ASSUME IInv, NEW s \in Session, Session = {s}, Relay(s), BatchDone, Leave(batch.who)
  PROVE  /\ Leaving(s) /\ Mine = acc[s] /\ ~(batch.next <= batch.upto)
         /\ Passed(s) = (pos[s] + 1) \div 2 /\ Passed(s)' = (pos'[s] + 1) \div 2
         /\ s \in live /\ batch'.of = NoFile /\ batch'.who # s /\ batch'.who = NoSession
         /\ ~batch'.completed /\ batch'.out = <<>> /\ ~(batch'.next <= batch'.upto)
<1>1. batch.who = s /\ ~(batch.next <= batch.upto)
  BY Typed DEF BatchDone
<1>2. batch' = Idle
  BY DEF Leave
<1>3. /\ batch'.of = NoFile /\ batch'.who # s /\ batch'.who = NoSession
      /\ ~batch'.completed /\ batch'.out = <<>> /\ ~(batch'.next <= batch'.upto)
  BY <1>2, SessionAssumption DEF Idle, Nothing
<1>4. Leaving(s)
  BY <1>1 DEF Leave, Leaving, WorldSame, cliVars
<1>5. s \in live
  BY <1>1, SessionAssumption DEF Relay, NotLive, Idle, Nothing
<1> QED BY <1>1, <1>3, <1>4, <1>5 DEF Mine, Passed

(* What is left to show of a visit that ends. *)
LEMMA LeaveRelay ==
  ASSUME IInv, NEW s \in Session, Session = {s}, Relay(s), BatchDone, Leave(batch.who),
         Ledgers(s)', cli[s].turn = 0 => Blank(s)',
         (IF Tracks(s) THEN Tracking(s, rows[Home(s)]) ELSE Away(s))',
         \/ observing' = observing /\ log' = log
         \/ observing'[s] = FALSE /\ inbox[s] = 0
  PROVE  Relay(s)'
<1>1. Leaving(s) /\ s \in live /\ batch'.out = <<>> /\ batch' = Idle
  BY LeaveIs DEF Leaving
<1>2. /\ Directory(s)' /\ Cli(s)' /\ Existing' = Existing /\ Home(s)' = Home(s)
      /\ cli' = cli /\ length' = length
  BY <1>1, WorldStays DEF Leaving
<1>3. UNCHANGED <<atPinFiles, pinned, pinnedId, hint, excluded, live, asked, inbox, nextTurn>>
  BY <1>1 DEF Leaving
<1>4. Watcher(s)'
  <2>1. /\ atPinFiles'[s] \subseteq Existing' /\ excluded'[s] = {}
        /\ hint'[s] \in Existing' \cup {NoFile} /\ pinnedId'[s] \in Existing' \cup {NoFile}
        /\ Home(s)' = NoFile => hint'[s] = NoFile
    BY <1>2, <1>3 DEF Relay, Watcher
  <2>2. /\ batch'.of = NoFile => ~batch'.completed /\ batch'.out = <<>> /\ batch'.upto = 0
        /\ batch' = Idle'
    BY <1>1 DEF Idle, Nothing
  <2>3. cli'[s].turn = 0 => Blank(s)'
    BY <1>2
  <2> QED BY <2>1, <2>2, <2>3 DEF Watcher
<1>5. Numbers(s)'
  BY <1>2, <1>3 DEF Relay, Numbers
<1>6. Observing(s)'
  <2>1. log' = log => LogTurns' = LogTurns
    BY <1>2 DEF LogTurns, TurnOf, FromTranscript, Reply
  <2> QED BY <1>1, <1>2, <1>3, <2>1 DEF Relay, Observing, Below
<1>7. NotLive(s)'
  BY <1>1, <1>3 DEF NotLive
<1> QED BY <1>2, <1>4, <1>5, <1>6, <1>7 DEF Relay

(* The gate: what it makes of a turn that is not closed, and of one that is. *)
LEMMA GateIs ==
  ASSUME IInv, NEW s \in Session, Relay(s), BatchDone, batch.who = s
  PROVE  /\ ~Closes => /\ GateAcc.parts = acc[s].parts /\ GateAcc.toolIds = acc[s].toolIds
                       /\ GateAcc.closed = acc[s].closed /\ GateAcc.pending = Stopped(s)
                       /\ GateOut = batch.out
         /\ Closes => /\ GateAcc.parts = <<>> /\ GateAcc.pending = FALSE
                      /\ GateOut = Append(batch.out, acc[s].parts)
         /\ Closes <=> batch.of # NoFile /\ Stopped(s) /\ acc[s].parts # <<>>
<1>1. PICK m : m = acc[s]
  OBVIOUS
<1>2. m \in Accumulator /\ Mine = m /\ batch \in Batch
  BY <1>1, Typed DEF Mine
<1>3. m.pending \in BOOLEAN /\ batch.completed \in BOOLEAN
  BY <1>2 DEF Accumulator, Batch
<1>4. batch.of = NoFile => ~batch.completed
  BY DEF Relay, Watcher
<1>5. Closes <=> batch.of # NoFile /\ Stopped(s) /\ acc[s].parts # <<>>
  BY <1>1, <1>2 DEF Closes, WantComplete, Stopped
<1>6. GateAcc = IF Closes
                THEN [m EXCEPT !.parts = <<>>, !.open = FALSE, !.pending = FALSE, !.closed = TRUE]
                ELSE IF WantComplete THEN [m EXCEPT !.open = TRUE, !.pending = TRUE]
                ELSE m
  BY <1>2 DEF GateAcc
<1>7. CASE Closes
  <2>1. GateAcc = [m EXCEPT !.parts = <<>>, !.open = FALSE, !.pending = FALSE, !.closed = TRUE]
    BY <1>6, <1>7
  <2>2. GateAcc.parts = <<>> /\ GateAcc.pending = FALSE
    BY <1>2, <2>1 DEF Accumulator
  <2>3. GateOut = Append(batch.out, acc[s].parts)
    BY <1>1, <1>2, <1>7 DEF GateOut
  <2> QED BY <1>5, <1>7, <2>2, <2>3
<1>8. CASE ~Closes /\ WantComplete
  <2>1. GateAcc = [m EXCEPT !.open = TRUE, !.pending = TRUE]
    BY <1>6, <1>8
  <2>2. /\ GateAcc.parts = m.parts /\ GateAcc.toolIds = m.toolIds /\ GateAcc.closed = m.closed
        /\ GateAcc.pending = TRUE
    BY <1>2, <2>1 DEF Accumulator
  <2>3. Stopped(s) = TRUE
    BY <1>1, <1>2, <1>3, <1>8 DEF WantComplete, Stopped
  <2>4. GateOut = batch.out
    BY <1>8 DEF GateOut
  <2> QED BY <1>1, <1>5, <1>8, <2>2, <2>3, <2>4
<1>9. CASE ~Closes /\ ~WantComplete
  <2>1. GateAcc = m /\ GateOut = batch.out
    BY <1>6, <1>9 DEF GateOut
  <2>2. m.pending = Stopped(s)
    BY <1>1, <1>2, <1>3, <1>4, <1>9 DEF WantComplete, Stopped
  <2> QED BY <1>1, <1>5, <1>9, <2>1, <2>2
<1> QED BY <1>7, <1>8, <1>9

(* No turn is closed by the gate: one that has ended without text yet is   *)
(* held open.                                                              *)
LEMMA HeldOpen ==
  ASSUME IInv, NEW s \in Session, Session = {s}, Relay(s), BatchDone, Leave(batch.who),
         ~Closes, acc'[s] = GateAcc, UNCHANGED <<file, pos, observing>>, Telling' = Telling,
         Blank(s) => log' = log
  PROVE  /\ cli[s].turn = 0 => Blank(s)'
         /\ (IF Tracks(s) THEN Tracking(s, rows[Home(s)]) ELSE Away(s))'
<1>1. /\ Leaving(s) /\ ~(batch.next <= batch.upto) /\ s \in live /\ WorldSame(s)
      /\ Passed(s) = (pos[s] + 1) \div 2 /\ Passed(s)' = (pos'[s] + 1) \div 2
      /\ batch'.of = NoFile /\ batch'.who # s /\ ~batch'.completed /\ batch'.out = <<>>
      /\ ~(batch'.next <= batch'.upto)
  BY LeaveIs DEF Leaving
<1>2. /\ Existing' = Existing /\ Home(s)' = Home(s) /\ cli' = cli /\ rows' = rows
      /\ \A f : Size(f)' = Size(f) /\ Whole(f)' = Whole(f)
      /\ \A f, n : ConversationSince(f, n)' = ConversationSince(f, n)
  BY <1>1, WorldStays
<1>3. /\ UNCHANGED <<atPinFiles, pinned, pinnedId, hint, excluded, live, asked, inbox, nextTurn>>
      /\ batch.who = s /\ touched'[s] \subseteq touched[s]
  BY <1>1 DEF Leaving, WorldSame
<1>4. /\ acc'[s].parts = acc[s].parts /\ acc'[s].toolIds = acc[s].toolIds
      /\ acc'[s].closed = acc[s].closed /\ acc'[s].pending = Stopped(s)
      /\ ~(batch.of # NoFile /\ Stopped(s) /\ acc[s].parts # <<>>)
  BY <1>3, GateIs
<1>5. Stopped(s)' <=> Stopped(s)
  BY <1>1, <1>4 DEF Stopped
<1>6. Blank(s) => Blank(s)'
  BY <1>1, <1>4, <1>5 DEF Blank
<1>7. ASSUME Tracks(s) PROVE Tracks(s)' /\ Tracking(s, rows[Home(s)])'
  <2>1. PICK q : q = rows[Home(s)]
    OBVIOUS
  <2>2. Tracking(s, q)
    BY <1>7, <2>1 DEF Relay, Watcher
  <2>3. PICK p : p = Passed(s)
    OBVIOUS
  <2>4. Passed(s)' = p
    BY <1>1, <2>3
  <2>5. PICK l : l = LastRead(q, p)
    OBVIOUS
  <2>6. q \in Seq(Row) /\ Chained(q) /\ p \in 0 .. Len(q) /\ l \in 0 .. p
        /\ \A i \in 1 .. Len(q) : RowFits(s, q[i])
    <3>1. q \in Seq(Row) /\ Chained(q) /\ \A i \in 1 .. Len(q) : RowFits(s, q[i])
      BY <1>7, <2>1, Typed DEF Relay, Cli, Script, Tracks, Existing
    <3>2. p \in 0 .. Len(q)
      <4>1. Cursor(s, rows[Home(s)])
        BY <2>1, <2>2 DEF Tracking
      <4> QED BY <1>7, <2>1, <2>3, <4>1, PassedIs DEF Tracks
    <3> QED BY <2>5, <3>1, <3>2, LastReadIs
  <2>7. (IF l = 0 THEN Blank(s) ELSE Holding(s, q[l]))'
    <3>1. CASE l = 0
      BY <1>6, <2>2, <2>3, <2>5, <3>1 DEF Tracking
    <3>2. CASE l # 0
      <4>1. PICK x : x = q[l]
        OBVIOUS
      <4>2. Holding(s, x)
        BY <2>2, <2>3, <2>5, <3>2, <4>1 DEF Tracking
      <4>3. x.kind = "textEnd" => acc[s].parts = <<>> /\ ~Stopped(s) /\ Below(Telling, x.turn + 1)
        <5> SUFFICES ASSUME x.kind = "textEnd", batch.of # NoFile, Building(s, x), Stopped(s)
                     PROVE  FALSE
          BY <4>2 DEF Holding
        <5>1. l \in 1 .. Len(q) /\ Cli(s)
          BY <2>6, <3>2 DEF Relay
        <5>2. acc[s].parts # <<>>
          BY <2>6, <4>1, <5>1, ReplyHeld
        <5> QED BY <1>4, <5>2
      <4>4. Building(s, x) => Building(s, x)'
        BY <1>3, <1>4 DEF Building, Below
      <4>5. Holding(s, x)'
        BY <1>4, <1>5, <4>2, <4>3, <4>4 DEF Holding, Below
      <4> QED BY <3>2, <4>1, <4>5
    <3> QED BY <3>1, <3>2
  <2>8. (IF LastRead(q, Passed(s)) = 0 THEN Blank(s) ELSE Holding(s, q[LastRead(q, Passed(s))]))'
    BY <2>4, <2>5, <2>7
  <2>9. Cursor(s, q)'
    BY <1>1, <1>2, <2>2 DEF Tracking, Cursor
  <2>10. News(s, q, p)' /\ Relayed1(s, q, p)'
    BY <1>3, <1>4, <2>2, <2>3 DEF Tracking, News, Relayed1, Contains
  <2>11. News(s, q, Passed(s))' /\ Relayed1(s, q, Passed(s))'
    BY <2>4, <2>10 DEF News, Relayed1
  <2>12. Tracking(s, q)'
    BY <1>2, <1>3, <2>2, <2>8, <2>9, <2>11 DEF Tracking
  <2>13. q = rows'[Home(s)'] /\ Tracks(s)'
    BY <1>2, <1>7, <2>1 DEF Tracks
  <2> QED BY <2>12, <2>13
<1>8. ASSUME ~Tracks(s) PROVE ~Tracks(s)' /\ Away(s)'
  <2>1. Away(s) /\ Title' = Title
    BY <1>8 DEF Relay, Watcher, Title
  <2>2. Blank(s)'
    BY <1>6, <2>1 DEF Away
  <2>3. (pinned'[s] \/ file'[s] = NoFile) /\ Home(s)' # NoFile => News(s, rows[Home(s)], 0)'
    BY <1>2, <1>3, <2>1 DEF Away, News
  <2>4. pinned'[s] /\ Home(s)' # NoFile => Home(s)' \notin atPinFiles'[s] /\ Home(s)' \in touched'[s]
    <3>1. touched'[s] = touched[s]
      BY <1>3 DEF Leave
    <3> QED BY <1>2, <1>3, <2>1, <3>1 DEF Away
  <2> QED BY <1>1, <1>2, <1>3, <1>8, <2>1, <2>2, <2>3, <2>4 DEF Away, Tracks
<1>9. cli[s].turn = 0 => Blank(s)'
  BY <1>6 DEF Relay, Watcher
<1> QED BY <1>7, <1>8, <1>9

(* Items of a sequence with one more. *)
LEMMA OneMore ==
  ASSUME NEW S, NEW q \in Seq(S), NEW x \in S
  PROVE  /\ Append(q, x) # <<>>
         /\ \A i \in 1 .. Len(Append(q, x)) :
              (i \in 1 .. Len(q) /\ Append(q, x)[i] = q[i]) \/ Append(q, x)[i] = x
<1>1. Len(Append(q, x)) = Len(q) + 1 /\ Len(q) \in Nat
  OBVIOUS
<1>2. \A i \in 1 .. Len(Append(q, x)) :
        (i \in 1 .. Len(q) /\ Append(q, x)[i] = q[i]) \/ Append(q, x)[i] = x
  OBVIOUS
<1> QED BY <1>1, <1>2

(* Nothing is relayed. *)
LEMMA QuietRelay ==
  ASSUME IInv, NEW s \in Session, Session = {s}, Relay(s), CloseQuiet
  PROVE  Relay(s)'
<1>1. /\ BatchDone /\ Leave(batch.who) /\ GateOut = <<>>
      /\ acc' = [acc EXCEPT ![batch.who] = GateAcc]
      /\ UNCHANGED <<file, pos, observing, log>>
  BY DEF CloseQuiet
<1>2. /\ Leaving(s) /\ batch.who = s /\ batch'.out = <<>> /\ WorldSame(s)
  BY <1>1, LeaveIs DEF Leaving
<1>3. batch.out \in Seq(Seq(Part)) /\ acc[s].parts \in Seq(Part) /\ WatcherTypeOK
  BY Typed DEF IInv, TypeOK
<1>4. ~Closes /\ batch.out = <<>>
  <2>1. Append(batch.out, acc[s].parts) # <<>>
    BY <1>3, OneMore
  <2> QED BY <1>1, <1>2, <2>1, GateIs
<1>5. acc'[s] = GateAcc
  BY <1>1, <1>2, <1>3 DEF WatcherTypeOK
<1>6. Ledgers(s)' /\ Telling' = Telling
  BY <1>1, <1>2, <1>4, WorldStays, EnvLedgers DEF Relay
<1> QED BY <1>1, <1>4, <1>5, <1>6, HeldOpen, LeaveRelay

(* What is relayed of the turns closed: of each its reply, in order. *)
LEMMA RelayedIs ==
  ASSUME TypeOK, NEW s \in Session, NEW out \in Seq(Seq(Part)), out # <<>>,
         observing[s] => Len(out) = 1
  PROVE  /\ Relayed(s, out) \in Seq(Complete) /\ Len(Relayed(s, out)) = Len(out)
         /\ \A i \in 1 .. Len(out) : /\ FromTranscript(Relayed(s, out)[i])
                                     /\ Relayed(s, out)[i].content = out[i]
<1>1. Relayed(s, out) \in Seq(Complete)
  BY RelayedTypes
<1>2. \A via, c : Entry(s, via, c).via = via /\ Entry(s, via, c).content = c
  BY DEF Entry
<1>3. CASE ~observing[s]
  <2> DEFINE x(i) == Entry(s, "organic", out[i])
  <2>1. Relayed(s, out) = [i \in 1 .. Len(out) |-> x(i)]
    BY <1>3 DEF Relayed
  <2>2. \A i \in 1 .. Len(out) : x(i).via = "organic" /\ x(i).content = out[i]
    BY <1>2
  <2> HIDE DEF x
  <2>3. Len(Relayed(s, out)) = Len(out) /\ \A i \in 1 .. Len(out) : Relayed(s, out)[i] = x(i)
    <3>1. Len(out) \in Nat
      OBVIOUS
    <3> QED BY <2>1, <3>1
  <2> QED BY <1>1, <2>2, <2>3 DEF FromTranscript
<1>4. CASE observing[s]
  <2> DEFINE first == <<Entry(s, "turn", Head(out))>>
             behind == IF s \in Channel
                       THEN [i \in 1 .. Len(out) - 1 |-> Entry(s, "organic", out[i + 1])]
                       ELSE <<>>
  <2>1. Relayed(s, out) = first \o behind
    BY <1>4 DEF Relayed
  <2>2. Len(out) = 1 /\ Head(out) = out[1]
    BY <1>4
  <2>3. behind = <<>>
    <3>1. 1 .. Len(out) - 1 = {}
      BY <2>2
    <3>2. s \in Channel => behind = [i \in {} |-> Entry(s, "organic", out[i + 1])]
      BY <3>1
    <3> QED BY <3>2
  <2>4. PICK e : e = Entry(s, "turn", out[1])
    OBVIOUS
  <2>5. Relayed(s, out) = <<e>> \o <<>>
    BY <2>1, <2>2, <2>3, <2>4
  <2>6. Len(<<e>> \o <<>>) = 1 /\ (<<e>> \o <<>>)[1] = e
    OBVIOUS
  <2>7. e.via = "turn" /\ e.content = out[1]
    BY <1>2, <2>4
  <2> QED BY <1>1, <2>2, <2>5, <2>6, <2>7 DEF FromTranscript
<1> QED BY <1>3, <1>4

(* Items of two sequences put together. *)
LEMMA Joined ==
  ASSUME NEW a \in Seq(Nat), NEW b \in Seq(Nat)
  PROVE  /\ a \o b \in Seq(Nat) /\ Len(a \o b) = Len(a) + Len(b)
         /\ Len(a) \in Nat /\ Len(b) \in Nat
         /\ \A i \in 1 .. Len(a) : (a \o b)[i] = a[i]
         /\ \A i \in 1 .. Len(b) : (a \o b)[Len(a) + i] = b[i]
<1>1. a \o b \in Seq(Nat) /\ Len(a \o b) = Len(a) + Len(b) /\ Len(a) \in Nat /\ Len(b) \in Nat
  OBVIOUS
<1>2. \A i \in 1 .. Len(a) : (a \o b)[i] = a[i]
  OBVIOUS
<1>3. \A i \in 1 .. Len(b) : (a \o b)[Len(a) + i] = b[i]
  OBVIOUS
<1> QED BY <1>1, <1>2, <1>3

(* Sequences with the same items are the same. *)
LEMMA SameItems ==
  ASSUME NEW S, NEW a \in Seq(S), NEW b \in Seq(S), Len(a) = Len(b),
         \A i \in 1 .. Len(a) : a[i] = b[i]
  PROVE  a = b
OBVIOUS

(* The log grows by entries about given turns. *)
LEMMA LogAdds ==
  ASSUME length \in [1 .. MaxTurn -> Nat], length' = length,
         log \in Seq(Complete), NEW es \in Seq(Complete), log' = log \o es
  PROVE  /\ LogTurns' = LogTurns \o [i \in 1 .. Len(es) |-> TurnOf(es[i])]
         /\ \A i \in 1 .. Len(log') :
              \/ i \in 1 .. Len(log) /\ log'[i] = log[i] /\ TurnOf(log[i])' = TurnOf(log[i])
              \/ \E j \in 1 .. Len(es) : log'[i] = es[j] /\ TurnOf(log[i])' = TurnOf(es[j])
<1>1. PICK all : all = log'
  OBVIOUS
<1>2. PICK old : old = log
  OBVIOUS
<1>3. /\ old \in Seq(Complete) /\ es \in Seq(Complete) /\ all = old \o es
      /\ all \in Seq(Complete) /\ Len(all) = Len(old) + Len(es)
      /\ Len(old) \in Nat /\ Len(es) \in Nat
      /\ \A i \in 1 .. Len(old) : all[i] = old[i]
      /\ \A i \in Len(old) + 1 .. Len(all) : all[i] = es[i - Len(old)] /\ i - Len(old) \in 1 .. Len(es)
  BY <1>1, <1>2
<1>4. /\ LogTurns' = [i \in 1 .. Len(all) |-> TurnOf(all[i])]
      /\ \A i \in 1 .. Len(all) : TurnOf(log[i])' = TurnOf(all[i])
  BY <1>1 DEF LogTurns, TurnOf, FromTranscript, Reply
<1>5. \A i \in 1 .. Len(log') :
        \/ i \in 1 .. Len(log) /\ log'[i] = log[i] /\ TurnOf(log[i])' = TurnOf(log[i])
        \/ \E j \in 1 .. Len(es) : log'[i] = es[j] /\ TurnOf(log[i])' = TurnOf(es[j])
  <2> TAKE i \in 1 .. Len(log')
  <2>1. i \in 1 .. Len(old) \/ i \in Len(old) + 1 .. Len(all)
    BY <1>1, <1>3
  <2>2. TurnOf(log[i])' = TurnOf(all[i]) /\ log'[i] = all[i]
    BY <1>1, <1>4
  <2>3. CASE i \in 1 .. Len(old)
    BY <1>2, <1>3, <2>2, <2>3
  <2>4. CASE i \in Len(old) + 1 .. Len(all)
    BY <1>3, <2>2, <2>4
  <2> QED BY <2>1, <2>3, <2>4
<1>6. [i \in 1 .. Len(all) |-> TurnOf(all[i])]
        = [i \in 1 .. Len(old) |-> TurnOf(old[i])] \o [i \in 1 .. Len(es) |-> TurnOf(es[i])]
  <2> DEFINE a == [i \in 1 .. Len(old) |-> TurnOf(old[i])]
             b == [i \in 1 .. Len(es) |-> TurnOf(es[i])]
             c == [i \in 1 .. Len(all) |-> TurnOf(all[i])]
  <2>1. \A e \in Complete : TurnOf(e) \in Nat
    BY TurnOfIs
  <2>2. a \in Seq(Nat) /\ Len(a) = Len(old) /\ \A i \in 1 .. Len(old) : a[i] = TurnOf(old[i])
    <3>1. \A i \in 1 .. Len(old) : TurnOf(old[i]) \in Nat
      BY <1>3, <2>1
    <3> QED BY <1>3, <3>1
  <2>3. b \in Seq(Nat) /\ Len(b) = Len(es) /\ \A i \in 1 .. Len(es) : b[i] = TurnOf(es[i])
    <3>1. \A i \in 1 .. Len(es) : TurnOf(es[i]) \in Nat
      BY <1>3, <2>1
    <3> QED BY <1>3, <3>1
  <2>4. c \in Seq(Nat) /\ Len(c) = Len(all) /\ \A i \in 1 .. Len(all) : c[i] = TurnOf(all[i])
    <3>1. \A i \in 1 .. Len(all) : TurnOf(all[i]) \in Nat
      BY <1>3, <2>1
    <3> QED BY <1>3, <3>1
  <2> HIDE DEF a, b, c
  <2>5. /\ a \o b \in Seq(Nat) /\ Len(a \o b) = Len(a) + Len(b)
        /\ \A i \in 1 .. Len(a) : (a \o b)[i] = a[i]
        /\ \A i \in 1 .. Len(b) : (a \o b)[Len(a) + i] = b[i]
    <3>1. a \in Seq(Nat) /\ b \in Seq(Nat)
      BY <2>2, <2>3
    <3> QED BY <3>1, Joined
  <2>6. \A i \in 1 .. Len(c) : c[i] = (a \o b)[i]
    <3> TAKE i \in 1 .. Len(c)
    <3>1. i \in 1 .. Len(old) \/ i \in Len(old) + 1 .. Len(all)
      BY <1>3, <2>4
    <3>2. CASE i \in 1 .. Len(old)
      BY <1>3, <2>2, <2>4, <2>5, <3>2
    <3>3. CASE i \in Len(old) + 1 .. Len(all)
      <4>1. PICK j \in 1 .. Len(es) : i = Len(old) + j
        BY <1>3, <3>3
      <4>2. all[i] = es[j]
        <5>1. i - Len(old) = j
          BY <1>3, <4>1
        <5> QED BY <1>3, <3>3, <5>1
      <4>3. (a \o b)[i] = b[j]
        <5>1. i = Len(a) + j /\ j \in 1 .. Len(b)
          BY <2>2, <2>3, <4>1
        <5>2. \A k \in 1 .. Len(b) : (a \o b)[Len(a) + k] = b[k]
          BY <2>5
        <5>3. (a \o b)[Len(a) + j] = b[j]
          BY <5>1, <5>2
        <5> QED BY <5>1, <5>3
      <4> QED BY <2>3, <2>4, <4>2, <4>3
    <3> QED BY <3>1, <3>2, <3>3
  <2>7. Len(c) = Len(a \o b)
    BY <1>3, <2>2, <2>3, <2>4, <2>5
  <2>8. c = a \o b
    BY <2>4, <2>5, <2>6, <2>7, SameItems
  <2> QED BY <2>8 DEF a, b, c
<1>7. LogTurns = [i \in 1 .. Len(old) |-> TurnOf(old[i])]
  BY <1>2 DEF LogTurns
<1> QED BY <1>4, <1>5, <1>6, <1>7

(* out is what is relayed now. *)
Tells(out) ==
  /\ LogTurns' = LogTurns \o OutTurns(out)
  /\ LogTurns \in Seq(Nat) /\ OutTurns(out) \in Seq(Nat)
  /\ \A i \in 1 .. Len(out) : IsReply(out[i])

(* The turns closed are relayed. *)
LEMMA GateTold ==
  ASSUME IInv, NEW s \in Session, Session = {s}, Relay(s), BatchDone, Leave(batch.who),
         GateOut # <<>>, observing[s] => Len(GateOut) = 1, log' = log \o Relayed(s, GateOut),
         NEW c, c = acc[s].parts,
         Closes => IsReply(c) /\ Below(Telling, c[1].turn) /\ Over(s, c[1].turn)
  PROVE  /\ Ledgers(s)' /\ Telling' = LogTurns' /\ Tells(GateOut)
         /\ ~Closes => Telling' = Telling
         /\ Closes => \E more : Telling' = more /\ Adds(more, c[1].turn)
<1>1. /\ Leaving(s) /\ batch.who = s /\ batch'.out = <<>> /\ WorldSame(s)
  BY LeaveIs DEF Leaving
<1>2. length' = length /\ \A t : Over(s, t)' = Over(s, t)
  BY <1>1, WorldStays
<1>3. PICK out : out = GateOut
  OBVIOUS
<1>4. /\ batch.out \in Seq(Seq(Part)) /\ c \in Seq(Part) /\ out \in Seq(Seq(Part)) /\ TypeOK
      /\ length \in [1 .. MaxTurn -> Nat] /\ log \in Seq(Complete)
  BY <1>3, Typed, GateFacts DEF IInv
<1>5. /\ ~Closes => out = batch.out
      /\ Closes => out = Append(batch.out, c)
  BY <1>1, <1>3, GateIs
<1>6. Ledgers(s)
  BY DEF Relay
<1>7. \A i \in 1 .. Len(out) : IsReply(out[i])
  <2>1. CASE ~Closes
    BY <1>5, <1>6, <2>1 DEF Ledgers
  <2>2. CASE Closes
    <3> TAKE i \in 1 .. Len(out)
    <3>1. (i \in 1 .. Len(batch.out) /\ out[i] = batch.out[i]) \/ out[i] = c
      <4>1. PICK z : z = batch.out
        OBVIOUS
      <4>2. z \in Seq(Seq(Part)) /\ c \in Seq(Part) /\ out = Append(z, c)
        BY <1>4, <1>5, <2>2, <4>1
      <4>3. (i \in 1 .. Len(z) /\ Append(z, c)[i] = z[i]) \/ Append(z, c)[i] = c
        BY <4>2, OneMore
      <4> QED BY <4>1, <4>2, <4>3
    <3> QED BY <1>6, <2>2, <3>1 DEF Ledgers
  <2> QED BY <2>1, <2>2
<1>8. PICK es : es = Relayed(s, out)
  OBVIOUS
<1>9. /\ es \in Seq(Complete) /\ Len(es) = Len(out)
      /\ \A i \in 1 .. Len(out) : FromTranscript(es[i]) /\ es[i].content = out[i]
  BY <1>3, <1>4, <1>8, RelayedIs
<1>10. \A i \in 1 .. Len(es) : /\ FromTranscript(es[i])
                               /\ TurnOf(es[i]) = out[i][1].turn /\ TurnOf(es[i]) # 0
  <2> TAKE i \in 1 .. Len(es)
  <2>1. es[i] \in Complete /\ FromTranscript(es[i]) /\ es[i].content = out[i] /\ IsReply(out[i])
    BY <1>7, <1>9
  <2>2. TurnOf(es[i]) = out[i][1].turn
    BY <1>4, <2>1, TurnOfIs
  <2>3. out[i][1].turn \in 1 .. MaxTurn
    BY <1>4, <2>1, ReplyIs
  <2> QED BY <2>1, <2>2, <2>3
<1>11. /\ LogTurns' = LogTurns \o [i \in 1 .. Len(es) |-> TurnOf(es[i])]
       /\ \A i \in 1 .. Len(log') :
            \/ i \in 1 .. Len(log) /\ log'[i] = log[i] /\ TurnOf(log[i])' = TurnOf(log[i])
            \/ \E j \in 1 .. Len(es) : log'[i] = es[j] /\ TurnOf(log[i])' = TurnOf(es[j])
  BY <1>2, <1>3, <1>4, <1>8, <1>9, LogAdds
<1>12. [i \in 1 .. Len(es) |-> TurnOf(es[i])] = OutTurns(out)
  BY <1>9, <1>10 DEF OutTurns
<1>13. LogTurns' = LogTurns \o OutTurns(out)
  BY <1>11, <1>12
<1>14. LogTurns \in Seq(Nat) /\ OutTurns(out) \in Seq(Nat)
  BY <1>4, <1>6, <1>7, TellingIs, Told
<1>15. Telling' = LogTurns'
  <2>1. OutTurns(batch.out)' = <<>>
    BY <1>1 DEF OutTurns
  <2>2. PICK a : a = LogTurns'
    OBVIOUS
  <2>3. a \in Seq(Nat)
    BY <1>13, <1>14, <2>2, Joined
  <2>4. a \o <<>> = a
    BY <2>3
  <2> QED BY <2>1, <2>2, <2>4 DEF Telling
<1>16. ~Closes => Telling' = Telling
  BY <1>5, <1>13, <1>15 DEF Telling
<1>17. ASSUME Closes PROVE \E more : Telling' = more /\ Adds(more, c[1].turn)
  <2>1. Adds(LogTurns \o OutTurns(Append(batch.out, c)), c[1].turn)
    BY <1>4, <1>6, <1>17, OneMoreTold
  <2> QED BY <1>5, <1>13, <1>15, <1>17, <2>1
<1>18. Ledgers(s)'
  <2>1. \A i \in 1 .. Len(log') : TurnOf(log[i])' # 0
    <3> TAKE i \in 1 .. Len(log')
    <3>1. CASE i \in 1 .. Len(log) /\ log'[i] = log[i] /\ TurnOf(log[i])' = TurnOf(log[i])
      BY <1>6, <3>1 DEF Ledgers
    <3>2. CASE \E j \in 1 .. Len(es) : log'[i] = es[j] /\ TurnOf(log[i])' = TurnOf(es[j])
      BY <1>10, <3>2
    <3> QED BY <1>11, <3>1, <3>2
  <2>2. \A i \in 1 .. Len(log') : log'[i].via = "screen" => length'[log'[i].asked] = 0
    <3> TAKE i \in 1 .. Len(log')
    <3>1. CASE i \in 1 .. Len(log) /\ log'[i] = log[i]
      BY <1>2, <1>6, <3>1 DEF Ledgers
    <3>2. CASE \E j \in 1 .. Len(es) : log'[i] = es[j]
      BY <1>10, <3>2 DEF FromTranscript
    <3> QED BY <1>11, <3>1, <3>2
  <2>3. \A i \in 1 .. Len(batch'.out) : IsReply(batch.out[i])'
    BY <1>1
  <2>4. Ascending(Telling)' /\ \A i \in 1 .. Len(Telling') : Over(s, Telling[i])'
    <3>1. CASE ~Closes
      BY <1>2, <1>6, <1>16, <3>1 DEF Ledgers, Ascending, Over
    <3>2. CASE Closes
      <4>1. PICK more : Telling' = more /\ Adds(more, c[1].turn)
        BY <1>17, <3>2
      <4>2. \A i \in 1 .. Len(more) : Over(s, more[i])
        BY <1>6, <3>2, <4>1 DEF Adds, Ledgers
      <4>3. Ascending(Telling)'
        <5>1. Ascending(more)
          BY <4>1 DEF Adds
        <5> QED BY <4>1, <5>1 DEF Ascending
      <4> QED BY <1>2, <4>1, <4>2, <4>3 DEF Over
    <3> QED BY <3>1, <3>2
  <2> QED BY <2>1, <2>2, <2>3, <2>4 DEF Ledgers
<1>19. Tells(GateOut)
  BY <1>3, <1>7, <1>13, <1>14 DEF Tells
<1> QED BY <1>15, <1>16, <1>17, <1>18, <1>19

(* Only a reply that was read to its end is closed by the gate. *)
ClosesAt(s, q, p, l) ==
  /\ Tracks(s) /\ q = rows[Home(s)] /\ p = Passed(s) /\ l = LastRead(q, p)
  /\ q \in Seq(Row) /\ Chained(q) /\ Rising(q) /\ Tracking(s, q)
  /\ p \in 0 .. Len(q) /\ l \in 1 .. p /\ Len(q) \in Nat
  /\ q[l].kind = "textEnd" /\ Building(s, q[l]) /\ q[l].turn \in Turn /\ q[l].turn <= cli[s].turn
  /\ IsReply(acc[s].parts) /\ acc[s].parts[1].turn = q[l].turn /\ Over(s, q[l].turn)

(* Whenever the gate closes a turn, this is what it closes. *)
LEMMA ClosesReply ==
  ASSUME IInv, NEW s \in Session, Relay(s), BatchDone, batch.who = s, Closes
  PROVE  \E q, p, l : ClosesAt(s, q, p, l)
<1>1. /\ batch.of # NoFile /\ Stopped(s) /\ acc[s].parts # <<>> /\ Cli(s)
  BY GateIs DEF Relay
<1>2. ~Blank(s)
  BY <1>1 DEF Blank
<1>3. Tracks(s)
  BY <1>2 DEF Relay, Watcher, Away
<1>4. PICK q : q = rows[Home(s)]
  OBVIOUS
<1>5. PICK p : p = Passed(s)
  OBVIOUS
<1>6. PICK l : l = LastRead(q, p)
  OBVIOUS
<1>7. Tracking(s, q)
  BY <1>3, <1>4 DEF Relay, Watcher
<1>8. /\ q \in Seq(Row) /\ Chained(q) /\ Rising(q)
      /\ \A i \in 1 .. Len(q) : RowFits(s, q[i])
  BY <1>3, <1>4, Typed DEF Relay, Cli, Script, Tracks, Existing
<1>9. p \in 0 .. Len(q) /\ Len(q) \in Nat
  <2>1. Cursor(s, rows[Home(s)])
    BY <1>4, <1>7 DEF Tracking
  <2> QED BY <1>3, <1>4, <1>5, <2>1, PassedIs DEF Tracks
<1>10. l \in 0 .. p /\ (l # 0 => q[l].kind # "meta")
  BY <1>6, <1>8, <1>9, LastReadIs
<1>11. l # 0 /\ Holding(s, q[l])
  BY <1>2, <1>5, <1>6, <1>7 DEF Tracking
<1>12. PICK x : x = q[l]
  OBVIOUS
<1>13. l \in 1 .. p /\ l \in 1 .. Len(q) /\ x \in Row /\ x.kind # "meta"
  BY <1>8, <1>9, <1>10, <1>11, <1>12
<1>14. x.kind \in Said \cup {"user", "thinkEnd", "interrupt", "textEnd"}
  BY <1>13 DEF Row, Kind, Said
<1>15. x.kind # "thinkEnd"
  <2> SUFFICES ASSUME x.kind = "thinkEnd" PROVE FALSE
    OBVIOUS
  <2>1. l # 1 /\ l \in 2 .. Len(q)
    BY <1>8, <1>12, <1>13 DEF Chained, CanBegin
  <2>2. Follows(q[l - 1], x)
    BY <1>8, <1>12, <2>1 DEF Chained
  <2>3. x.n = 0
    BY <2>2 DEF Follows, Said
  <2>4. acc[s].parts = Prefix(x.turn, 0)
    BY <1>11, <1>12, <2>3 DEF Holding, Building
  <2> QED BY <1>1, <1>13, <2>4, PrefixIs DEF Row
<1>16. x.kind \notin Said \cup {"user", "interrupt"}
  BY <1>1, <1>11, <1>12 DEF Holding
<1>17. x.kind = "textEnd" /\ Building(s, x)
  BY <1>1, <1>11, <1>12, <1>14, <1>15, <1>16 DEF Holding
<1>18. IsReply(acc[s].parts) /\ acc[s].parts[1].turn = x.turn /\ Over(s, x.turn)
  BY <1>1, <1>8, <1>12, <1>13, <1>17, ReplyHeld
<1>19. x.turn \in Turn /\ x.turn <= cli[s].turn
  BY <1>8, <1>12, <1>13, <1>17 DEF Row, RowFits
<1>20. ClosesAt(s, q, p, l)
  BY <1>3, <1>4, <1>5, <1>6, <1>7, <1>8, <1>9, <1>12, <1>13, <1>17, <1>18, <1>19 DEF ClosesAt
<1> QED BY <1>20

(* After its close nothing is held, and it is told. *)
LEMMA ClosedHolds ==
  ASSUME NEW s \in Session, NEW x, x.kind \in Ended, acc'[s].parts = <<>>, ~Stopped(s)',
         Below(Telling, x.turn + 1)'
  PROVE  Holding(s, x)'
BY DEF Holding, Said, Ended

(* Turns nobody waits for are relayed. *)
LEMMA OrganicRelay ==
  ASSUME IInv, NEW s \in Session, Session = {s}, Relay(s), CloseOrganic
  PROVE  Relay(s)'
<1>1. /\ BatchDone /\ Leave(batch.who) /\ GateOut # <<>> /\ ~observing[batch.who]
      /\ acc' = [acc EXCEPT ![batch.who] = GateAcc]
      /\ log' = log \o Relayed(batch.who, GateOut)
      /\ UNCHANGED <<file, pos, observing>>
  BY DEF CloseOrganic
<1>2. /\ Leaving(s) /\ batch.who = s /\ batch'.out = <<>> /\ WorldSame(s)
      /\ Passed(s) = (pos[s] + 1) \div 2 /\ Passed(s)' = (pos'[s] + 1) \div 2
      /\ batch'.of = NoFile /\ batch'.who # s /\ ~batch'.completed
      /\ ~(batch'.next <= batch'.upto)
  BY <1>1, LeaveIs DEF Leaving
<1>3. acc'[s] = GateAcc
  BY <1>1, <1>2 DEF IInv, TypeOK, WatcherTypeOK
<1>4. PICK c : c = acc[s].parts
  OBVIOUS
<1>5. inbox[s] = 0
  BY <1>1, <1>2 DEF Relay, Observing
<1>6. Closes => IsReply(c) /\ Below(Telling, c[1].turn) /\ Over(s, c[1].turn)
  <2> SUFFICES ASSUME Closes PROVE IsReply(c) /\ Below(Telling, c[1].turn) /\ Over(s, c[1].turn)
    OBVIOUS
  <2>1. PICK q, p, l : ClosesAt(s, q, p, l)
    BY <1>1, <1>2, ClosesReply
  <2> QED BY <1>4, <2>1 DEF ClosesAt, Building
<1>7. /\ Ledgers(s)' /\ Telling' = LogTurns'
      /\ ~Closes => Telling' = Telling
      /\ Closes => \E more : Telling' = more /\ Adds(more, c[1].turn)
  BY <1>1, <1>2, <1>4, <1>6, GateTold
<1>8. observing'[s] = FALSE
  <2>1. observing \in [Session -> BOOLEAN]
    BY DEF IInv, TypeOK
  <2> QED BY <1>1, <1>2, <2>1
<1>9. CASE ~Closes
  <2>1. ~Blank(s)
    BY <1>1, <1>2, <1>9, GateIs DEF Blank
  <2> QED BY <1>1, <1>3, <1>5, <1>7, <1>8, <1>9, <2>1, HeldOpen, LeaveRelay
<1>10. CASE Closes
  <2>1. PICK q, p, l : ClosesAt(s, q, p, l)
    BY <1>1, <1>2, <1>10, ClosesReply
  <2>2. PICK t : t = q[l].turn
    OBVIOUS
  <2>3. PICK more : Telling' = more /\ Adds(more, t)
    BY <1>4, <1>7, <1>10, <2>1, <2>2 DEF ClosesAt
  <2>4. /\ Home(s)' = Home(s) /\ cli' = cli /\ rows' = rows /\ Existing' = Existing
        /\ \A f : Size(f)' = Size(f) /\ Whole(f)' = Whole(f)
    BY <1>2, WorldStays
  <2>5. UNCHANGED <<pinnedId, hint, asked>>
    BY <1>2 DEF Leaving
  <2>6. acc'[s].parts = <<>> /\ acc'[s].pending = FALSE /\ ~Stopped(s)'
    BY <1>1, <1>2, <1>3, <1>10, GateIs DEF Stopped
  <2>7. Tracks(s) /\ Tracking(s, q) /\ Passed(s)' = p /\ l = LastRead(q, p) /\ l # 0
        /\ q = rows[Home(s)] /\ q[l].kind = "textEnd" /\ p \in Nat
    BY <1>1, <1>2, <2>1 DEF ClosesAt
  <2>8. Holding(s, q[l])'
    <3>1. Below(Telling, t + 1)'
      BY <2>3 DEF Adds, Below
    <3>2. PICK x : x = q[l]
      OBVIOUS
    <3>3. x.kind \in Ended /\ Below(Telling, x.turn + 1)'
      BY <2>2, <2>7, <3>1, <3>2 DEF Ended, Below
    <3>4. Holding(s, x)'
      BY <2>6, <3>3, ClosedHolds
    <3> QED BY <3>2, <3>4
  <2>9. (IF LastRead(q, Passed(s)) = 0 THEN Blank(s) ELSE Holding(s, q[LastRead(q, Passed(s))]))'
    BY <2>7, <2>8
  <2>10. Cursor(s, q)'
    BY <1>1, <1>2, <2>4, <2>7 DEF Tracking, Cursor
  <2>11. News(s, q, p)'
    BY <1>1, <2>5, <2>7, <1>2 DEF Tracking, News
  <2>12. Relayed1(s, q, p)'
    <3>1. ASSUME NEW i \in 1 .. p, q[i].kind = "textEnd", q[i].turn # 0
          PROVE  Contains(more, q[i].turn)
      <4>1. Contains(Telling, q[i].turn) \/ i = l
        BY <1>1, <1>2, <2>7, <3>1 DEF Tracking, Relayed1
      <4> QED BY <2>2, <2>3, <4>1 DEF Adds
    <3> QED BY <2>3, <3>1 DEF Relayed1, Contains
  <2>13. News(s, q, Passed(s))' /\ Relayed1(s, q, Passed(s))'
    BY <2>7, <2>11, <2>12 DEF News, Relayed1
  <2>14. Tracking(s, q)'
    BY <1>1, <2>4, <2>5, <2>7, <2>9, <2>10, <2>13 DEF Tracking
  <2>15. q = rows'[Home(s)'] /\ Tracks(s)'
    BY <1>1, <2>4, <2>7 DEF Tracks
  <2>16. Tracking(s, rows[Home(s)])'
    BY <2>14, <2>15
  <2>17. cli[s].turn # 0
    <3>1. q[l].turn # 0 /\ q[l].turn \in Turn /\ q[l].turn <= cli[s].turn
      BY <2>1 DEF ClosesAt, Building
    <3>2. cli[s].turn \in 0 .. MaxTurn
      BY Typed
    <3> QED BY <3>1, <3>2, TurnAssumption DEF Turn
  <2> QED BY <1>1, <1>5, <1>7, <1>8, <2>15, <2>16, <2>17, LeaveRelay
<1> QED BY <1>9, <1>10

(* prime_to_eof finds the transcript of the CLI again, and stands at its   *)
(* end.                                                                    *)
LEMMA PrimeIsHome ==
  ASSUME IInv, NEW s \in Session, Session = {s}, Relay(s), BatchDone, Leave(batch.who),
         PrimeToEof(s, GateAcc), Tracks(s), cli[s].turn # 0, IsConversation(Home(s))
  PROVE  /\ file'[s] = Home(s) /\ pos'[s] = Size(Home(s)) /\ acc'[s].parts = <<>>
         /\ ~Stopped(s)' /\ Tracks(s)' /\ Passed(s)' = Len(rows[Home(s)])
<1>1. /\ Leaving(s) /\ WorldSame(s) /\ ~batch'.completed /\ Passed(s)' = (pos'[s] + 1) \div 2
  BY LeaveIs DEF Leaving
<1>2. Home(s) \in Existing /\ excluded[s] = {} /\ IsOrder(newer, Existing) /\ Home(s) # NoFile
  BY DEF Tracks, Relay, Cli, Script, Watcher, Directory
<1>3. FindActive(s, excluded[s]) = Home(s)
  <2>1. \A g \in Existing \ {Home(s)} : IsConversation(g) => <<Home(s), g>> \in newer
    <3> TAKE g \in Existing \ {Home(s)}
    <3>1. rows[g] = Title \/ <<Home(s), g>> \in newer
      BY DEF Relay, Directory, Stranger
    <3>2. rows[g] = Title => ~IsConversation(g)
      BY TitleIs DEF IsConversation
    <3> QED BY <3>1, <3>2
  <2> QED BY <1>2, <2>1, ActiveIsHome
<1>4. /\ file' = [file EXCEPT ![s] = Home(s)] /\ pos' = [pos EXCEPT ![s] = Size(Home(s))]
      /\ acc' = [acc EXCEPT ![s] = Cleared(GateAcc)]
  BY <1>3 DEF PrimeToEof
<1>5. file'[s] = Home(s) /\ pos'[s] = Size(Home(s)) /\ acc'[s] = Cleared(GateAcc)
  BY <1>4 DEF IInv, TypeOK, WatcherTypeOK
<1>6. acc'[s].parts = <<>> /\ acc'[s].pending = FALSE
  BY <1>5 DEF Cleared
<1>7. Tracks(s)'
  BY <1>1, <1>2, <1>5, WorldStays DEF Tracks
<1>8. (Size(Home(s)) + 1) \div 2 = Len(rows[Home(s)])
  <2>1. PICK n : n = Len(rows[Home(s)])
    OBVIOUS
  <2>2. n \in Nat
    BY <1>2, <2>1, Typed DEF Existing
  <2>3. Size(Home(s)) = 2 * n - (IF half[Home(s)] THEN 1 ELSE 0)
    BY <1>2, <2>1 DEF Size
  <2>4. CASE half[Home(s)]
    <3>1. Size(Home(s)) + 1 = 2 * n
      BY <2>2, <2>3, <2>4
    <3> QED BY <2>1, <2>2, <3>1
  <2>5. CASE ~half[Home(s)]
    <3>1. Size(Home(s)) + 1 = 2 * n + 1
      BY <2>2, <2>3, <2>5
    <3> QED BY <2>1, <2>2, <3>1
  <2> QED BY <2>4, <2>5
<1> QED BY <1>1, <1>5, <1>6, <1>7, <1>8 DEF Stopped

(* The watcher after prime_to_eof. *)
LEMMA PrimeRelay ==
  ASSUME IInv, NEW s \in Session, Session = {s}, Relay(s), BatchDone, Leave(batch.who),
         PrimeToEof(s, GateAcc), Tracks(s), cli[s].turn # 0, IsConversation(Home(s)),
         observing'[s] = FALSE, inbox[s] = 0, Ledgers(s)',
         NEW q, q = rows[Home(s)], NEW l, l = LastRead(q, Len(q)), l # 0, q[l].kind \in Ended,
         Below(Telling, q[l].turn + 1)',
         \A i \in 1 .. Len(q) :
           q[i].kind = "textEnd" /\ q[i].turn # 0 => Contains(Telling, q[i].turn)',
         half[Home(s)] => q[Len(q)].kind = "meta"
  PROVE  Relay(s)'
<1>1. /\ file'[s] = Home(s) /\ pos'[s] = Size(Home(s)) /\ acc'[s].parts = <<>>
      /\ ~Stopped(s)' /\ Tracks(s)' /\ Passed(s)' = Len(q)
  BY PrimeIsHome
<1>2. /\ Leaving(s) /\ WorldSame(s) /\ batch'.of = NoFile /\ batch'.who # s
      /\ ~(batch'.next <= batch'.upto)
  BY LeaveIs DEF Leaving
<1>3. /\ Home(s)' = Home(s) /\ cli' = cli /\ rows' = rows
  BY <1>2, WorldStays
<1>4. UNCHANGED <<pinnedId, hint>>
  BY <1>2 DEF Leaving
<1>5. Tracking(s, q) /\ file[s] = Home(s) /\ Home(s) \in File /\ q \in Seq(Row) /\ Len(q) \in Nat
      /\ Home(s) # NoFile
  <2>1. Home(s) \in File
    BY Typed DEF Tracks
  <2> QED BY <2>1, Typed DEF Relay, Watcher, Tracks
<1>6. PICK x : x = q[l]
  OBVIOUS
<1>7. Holding(s, x)'
  <2>1. x.kind \in Ended /\ Below(Telling, x.turn + 1)'
    BY <1>6 DEF Below
  <2> QED BY <1>1, <2>1, ClosedHolds
<1>8. (IF LastRead(q, Passed(s)) = 0 THEN Blank(s) ELSE Holding(s, q[LastRead(q, Passed(s))]))'
  BY <1>1, <1>6, <1>7
<1>9. \A k \in 1 .. Len(q) : pos'[s] = 2 * k - 1 => q[k].kind = "meta"
  <2> SUFFICES ASSUME NEW k \in 1 .. Len(q), pos'[s] = 2 * k - 1 PROVE q[k].kind = "meta"
    OBVIOUS
  <2>1. Size(Home(s)) = 2 * Len(q) - (IF half[Home(s)] THEN 1 ELSE 0)
    BY <1>5 DEF Size
  <2>2. half[Home(s)] /\ k = Len(q)
    <3>1. PICK n : n = Len(q) /\ n \in Nat
      BY <1>5
    <3>2. 2 * k - 1 = 2 * n - (IF half[Home(s)] THEN 1 ELSE 0) /\ k \in 1 .. n
      BY <1>1, <2>1, <3>1
    <3>3. CASE half[Home(s)]
      BY <3>1, <3>2, <3>3
    <3>4. CASE ~half[Home(s)]
      <4>1. 2 * k - 1 = 2 * n
        BY <3>1, <3>2, <3>4
      <4> QED BY <3>1, <3>2, <4>1
    <3> QED BY <3>3, <3>4
  <2> QED BY <2>2
<1>10. Cursor(s, q)'
  BY <1>2, <1>9 DEF Cursor
<1>11. News(s, q, Passed(s))'
  <2>1. Len(q) + 1 .. Len(q) = {}
    BY <1>5
  <2> QED BY <1>1, <2>1 DEF News
<1>12. Relayed1(s, q, Passed(s))'
  BY <1>1 DEF Relayed1, Contains
<1>13. Tracking(s, q)'
  BY <1>1, <1>3, <1>4, <1>5, <1>8, <1>10, <1>11, <1>12 DEF Tracking
<1>14. q = rows'[Home(s)']
  BY <1>3
<1>15. Tracking(s, rows[Home(s)])'
  BY <1>13, <1>14
<1> QED BY <1>1, <1>15, LeaveRelay

(* A row of a turn that was read is on disk as a whole. *)
LEMMA ReadIsWhole ==
  ASSUME IInv, NEW s \in Session, NEW q, NEW p, NEW l, ClosesAt(s, q, p, l),
         p = (pos[s] + 1) \div 2
  PROVE  /\ l \in 1 .. Whole(Home(s)) /\ IsConversation(Home(s))
         /\ half[Home(s)] => l # Len(q)
<1>1. /\ q = rows[Home(s)] /\ Len(q) \in Nat /\ l \in 1 .. p /\ p \in 0 .. Len(q)
      /\ q[l].kind = "textEnd" /\ Tracking(s, q) /\ file[s] = Home(s) /\ Home(s) # NoFile
  BY DEF ClosesAt, Tracks
<1>2. pos[s] \in Nat /\ pos[s] <= Size(Home(s)) /\ Home(s) \in File
  BY <1>1, Typed
<1>3. pos[s] = 2 * l - 1 => q[l].kind = "meta"
  <2>1. l \in 1 .. Len(q)
    BY <1>1
  <2> QED BY <1>1, <2>1 DEF Tracking, Cursor
<1>4. pos[s] # 2 * l - 1 /\ l \in Nat /\ p \in Nat
  BY <1>1, <1>3
<1>5. CASE half[Home(s)]
  <2>1. PICK n : n = Len(q) /\ n \in Nat
    BY <1>1
  <2>2. Size(Home(s)) = 2 * n - 1 /\ Whole(Home(s)) = n - 1
    BY <1>1, <1>5, <2>1 DEF Size, Whole
  <2>3. l # n
    <3> SUFFICES ASSUME l = n PROVE FALSE
      OBVIOUS
    <3>1. p = n
      BY <1>1, <2>1
    <3>2. (pos[s] + 1) \div 2 = n
      BY <3>1
    <3>3. pos[s] >= 2 * n - 1
      BY <1>2, <2>1, <3>2
    <3> QED BY <1>2, <1>4, <2>1, <2>2, <3>3
  <2>4. l \in 1 .. n - 1
    BY <1>1, <1>4, <2>1, <2>3
  <2> QED BY <1>1, <2>1, <2>2, <2>4 DEF IsConversation, ConversationSince, IsConversationRow,
                                         StartsAtOrAfter
<1>6. CASE ~half[Home(s)]
  <2>1. Whole(Home(s)) = Len(q)
    BY <1>1, <1>6 DEF Whole
  <2>2. l \in 1 .. Len(q)
    BY <1>1
  <2> QED BY <1>1, <1>6, <2>1, <2>2 DEF IsConversation, ConversationSince, IsConversationRow,
                                         StartsAtOrAfter
<1> QED BY <1>5, <1>6

(* An observed turn that is closed was the last thing its CLI did. *)
LEMMA ClosesLast ==
  ASSUME IInv, NEW s \in Session, Relay(s), NEW q, NEW p, NEW l, ClosesAt(s, q, p, l),
         observing[s]
  PROVE  /\ q[l].turn = asked[s] /\ cli[s].turn = asked[s] /\ cli[s].turn # 0 /\ inbox[s] = 0
         /\ \A i \in l + 1 .. Len(q) : q[i].kind = "meta"
         /\ LastRead(q, Len(q)) = l
<1>1. /\ q \in Seq(Row) /\ Chained(q) /\ Rising(q) /\ Tracking(s, q) /\ p = Passed(s)
      /\ p \in 0 .. Len(q) /\ l \in 1 .. p /\ Len(q) \in Nat /\ l = LastRead(q, p)
      /\ q[l].kind = "textEnd" /\ Over(s, q[l].turn)
  BY DEF ClosesAt
<1>2. q[l].turn = asked[s]
  BY DEF ClosesAt, Building
<1>3. cli[s].turn = asked[s] /\ cli[s].turn # 0 /\ inbox[s] = 0
  <2>1. cli[s].turn \in Nat /\ inbox[s] \in Nat /\ asked[s] \in Nat
    BY Typed, TurnAssumption
  <2>2. asked[s] # 0 /\ (inbox[s] = asked[s] \/ (inbox[s] = 0 /\ cli[s].turn = asked[s]))
    BY DEF Relay, Observing
  <2>3. inbox[s] # 0 => inbox[s] > cli[s].turn
    BY DEF Relay, Numbers
  <2>4. asked[s] <= cli[s].turn
    BY <1>1, <1>2, <2>1 DEF Over
  <2> QED BY <2>1, <2>2, <2>3, <2>4
<1>4. \A i \in l + 1 .. Len(q) : q[i].kind = "meta"
  <2> SUFFICES ASSUME NEW i \in l + 1 .. Len(q), q[i].kind # "meta" PROVE FALSE
    OBVIOUS
  <2>1. i \in 1 .. Len(q) /\ l \in 1 .. Len(q) /\ l < i
    BY <1>1
  <2>2. i \notin l + 1 .. p
    BY <1>1, <2>1, LastReadIs
  <2>3. i \in p + 1 .. Len(q)
    BY <1>1, <2>1, <2>2
  <2>4. q[i].turn = asked[s]
    BY <1>1, <2>3 DEF Tracking, News
  <2>5. q[l].turn < q[i].turn /\ q[l].turn \in Turn
    BY <1>1, <2>1, RowIs DEF Rising, Ended
  <2> QED BY <1>2, <2>4, <2>5, TurnAssumption DEF Turn
<1>5. LastRead(q, Len(q)) = l
  <2>1. PICK m : m = LastRead(q, Len(q))
    OBVIOUS
  <2>2. Len(q) \in 0 .. Len(q) /\ l \in 1 .. Len(q)
    BY <1>1
  <2>3. m \in 0 .. Len(q) /\ (m # 0 => q[m].kind # "meta")
        /\ \A i \in m + 1 .. Len(q) : q[i].kind = "meta"
    BY <1>1, <2>1, <2>2, LastReadIs
  <2>4. l \notin m + 1 .. Len(q)
    BY <1>1, <2>3
  <2>5. m \notin l + 1 .. Len(q)
    BY <1>4, <2>2, <2>3
  <2>6. m = l
    BY <1>1, <2>2, <2>3, <2>4, <2>5
  <2> QED BY <2>1, <2>6
<1> QED BY <1>2, <1>3, <1>4, <1>5

(* The turn waited for is relayed, and the watcher moved to the end. *)
LEMMA ObservedRelay ==
  ASSUME IInv, NEW s \in Session, Session = {s}, Relay(s), CloseObserved
  PROVE  Relay(s)'
<1>1. /\ BatchDone /\ Leave(batch.who) /\ GateOut # <<>> /\ observing[batch.who]
      /\ observing' = [observing EXCEPT ![batch.who] = FALSE]
      /\ log' = log \o Relayed(batch.who, GateOut) /\ PrimeToEof(batch.who, GateAcc)
  BY DEF CloseObserved
<1>2. /\ batch.who = s /\ Passed(s) = (pos[s] + 1) \div 2
  BY <1>1, LeaveIs DEF Leaving
<1>3. batch.out = <<>> /\ observing[s]
  BY <1>1, <1>2 DEF Relay, Observing
<1>4. PICK c : c = acc[s].parts
  OBVIOUS
<1>5. Closes /\ GateOut = Append(<<>>, c) /\ c \in Seq(Part)
  BY <1>1, <1>2, <1>3, <1>4, GateIs, Typed
<1>6. Len(GateOut) = 1
  BY <1>5
<1>7. PICK q, p, l : ClosesAt(s, q, p, l)
  BY <1>1, <1>2, <1>5, ClosesReply
<1>8. /\ q[l].turn = asked[s] /\ cli[s].turn = asked[s] /\ cli[s].turn # 0 /\ inbox[s] = 0
      /\ \A i \in l + 1 .. Len(q) : q[i].kind = "meta"
      /\ LastRead(q, Len(q)) = l
  BY <1>3, <1>7, ClosesLast
<1>9. /\ Tracks(s) /\ q = rows[Home(s)] /\ p = Passed(s) /\ Tracking(s, q) /\ p \in 0 .. Len(q)
      /\ l \in 1 .. p /\ Len(q) \in Nat /\ q[l].kind = "textEnd" /\ l = LastRead(q, p)
      /\ IsReply(c) /\ c[1].turn = q[l].turn /\ Over(s, q[l].turn) /\ Below(Telling, q[l].turn)
  BY <1>4, <1>7 DEF ClosesAt, Building
<1>10. IsConversation(Home(s)) /\ (half[Home(s)] => l # Len(q))
  BY <1>2, <1>7, <1>9, ReadIsWhole
<1>11. PICK t : t = q[l].turn
  OBVIOUS
<1>12. Ledgers(s)' /\ \E more : Telling' = more /\ Adds(more, t)
  BY <1>1, <1>2, <1>4, <1>5, <1>6, <1>9, <1>11, GateTold
<1>13. PICK more : Telling' = more /\ Adds(more, t)
  BY <1>12
<1>14. Below(Telling, q[l].turn + 1)'
  BY <1>11, <1>13 DEF Adds, Below
<1>15. ASSUME NEW i \in 1 .. Len(q), q[i].kind = "textEnd", q[i].turn # 0
       PROVE  Contains(Telling, q[i].turn)'
  <2>1. i \in 1 .. p
    <3>1. i \notin l + 1 .. Len(q)
      BY <1>8, <1>15
    <3> QED BY <1>9, <3>1
  <2>2. Contains(Telling, q[i].turn) \/ i = l
    BY <1>9, <1>15, <2>1 DEF Tracking, Relayed1
  <2>3. Contains(more, q[i].turn)
    BY <1>11, <1>13, <2>2 DEF Adds
  <2> QED BY <1>13, <2>3 DEF Contains
<1>16. half[Home(s)] => q[Len(q)].kind = "meta"
  <2>1. half[Home(s)] => Len(q) \in l + 1 .. Len(q)
    BY <1>9, <1>10
  <2> QED BY <1>8, <2>1
<1>17. observing'[s] = FALSE
  BY <1>1, <1>2 DEF IInv, TypeOK
<1>18. l # 0 /\ q[l].kind \in Ended /\ l = LastRead(q, Len(q)) /\ PrimeToEof(s, GateAcc)
  BY <1>1, <1>2, <1>8, <1>9 DEF Ended
<1> QED BY <1>1, <1>8, <1>9, <1>10, <1>12, <1>14, <1>15, <1>16, <1>17, <1>18, PrimeRelay
-----------------------------------------------------------------------------
(* The screen shows the prompt: the turn asked for is over, and the        *)
(* watcher has read all of it.                                             *)
LEMMA ScreenSees ==
  ASSUME IInv, Benign, NEW s \in Session, Session = {s}, Relay(s), CloseByScreen,
         NEW q, q = rows[Home(s)]
  PROVE  /\ BatchDone /\ Leave(s) /\ PrimeToEof(s, GateAcc) /\ batch.who = s
         /\ observing[s] /\ GateOut = <<>> /\ ~Closes /\ batch.out = <<>> /\ inbox[s] = 0
         /\ cli[s].turn = asked[s] /\ asked[s] # 0 /\ cli[s].stage = "prompt"
         /\ Used(s) /\ Home(s) # NoFile /\ ~half[Home(s)]
         /\ Tracks(s) /\ Tracking(s, q) /\ Passed(s) = Len(q) /\ IsConversation(Home(s))
         /\ Tip(s) = LastRead(q, Len(q)) /\ Tip(s) \in 1 .. Len(q) /\ q[Tip(s)].turn = asked[s]
         /\ q[Tip(s)].kind \in Ended
<1>1. /\ BatchDone /\ Leave(batch.who) /\ GateOut = <<>> /\ observing[batch.who]
      /\ ScreenDone(batch.who) \/ Can("maxTurn")
      /\ PrimeToEof(batch.who, GateAcc)
  BY DEF CloseByScreen
<1>2. /\ batch.who = s /\ Passed(s) = (pos[s] + 1) \div 2
  BY <1>1, LeaveIs DEF Leaving
<1>3. batch.out = <<>> /\ observing[s]
  BY <1>1, <1>2 DEF Relay, Observing
<1>4. ~Closes
  <2>1. batch.out \in Seq(Seq(Part)) /\ acc[s].parts \in Seq(Part)
    BY Typed
  <2>2. Append(batch.out, acc[s].parts) # <<>>
    BY <2>1, OneMore
  <2> QED BY <1>1, <1>2, <2>2, GateIs
<1>5. CliAt(s, "prompt") /\ inbox[s] = 0
  BY <1>1, <1>2 DEF ScreenDone, Benign
<1>6. cli[s].turn = asked[s] /\ asked[s] # 0 /\ cli[s].stage = "prompt"
  BY <1>3, <1>5 DEF Relay, Observing, CliAt
<1>7. Used(s) /\ Home(s) # NoFile /\ ~half[Home(s)]
  BY <1>5, <1>6 DEF Relay, Cli, Used, CliAt, Home
<1>8. /\ q \in Seq(Row) /\ Len(q) \in Nat /\ Len(q) \in 0 .. Len(q) /\ Chained(q)
      /\ Whole(Home(s)) = Len(q) /\ Size(Home(s)) = 2 * Len(q) /\ Home(s) \in File
      /\ Tip(s) = LastRead(q, Len(q)) /\ Tip(s) # 0
  <2>1. q \in Seq(Row) /\ Chained(q) /\ Home(s) \in File
    BY <1>7, Typed DEF Relay, Cli, Script, Existing
  <2>2. Size(Home(s)) = 2 * Len(q) /\ Len(q) \in Nat
    <3>1. Size(Home(s)) = 2 * Len(q) - 0
      BY <1>7 DEF Size
    <3> QED BY <2>1, <3>1
  <2> QED BY <1>7, <2>1, <2>2 DEF Whole, Used, Tip
<1>9. /\ Tip(s) \in 1 .. Len(q) /\ q[Tip(s)].kind # "meta" /\ q[Tip(s)].turn = asked[s]
      /\ q[Tip(s)].kind \in Ended
  <2>1. Tip(s) \in 1 .. Len(q) /\ q[Tip(s)].kind # "meta"
    BY <1>8, LastReadIs
  <2> QED BY <1>6, <1>7, <2>1 DEF Used, Doing
<1>10. ConversationSince(Home(s), 0) /\ IsConversation(Home(s))
  BY <1>8, <1>9 DEF IsConversation, ConversationSince, IsConversationRow, StartsAtOrAfter
<1>11. Tracks(s)
  <2>1. ~Away(s)
    BY <1>2, <1>3, <1>7, <1>10 DEF Away
  <2> QED BY <2>1 DEF Relay, Watcher
<1>12. Tracking(s, q) /\ file[s] = Home(s)
  BY <1>11 DEF Relay, Watcher, Tracks
<1>13. Passed(s) = Len(q)
  <2>1. pos[s] >= 2 * Len(q) /\ pos[s] <= 2 * Len(q) /\ pos[s] \in Nat
    BY <1>2, <1>3, <1>8, <1>12, Typed DEF Tracking, Cursor
  <2>2. pos[s] + 1 = 2 * Len(q) + 1
    BY <1>8, <2>1
  <2> QED BY <1>2, <1>8, <2>2
<1> QED BY <1>1, <1>2, <1>3, <1>4, <1>5, <1>6, <1>7, <1>8, <1>9, <1>10, <1>11, <1>12, <1>13

(* The turn the screen closes ended without a reply.                       *)
LEMMA ScreenUnsaid ==
  ASSUME IInv, Benign, NEW s \in Session, Session = {s}, Relay(s), CloseByScreen
  PROVE  length[asked[s]] = 0
<1>1. PICK q : q = rows[Home(s)]
  OBVIOUS
<1>2. /\ batch.who = s /\ BatchDone /\ ~Closes /\ batch.out = <<>> /\ observing[s]
      /\ Tracking(s, q) /\ Passed(s) = Len(q) /\ asked[s] # 0
      /\ Tip(s) = LastRead(q, Len(q)) /\ Tip(s) \in 1 .. Len(q)
  BY <1>1, ScreenSees
<1>3. SUFFICES ASSUME length[asked[s]] # 0 PROVE FALSE
  OBVIOUS
<1>4. asked[s] \in 1 .. MaxTurn
  <2>1. asked[s] \in 0 .. MaxTurn
    BY Typed DEF Turn
  <2> QED BY <1>2, <2>1, TurnAssumption
<1>5. PICK i \in 1 .. Len(q) : q[i].kind = "textEnd" /\ q[i].turn = asked[s]
  BY <1>1, <1>3, <1>4 DEF Relay, Cli, Replied
<1>6. ~Contains(Telling, asked[s])
  <2>1. Telling = LogTurns /\ LogTurns \in Seq(Nat)
    BY <1>2, Told DEF Relay
  <2>2. Below(LogTurns, asked[s])
    BY <1>2 DEF Relay, Observing
  <2>3. asked[s] \in Nat
    BY <1>4
  <2> QED BY <2>1, <2>2, <2>3 DEF Contains, Below
<1>7. i = Tip(s) /\ acc[s].parts # <<>>
  BY <1>2, <1>5, <1>6 DEF Tracking, Relayed1
<1>8. Holding(s, q[Tip(s)])
  BY <1>2 DEF Tracking
<1>9. batch.of # NoFile /\ Stopped(s)
  BY <1>5, <1>7, <1>8 DEF Holding
<1> QED BY <1>2, <1>7, <1>9, GateIs

(* One completion more, taken from the screen. *)
LEMMA ScreenTold ==
  ASSUME IInv, Benign, NEW s \in Session, Session = {s}, Relay(s), CloseByScreen
  PROVE  /\ Ledgers(s)' /\ \E more : Telling' = more /\ Adds(more, asked[s])
         /\ LogTurns' = Append(LogTurns, asked[s])
<1>1. PICK t : t = asked[s]
  OBVIOUS
<1>2. PICK e : e = Entry(s, "screen", <<>>)
  OBVIOUS
<1>3. /\ BatchDone /\ Leave(batch.who) /\ batch.who = s /\ batch.out = <<>> /\ observing[s]
      /\ cli[s].turn = t /\ cli[s].stage = "prompt" /\ length[t] = 0 /\ t # 0 /\ log' = Append(log, e)
  BY <1>1, <1>2, ScreenSees, ScreenUnsaid DEF CloseByScreen
<1>4. /\ WorldSame(s) /\ batch'.out = <<>> /\ length' = length
      /\ \A u : Over(s, u)' = Over(s, u)
  BY <1>3, LeaveIs, WorldStays DEF Leaving
<1>5. /\ length \in [1 .. MaxTurn -> Nat] /\ log \in Seq(Complete) /\ t \in Nat
      /\ e \in Complete /\ e.via = "screen" /\ e.asked = t
  <2>1. t \in Turn /\ log \in Seq(Complete) /\ length \in [1 .. MaxTurn -> Nat]
    BY <1>1, Typed DEF Turn
  <2>2. e = [who |-> s, via |-> "screen", content |-> <<>>, asked |-> t]
    BY <1>1, <1>2 DEF Entry
  <2>3. <<>> \in Seq(Part)
    OBVIOUS
  <2>4. e \in Complete
    BY <2>1, <2>2, <2>3 DEF Complete
  <2> QED BY <2>1, <2>2, <2>4, TurnAssumption DEF Turn
<1>6. TurnOf(e) = t /\ ~FromTranscript(e)
  BY <1>5, TurnOfIs DEF FromTranscript
<1>7. PICK es : es = <<e>>
  OBVIOUS
<1>8. es \in Seq(Complete) /\ Len(es) = 1 /\ es[1] = e /\ log' = log \o es
  <2>1. PICK old : old = log
    OBVIOUS
  <2>2. Append(old, e) = old \o es
    BY <1>5, <1>7, <2>1
  <2> QED BY <1>3, <1>5, <1>7, <2>1, <2>2
<1>9. /\ LogTurns' = LogTurns \o [i \in 1 .. Len(es) |-> TurnOf(es[i])]
      /\ \A i \in 1 .. Len(log') :
           \/ i \in 1 .. Len(log) /\ log'[i] = log[i] /\ TurnOf(log[i])' = TurnOf(log[i])
           \/ \E j \in 1 .. Len(es) : log'[i] = es[j] /\ TurnOf(log[i])' = TurnOf(es[j])
  BY <1>4, <1>5, <1>8, LogAdds
<1>10. \A j \in 1 .. Len(es) : es[j] = e /\ TurnOf(es[j]) = t
  BY <1>6, <1>8
<1>11. Ledgers(s) /\ Telling = LogTurns /\ LogTurns \in Seq(Nat)
  BY <1>3, Told DEF Relay
<1>12. PICK a : a = LogTurns
  OBVIOUS
<1>13. LogTurns' = Append(a, t)
  <2>1. [i \in 1 .. Len(es) |-> TurnOf(es[i])] = <<t>>
    <3> DEFINE x(i) == TurnOf(es[i])
    <3>1. Len(es) = 1 /\ x(1) = t
      BY <1>8, <1>10
    <3> HIDE DEF x
    <3>2. [i \in 1 .. Len(es) |-> x(i)] = <<t>>
      BY <3>1
    <3> QED BY <3>2 DEF x
  <2>2. a \o <<t>> = Append(a, t)
    BY <1>5, <1>11, <1>12
  <2> QED BY <1>9, <1>12, <2>1, <2>2
<1>14. PICK more : more = Append(a, t)
  OBVIOUS
<1>15. Adds(more, t)
  <2>1. Below(a, t) /\ Ascending(a) /\ a \in Seq(Nat)
    BY <1>1, <1>3, <1>11, <1>12 DEF Relay, Observing, Ledgers
  <2>2. /\ Ascending(more) /\ Below(more, t + 1) /\ Contains(more, t)
        /\ \A u : Contains(a, u) => Contains(more, u)
    BY <1>5, <1>14, <2>1, AscendingGrows
  <2>3. more \in Seq(Nat) /\ Len(more) = Len(a) + 1 /\ Len(a) \in Nat
        /\ more[Len(a) + 1] = t /\ \A i \in 1 .. Len(a) : more[i] = a[i]
    BY <1>5, <1>14, <2>1, NumberAdded
  <2>4. \A i \in 1 .. Len(more) : more[i] = t \/ \E j \in 1 .. Len(a) : more[i] = a[j]
    <3> TAKE i \in 1 .. Len(more)
    <3>1. i = Len(a) + 1 \/ i \in 1 .. Len(a)
      BY <2>3
    <3> QED BY <2>3, <3>1
  <2> QED BY <1>5, <1>11, <1>12, <1>14, <2>2, <2>3, <2>4 DEF Adds
<1>16. Telling' = more
  <2>1. OutTurns(batch.out)' = <<>>
    BY <1>4 DEF OutTurns
  <2>2. more \in Seq(Nat) /\ LogTurns' = more
    BY <1>13, <1>14, <1>15 DEF Adds
  <2>3. more \o <<>> = more
    BY <2>2
  <2> QED BY <2>1, <2>2, <2>3 DEF Telling
<1>17. Ledgers(s)'
  <2>1. \A i \in 1 .. Len(log') : TurnOf(log[i])' # 0
    BY <1>3, <1>9, <1>10, <1>11 DEF Ledgers
  <2>2. \A i \in 1 .. Len(log') : log'[i].via = "screen" => length'[log'[i].asked] = 0
    BY <1>3, <1>4, <1>5, <1>9, <1>10, <1>11 DEF Ledgers
  <2>3. \A i \in 1 .. Len(batch'.out) : IsReply(batch.out[i])'
    BY <1>4
  <2>4. Ascending(Telling)'
    BY <1>15, <1>16 DEF Adds, Ascending
  <2>5. Over(s, t)
    BY <1>3 DEF Over
  <2>6. \A i \in 1 .. Len(more) : Over(s, more[i])
    BY <1>11, <1>15, <2>5 DEF Adds, Ledgers
  <2>7. \A i \in 1 .. Len(Telling') : Over(s, Telling[i])'
    BY <1>4, <1>16, <2>6 DEF Over
  <2> QED BY <2>1, <2>2, <2>3, <2>4, <2>7 DEF Ledgers
<1> QED BY <1>1, <1>12, <1>13, <1>15, <1>16, <1>17

(* The screen fallback closes the turn. *)
LEMMA ScreenRelay ==
  ASSUME IInv, Benign, NEW s \in Session, Session = {s}, Relay(s), CloseByScreen
  PROVE  Relay(s)'
<1>1. PICK q : q = rows[Home(s)]
  OBVIOUS
<1>2. /\ BatchDone /\ Leave(batch.who) /\ PrimeToEof(s, GateAcc) /\ batch.who = s
      /\ ~Closes /\ batch.out = <<>> /\ inbox[s] = 0 /\ ~half[Home(s)]
      /\ cli[s].turn = asked[s] /\ asked[s] # 0
      /\ Tracks(s) /\ Tracking(s, q) /\ Passed(s) = Len(q) /\ IsConversation(Home(s))
      /\ Tip(s) = LastRead(q, Len(q)) /\ Tip(s) \in 1 .. Len(q) /\ q[Tip(s)].turn = asked[s]
      /\ q[Tip(s)].kind \in Ended
  BY <1>1, ScreenSees
<1>3. PICK t : t = asked[s]
  OBVIOUS
<1>4. Ledgers(s)' /\ \E more : Telling' = more /\ Adds(more, t)
  BY <1>3, ScreenTold
<1>5. PICK more : Telling' = more /\ Adds(more, t)
  BY <1>4
<1>6. PICK l : l = Tip(s)
  OBVIOUS
<1>7. l = LastRead(q, Len(q)) /\ l # 0 /\ q[l].kind \in Ended /\ q[l].turn = t
  BY <1>2, <1>3, <1>6
<1>8. Below(Telling, q[l].turn + 1)'
  BY <1>5, <1>7 DEF Adds, Below
<1>9. ASSUME NEW i \in 1 .. Len(q), q[i].kind = "textEnd", q[i].turn # 0
      PROVE  Contains(Telling, q[i].turn)'
  <2>1. Contains(Telling, q[i].turn) \/ i = l
    BY <1>2, <1>6, <1>9 DEF Tracking, Relayed1
  <2>2. Contains(more, q[i].turn)
    BY <1>5, <1>7, <2>1 DEF Adds
  <2> QED BY <1>5, <2>2 DEF Contains
<1>10. observing'[s] = FALSE
  BY <1>2 DEF CloseByScreen, IInv, TypeOK
<1>11. cli[s].turn # 0
  BY <1>2
<1> QED BY <1>1, <1>2, <1>4, <1>7, <1>8, <1>9, <1>10, <1>11, PrimeRelay
-----------------------------------------------------------------------------
(* The invariant. *)
LEMMA InitRelay ==
  ASSUME Init, NEW s \in Session
  PROVE  Relay(s)
<1>1. PICK old \in SUBSET File : TranscriptInit(old)
  BY DEF Init
<1>2. History # <<>>
  <2>1. Len(History) = 2 /\ Len(<<>>) = 0
    BY DEF History
  <2> QED BY <2>1
<1>3. /\ \A f \in File : rows[f] = (IF f \in old THEN History ELSE <<>>)
      /\ \A f \in File : half[f] = FALSE
  <2> HIDE DEF History
  <2> QED BY <1>1 DEF TranscriptInit
<1>4. Existing = old
  <2> HIDE DEF History
  <2> QED BY <1>2, <1>3 DEF Existing
<1>5. /\ cli[s].turn = 0 /\ cli[s].n = 0 /\ cli[s].stage = "prompt" /\ Home(s) = NoFile
      /\ inbox[s] = 0 /\ nextTurn = 1 /\ \A t \in 1 .. MaxTurn : length[t] = 0
  BY DEF Init, CliInit, Home
<1>6. /\ excluded[s] = {} /\ file[s] = NoFile /\ pos[s] = 0 /\ atPinFiles[s] = {}
      /\ pinned[s] = FALSE /\ touched[s] = {} /\ pinnedId[s] = NoFile /\ hint[s] = NoFile
      /\ acc[s] = EmptyAcc /\ batch = Idle /\ live = {} /\ observing[s] = FALSE /\ log = <<>>
  BY DEF Init, WatcherInit
<1>7. Directory(s)
  <2>1. IsOrder(newer, old)
    <3>1. newer \in SUBSET (old \X old)
      BY <1>1 DEF TranscriptInit
    <3>2. \A f, g \in old : f # g => (<<f, g>> \in newer) # (<<g, f>> \in newer)
      BY <1>1 DEF TranscriptInit
    <3>3. \A f, g, h \in old : /\ <<f, f>> \notin newer
                               /\ <<f, g>> \in newer /\ <<g, h>> \in newer => <<f, h>> \in newer
      BY <1>1 DEF TranscriptInit
    <3>4. \A f, g \in old : f # g => <<f, g>> \in newer \/ <<g, f>> \in newer
      <4> SUFFICES ASSUME NEW f \in old, NEW g \in old, f # g, <<f, g>> \notin newer
                   PROVE  <<g, f>> \in newer
        OBVIOUS
      <4>1. (<<f, g>> \in newer) # (<<g, f>> \in newer)
        BY <3>2
      <4>2. (<<f, g>> \in newer) = FALSE
        OBVIOUS
      <4> QED BY <4>1, <4>2
    <3>5. \A f \in old : <<f, f>> \notin newer
      BY <3>3
    <3>6. \A f, g, h \in old : <<f, g>> \in newer /\ <<g, h>> \in newer => <<f, h>> \in newer
      BY <3>3
    <3> QED BY <3>1, <3>4, <3>5, <3>6 DEF IsOrder
  <2>2. \A f \in Existing \ {Home(s)} : Stranger(s, f)
    <3> TAKE f \in Existing \ {Home(s)}
    <3>1. f \in File /\ f \in old
      BY <1>4 DEF Existing
    <3>2. rows[f] = History /\ ~half[f]
      BY <1>3, <3>1
    <3> QED BY <1>5, <1>6, <3>2 DEF Stranger
  <2> QED BY <1>4, <2>1, <2>2 DEF Directory
<1>8. Cli(s) /\ Numbers(s)
  BY <1>5 DEF Cli, Unused, Script, Numbers
<1>9. batch.out = <<>> /\ ~batch.completed /\ batch.next = 1 /\ batch.upto = 0
      /\ batch.of = NoFile /\ batch.who = NoSession
  BY <1>6 DEF Idle, Nothing
<1>10. Ledgers(s)
  <2>1. Len(log) = 0 /\ Len(batch.out) = 0
    BY <1>6, <1>9
  <2>2. LogTurns = <<>> /\ OutTurns(batch.out) = <<>>
    BY <1>6, <1>9 DEF LogTurns, OutTurns
  <2>3. Telling = <<>> /\ Len(Telling) = 0
    BY <2>2 DEF Telling
  <2> QED BY <2>1, <2>3 DEF Ledgers, Ascending
<1>11. Watcher(s)
  <2>1. Blank(s)
    BY <1>6, <1>9 DEF Blank, Stopped, EmptyAcc
  <2>2. ~Tracks(s)
    BY <1>6 DEF Tracks
  <2>3. batch.who # s
    BY <1>9, SessionAssumption
  <2>4. Away(s)
    BY <1>5, <1>6, <1>9, <2>1, <2>3 DEF Away, Size
  <2> QED BY <1>5, <1>6, <1>9, <2>1, <2>2, <2>4 DEF Watcher
<1>12. Observing(s) /\ NotLive(s)
  BY <1>5, <1>6 DEF Observing, NotLive
<1> QED BY <1>7, <1>8, <1>10, <1>11, <1>12 DEF Relay

(* A step of another module leaves it alone. *)
LEMMA StutterRelay ==
  ASSUME IInv, NEW s \in Session, Relay(s), UNCHANGED vars
  PROVE  Relay(s)'
<1>1. /\ UNCHANGED transcriptVars /\ UNCHANGED watcherVars /\ UNCHANGED cliVars
      /\ UNCHANGED monitorVars
  BY DEF vars
<1>2. UNCHANGED <<rows, half, newer, touched, excluded, acc, batch, cli, inbox, nextTurn, length,
                  live, observing, asked, log>>
  BY <1>1 DEF transcriptVars, watcherVars, cliVars, monitorVars
<1>3. UNCHANGED <<file, pos, atPinFiles, pinned, pinnedId, hint>>
  BY <1>1 DEF watcherVars, pinVars
<1>4. WorldSame(s)
  BY <1>1, <1>2 DEF WorldSame
<1>5. /\ Directory(s)' /\ Cli(s)' /\ Onward(s) /\ Existing' = Existing /\ Home(s)' = Home(s)
      /\ \A f : Size(f)' = Size(f) /\ Whole(f)' = Whole(f)
      /\ \A f, n : ConversationSince(f, n)' = ConversationSince(f, n)
  BY <1>4, WorldStays
<1>6. Ledgers(s)' /\ EnvSame(s)
  BY <1>2, <1>3, <1>5, EnvLedgers DEF Relay, EnvSame
<1>7. Numbers(s)' /\ NotLive(s)'
  BY <1>2, <1>3, <1>5 DEF Relay, Numbers, NotLive, Idle, Nothing
<1>8. Observing(s)'
  BY <1>2, <1>3, <1>5, <1>6 DEF Relay, Observing, EnvSame, Below
<1>9. Blank(s) => Blank(s)'
  BY <1>6, BlankStays
<1>10. Tracks(s)' = Tracks(s)
  BY <1>3, <1>5 DEF Tracks
<1>11. ASSUME Tracks(s) PROVE Tracking(s, rows[Home(s)])'
  <2>1. PICK q : q = rows[Home(s)]
    OBVIOUS
  <2>2. Tracking(s, q)
    BY <1>11, <2>1 DEF Relay, Watcher
  <2>3. Passed(s)' = Passed(s)
    BY <1>2, <1>3 DEF Passed
  <2>4. Cursor(s, q)'
    BY <1>2, <1>3, <1>5, <2>2 DEF Tracking, Cursor
  <2>5. (IF LastRead(q, Passed(s)) = 0 THEN Blank(s) ELSE Holding(s, q[LastRead(q, Passed(s))]))'
    BY <1>6, <1>9, <2>2, <2>3, HoldingStays DEF Tracking
  <2>6. News(s, q, Passed(s))' /\ Relayed1(s, q, Passed(s))'
    BY <1>2, <1>6, <2>2, <2>3 DEF Tracking, News, Relayed1, EnvSame, Contains
  <2>7. Tracking(s, q)'
    BY <1>2, <1>3, <2>2, <2>4, <2>5, <2>6 DEF Tracking
  <2>8. q = rows'[Home(s)']
    BY <1>2, <1>5, <2>1
  <2> QED BY <2>7, <2>8
<1>12. ASSUME ~Tracks(s) PROVE Away(s)'
  <2>1. Away(s)
    BY <1>12 DEF Relay, Watcher
  <2>2. Blank(s)' /\ Title' = Title
    BY <1>9, <2>1 DEF Away, Title
  <2>3. (pinned'[s] \/ file'[s] = NoFile) /\ Home(s)' # NoFile => News(s, rows[Home(s)], 0)'
    BY <1>2, <1>3, <1>5, <2>1 DEF Away, News
  <2> QED BY <1>2, <1>3, <1>5, <2>1, <2>2, <2>3 DEF Away
<1>13. Watcher(s)'
  <2>1. cli'[s].turn = 0 => Blank(s)'
    BY <1>2, <1>9 DEF Relay, Watcher
  <2> QED BY <1>2, <1>3, <1>5, <1>10, <1>11, <1>12, <2>1 DEF Relay, Watcher, Idle, Nothing
<1> QED BY <1>5, <1>6, <1>7, <1>8, <1>13 DEF Relay

(* Every step keeps the invariant. *)
LEMMA NextRelay ==
  ASSUME IInv, Benign, NEW s \in Session, Session = {s}, Relay(s), [Next]_vars
  PROVE  Relay(s)'
<1>1. CASE CliWrites
  BY <1>1, CliWritesRelay
<1>2. CASE StartTick
  BY <1>2, TickRelay
<1>3. CASE \E o \in Session : Spawn(o) \/ Send(o) \/ Visit(o)
  <2>1. Spawn(s) \/ Send(s) \/ Visit(s)
    BY <1>3
  <2> QED BY <2>1, SpawnRelay, SendRelay, VisitRelay
<1>4. CASE ReadStep
  BY <1>4, ReadRelay
<1>5. CASE CloseQuiet \/ CloseOrganic \/ CloseObserved \/ CloseByScreen
  BY <1>5, QuietRelay, OrganicRelay, ObservedRelay, ScreenRelay
<1>6. CASE UNCHANGED vars
  BY <1>6, StutterRelay
<1> QED BY <1>1, <1>2, <1>3, <1>4, <1>5, <1>6 DEF Next
-----------------------------------------------------------------------------
(* The theorems. *)
Lone == \E s \in Session : Session = {s}

(* What the watcher of a session alone in its directory holds, and what it *)
(* has relayed, are at every moment what the rows it has read say.         *)
THEOREM RelayFollowsRows ==
  ASSUME Benign, Lone
  PROVE  Spec => []AllRelay
<1>1. Init => AllRelay
  BY InitRelay DEF AllRelay
<1>2. IInv /\ AllRelay /\ [Next]_vars => AllRelay'
  <2> SUFFICES ASSUME IInv, AllRelay, [Next]_vars PROVE AllRelay'
    OBVIOUS
  <2>1. PICK s \in Session : Session = {s}
    BY DEF Lone
  <2>2. Relay(s)
    BY <2>1 DEF AllRelay
  <2>3. Relay(s)'
    BY <2>1, <2>2, NextRelay
  <2> QED BY <2>1, <2>3 DEF AllRelay
<1> QED BY <1>1, <1>2, Inductive, PTL DEF Spec

(* A completion taken from a transcript carries all of one turn's reply    *)
(* and nothing else, however the rows of the turn are cut by polls, tool   *)
(* calls, interrupts, thinking rows and forks of a resumed transcript.     *)
THEOREM EveryReplyWhole ==
  ASSUME Benign, Lone
  PROVE  Spec => []RepliesWhole
<1>1. AllRelay => RepliesWhole
  BY DEF Lone, AllRelay, Relay, Ledgers, RepliesWhole
<1> QED BY <1>1, RelayFollowsRows, PTL

(* Turns are relayed in the order they ran, each at most once, whichever   *)
(* of the observed, the organic and the screen path closes them.           *)
InOrder == \A i, j \in DOMAIN log : i < j => TurnOf(log[i]) < TurnOf(log[j])

(* The order of the turns told is that of the log. *)
LEMMA Ordered ==
  ASSUME IInv, NEW s \in Session, Relay(s)
  PROVE  InOrder /\ NoTurnTwice
<1>1. /\ Telling \in Seq(Nat) /\ LogTurns \in Seq(Nat)
      /\ Len(LogTurns) = Len(log) /\ Len(log) \in Nat
      /\ \A i \in 1 .. Len(LogTurns) : i \in 1 .. Len(Telling) /\ Telling[i] = LogTurns[i]
  BY Told DEF Relay
<1>2. Ascending(Telling)
  BY DEF Relay, Ledgers
<1>3. DOMAIN log = 1 .. Len(log)
  BY Typed
<1>4. \A i \in DOMAIN log : LogTurns[i] = TurnOf(log[i])
  BY <1>3 DEF LogTurns
<1>5. \A i, j \in DOMAIN log : i < j => LogTurns[i] < LogTurns[j]
  BY <1>1, <1>2, <1>3 DEF Ascending
<1>6. \A i \in DOMAIN log : LogTurns[i] \in Nat
  BY <1>1, <1>3
<1>7. InOrder
  BY <1>4, <1>5 DEF InOrder
<1>8. NoTurnTwice
  <2> SUFFICES ASSUME NEW i \in DOMAIN log, NEW j \in DOMAIN log,
                      TurnOf(log[i]) = TurnOf(log[j]), i # j
               PROVE  FALSE
    BY DEF NoTurnTwice
  <2>1. LogTurns[i] = LogTurns[j]
    BY <1>4
  <2>2. i < j \/ j < i
    BY <1>1, <1>3
  <2> QED BY <1>5, <1>6, <2>1, <2>2
<1> QED BY <1>7, <1>8

(* The log is in the order the turns ran.                                 *)
THEOREM RelaysInOrder ==
  ASSUME Benign, Lone
  PROVE  Spec => []InOrder
<1>1. IInv /\ AllRelay => InOrder
  BY Ordered DEF Lone, AllRelay
<1> QED BY <1>1, Inductive, RelayFollowsRows, PTL

(* No turn is relayed twice.                                               *)
THEOREM NoReplyTwice ==
  ASSUME Benign, Lone
  PROVE  Spec => []NoTurnTwice
<1>1. IInv /\ AllRelay => NoTurnTwice
  BY Ordered DEF Lone, AllRelay
<1> QED BY <1>1, Inductive, RelayFollowsRows, PTL

(* The screen fallback closes only turns whose transcript has no reply and *)
(* never will: it does not race the rows.                                  *)
THEOREM ScreenOnlyForSilent ==
  ASSUME Benign, Lone
  PROVE  Spec => []ScreenIsLastResort
<1>1. IInv /\ AllRelay => ScreenIsLastResort
  <2> SUFFICES ASSUME IInv, AllRelay PROVE ScreenIsLastResort
    OBVIOUS
  <2>1. PICK s \in Session : Relay(s)
    BY DEF Lone, AllRelay
  <2>2. DOMAIN log = 1 .. Len(log)
    BY <2>1, Typed
  <2> QED BY <2>1, <2>2 DEF Relay, Ledgers, ScreenIsLastResort
<1> QED BY <1>1, Inductive, RelayFollowsRows, PTL

(* Once its cursor is at the end, everything its CLI replied is relayed.   *)
LEMMA AllRelayed ==
  ASSUME IInv, NEW s \in Session, Relay(s), Free, CaughtUp(s), NEW t \in 1 .. MaxTurn,
         length[t] # 0
  PROVE  Relays(t)
<1>1. PICK q : q = rows[Home(s)]
  OBVIOUS
<1>2. Home(s) # NoFile /\ \E i \in 1 .. Len(q) : q[i].kind = "textEnd" /\ q[i].turn = t
  BY <1>1 DEF Relay, Cli, Replied
<1>3. /\ file[s] = Home(s) /\ pos[s] >= Size(Home(s)) /\ ~half[Home(s)]
  BY <1>2 DEF CaughtUp, CliAt, Home
<1>4. q \in Seq(Row) /\ Len(q) \in Nat /\ Size(Home(s)) = 2 * Len(q)
  <2>1. q \in Seq(Row)
    BY <1>1, <1>2, Typed
  <2>2. Size(Home(s)) = 2 * Len(q) - 0
    BY <1>1, <1>2, <1>3 DEF Size
  <2> QED BY <2>1, <2>2
<1>5. Tracking(s, q)
  BY <1>1, <1>2, <1>3 DEF Relay, Watcher, Tracks
<1>6. batch.next = 1 /\ batch.upto = 0 /\ batch.of = NoFile /\ batch.out = <<>>
  BY DEF Free, Idle, Nothing
<1>7. Passed(s) = Len(q)
  <2>1. pos[s] \in Nat /\ pos[s] <= 2 * Len(q) /\ pos[s] >= 2 * Len(q)
    BY <1>3, <1>4, Typed
  <2>2. pos[s] + 1 = 2 * Len(q) + 1
    BY <1>4, <2>1
  <2>3. Passed(s) = (pos[s] + 1) \div 2
    BY <1>6 DEF Passed
  <2> QED BY <1>4, <2>2, <2>3
<1>8. PICK i \in 1 .. Len(q) : q[i].kind = "textEnd" /\ q[i].turn = t
  BY <1>2
<1>9. Contains(Telling, t)
  <2> SUFFICES ASSUME ~Contains(Telling, t) PROVE FALSE
    OBVIOUS
  <2>1. i = LastRead(q, Passed(s)) /\ acc[s].parts # <<>>
    BY <1>5, <1>7, <1>8 DEF Tracking, Relayed1
  <2>2. Holding(s, q[i])
    BY <1>5, <1>8, <2>1 DEF Tracking
  <2> QED BY <1>6, <1>8, <2>1, <2>2 DEF Holding
<1>10. Telling = LogTurns /\ DOMAIN log = 1 .. Len(log)
  BY <1>6, Told, Typed DEF Relay
<1>11. PICK k \in 1 .. Len(LogTurns) : LogTurns[k] = t
  BY <1>9, <1>10 DEF Contains
<1>12. k \in DOMAIN log /\ TurnOf(log[k]) = t
  <2>1. Len(LogTurns) = Len(log) /\ Len(log) \in Nat
    BY Told DEF Relay
  <2> QED BY <1>10, <1>11, <2>1 DEF LogTurns
<1> QED BY <1>12 DEF Relays

(* No cursor moves past a reply: once the daemon has read all its CLI      *)
(* wrote, every reply has been relayed.                                    *)
THEOREM NoReplyLost ==
  ASSUME Benign, Lone
  PROVE  Spec => []NothingLost
<1>1. IInv /\ AllRelay => NothingLost
  BY AllRelayed DEF AllRelay, NothingLost, IInv, TypeOK
<1> QED BY <1>1, Inductive, RelayFollowsRows, PTL
-----------------------------------------------------------------------------
(* TurnRelay keeps the promise of TurnLedger.                              *)

(* The turns of a transcript come one after the other. *)
LEMMA TurnsRise ==
  ASSUME NEW q \in Seq(Row), Chained(q), Rising(q), NEW i \in 1 .. Len(q), NEW j \in 1 .. Len(q),
         i <= j, q[i].kind # "meta", q[j].kind # "meta"
  PROVE  q[i].turn <= q[j].turn
<1> DEFINE K == {k \in 1 .. Len(q) : i <= k /\ q[k].kind # "meta" /\ ~(q[i].turn <= q[k].turn)}
<1>1. SUFFICES ASSUME K # {} PROVE FALSE
  OBVIOUS
<1>2. \A k \in 1 .. Len(q) : q[k].turn \in Nat
  BY RowIs, TurnAssumption DEF Turn
<1>3. K \in SUBSET Nat
  OBVIOUS
<1>4. PICK k \in K : \A m \in K : k <= m
  BY <1>1, <1>3, LeastNumber
<1>5. /\ k \in 1 .. Len(q) /\ i <= k /\ q[k].kind # "meta" /\ ~(q[i].turn <= q[k].turn)
      /\ k # i
  BY <1>2, <1>4
<1>6. k \in 2 .. Len(q) /\ k - 1 \in 1 .. Len(q) /\ i <= k - 1 /\ k - 1 < k
  BY <1>5
<1>7. \A m \in 1 .. Len(q) : i <= m /\ m < k /\ q[m].kind # "meta" => q[i].turn <= q[m].turn
  BY <1>4
<1>8. \A m \in 1 .. Len(q) : i <= m /\ m < k => q[m].kind \notin Ended
  <2> SUFFICES ASSUME NEW m \in 1 .. Len(q), i <= m, m < k, q[m].kind \in Ended PROVE FALSE
    OBVIOUS
  <2>1. q[i].turn <= q[m].turn
    BY <1>7 DEF Ended
  <2>2. q[m].turn < q[k].turn
    BY <1>5 DEF Rising
  <2>3. q[i].turn \in Nat /\ q[m].turn \in Nat /\ q[k].turn \in Nat
    BY <1>2, <1>5
  <2> QED BY <1>5, <2>1, <2>2, <2>3
<1> HIDE DEF K
<1>9. q[k - 1].kind # "meta"
  <2> SUFFICES ASSUME q[k - 1].kind = "meta" PROVE FALSE
    OBVIOUS
  <2>1. k - 1 # i /\ k - 1 # 1
    BY <1>6
  <2>2. (k - 1) - 1 \in 1 .. Len(q) /\ q[(k - 1) - 1].kind \in Ended
    BY <1>6, <2>1, MetaFollows
  <2>3. i <= (k - 1) - 1 /\ (k - 1) - 1 < k
    BY <1>6, <2>1
  <2> QED BY <1>8, <2>2, <2>3
<1>10. q[k].turn = q[k - 1].turn
  <2>1. Follows(q[k - 1], q[k])
    BY <1>6 DEF Chained
  <2>2. q[k - 1].kind \notin Ended
    BY <1>6, <1>8
  <2> QED BY <1>5, <1>9, <2>1, <2>2 DEF Follows, Ended, Said
<1> QED BY <1>5, <1>6, <1>7, <1>9, <1>10

(* No more turns can be told in order than there are. *)
LEMMA AscendingIsShort ==
  ASSUME NEW q \in Seq(Nat), Ascending(q), NEW N \in Nat, \A i \in 1 .. Len(q) : q[i] \in 1 .. N
  PROVE  Len(q) <= N
<1> DEFINE K == {i \in 1 .. Len(q) : q[i] < i}
<1>1. K = {}
  <2> SUFFICES ASSUME K # {} PROVE FALSE
    OBVIOUS
  <2>1. K \in SUBSET Nat
    OBVIOUS
  <2>2. PICK i \in K : \A m \in K : i <= m
    BY <2>1, LeastNumber
  <2>3. i \in 1 .. Len(q) /\ q[i] < i /\ q[i] \in 1 .. N
    BY <2>2
  <2>4. i # 1
    BY <2>3
  <2>5. PICK h \in 1 .. Len(q) : h = i - 1
    BY <2>3, <2>4
  <2>6. h < i /\ h \in Nat /\ i \in Nat
    BY <2>3, <2>5
  <2>7. q[h] < q[i] /\ q[h] \in Nat /\ q[i] \in Nat
    BY <2>3, <2>6 DEF Ascending
  <2>8. ~(q[h] < h)
    BY <2>2, <2>6
  <2> HIDE DEF K
  <2> QED BY <2>3, <2>5, <2>6, <2>7, <2>8
<1>2. CASE Len(q) = 0
  BY <1>2
<1>3. CASE Len(q) # 0
  <2>1. Len(q) \in 1 .. Len(q)
    BY <1>3
  <2>2. ~(q[Len(q)] < Len(q)) /\ q[Len(q)] \in 1 .. N
    BY <1>1, <2>1
  <2> QED BY <2>1, <2>2
<1> QED BY <1>2, <1>3

(* What a visit that relays the turns closed tells. *)
Telled(s) ==
  /\ BatchDone /\ batch.who = s /\ GateOut # <<>> /\ Ledgers(s)' /\ Tells(GateOut)
  /\ Telling' = LogTurns'
  /\ ~Closes => Telling' = Telling
  /\ Closes => \E q, p, l, more : /\ ClosesAt(s, q, p, l)
                                  /\ Telling' = more /\ Adds(more, q[l].turn)
  /\ observing[s] => GateOut[1][1].turn = asked[s]
  /\ observing'[s] = FALSE

(* That is what CloseOrganic and CloseObserved tell. *)
LEMMA CloseTells ==
  ASSUME IInv, NEW s \in Session, Session = {s}, Relay(s), CloseOrganic \/ CloseObserved
  PROVE  Telled(s)
<1>1. /\ BatchDone /\ Leave(batch.who) /\ GateOut # <<>>
      /\ log' = log \o Relayed(batch.who, GateOut)
  BY DEF CloseOrganic, CloseObserved
<1>2. batch.who = s
  BY <1>1, LeaveIs DEF Leaving
<1>3. PICK c : c = acc[s].parts
  OBVIOUS
<1>4. c \in Seq(Part) /\ observing \in [Session -> BOOLEAN]
  BY <1>3, Typed DEF IInv, TypeOK
<1>5. ASSUME Closes
      PROVE  \E q, p, l : /\ ClosesAt(s, q, p, l)
                          /\ IsReply(c) /\ c[1].turn = q[l].turn
                          /\ Below(Telling, c[1].turn) /\ Over(s, c[1].turn)
  <2>1. PICK q, p, l : ClosesAt(s, q, p, l)
    BY <1>1, <1>2, <1>5, ClosesReply
  <2>2. /\ IsReply(c) /\ c[1].turn = q[l].turn
        /\ Below(Telling, c[1].turn) /\ Over(s, c[1].turn)
    BY <1>3, <2>1 DEF ClosesAt, Building
  <2> QED BY <2>1, <2>2
<1>6. observing[s] => Closes /\ GateOut = <<c>>
  <2> SUFFICES ASSUME observing[s] PROVE Closes /\ GateOut = <<c>>
    OBVIOUS
  <2>1. batch.out = <<>>
    BY DEF Relay, Observing
  <2>2. Closes /\ GateOut = Append(<<>>, c)
    BY <1>1, <1>2, <1>3, <2>1, GateIs
  <2> QED BY <1>4, <2>2
<1>7. observing[s] => Len(GateOut) = 1
  BY <1>4, <1>6
<1>8. /\ Ledgers(s)' /\ Telling' = LogTurns' /\ Tells(GateOut)
      /\ ~Closes => Telling' = Telling
      /\ Closes => \E more : Telling' = more /\ Adds(more, c[1].turn)
  <2>1. Closes => IsReply(c) /\ Below(Telling, c[1].turn) /\ Over(s, c[1].turn)
    BY <1>5
  <2> QED BY <1>1, <1>2, <1>3, <1>7, <2>1, GateTold
<1>9. ASSUME Closes
      PROVE  \E q, p, l, more : ClosesAt(s, q, p, l) /\ Telling' = more /\ Adds(more, q[l].turn)
  <2>1. PICK q, p, l : ClosesAt(s, q, p, l) /\ c[1].turn = q[l].turn
    BY <1>5, <1>9
  <2>2. PICK more : Telling' = more /\ Adds(more, c[1].turn)
    BY <1>8, <1>9
  <2> QED BY <2>1, <2>2
<1>10. observing[s] => GateOut[1][1].turn = asked[s]
  <2> SUFFICES ASSUME observing[s] PROVE GateOut[1][1].turn = asked[s]
    OBVIOUS
  <2>1. PICK q, p, l : ClosesAt(s, q, p, l) /\ c[1].turn = q[l].turn
    BY <1>5, <1>6
  <2>2. q[l].turn = asked[s]
    BY <2>1, ClosesLast
  <2>3. GateOut[1] = c
    BY <1>6
  <2> QED BY <2>1, <2>2, <2>3
<1>11. observing'[s] = FALSE
  BY <1>2, <1>4 DEF CloseOrganic, CloseObserved
<1> QED BY <1>1, <1>2, <1>8, <1>9, <1>10, <1>11 DEF Telled

(* A reply not told yet that is not told now comes after those that are. *)
LEMMA OldestFirst ==
  ASSUME IInv, NEW s \in Session, Relay(s), Telled(s), NEW u \in 1 .. MaxTurn, length[u] # 0
  PROVE  Contains(LogTurns, u)' \/ Below(LogTurns, u)'
<1>1. ~Blank(s)
  <2>1. Closes => acc[s].parts # <<>>
    BY GateIs DEF Telled
  <2>2. ~Closes => batch.out # <<>>
    BY GateIs DEF Telled
  <2> QED BY <2>1, <2>2 DEF Blank
<1>2. Tracks(s)
  BY <1>1 DEF Relay, Watcher, Away
<1>3. PICK q : q = rows[Home(s)]
  OBVIOUS
<1>4. PICK p : p = Passed(s)
  OBVIOUS
<1>5. PICK l : l = LastRead(q, p)
  OBVIOUS
<1>6. Tracking(s, q) /\ Home(s) # NoFile
  BY <1>2, <1>3 DEF Relay, Watcher, Tracks
<1>7. q \in Seq(Row) /\ Chained(q) /\ Rising(q)
  BY <1>3, <1>6, Typed DEF Relay, Cli, Script, Existing
<1>8. p \in 0 .. Len(q) /\ Len(q) \in Nat
  <2>1. Cursor(s, rows[Home(s)])
    BY <1>3, <1>6 DEF Tracking
  <2> QED BY <1>2, <1>3, <1>4, <2>1, PassedIs DEF Tracks
<1>9. l \in 0 .. p /\ (l # 0 => q[l].kind # "meta")
  BY <1>5, <1>7, <1>8, LastReadIs
<1>10. l # 0 /\ Holding(s, q[l])
  BY <1>1, <1>4, <1>5, <1>6 DEF Tracking
<1>11. l \in 1 .. p /\ l \in 1 .. Len(q) /\ q[l].kind # "meta" /\ q[l].turn \in Nat
  <2>1. l \in 1 .. p /\ l \in 1 .. Len(q)
    BY <1>8, <1>9, <1>10
  <2> QED BY <1>7, <1>9, <1>10, <2>1, RowIs, TurnAssumption DEF Turn
<1>12. PICK i \in 1 .. Len(q) : q[i].kind = "textEnd" /\ q[i].turn = u
  BY <1>3 DEF Relay, Cli, Replied
<1>13. PICK all : all = Telling'
  OBVIOUS
<1>14. /\ ~Closes => all = Telling
       /\ Closes => q[l].kind = "textEnd" /\ Adds(all, q[l].turn)
  <2>1. ASSUME Closes PROVE q[l].kind = "textEnd" /\ Adds(all, q[l].turn)
    <3>1. PICK qq, pp, ll, more : ClosesAt(s, qq, pp, ll) /\ Telling' = more /\ Adds(more, qq[ll].turn)
      BY <2>1 DEF Telled
    <3>2. qq = q /\ pp = p /\ ll = l /\ more = all
      BY <1>3, <1>4, <1>5, <1>13, <3>1 DEF ClosesAt
    <3> QED BY <3>1, <3>2 DEF ClosesAt
  <2> QED BY <1>13, <2>1 DEF Telled
<1>15. CASE i <= p
  <2>1. Contains(Telling, u) \/ (i = l /\ acc[s].parts # <<>>)
    BY <1>4, <1>5, <1>6, <1>12, <1>15 DEF Tracking, Relayed1
  <2>2. ASSUME Contains(Telling, u) PROVE Contains(all, u)
    <3>1. CASE Closes
      <4>1. Adds(all, q[l].turn)
        BY <1>14, <3>1
      <4>2. \A v : Contains(Telling, v) => Contains(all, v)
        BY <4>1 DEF Adds
      <4> QED BY <2>2, <4>2
    <3>2. CASE ~Closes
      BY <1>14, <2>2, <3>2
    <3> QED BY <3>1, <3>2
  <2>3. ASSUME i = l, acc[s].parts # <<>> PROVE Contains(all, u)
    <3>1. batch.of # NoFile /\ Stopped(s)
      BY <1>10, <1>12, <2>3 DEF Holding
    <3>2. Closes
      BY <2>3, <3>1, GateIs DEF Telled
    <3>3. Adds(all, q[l].turn)
      BY <1>14, <3>2
    <3>4. Contains(all, q[l].turn)
      BY <3>3 DEF Adds
    <3>5. q[l].turn = u
      BY <1>12, <2>3
    <3> QED BY <3>4, <3>5
  <2>4. Contains(all, u)
    BY <2>1, <2>2, <2>3
  <2> QED BY <1>13, <2>4 DEF Telled, Contains
<1>16. CASE ~(i <= p)
  <2>1. l < i /\ l <= i
    BY <1>8, <1>11, <1>12, <1>16
  <2>2. q[l].turn <= u
    BY <1>7, <1>11, <1>12, <2>1, TurnsRise
  <2>3. q[l].kind \in Ended => q[l].turn < u
    BY <1>7, <1>11, <1>12, <2>1 DEF Rising
  <2>4. all \in Seq(Nat)
    <3>1. Telling \in Seq(Nat)
      BY Told DEF Relay
    <3> QED BY <1>14, <3>1 DEF Adds
  <2>5. Below(all, q[l].turn) \/ (Below(all, q[l].turn + 1) /\ q[l].kind \in Ended)
    <3>1. CASE Closes
      BY <1>14, <3>1 DEF Adds, Ended
    <3>2. CASE ~Closes
      <4>1. q[l].kind \in Said \cup {"user", "thinkEnd"} \cup Ended
        <5>1. q[l].kind \in Kind
          BY <1>7, <1>11, RowIs
        <5> QED BY <1>11, <5>1 DEF Kind, Said, Ended
      <4>2. q[l].kind \in Said \cup {"user", "thinkEnd"} => Below(Telling, q[l].turn)
        BY <1>10 DEF Holding, Building
      <4>3. q[l].kind \in Ended => Below(Telling, q[l].turn) \/ Below(Telling, q[l].turn + 1)
        BY <1>10 DEF Holding, Building, Ended
      <4> QED BY <1>14, <3>2, <4>1, <4>2, <4>3
    <3> QED BY <3>1, <3>2
  <2>6. Below(all, u)
    <3> SUFFICES ASSUME NEW k \in 1 .. Len(all) PROVE all[k] < u
      BY DEF Below
    <3>1. all[k] \in Nat
      BY <2>4
    <3>2. CASE Below(all, q[l].turn)
      <4>1. all[k] < q[l].turn
        BY <3>2 DEF Below
      <4> QED BY <1>11, <2>2, <3>1, <4>1
    <3>3. CASE Below(all, q[l].turn + 1) /\ q[l].kind \in Ended
      <4>1. all[k] < q[l].turn + 1
        BY <3>3 DEF Below
      <4>2. q[l].turn \in Nat /\ q[l].turn < u
        BY <1>11, <2>3, <3>3
      <4> QED BY <3>1, <4>1, <4>2
    <3> QED BY <2>5, <3>2, <3>3
  <2> QED BY <1>13, <2>6 DEF Telled, Below
<1> QED BY <1>15, <1>16

(* What TurnLedger speaks of, in the terms of the invariant.               *)
LEMMA LedgerIs ==
  ASSUME IInv, NEW s \in Session, Session = {s}
  PROVE  /\ TurnsTold = LogTurns /\ Awaited = IF observing[s] THEN asked[s] ELSE 0
         /\ \A t : t \in TurnsReplied <=> t \in 1 .. MaxTurn /\ length[t] # 0
<1>1. TheSession = s
  BY DEF TheSession
<1>2. DOMAIN log = 1 .. Len(log)
  BY Typed
<1> QED BY <1>1, <1>2 DEF TurnsTold, LogTurns, Awaited, TurnsReplied

(* The same after a step. *)
LEMMA LedgerIsNext ==
  ASSUME IInv', NEW s \in Session, Session = {s}
  PROVE  /\ TurnsTold' = LogTurns' /\ Awaited' = IF observing'[s] THEN asked'[s] ELSE 0
         /\ \A t : t \in TurnsReplied' <=> t \in 1 .. MaxTurn /\ length'[t] # 0
<1>1. TheSession = s
  BY DEF TheSession
<1>2. log' \in Seq(Complete)
  BY DEF IInv, TypeOK
<1>3. DOMAIN log' = 1 .. Len(log')
  BY <1>2
<1> QED BY <1>1, <1>3 DEF TurnsTold, LogTurns, Awaited, TurnsReplied

(* The turns told, and those with a reply, are over.                       *)
LEMMA LedgerPast ==
  ASSUME IInv, NEW s \in Session, Session = {s}, Relay(s)
  PROVE  /\ Ledger!Told = {LogTurns[i] : i \in 1 .. Len(LogTurns)}
         /\ TurnsTold = LogTurns /\ LogTurns \in Seq(Nat) /\ Ascending(LogTurns)
         /\ \A u \in Ledger!Told : u \in Nat /\ Over(s, u)
         /\ \A u \in TurnsReplied : u \in 1 .. MaxTurn /\ length[u] # 0 /\ Over(s, u)
<1>1. TurnsTold = LogTurns
  BY LedgerIs
<1>2. /\ LogTurns \in Seq(Nat) /\ Telling \in Seq(Nat)
      /\ \A i \in 1 .. Len(LogTurns) : i \in 1 .. Len(Telling) /\ Telling[i] = LogTurns[i]
      /\ Ascending(Telling) /\ \A i \in 1 .. Len(Telling) : Over(s, Telling[i])
  BY Told DEF Relay, Ledgers
<1>3. PICK a : a = LogTurns
  OBVIOUS
<1>4. DOMAIN a = 1 .. Len(a) /\ a \in Seq(Nat)
  BY <1>2, <1>3
<1>5. Ledger!Told = {a[i] : i \in 1 .. Len(a)}
  <2>1. Ledger!Told = {a[i] : i \in DOMAIN a}
    BY <1>1, <1>3 DEF Ledger!Told
  <2> QED BY <1>4, <2>1
<1>6. Ascending(LogTurns)
  BY <1>2 DEF Ascending
<1>7. \A i \in 1 .. Len(a) : a[i] \in Nat /\ Over(s, a[i])
  BY <1>2, <1>3, <1>4
<1>8. \A u \in Ledger!Told : u \in Nat /\ Over(s, u)
  BY <1>5, <1>7
<1>9. \A u \in TurnsReplied : u \in 1 .. MaxTurn /\ length[u] # 0 /\ Over(s, u)
  BY LedgerIs DEF Relay, Cli, Replied
<1> QED BY <1>1, <1>2, <1>3, <1>5, <1>6, <1>8, <1>9

(* At the start nothing was replied, asked or told. *)
LEMMA LedgerStart ==
  ASSUME Init, IInv, NEW s \in Session, Session = {s}
  PROVE  Ledger!Init
<1>1. log = <<>> /\ ~observing[s] /\ \A t \in 1 .. MaxTurn : length[t] = 0
  BY DEF Init, CliInit
<1>2. TurnsReplied = {} /\ Awaited = 0
  BY <1>1, LedgerIs
<1>3. TurnsTold = <<>>
  BY <1>1 DEF TurnsTold
<1> QED BY <1>2, <1>3 DEF Ledger!Init

(* A step that neither closes a turn, asks for one nor finishes one.       *)
LEMMA LedgerStays ==
  ASSUME IInv, IInv', NEW s \in Session, Session = {s},
         length' = length, log' = log, observing' = observing, asked' = asked
  PROVE  UNCHANGED Ledger!ledgerVars
<1>1. TurnsReplied' = TurnsReplied /\ Awaited' = Awaited /\ TurnsTold' = TurnsTold
  BY DEF TurnsReplied, Awaited, TurnsTold, TurnOf, FromTranscript, Reply, TheSession
<1> QED BY <1>1 DEF Ledger!ledgerVars

(* What comes after what was told.                                         *)
LEMMA ComesAfter ==
  ASSUME NEW a \in Seq(Nat), NEW b \in Seq(Nat), Ascending(a \o b)
  PROVE  /\ Ascending(b) /\ \A i \in 1 .. Len(a), j \in 1 .. Len(b) : a[i] < b[j]
         /\ \A u : Contains(a \o b, u) => Contains(a, u) \/ Contains(b, u)
         /\ \A u : Below(a \o b, u) => Below(b, u)
<1>1. /\ Len(a) \in Nat /\ Len(b) \in Nat /\ Len(a \o b) = Len(a) + Len(b)
      /\ \A i \in 1 .. Len(a) : i \in 1 .. Len(a \o b) /\ (a \o b)[i] = a[i]
      /\ \A j \in 1 .. Len(b) : Len(a) + j \in 1 .. Len(a \o b) /\ (a \o b)[Len(a) + j] = b[j]
  OBVIOUS
<1>2. PICK c : c = a \o b
  OBVIOUS
<1>3. Ascending(b)
  <2> SUFFICES ASSUME NEW i \in 1 .. Len(b), NEW j \in 1 .. Len(b), i < j PROVE b[i] < b[j]
    BY DEF Ascending
  <2>1. Len(a) + i < Len(a) + j
    BY <1>1
  <2> QED BY <1>1, <2>1 DEF Ascending
<1>4. \A i \in 1 .. Len(a), j \in 1 .. Len(b) : a[i] < b[j]
  <2> TAKE i \in 1 .. Len(a), j \in 1 .. Len(b)
  <2>1. i < Len(a) + j
    BY <1>1
  <2> QED BY <1>1, <2>1 DEF Ascending
<1>5. ASSUME NEW u, Contains(c, u) PROVE Contains(a, u) \/ Contains(b, u)
  <2>1. PICK k \in 1 .. Len(c) : c[k] = u
    BY <1>5 DEF Contains
  <2>2. k \in 1 .. Len(a) \/ \E j \in 1 .. Len(b) : k = Len(a) + j
    <3>1. CASE k <= Len(a)
      BY <1>1, <1>2, <3>1
    <3>2. CASE ~(k <= Len(a))
      <4>1. k - Len(a) \in 1 .. Len(b) /\ k = Len(a) + (k - Len(a))
        BY <1>1, <1>2, <3>2
      <4> QED BY <4>1
    <3> QED BY <3>1, <3>2
  <2> QED BY <1>1, <1>2, <2>1, <2>2 DEF Contains
<1>6. ASSUME NEW u, Below(c, u) PROVE Below(b, u)
  BY <1>1, <1>2, <1>6 DEF Below
<1> QED BY <1>2, <1>3, <1>4, <1>5, <1>6

(* A visit that relays turns tells the oldest replies not told yet.        *)
LEMMA LedgerTells ==
  ASSUME IInv, IInv', NEW s \in Session, Session = {s}, Relay(s), Telled(s), length' = length
  PROVE  \E n \in 1 .. MaxTurn : Ledger!Tell(n)
<1>1. PICK out : out = GateOut
  OBVIOUS
<1>2. PICK news : news = OutTurns(out)
  OBVIOUS
<1>3. PICK a : a = LogTurns
  OBVIOUS
<1>4. PICK all : all = LogTurns'
  OBVIOUS
<1>5. /\ out # <<>> /\ all = a \o news /\ a \in Seq(Nat) /\ news \in Seq(Nat)
      /\ \A i \in 1 .. Len(out) : IsReply(out[i])
  BY <1>1, <1>2, <1>3, <1>4 DEF Telled, Tells
<1>6. out \in Seq(Seq(Part)) /\ length \in [1 .. MaxTurn -> Nat]
  <2>1. TypeOK /\ BatchDone
    BY DEF IInv, Telled
  <2> QED BY <1>1, <2>1, Typed, GateFacts
<1>7. /\ Len(news) = Len(out) /\ Len(news) \in Nat \ {0} /\ news[1] = out[1][1].turn
      /\ \A i \in 1 .. Len(news) : news[i] = out[i][1].turn
  <2>1. Len(out) \in Nat \ {0}
    BY <1>5, <1>6
  <2>2. Len(news) = Len(out) /\ \A i \in 1 .. Len(out) : news[i] = out[i][1].turn
    BY <1>2, <2>1 DEF OutTurns
  <2>3. 1 \in 1 .. Len(out)
    BY <2>1
  <2> QED BY <2>1, <2>2, <2>3
<1>8. \A i \in 1 .. Len(news) : news[i] \in 1 .. MaxTurn /\ length[news[i]] # 0
  BY <1>5, <1>6, <1>7, ReplyIs
<1>9. Ascending(a \o news)
  <2>1. Ascending(all)
    BY <1>4 DEF Telled, Ledgers, Ascending
  <2> QED BY <1>5, <2>1
<1>10. /\ Ascending(news) /\ \A i \in 1 .. Len(a), j \in 1 .. Len(news) : a[i] < news[j]
       /\ \A u : Contains(a \o news, u) => Contains(a, u) \/ Contains(news, u)
       /\ \A u : Below(a \o news, u) => Below(news, u)
  BY <1>5, <1>9, ComesAfter
<1>11. Ledger!Told = {a[i] : i \in 1 .. Len(a)} /\ TurnsTold = a
  BY <1>3, LedgerPast
<1>12. Len(news) \in 1 .. MaxTurn
  BY <1>5, <1>7, <1>8, <1>10, AscendingIsShort, TurnAssumption
<1>13. \A i \in 1 .. Len(news) : news[i] \in TurnsReplied \ Ledger!Told
  <2> TAKE i \in 1 .. Len(news)
  <2>1. news[i] \in TurnsReplied
    BY <1>8, LedgerIs
  <2>2. ASSUME news[i] \in Ledger!Told PROVE FALSE
    <3>1. PICK k \in 1 .. Len(a) : news[i] = a[k]
      BY <1>11, <2>2
    <3>2. a[k] < news[i]
      BY <1>10
    <3>3. a[k] \in Nat
      BY <1>5
    <3> QED BY <3>1, <3>2, <3>3
  <2> QED BY <2>1, <2>2
<1>14. DOMAIN news = 1 .. Len(news) /\ news \in [1 .. Len(news) -> TurnsReplied \ Ledger!Told]
  BY <1>5, <1>13
<1>15. ASSUME NEW u \in TurnsReplied \ Ledger!Told
       PROVE  (\E i \in 1 .. Len(news) : u = news[i]) \/ \A i \in 1 .. Len(news) : news[i] < u
  <2>1. u \in 1 .. MaxTurn /\ length[u] # 0
    BY <1>15, LedgerIs
  <2>2. Contains(all, u) \/ Below(all, u)
    <3>1. Contains(LogTurns, u)' \/ Below(LogTurns, u)'
      BY <2>1, OldestFirst
    <3> QED BY <1>4, <3>1 DEF Contains, Below
  <2>3. ~Contains(a, u)
    BY <1>11, <1>15 DEF Contains
  <2>4. Contains(news, u) \/ Below(news, u)
    BY <1>5, <1>10, <2>2, <2>3
  <2> QED BY <2>4 DEF Contains, Below
<1>16. Ledger!Oldest(news)
  BY <1>10, <1>14, <1>15 DEF Ledger!Oldest, Ascending
<1>17. Awaited # 0 => Awaited = news[1]
  BY <1>1, <1>7, LedgerIs DEF Telled
<1>18. Awaited' = 0 /\ TurnsTold' = TurnsTold \o news
  BY <1>4, <1>5, <1>11, LedgerIsNext DEF Telled
<1>19. TurnsReplied' = TurnsReplied
  BY DEF TurnsReplied
<1>20. Ledger!Tell(Len(news))
  BY <1>14, <1>16, <1>17, <1>18, <1>19 DEF Ledger!Tell
<1> QED BY <1>12, <1>20

(* The screen fallback gives up the turn it closes.                        *)
LEMMA LedgerGivesUp ==
  ASSUME IInv, IInv', Benign, NEW s \in Session, Session = {s}, Relay(s), CloseByScreen
  PROVE  Ledger!GiveUp
<1>1. /\ BatchDone /\ Leave(batch.who) /\ batch.who = s /\ batch.out = <<>> /\ observing[s]
      /\ length[asked[s]] = 0 /\ asked[s] # 0
  BY ScreenSees, ScreenUnsaid DEF CloseByScreen
<1>2. length' = length /\ batch'.out = <<>>
  BY <1>1, LeaveIs, WorldStays DEF Leaving
<1>3. Awaited = asked[s] /\ asked[s] \notin TurnsReplied
  BY <1>1, LedgerIs
<1>4. observing \in [Session -> BOOLEAN]
  BY DEF IInv, TypeOK
<1>5. ~observing'[s]
  BY <1>1, <1>4 DEF CloseByScreen
<1>6. LogTurns' = Append(LogTurns, asked[s])
  BY ScreenTold
<1>7. TurnsTold' = Append(TurnsTold, asked[s]) /\ Awaited' = 0
  BY <1>5, <1>6, LedgerIs, LedgerIsNext
<1>8. TurnsReplied' = TurnsReplied
  BY <1>2 DEF TurnsReplied
<1> QED BY <1>1, <1>3, <1>7, <1>8 DEF Ledger!GiveUp

(* A reply written is a turn finished; no other step changes the replies.  *)
LEMMA LedgerFinishes ==
  ASSUME IInv, IInv', NEW s \in Session, Session = {s}, Relay(s), WriteReply(s),
         log' = log, observing' = observing, asked' = asked
  PROVE  \E t \in 1 .. MaxTurn : Ledger!Finish(t)
<1>1. PICK t : t = cli[s].turn
  OBVIOUS
<1>2. /\ length \in [1 .. MaxTurn -> Nat] /\ t \in 0 .. MaxTurn /\ cli[s].n \in Nat
      /\ log \in Seq(Complete) /\ length' \in [1 .. MaxTurn -> Nat]
  <2>1. length' \in [1 .. MaxTurn -> Nat]
    BY DEF IInv, TypeOK, CliTypeOK
  <2> QED BY <1>1, <2>1, Typed
<1>3. cli[s].stage # "prompt" /\ length' = [length EXCEPT ![t] = cli[s].n + 1]
  BY <1>1 DEF WriteReply, CliAt
<1>4. t \in 1 .. MaxTurn
  BY <1>1, <1>2, <1>3 DEF Relay, Cli, Unused
<1>5. \A u \in Nat : Over(s, u) => u < t
  BY <1>1, <1>3 DEF Over
<1>6. \A u \in TurnsReplied : u < t
  BY <1>5, LedgerPast
<1>7. length[t] = 0
  <2> SUFFICES ASSUME length[t] # 0 PROVE FALSE
    OBVIOUS
  <2>1. t \in TurnsReplied
    BY <1>4, LedgerIs
  <2> QED BY <1>2, <1>6, <2>1
<1>8. \A u \in 1 .. MaxTurn : length'[u] = IF u = t THEN cli[s].n + 1 ELSE length[u]
  BY <1>2, <1>3, <1>4
<1>9. TurnsReplied' = TurnsReplied \cup {t}
  BY <1>2, <1>4, <1>8 DEF TurnsReplied
<1>10. LengthsStay
  BY <1>7, <1>8 DEF LengthsStay
<1>11. LogTurns' = LogTurns
  BY <1>2, <1>10, LogStays DEF Relay, Ledgers
<1>12. TurnsTold' = TurnsTold /\ Awaited' = Awaited
  BY <1>11, LedgerIs, LedgerIsNext
<1> QED BY <1>4, <1>6, <1>9, <1>12 DEF Ledger!Finish

(* What the CLI writes finishes a turn or is no news to the client. *)
LEMMA LedgerWrites ==
  ASSUME IInv, IInv', NEW s \in Session, Session = {s}, Relay(s), CliWrites
  PROVE  [Ledger!Next]_(Ledger!ledgerVars)
<1>1. log' = log /\ observing' = observing /\ asked' = asked /\ live \subseteq {s}
  BY DEF CliWrites, IInv, TypeOK
<1>2. length' = length \/ WriteReply(s)
  <2>1. CASE WriteSidecar
    BY <2>1 DEF WriteSidecar, cliVars
  <2>2. ASSUME NEW o \in live, CliStep(o) \/ StartOrganic(o) PROVE length' = length \/ WriteReply(s)
    <3>1. o = s
      BY <1>1
    <3> QED BY <2>2, <3>1
        DEF CliStep, StartOrganic, FinishRow, StartSent, WriteText, CallTool, ToolAnswers,
            WriteThinking, EndEmpty, Interrupt, WriteMeta, ResumeFork, ReplyFork, cliVars
  <2> QED BY <2>1, <2>2 DEF CliWrites
<1>3. CASE length' = length
  BY <1>1, <1>3, LedgerStays
<1>4. CASE WriteReply(s)
  <2>1. \E t \in 1 .. MaxTurn : Ledger!Finish(t)
    BY <1>1, <1>4, LedgerFinishes
  <2> QED BY <2>1 DEF Ledger!Next
<1> QED BY <1>2, <1>3, <1>4

(* A message sent is the turn the client waits for.                        *)
LEMMA LedgerAsks ==
  ASSUME IInv, IInv', NEW s \in Session, Session = {s}, Relay(s), Send(s)
  PROVE  \E t \in 1 .. MaxTurn : Ledger!Ask(t)
<1>1. PICK t : t = nextTurn
  OBVIOUS
<1>2. /\ ~observing[s] /\ t <= MaxTurn /\ length' = length /\ log' = log
      /\ asked' = [asked EXCEPT ![s] = t] /\ observing' = [observing EXCEPT ![s] = TRUE]
  BY <1>1 DEF Send
<1>3. /\ asked \in [Session -> Turn] /\ observing \in [Session -> BOOLEAN]
      /\ t \in 1 .. MaxTurn + 1 /\ cli[s].turn \in 0 .. MaxTurn
  BY <1>1, Typed DEF IInv, TypeOK
<1>4. t \in 1 .. MaxTurn /\ cli[s].turn < t
  BY <1>1, <1>2, <1>3, TurnAssumption DEF Relay, Numbers
<1>5. Awaited = 0 /\ Awaited' = t
  BY <1>2, <1>3, LedgerIs, LedgerIsNext
<1>6. \A u \in TurnsReplied \cup Ledger!Told : u < t
  <2> TAKE u \in TurnsReplied \cup Ledger!Told
  <2>1. u \in Nat /\ Over(s, u)
    BY LedgerPast
  <2>2. u <= cli[s].turn
    BY <1>3, <2>1 DEF Over
  <2> QED BY <1>3, <1>4, <2>1, <2>2
<1>7. TurnsReplied' = TurnsReplied /\ TurnsTold' = TurnsTold
  BY <1>2 DEF TurnsReplied, TurnsTold, TurnOf, FromTranscript, Reply
<1> QED BY <1>4, <1>5, <1>6, <1>7 DEF Ledger!Ask

(* Step by step.                                                           *)
LEMMA LedgerStep ==
  ASSUME IInv, IInv', Benign, NEW s \in Session, Session = {s}, Relay(s), [Next]_vars
  PROVE  [Ledger!Next]_(Ledger!ledgerVars)
<1>1. CASE CliWrites
  BY <1>1, LedgerWrites
<1>2. CASE StartTick \/ ReadStep \/ CloseQuiet \/ UNCHANGED vars
  <2>1. length' = length /\ log' = log /\ observing' = observing /\ asked' = asked
    BY <1>2 DEF StartTick, ReadStep, CloseQuiet, Leave, vars, cliVars, monitorVars
  <2> QED BY <2>1, LedgerStays
<1>3. ASSUME NEW o \in Session, Spawn(o) \/ Send(o) \/ Visit(o)
      PROVE  [Ledger!Next]_(Ledger!ledgerVars)
  <2>1. o = s
    OBVIOUS
  <2>2. CASE Send(o)
    <3>1. \E t \in 1 .. MaxTurn : Ledger!Ask(t)
      BY <2>1, <2>2, LedgerAsks
    <3> QED BY <3>1 DEF Ledger!Next
  <2>3. CASE Spawn(o) \/ Visit(o)
    <3>1. length' = length /\ log' = log /\ observing' = observing /\ asked' = asked
      BY <2>3 DEF Spawn, Visit, cliVars, monitorVars
    <3> QED BY <3>1, LedgerStays
  <2> QED BY <1>3, <2>2, <2>3
<1>4. CASE CloseOrganic \/ CloseObserved
  <2>1. Telled(s)
    BY <1>4, CloseTells
  <2>2. length' = length
    BY <1>4 DEF CloseOrganic, CloseObserved, Leave, cliVars
  <2>3. \E n \in 1 .. MaxTurn : Ledger!Tell(n)
    BY <2>1, <2>2, LedgerTells
  <2> QED BY <2>3 DEF Ledger!Next
<1>5. CASE CloseByScreen
  <2>1. Ledger!GiveUp
    BY <1>5, LedgerGivesUp
  <2> QED BY <2>1 DEF Ledger!Next
<1> QED BY <1>1, <1>2, <1>3, <1>4, <1>5 DEF Next

(* To the client of a session the monitor is TurnLedger: asking is Ask,    *)
(* the reply's last row is Finish, a visit that closes turns is Tell, and  *)
(* the screen fallback is GiveUp; every other step changes nothing of it.  *)
THEOREM LedgerKept ==
  ASSUME Benign, Lone
  PROVE  Spec => KeepsLedger
<1>1. PICK s \in Session : Session = {s}
  BY DEF Lone
<1>2. Init => Ledger!Init
  BY <1>1, InitIInv, LedgerStart
<1>3. IInv /\ IInv' /\ AllRelay /\ [Next]_vars => [Ledger!Next]_(Ledger!ledgerVars)
  BY <1>1, LedgerStep DEF AllRelay
<1> QED BY <1>2, <1>3, Inductive, RelayFollowsRows, PTL DEF Spec, KeepsLedger, Ledger!Spec
=============================================================================
