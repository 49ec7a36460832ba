--------------------------- MODULE LiveStreamProofs ---------------------------
(***************************************************************************)
(* Proofs about LiveStream, for every height and width of the terminal,    *)
(* every number of turns and both ways to draw the box: what is streamed   *)
(* into the bubble of a turn is of that turn, whichever of its strategies  *)
(* extract_raw_response finds the reply by; a settled screen tells whether *)
(* a turn is under way and whether it is over; and a screen is read as a   *)
(* dialog, with its question, options and key, exactly if it shows one;    *)
(* and a tick on a settled screen leaves the bubble of its turn showing    *)
(* the reply as far as the CLI has drawn it.                               *)
(***************************************************************************)
EXTENDS LiveStream, FiniteSetTheorems, SequenceTheorems, WellFoundedInduction, TLAPS

-----------------------------------------------------------------------------
(* Greatest and least positions.                                           *)

LEMMA LeastExists ==
  ASSUME NEW S \in SUBSET Nat, S # {}
  PROVE  \E x \in S : \A y \in S : x <= y
<1> DEFINE R == OpToRel(<, Nat)
<1>1. \A x, y \in Nat : <<x, y>> \in R <=> x < y
  BY DEF OpToRel
<1>2. IsWellFoundedOn(R, Nat)
  BY NatLessThanWellFounded
<1> HIDE DEF R
<1>3. \E x \in S : \A y \in S : ~(<<y, x>> \in R)
  BY <1>2, WFMin
<1>4. PICK x \in S : \A y \in S : ~(<<y, x>> \in R)
  BY <1>3
<1>5. ASSUME NEW y \in S PROVE x <= y
  <2>1. x \in Nat /\ y \in Nat
    OBVIOUS
  <2>2. ~(y < x)
    BY <1>1, <1>4, <2>1
  <2> QED BY <2>1, <2>2
<1> QED BY <1>5

LEMMA GreatestExists ==
  ASSUME NEW n \in Nat, NEW S \in SUBSET (1 .. n), S # {}
  PROVE  \E x \in S : \A y \in S : x >= y
<1> DEFINE U == {u \in Nat : \A i \in S : i <= u}
<1>1. U \in SUBSET Nat /\ n \in U
  OBVIOUS
<1>2. PICK u \in U : \A y \in U : u <= y
  <2> HIDE DEF U
  <2> QED BY <1>1, LeastExists
<1>3. PICK s \in S : s \in 1 .. n
  OBVIOUS
<1>4. u \in Nat /\ s <= u /\ \A i \in S : i <= u
  BY <1>2, <1>3
<1>5. u - 1 \in Nat /\ u - 1 \notin U
  BY <1>2, <1>3, <1>4
<1>6. PICK i \in S : ~(i <= u - 1)
  BY <1>5
<1>7. i \in 1 .. n
  OBVIOUS
<1>8. i = u
  BY <1>4, <1>6, <1>7
<1> QED BY <1>4, <1>8

LEMMA HighestOf ==
  ASSUME NEW n \in Nat, NEW S \in SUBSET (1 .. n)
  PROVE  /\ Highest(S) \in 0 .. n
         /\ S = {} => Highest(S) = 0
         /\ S # {} => Highest(S) \in S
         /\ \A i \in S : i <= Highest(S)
<1>1. CASE S = {}
  BY <1>1 DEF Highest
<1>2. CASE S # {}
  <2>1. \E x \in S : \A y \in S : x >= y
    BY <1>2, GreatestExists
  <2>2. Max(S) \in S /\ \A y \in S : Max(S) >= y
    BY <2>1 DEF Max
  <2>3. Highest(S) = Max(S)
    BY <1>2 DEF Highest
  <2> HIDE DEF Highest
  <2>4. Highest(S) \in S
    BY <2>2, <2>3
  <2>5. Highest(S) \in 1 .. n
    BY <2>4
  <2>6. ASSUME NEW y \in S PROVE y <= Highest(S)
    <3>1. Highest(S) >= y
      BY <2>2, <2>3
    <3>2. y \in 1 .. n
      OBVIOUS
    <3> QED BY <2>5, <3>1, <3>2
  <2> QED BY <1>2, <2>4, <2>5, <2>6
<1> QED BY <1>1, <1>2

LEMMA LowestOf ==
  ASSUME NEW n \in Nat, NEW S \in SUBSET (1 .. n)
  PROVE  /\ Lowest(S) \in 0 .. n
         /\ S = {} => Lowest(S) = 0
         /\ S # {} => Lowest(S) \in S
         /\ \A i \in S : Lowest(S) <= i
<1>1. CASE S = {}
  BY <1>1 DEF Lowest
<1>2. CASE S # {}
  <2>1. \E x \in S : \A y \in S : x <= y
    <3>1. S \in SUBSET Nat
      OBVIOUS
    <3> QED BY <1>2, <3>1, LeastExists
  <2>2. Min(S) \in S /\ \A y \in S : Min(S) <= y
    BY <2>1 DEF Min
  <2>3. Lowest(S) = Min(S)
    BY <1>2 DEF Lowest
  <2> HIDE DEF Lowest
  <2>4. Lowest(S) \in S
    BY <2>2, <2>3
  <2>5. Lowest(S) \in 1 .. n
    BY <2>4
  <2>6. ASSUME NEW y \in S PROVE Lowest(S) <= y
    <3>1. Lowest(S) <= y
      BY <2>2, <2>3
    <3>2. y \in 1 .. n
      OBVIOUS
    <3> QED BY <2>5, <3>1, <3>2
  <2> QED BY <1>2, <2>4, <2>5, <2>6
<1> QED BY <1>1, <1>2

-----------------------------------------------------------------------------
(* Positions on a screen.                                                  *)

LEMMA HighestUpto ==
  ASSUME NEW c, NEW n \in Nat, NEW L
  PROVE  /\ Highest(Upto(c, n, L)) \in 0 .. n
         /\ Highest(Upto(c, n, L)) # 0 => c[Highest(Upto(c, n, L))].look \in L
         /\ \A i \in 1 .. n : c[i].look \in L => i <= Highest(Upto(c, n, L))
<1> DEFINE S == Upto(c, n, L)
<1>1. S \in SUBSET (1 .. n) /\ \A i \in 1 .. n : i \in S <=> c[i].look \in L
  BY DEF Upto
<1> HIDE DEF S
<1>2. /\ Highest(S) \in 0 .. n /\ (S = {} => Highest(S) = 0)
      /\ (S # {} => Highest(S) \in S) /\ \A i \in S : i <= Highest(S)
  BY <1>1, HighestOf
<1>3. Highest(S) # 0 => Highest(S) \in S
  BY <1>2
<1>4. Highest(S) \in 0 .. n /\ (Highest(S) # 0 => c[Highest(S)].look \in L)
  BY <1>1, <1>2, <1>3
<1>5. \A i \in 1 .. n : c[i].look \in L => i <= Highest(S)
  BY <1>1, <1>2
<1> QED BY <1>4, <1>5 DEF S

LEMMA HighestFrom ==
  ASSUME NEW c, NEW m \in Nat \ {0}, NEW n \in Nat, NEW L
  PROVE  /\ Highest(From(c, m, n, L)) \in 0 .. n
         /\ Highest(From(c, m, n, L)) # 0 => /\ Highest(From(c, m, n, L)) \in m .. n
                                             /\ c[Highest(From(c, m, n, L))].look \in L
         /\ \A i \in m .. n : c[i].look \in L => i <= Highest(From(c, m, n, L))
<1> DEFINE S == From(c, m, n, L)
<1>1. S \in SUBSET (1 .. n) /\ \A i \in S : i \in m .. n /\ c[i].look \in L
  BY DEF From
<1>2. \A i \in m .. n : c[i].look \in L => i \in S
  BY DEF From
<1> HIDE DEF S
<1>3. /\ Highest(S) \in 0 .. n /\ (S = {} => Highest(S) = 0)
      /\ (S # {} => Highest(S) \in S) /\ \A i \in S : i <= Highest(S)
  BY <1>1, HighestOf
<1>4. Highest(S) # 0 => Highest(S) \in S
  BY <1>3
<1>5. Highest(S) # 0 => Highest(S) \in m .. n /\ c[Highest(S)].look \in L
  BY <1>1, <1>4
<1>6. \A i \in m .. n : c[i].look \in L => i <= Highest(S)
  BY <1>2, <1>3
<1> QED BY <1>3, <1>5, <1>6 DEF S

LEMMA LowestFrom ==
  ASSUME NEW c, NEW m \in Nat \ {0}, NEW n \in Nat, NEW L
  PROVE  /\ Lowest(From(c, m, n, L)) \in 0 .. n
         /\ Lowest(From(c, m, n, L)) # 0 => /\ Lowest(From(c, m, n, L)) \in m .. n
                                            /\ c[Lowest(From(c, m, n, L))].look \in L
         /\ \A i \in m .. n : c[i].look \in L =>
              Lowest(From(c, m, n, L)) # 0 /\ Lowest(From(c, m, n, L)) <= i
<1> DEFINE S == From(c, m, n, L)
<1>1. S \in SUBSET (1 .. n) /\ \A i \in S : i \in m .. n /\ c[i].look \in L
  BY DEF From
<1>2. \A i \in m .. n : c[i].look \in L => i \in S
  BY DEF From
<1> HIDE DEF S
<1>3. /\ Lowest(S) \in 0 .. n /\ (S = {} => Lowest(S) = 0)
      /\ (S # {} => Lowest(S) \in S) /\ \A i \in S : Lowest(S) <= i
  BY <1>1, LowestOf
<1>4. Lowest(S) # 0 => Lowest(S) \in S
  BY <1>3
<1>5. Lowest(S) # 0 => Lowest(S) \in m .. n /\ c[Lowest(S)].look \in L
  BY <1>1, <1>4
<1>6. ASSUME NEW i \in m .. n, c[i].look \in L PROVE Lowest(S) # 0 /\ Lowest(S) <= i
  <2>1. i \in S /\ Lowest(S) <= i
    BY <1>2, <1>3, <1>6
  <2>2. Lowest(S) \in S /\ Lowest(S) \in 1 .. n
    BY <1>1, <1>3, <2>1
  <2> QED BY <2>1, <2>2
<1> QED BY <1>3, <1>5, <1>6 DEF S

(* The last row that is no chrome.                                         *)
LEMMA TailOf ==
  ASSUME NEW c \in Seq(Row), NEW chrome
  PROVE  /\ TailEnd(c, chrome) \in 0 .. Len(c)
         /\ TailEnd(c, chrome) # 0 => c[TailEnd(c, chrome)].look \notin chrome
         /\ \A i \in 1 .. Len(c) : c[i].look \notin chrome => i <= TailEnd(c, chrome)
<1> DEFINE S == {i \in DOMAIN c : c[i].look \notin chrome}
<1>1. DOMAIN c = 1 .. Len(c) /\ Len(c) \in Nat
  OBVIOUS
<1>2. S \in SUBSET (1 .. Len(c)) /\ \A i \in 1 .. Len(c) : i \in S <=> c[i].look \notin chrome
  BY <1>1
<1>3. TailEnd(c, chrome) = Highest(S)
  BY DEF TailEnd
<1> HIDE DEF S
<1>4. /\ Highest(S) \in 0 .. Len(c) /\ (S = {} => Highest(S) = 0)
      /\ (S # {} => Highest(S) \in S) /\ \A i \in S : i <= Highest(S)
  BY <1>1, <1>2, HighestOf
<1>5. Highest(S) # 0 => Highest(S) \in S
  BY <1>4
<1> QED BY <1>1, <1>2, <1>3, <1>4, <1>5

-----------------------------------------------------------------------------
(* extract_raw_response: the row it starts at, whichever strategy finds it, *)
(* and the rows it goes on with.                                           *)
FrameStart(c, count, message) ==
  LET end == TailEnd(c, PanelChrome)
  IN IF Landmark(c, end) # 0 THEN Landmark(c, end)
     ELSE IF Counted(c, end, count) # 0 THEN Counted(c, end, count)
     ELSE IF Needle(c, end, message) # 0 THEN Needle(c, end, message)
     ELSE IF LastBullet(c, end) # 0 THEN LastBullet(c, end)
     ELSE Pondering(c, end)

LEMMA FirstOfFour ==
  ASSUME NEW a, NEW b, NEW x, NEW y
  PROVE  LET tries == <<a, b, x, y>>
             hits == {n \in DOMAIN tries : tries[n] # 0}
         IN /\ hits = {} <=> a = 0 /\ b = 0 /\ x = 0 /\ y = 0
            /\ hits # {} => tries[Min(hits)] = IF a # 0 THEN a ELSE IF b # 0 THEN b
                                               ELSE IF x # 0 THEN x ELSE y
<1> DEFINE tries == <<a, b, x, y>>
           hits == {n \in DOMAIN tries : tries[n] # 0}
<1>1. DOMAIN tries = 1 .. 4
  OBVIOUS
<1>2. tries[1] = a /\ tries[2] = b /\ tries[3] = x /\ tries[4] = y
  OBVIOUS
<1>3. hits \in SUBSET (1 .. 4) /\ \A n \in 1 .. 4 : n \in hits <=> tries[n] # 0
  BY <1>1
<1> HIDE DEF hits, tries
<1>4. hits = {} <=> a = 0 /\ b = 0 /\ x = 0 /\ y = 0
  BY <1>2, <1>3
<1>5. ASSUME hits # {}
      PROVE  tries[Min(hits)] = IF a # 0 THEN a ELSE IF b # 0 THEN b ELSE IF x # 0 THEN x ELSE y
  <2>1. /\ Lowest(hits) \in hits /\ \A n \in hits : Lowest(hits) <= n
    BY <1>3, <1>5, LowestOf
  <2>2. Lowest(hits) = Min(hits)
    BY <1>5 DEF Lowest
  <2>3. PICK n \in hits : n = Min(hits) /\ \A j \in hits : n <= j
    BY <2>1, <2>2
  <2>4. n \in 1 .. 4 /\ tries[n] # 0
    BY <1>3
  <2>5. n = 1 \/ n = 2 \/ n = 3 \/ n = 4
    BY <2>4
  <2>6. \A j \in 1 .. 4 : j < n => tries[j] = 0
    BY <1>3, <2>3, <2>4
  <2>7. tries[n] = IF a # 0 THEN a ELSE IF b # 0 THEN b ELSE IF x # 0 THEN x ELSE y
    BY <1>2, <2>4, <2>5, <2>6
  <2> QED BY <2>3, <2>7
<1> QED BY <1>4, <1>5 DEF hits, tries

LEMMA RegionRows ==
  ASSUME NEW c \in Seq(Row), NEW m \in 1 .. Len(c), NEW n \in 0 .. Len(c)
  PROVE  /\ Region(c, m, n) \in Seq(Row)
         /\ Region(c, m, n) # <<>> => m <= n /\ Len(Region(c, m, n)) <= n - m + 1
         /\ \A i \in 1 .. Len(Region(c, m, n)) :
              m + i - 1 \in m .. n /\ Region(c, m, n)[i] = c[m + i - 1]
<1> DEFINE S == {i \in Solid(c) : m <= i /\ i <= n}
           h == Highest(S)
<1>1. S \in SUBSET (1 .. n)
  BY DEF Solid
<1> HIDE DEF S
<1>2. h \in 0 .. n
  BY <1>1, HighestOf
<1>3. Region(c, m, n) = SubSeq(c, m, h)
  BY DEF Region, S
<1> HIDE DEF h
<1>4. \A i \in m .. h : c[i] \in Row
  BY <1>2
<1>5. m \in Int /\ h \in Int
  BY <1>2
<1>6. /\ SubSeq(c, m, h) \in Seq(Row)
      /\ Len(SubSeq(c, m, h)) = IF m <= h THEN h - m + 1 ELSE 0
      /\ \A i \in 1 .. h - m + 1 : SubSeq(c, m, h)[i] = c[m + i - 1]
  BY <1>4, <1>5, SubSeqProperties
<1>7. CASE m <= h
  <2>1. Len(SubSeq(c, m, h)) = h - m + 1
    BY <1>6, <1>7
  <2>2. \A i \in 1 .. Len(SubSeq(c, m, h)) :
          m + i - 1 \in m .. n /\ SubSeq(c, m, h)[i] = c[m + i - 1]
    BY <1>2, <1>6, <1>7, <2>1
  <2> QED BY <1>2, <1>3, <1>6, <1>7, <2>1, <2>2
<1>8. CASE ~(m <= h)
  <2>1. Len(SubSeq(c, m, h)) = 0
    BY <1>6, <1>8
  <2>2. SubSeq(c, m, h) = <<>>
    BY <1>6, <2>1
  <2> QED BY <1>3, <1>6, <2>1, <2>2
<1> QED BY <1>7, <1>8

LEMMA LandmarkIs ==
  ASSUME NEW c, NEW end \in Nat
  PROVE  /\ Landmark(c, end) \in 0 .. end
         /\ Landmark(c, end) # 0 =>
              /\ c[Landmark(c, end)].look \in Bullets
              /\ \A i \in 1 .. end : c[i].look = "chevron" => i < Landmark(c, end)
         /\ \A i, j \in 1 .. end :
              /\ c[i].look \in Bullets /\ c[j].look = "chevron"
              /\ \A k \in 1 .. end : c[k].look = "chevron" => k < i
              => Landmark(c, end) # 0
<1> DEFINE p == Highest(Upto(c, end, {"chevron"}))
           l == Lowest(From(c, p + 1, end, Bullets))
<1>1. /\ p \in 0 .. end /\ (p # 0 => c[p].look = "chevron")
      /\ \A i \in 1 .. end : c[i].look = "chevron" => i <= p
  BY HighestUpto
<1>2. Landmark(c, end) = IF p = 0 THEN 0 ELSE l
  BY DEF Landmark
<1> HIDE DEF p
<1>3. /\ l \in 0 .. end /\ (l # 0 => l \in p + 1 .. end /\ c[l].look \in Bullets)
      /\ \A i \in p + 1 .. end : c[i].look \in Bullets => l # 0 /\ l <= i
  <2>1. p + 1 \in Nat \ {0}
    BY <1>1
  <2> QED BY <2>1, LowestFrom
<1> HIDE DEF l
<1>4. Landmark(c, end) \in 0 .. end
  BY <1>2, <1>3
<1>5. Landmark(c, end) # 0 =>
        /\ c[Landmark(c, end)].look \in Bullets
        /\ \A i \in 1 .. end : c[i].look = "chevron" => i < Landmark(c, end)
  BY <1>1, <1>2, <1>3
<1>6. ASSUME NEW i \in 1 .. end, NEW j \in 1 .. end,
             c[i].look \in Bullets, c[j].look = "chevron",
             \A k \in 1 .. end : c[k].look = "chevron" => k < i
      PROVE  Landmark(c, end) # 0
  <2>1. p # 0 /\ p < i
    BY <1>1, <1>6
  <2>2. i \in p + 1 .. end
    BY <1>1, <2>1
  <2> QED BY <1>2, <1>3, <1>6, <2>1, <2>2
<1> QED BY <1>4, <1>5, <1>6

LEMMA CountedIs ==
  ASSUME NEW c, NEW end \in Nat, NEW count
  PROVE  /\ Counted(c, end, count) \in 0 .. end
         /\ Counted(c, end, count) # 0 =>
              /\ c[Counted(c, end, count)].look \in Bullets
              /\ Cardinality(Upto(c, Counted(c, end, count), Bullets)) = count + 1
<1> DEFINE S == {i \in Upto(c, end, Bullets) : Cardinality(Upto(c, i, Bullets)) = count + 1}
<1>1. Counted(c, end, count) = Lowest(S)
  BY DEF Counted
<1>2. /\ S \in SUBSET (1 .. end)
      /\ \A i \in S : c[i].look \in Bullets /\ Cardinality(Upto(c, i, Bullets)) = count + 1
  <2>1. \A i \in Upto(c, end, Bullets) : i \in 1 .. end /\ c[i].look \in Bullets
    BY DEF Upto
  <2> QED BY <2>1
<1> HIDE DEF S
<1>3. Lowest(S) \in 0 .. end /\ (S = {} => Lowest(S) = 0) /\ (S # {} => Lowest(S) \in S)
  BY <1>2, LowestOf
<1>4. Lowest(S) # 0 => Lowest(S) \in S
  BY <1>3
<1> QED BY <1>1, <1>2, <1>3, <1>4

LEMMA NeedleIs ==
  ASSUME NEW c, NEW end \in Nat, NEW message
  PROVE  /\ Needle(c, end, message) \in 0 .. end
         /\ Needle(c, end, message) # 0 =>
              /\ c[Needle(c, end, message)].look \in Bullets
              /\ \E at \in 1 .. end : /\ at < Needle(c, end, message)
                                      /\ c[at].turn = message
<1> DEFINE S == {i \in 1 .. end : c[i].text = "message" /\ c[i].turn = message}
           p == Highest(S)
           l == Lowest(From(c, p + 1, end, Bullets))
<1>1. S \in SUBSET (1 .. end) /\ \A i \in S : c[i].turn = message
  OBVIOUS
<1>2. Needle(c, end, message) = IF p = 0 THEN 0 ELSE l
  BY DEF Needle
<1> HIDE DEF S
<1>3. p \in 0 .. end /\ (S = {} => p = 0) /\ (S # {} => p \in S)
  BY <1>1, HighestOf
<1>4. p # 0 => p \in 1 .. end /\ c[p].turn = message
  BY <1>1, <1>3
<1> HIDE DEF p
<1>5. l \in 0 .. end /\ (l # 0 => l \in p + 1 .. end /\ c[l].look \in Bullets)
  <2>1. p + 1 \in Nat \ {0}
    BY <1>3
  <2> QED BY <2>1, LowestFrom
<1> HIDE DEF l
<1>6. Needle(c, end, message) \in 0 .. end
  BY <1>2, <1>5
<1>7. ASSUME Needle(c, end, message) # 0
      PROVE  /\ c[Needle(c, end, message)].look \in Bullets
             /\ \E at \in 1 .. end : at < Needle(c, end, message) /\ c[at].turn = message
  <2>1. p # 0 /\ Needle(c, end, message) = l /\ l # 0
    BY <1>2, <1>7
  <2>2. p \in 1 .. end /\ p < l /\ c[p].turn = message
    BY <1>3, <1>4, <1>5, <2>1
  <2> QED BY <1>5, <2>1, <2>2
<1> QED BY <1>6, <1>7

LEMMA LastBulletIs ==
  ASSUME NEW c, NEW end \in Nat
  PROVE  /\ LastBullet(c, end) \in 0 .. end
         /\ LastBullet(c, end) # 0 =>
              /\ c[LastBullet(c, end)].look \in Bullets
              /\ \A i \in 1 .. end : c[i].look = "chevron" => i < LastBullet(c, end)
<1> DEFINE p == Highest(Upto(c, end, {"chevron"}))
           l == Highest(Upto(c, end, Bullets))
<1>1. /\ p \in 0 .. end
      /\ \A i \in 1 .. end : c[i].look = "chevron" => i <= p
  BY HighestUpto
<1>2. l \in 0 .. end /\ (l # 0 => c[l].look \in Bullets)
  BY HighestUpto
<1>3. LastBullet(c, end) = 0 \/ (LastBullet(c, end) = l /\ l > p)
  BY DEF LastBullet
<1> HIDE DEF p, l
<1> QED BY <1>1, <1>2, <1>3

LEMMA PonderingIs ==
  ASSUME NEW c, NEW end \in Nat
  PROVE  /\ Pondering(c, end) \in 0 .. end
         /\ Pondering(c, end) # 0 =>
              /\ c[Pondering(c, end)].look \in Spinners \cup {"done"}
              /\ Cardinality({j \in Solid(c) : Pondering(c, end) < j /\ j <= end}) < 3
         /\ \A i \in 1 .. end :
              /\ c[i].look \in Spinners \cup {"done"}
              /\ Cardinality({j \in Solid(c) : i < j /\ j <= end}) < 3
              => i <= Pondering(c, end)
<1> DEFINE S == {i \in Upto(c, end, Spinners \cup {"done"}) :
                   Cardinality({j \in Solid(c) : i < j /\ j <= end}) < 3}
<1>1. Pondering(c, end) = Highest(S)
  BY DEF Pondering
<1>2. /\ S \in SUBSET (1 .. end)
      /\ \A i \in 1 .. end : i \in S <=> /\ c[i].look \in Spinners \cup {"done"}
                                         /\ Cardinality({j \in Solid(c) : i < j /\ j <= end}) < 3
  <2>1. \A i : i \in Upto(c, end, Spinners \cup {"done"})
                 <=> i \in 1 .. end /\ c[i].look \in Spinners \cup {"done"}
    BY DEF Upto
  <2> QED BY <2>1
<1> HIDE DEF S
<1>3. /\ Highest(S) \in 0 .. end /\ (S = {} => Highest(S) = 0) /\ (S # {} => Highest(S) \in S)
      /\ \A i \in S : i <= Highest(S)
  BY <1>2, HighestOf
<1>4. Highest(S) # 0 => Highest(S) \in S
  BY <1>3
<1>5. Highest(S) # 0 =>
        /\ c[Highest(S)].look \in Spinners \cup {"done"}
        /\ Cardinality({j \in Solid(c) : Highest(S) < j /\ j <= end}) < 3
  BY <1>2, <1>4
<1>6. \A i \in 1 .. end :
        /\ c[i].look \in Spinners \cup {"done"}
        /\ Cardinality({j \in Solid(c) : i < j /\ j <= end}) < 3
        => i <= Highest(S)
  BY <1>2, <1>3
<1> QED BY <1>1, <1>3, <1>5, <1>6

LEMMA FrameRows ==
  ASSUME NEW c \in Seq(Row), NEW count, NEW message,
         NEW frame, frame = RawResponse(c, count, message),
         NEW end, end = TailEnd(c, PanelChrome),
         NEW start, start = FrameStart(c, count, message)
  PROVE  /\ frame \in Seq(Row)
         /\ end \in 0 .. Len(c)
         /\ start \in 0 .. end
         /\ frame # <<>> => start # 0 /\ Len(frame) <= end - start + 1
         /\ \A i \in 1 .. Len(frame) :
              start + i - 1 \in start .. end /\ frame[i] = c[start + i - 1]
<1> DEFINE a == Landmark(c, end)
           b == Counted(c, end, count)
           x == Needle(c, end, message)
           y == LastBullet(c, end)
           w == Pondering(c, end)
           tries == <<a, b, x, y>>
           hits == {n \in DOMAIN tries : tries[n] # 0}
           closed == Highest(From(c, start + 1, end, {"done"}))
           to == IF hits # {} /\ closed # 0 THEN closed ELSE end
<1>1. end \in 0 .. Len(c) /\ Len(c) \in Nat
  BY TailOf
<1>2. end \in Nat
  BY <1>1
<1>3. a \in 0 .. end /\ b \in 0 .. end /\ x \in 0 .. end /\ y \in 0 .. end /\ w \in 0 .. end
  BY <1>2, LandmarkIs, CountedIs, NeedleIs, LastBulletIs, PonderingIs
<1>4. start = IF a # 0 THEN a ELSE IF b # 0 THEN b ELSE IF x # 0 THEN x ELSE IF y # 0 THEN y ELSE w
  BY DEF FrameStart
<1>5. start \in 0 .. end
  BY <1>3, <1>4
<1>6. start = IF hits = {} THEN w ELSE tries[Min(hits)]
  <2>1. hits = {} <=> a = 0 /\ b = 0 /\ x = 0 /\ y = 0
    BY FirstOfFour
  <2>2. hits # {} => tries[Min(hits)] = IF a # 0 THEN a ELSE IF b # 0 THEN b
                                         ELSE IF x # 0 THEN x ELSE y
    BY FirstOfFour
  <2> HIDE DEF hits, tries, a, b, x, y, w
  <2> QED BY <1>4, <2>1, <2>2
<1>7. frame = IF start = 0 THEN <<>> ELSE Region(c, start, to)
  BY <1>6 DEF RawResponse
<1>8. to \in 0 .. end
  <2>1. start + 1 \in Nat \ {0}
    BY <1>2, <1>5
  <2>2. closed \in 0 .. end
    BY <1>2, <2>1, HighestFrom
  <2> HIDE DEF closed, hits
  <2> QED BY <1>2, <2>2
<1> HIDE DEF to, hits, tries, a, b, x, y, w
<1>9. CASE start = 0
  BY <1>1, <1>5, <1>7, <1>9
<1>10. CASE start # 0
  <2>1. start \in 1 .. Len(c) /\ to \in 0 .. Len(c)
    BY <1>1, <1>5, <1>8, <1>10
  <2>2. /\ frame \in Seq(Row)
        /\ frame # <<>> => start <= to /\ Len(frame) <= to - start + 1
        /\ \A i \in 1 .. Len(frame) : start + i - 1 \in start .. to /\ frame[i] = c[start + i - 1]
    <3>1. frame = Region(c, start, to)
      BY <1>7, <1>10
    <3> QED BY <2>1, <3>1, RegionRows
  <2>3. Len(frame) \in Nat
    BY <2>2
  <2>4. \A i \in 1 .. Len(frame) : start + i - 1 \in start .. end
    BY <1>1, <1>5, <1>8, <2>2, <2>3
  <2>5. frame # <<>> => Len(frame) <= end - start + 1
    BY <1>1, <1>5, <1>8, <2>2, <2>3
  <2> QED BY <1>1, <1>5, <1>10, <2>2, <2>4, <2>5
<1> QED BY <1>9, <1>10

-----------------------------------------------------------------------------
(* Verdicts.                                                               *)

LEMMA RespondingIsActive ==
  ASSUME NEW c, DetectState(c) = "responding"
  PROVE  ActiveBullet(c)
BY DEF DetectState

LEMMA ActiveIs ==
  ASSUME NEW c \in Seq(Row), ActiveBullet(c)
  PROVE  \E l \in 1 .. TailEnd(c, BulletChrome) :
            /\ c[l].look \in Bullets
            /\ \A j \in l .. TailEnd(c, BulletChrome) : c[j].look \notin {"done", "chevron", "notice"}
<1> DEFINE end == TailEnd(c, BulletChrome)
           l == Highest(Upto(c, end, Bullets))
           S == From(c, l, end, {"done", "chevron", "notice"})
<1>1. end \in Nat
  BY TailOf
<1>2. l # 0 /\ S = {}
  BY DEF ActiveBullet
<1>3. l \in 0 .. end /\ (l # 0 => c[l].look \in Bullets)
  BY <1>1, HighestUpto
<1>4. \A j \in l .. end : c[j].look \notin {"done", "chevron", "notice"}
  BY <1>2 DEF From
<1> HIDE DEF l, end
<1>5. l \in 1 .. end /\ c[l].look \in Bullets
  BY <1>1, <1>2, <1>3
<1> QED BY <1>4, <1>5 DEF end

(* A footer among the lowest rows makes it a dialog.                       *)
LEMMA FooterIsDialog ==
  ASSUME NEW c \in Seq(Row), NEW i \in 1 .. Len(c), c[i].look = "footer",
         c[Len(c)].look # "blank", i > Len(c) - BottomRows
  PROVE  DetectState(c) = "dialog"
<1> DEFINE S == Solid(c)
           t == Trimmed(c)
<1>0. BottomRows \in Nat \ {0}
  BY BottomAssumption
<1>1. Len(c) \in Nat /\ DOMAIN c = 1 .. Len(c)
  OBVIOUS
<1>2. S \in SUBSET (1 .. Len(c)) /\ i \in S /\ Len(c) \in S
  BY <1>1 DEF Solid
<1> HIDE DEF S
<1>3. /\ Highest(S) \in S /\ \A j \in S : j <= Highest(S)
  BY <1>1, <1>2, HighestOf
<1>4. /\ Lowest(S) \in S /\ \A j \in S : Lowest(S) <= j
  BY <1>1, <1>2, LowestOf
<1>5. S # {} /\ Highest(S) = Max(S) /\ Lowest(S) = Min(S)
  BY <1>2 DEF Highest, Lowest
<1>6. PICK m \in S : m = Min(S) /\ m <= i
  BY <1>2, <1>4, <1>5
<1>7. PICK h \in S : h = Max(S) /\ Len(c) <= h
  BY <1>2, <1>3, <1>5
<1>8. m \in 1 .. Len(c) /\ h = Len(c)
  BY <1>1, <1>2, <1>7
<1>9. t = SubSeq(c, m, Len(c))
  BY <1>5, <1>6, <1>7, <1>8 DEF Trimmed, S
<1> HIDE DEF t
<1>10. \A j \in m .. Len(c) : c[j] \in Row
  BY <1>1, <1>8
<1>11. m \in Int /\ Len(c) \in Int
  BY <1>8
<1>12. /\ SubSeq(c, m, Len(c)) \in Seq(Row)
       /\ Len(SubSeq(c, m, Len(c))) = IF m <= Len(c) THEN Len(c) - m + 1 ELSE 0
       /\ \A j \in 1 .. Len(c) - m + 1 : SubSeq(c, m, Len(c))[j] = c[m + j - 1]
  BY <1>10, <1>11, SubSeqProperties
<1>13. t \in Seq(Row) /\ Len(t) = Len(c) - m + 1
  BY <1>8, <1>9, <1>12
<1>14. PICK k \in 1 .. Len(t) : k = i - m + 1
  BY <1>1, <1>6, <1>8, <1>13
<1>15. t[k].look = "footer"
  <2>1. m + k - 1 = i
    BY <1>1, <1>8, <1>14
  <2> QED BY <1>9, <1>12, <1>13, <1>14, <2>1
<1>16. k > Len(t) - BottomRows
  BY <1>0, <1>1, <1>8, <1>13, <1>14
<1>17. t # <<>> /\ k \in DOMAIN t
  BY <1>13, <1>14
<1>18. \E j \in {j \in DOMAIN t : j > Len(t) - BottomRows} :
         \/ t[j].look \in Dialogs
         \/ t[j].look = "chevron" /\ t[j].num > 0 /\ ~IsComposer(t, j)
  BY <1>15, <1>16, <1>17 DEF Dialogs
<1> QED BY <1>17, <1>18 DEF DetectState, t

-----------------------------------------------------------------------------
(* What a terminal shows with n rows of the conversation, a dialog g left  *)
(* over (0: none) and the panel p.                                         *)
Panels == [busy : BOOLEAN, cursor : 0 .. 3, draft : Drafts]
LeftOver(g) == IF g = 0 THEN <<>> ELSE DialogRows(g)
Window(all) == SubSeq(all, IF Len(all) > Height THEN Len(all) - Height + 1 ELSE 1, Len(all))
View(n, g, p) == Window(SubSeq(conv, 1, n) \o LeftOver(g) \o PanelRows(p))

LEMMA ScreenIsView == screen = View(painted, ghost, shown)
BY DEF screen, View, Window, LeftOver

LEMMA WindowRows ==
  ASSUME NEW all \in Seq(Row), NEW d, d = IF Len(all) > Height THEN Len(all) - Height ELSE 0
  PROVE  /\ Window(all) \in Seq(Row)
         /\ d \in 0 .. Len(all)
         /\ Len(Window(all)) = Len(all) - d
         /\ \A i \in 1 .. Len(all) - d : Window(all)[i] = all[i + d]
<1>1. Height \in Nat \ {0}
  BY HeightAssumption
<1>2. Len(all) \in Nat
  OBVIOUS
<1>3. d \in 0 .. Len(all)
  BY <1>1, <1>2
<1>4. Window(all) = SubSeq(all, d + 1, Len(all))
  BY <1>1, <1>2 DEF Window
<1>5. \A i \in d + 1 .. Len(all) : all[i] \in Row
  BY <1>2, <1>3
<1>6. d + 1 \in Int /\ Len(all) \in Int
  BY <1>2, <1>3
<1>7. /\ SubSeq(all, d + 1, Len(all)) \in Seq(Row)
      /\ Len(SubSeq(all, d + 1, Len(all))) = IF d + 1 <= Len(all) THEN Len(all) - (d + 1) + 1 ELSE 0
      /\ \A i \in 1 .. Len(all) - (d + 1) + 1 : SubSeq(all, d + 1, Len(all))[i] = all[(d + 1) + i - 1]
  BY <1>5, <1>6, SubSeqProperties
<1>8. Len(Window(all)) = Len(all) - d
  BY <1>2, <1>3, <1>4, <1>7
<1>9. ASSUME NEW i \in 1 .. Len(all) - d PROVE Window(all)[i] = all[i + d]
  <2>1. i \in 1 .. Len(all) - (d + 1) + 1 /\ (d + 1) + i - 1 = i + d
    BY <1>2, <1>3
  <2> QED BY <1>4, <1>7, <2>1
<1> QED BY <1>3, <1>4, <1>7, <1>8, <1>9

LEMMA DrawnIsRow ==
  ASSUME NEW look \in Looks
  PROVE  /\ Drawn(look) \in Row /\ Drawn(look).look = look /\ Drawn(look).num = 0
         /\ Drawn(look).turn = 0 /\ Drawn(look).text = "empty"
<1>1. Width \in Nat
  BY WidthAssumption
<1> QED BY <1>1 DEF Drawn, Row, Texts

LEMMA WrittenIsRow ==
  ASSUME NEW look \in Looks, NEW text \in Texts
  PROVE  /\ Written(look, text) \in Row
         /\ Written(look, text).look = look /\ Written(look, text).turn = 0
         /\ Written(look, text).text = text /\ Written(look, text).num = 0
<1>1. Drawn(look) \in Row /\ Drawn(look).look = look /\ Drawn(look).turn = 0 /\ Drawn(look).num = 0
  BY DrawnIsRow
<1> QED BY <1>1 DEF Written, Row

LEMMA OptionIsRow ==
  ASSUME NEW n \in 1 .. 3, NEW label \in Texts, NEW at
  PROVE  Option(n, label, at) \in Row
<1>1. \A look \in {"prose", "chevron"} : Drawn(look) \in Row
  BY DrawnIsRow DEF Looks
<1>2. PICK r \in Row : r = Drawn(IF at = n THEN "chevron" ELSE "prose")
  BY <1>1
<1>3. Option(n, label, at) = [[r EXCEPT !.num = n] EXCEPT !.text = label]
  BY <1>2 DEF Option
<1>4. n \in 0 .. 9
  OBVIOUS
<1>5. [r EXCEPT !.num = n] \in Row
  BY <1>4 DEF Row
<1> QED BY <1>3, <1>5 DEF Row

LEMMA DialogEndsWithFooter ==
  ASSUME NEW g \in 1 .. 3
  PROVE  /\ DialogRows(g) \in Seq(Row)
         /\ Len(DialogRows(g)) # 0
         /\ DialogRows(g)[Len(DialogRows(g))].look = "footer"
<1> DEFINE head == <<Drawn("rule"), Written("prose", "command"), Drawn("blank"),
                     Written("prose", "question"),
                     Option(1, "refuse", g), Option(2, "accept", g)>>
           more == IF "chat" \in Feature THEN <<Drawn("rule"), Option(3, "chat", g)>> ELSE <<>>
           last == <<Drawn("footer")>>
<1>1. \A look \in {"rule", "prose", "blank", "footer", "chevron"} : Drawn(look) \in Row
  BY DrawnIsRow DEF Looks
<1>2. \A text \in Texts : Written("prose", text) \in Row
  BY WrittenIsRow DEF Looks
<1>3. \A n \in 1 .. 3, label \in Texts : Option(n, label, g) \in Row
  BY OptionIsRow
<1>4. head \in Seq(Row) /\ more \in Seq(Row) /\ last \in Seq(Row) /\ Len(last) = 1
  <2>1. head \in Seq(Row)
    <3>1. Option(1, "refuse", g) \in Row /\ Option(2, "accept", g) \in Row
      BY <1>3 DEF Texts
    <3>2. Written("prose", "command") \in Row /\ Written("prose", "question") \in Row
      BY <1>2 DEF Texts
    <3>3. Drawn("rule") \in Row /\ Drawn("blank") \in Row
      BY <1>1
    <3> QED BY <3>1, <3>2, <3>3
  <2>2. more \in Seq(Row)
    <3>1. Option(3, "chat", g) \in Row /\ Drawn("rule") \in Row
      BY <1>1, <1>3 DEF Texts
    <3> QED BY <3>1
  <2>3. Drawn("footer") \in Row
    BY <1>1
  <2>4. last \in Seq(Row) /\ Len(last) = 1
    BY <2>3
  <2> QED BY <2>1, <2>2, <2>4
<1>5. last[1].look = "footer"
  BY DrawnIsRow DEF Looks
<1>6. DialogRows(g) = head \o more \o last
  BY DEF DialogRows
<1> HIDE DEF head, more, last
<1>7. head \o more \in Seq(Row)
  BY <1>4
<1>8. PICK h \in Seq(Row) : h = head \o more
  BY <1>7
<1>9. /\ h \o last \in Seq(Row) /\ Len(h \o last) = Len(h) + Len(last)
      /\ \A i \in 1 .. Len(h) + Len(last) :
           (h \o last)[i] = IF i <= Len(h) THEN h[i] ELSE last[i - Len(h)]
  BY <1>4, ConcatProperties
<1>10. (h \o last)[Len(h) + 1] = last[1]
  BY <1>4, <1>9
<1> QED BY <1>4, <1>5, <1>6, <1>8, <1>9, <1>10

LEMMA DraftIsRow ==
  ASSUME NEW d \in {"empty", "text", "list"}
  PROVE  \E r \in Row : /\ r.look = "chevron" /\ r.turn = 0 /\ r.text \in {"empty", "draft"}
                        /\ DraftRows(d) = <<r>>
<1>1. "chevron" \in Looks /\ "draft" \in Texts
  BY DEF Looks, Texts
<1>2. CASE d = "empty"
  BY <1>1, <1>2, DrawnIsRow DEF DraftRows
<1>3. PICK w \in Row : w = Written("chevron", "draft") /\ w.look = "chevron" /\ w.turn = 0 /\ w.text = "draft"
  BY <1>1, WrittenIsRow
<1>4. CASE d = "text"
  BY <1>3, <1>4 DEF DraftRows
<1>5. CASE d = "list"
  <2>1. [w EXCEPT !.num = 1] \in Row
    BY DEF Row
  <2>2. DraftRows(d) = <<[w EXCEPT !.num = 1]>>
    BY <1>3, <1>5 DEF DraftRows
  <2>3. [w EXCEPT !.num = 1].look = w.look /\ [w EXCEPT !.num = 1].turn = w.turn
        /\ [w EXCEPT !.num = 1].text = w.text
    BY DEF Row
  <2> QED BY <1>3, <2>1, <2>2, <2>3
<1> QED BY <1>2, <1>4, <1>5

(* The box: at most a spinner row above it, and rows the parser takes for  *)
(* chrome.                                                                 *)
IsBox(rows) ==
  /\ rows \in Seq(Row)
  /\ \A i \in 1 .. Len(rows) : /\ rows[i].turn = 0
                               /\ rows[i].look \in PanelChrome \/ (i = 1 /\ rows[i].look = "spin")

LEMMA BoxJoined ==
  ASSUME NEW a, NEW b \in Seq(Row), IsBox(a),
         \A i \in 1 .. Len(b) : b[i].turn = 0 /\ b[i].look \in PanelChrome
  PROVE  /\ IsBox(a \o b) /\ Len(a \o b) = Len(a) + Len(b)
         /\ Len(b) # 0 => (a \o b)[Len(a \o b)] = b[Len(b)]
<1>1. a \in Seq(Row) /\ Len(a) \in Nat /\ Len(b) \in Nat
  BY DEF IsBox
<1>2. /\ a \o b \in Seq(Row) /\ Len(a \o b) = Len(a) + Len(b)
      /\ \A i \in 1 .. Len(a) + Len(b) :
           (a \o b)[i] = IF i <= Len(a) THEN a[i] ELSE b[i - Len(a)]
  BY <1>1, ConcatProperties
<1>3. PICK c \in Seq(Row) : c = a \o b
  BY <1>2
<1>4. ASSUME NEW i \in 1 .. Len(c)
      PROVE  c[i].turn = 0 /\ (c[i].look \in PanelChrome \/ (i = 1 /\ c[i].look = "spin"))
  <2>1. CASE i <= Len(a)
    <3>1. i \in 1 .. Len(a) /\ c[i] = a[i]
      BY <1>1, <1>2, <1>3, <2>1
    <3> QED BY <3>1 DEF IsBox
  <2>2. CASE i > Len(a)
    <3>1. i - Len(a) \in 1 .. Len(b) /\ c[i] = b[i - Len(a)]
      BY <1>1, <1>2, <1>3, <2>2
    <3> QED BY <3>1
  <2> QED BY <1>1, <2>1, <2>2
<1>5. Len(b) # 0 => c[Len(c)] = b[Len(b)]
  BY <1>1, <1>2, <1>3
<1> QED BY <1>2, <1>3, <1>4, <1>5 DEF IsBox

\* A box of m rows.
Box(rows, m) == /\ IsBox(rows) /\ m = Len(rows) /\ m \in 4 .. 5
                /\ rows[m].look \in Statuses

LEMMA BoxIs ==
  ASSUME NEW p \in Panels, p.draft \in {"empty", "text", "list"}
  PROVE  \E m \in Nat : Box(BoxRows(p), m)
<1>1. \A look \in {"spin", "spinHint", "border", "boxed", "rule", "status", "busy"} :
        Drawn(look) \in Row /\ Drawn(look).look = look /\ Drawn(look).turn = 0
  BY DrawnIsRow DEF Looks, Spinners, Statuses
<1>2. /\ "border" \in PanelChrome /\ "boxed" \in PanelChrome /\ "rule" \in PanelChrome
      /\ "chevron" \in PanelChrome /\ "status" \in PanelChrome /\ "busy" \in PanelChrome
      /\ "spinHint" \in PanelChrome /\ "status" \in Statuses /\ "busy" \in Statuses
  BY DEF PanelChrome, Statuses
<1>3. p.busy \in BOOLEAN
  BY DEF Panels
<1>4. PICK top : top = IF p.busy THEN <<Drawn(IF layout = "boxed" THEN "spinHint" ELSE "spin")>> ELSE <<>>
  OBVIOUS
<1>5. IsBox(top) /\ Len(top) \in 0 .. 1
  <2>1. CASE p.busy
    <3>1. PICK s \in Row : s = Drawn(IF layout = "boxed" THEN "spinHint" ELSE "spin")
                           /\ s.look \in {"spinHint", "spin"} /\ s.turn = 0
      BY <1>1
    <3>2. top = <<s>>
      BY <1>4, <2>1, <3>1
    <3> QED BY <1>2, <3>1, <3>2 DEF IsBox
  <2>2. CASE ~p.busy
    BY <1>4, <2>2 DEF IsBox
  <2> QED BY <2>1, <2>2
<1>6. PICK border \in Row, boxed \in Row, rule \in Row, status \in Row, work \in Row :
        /\ border = Drawn("border") /\ boxed = Drawn("boxed") /\ rule = Drawn("rule")
        /\ status = Drawn("status") /\ work = Drawn(IF p.busy THEN "busy" ELSE "status")
        /\ border.look = "border" /\ boxed.look = "boxed" /\ rule.look = "rule"
        /\ status.look = "status" /\ work.look \in Statuses
        /\ border.turn = 0 /\ boxed.turn = 0 /\ rule.turn = 0 /\ status.turn = 0 /\ work.turn = 0
  BY <1>1, <1>2
<1>7. CASE layout = "boxed"
  <2> DEFINE b == <<border, boxed, border, status>>
  <2>1. BoxRows(p) = top \o b
    BY <1>4, <1>6, <1>7 DEF BoxRows
  <2>2. b \in Seq(Row) /\ Len(b) = 4 /\ b[1] = border /\ b[2] = boxed /\ b[3] = border /\ b[4] = status
    OBVIOUS
  <2> HIDE DEF b
  <2>3. \A i \in 1 .. Len(b) : b[i].turn = 0 /\ b[i].look \in PanelChrome
    BY <1>2, <1>6, <2>2
  <2>4. /\ IsBox(top \o b) /\ Len(top \o b) = Len(top) + Len(b)
        /\ Len(b) # 0 => (top \o b)[Len(top \o b)] = b[Len(b)]
    BY <1>5, <2>2, <2>3, BoxJoined
  <2>5. Len(top) = 0 \/ Len(top) = 1
    BY <1>5
  <2>6. PICK m \in Nat : (m = 4 \/ m = 5) /\ m = Len(top) + 4
    <3>1. CASE Len(top) = 0
      <4>1. 4 = Len(top) + 4
        BY <3>1
      <4> QED BY <4>1
    <3>2. CASE Len(top) = 1
      <4>1. 5 = Len(top) + 4
        BY <3>2
      <4> QED BY <4>1
    <3> QED BY <2>5, <3>1, <3>2
  <2>7. m = Len(top \o b)
    BY <2>2, <2>4, <2>6
  <2>8. m \in 4 .. 5
    BY <2>6
  <2> QED BY <1>2, <1>6, <2>1, <2>2, <2>4, <2>7, <2>8 DEF Box
<1>8. CASE layout # "boxed"
  <2>1. PICK r \in Row : r.look = "chevron" /\ r.turn = 0 /\ DraftRows(p.draft) = <<r>>
    BY DraftIsRow
  <2> DEFINE b == <<rule, work>>
  <2>2. BoxRows(p) = top \o <<rule>> \o <<r>> \o b
    BY <1>4, <1>6, <1>8, <2>1 DEF BoxRows
  <2>3. b \in Seq(Row) /\ Len(b) = 2 /\ b[1] = rule /\ b[2] = work
    OBVIOUS
  <2> HIDE DEF b
  <2>4. \A i \in 1 .. Len(b) : b[i].turn = 0 /\ b[i].look \in PanelChrome
    BY <1>2, <1>6, <2>3 DEF Statuses
  <2>a. ASSUME NEW t, IsBox(t), NEW q \in Row, q.turn = 0, q.look \in PanelChrome
        PROVE  IsBox(t \o <<q>>) /\ Len(t \o <<q>>) = Len(t) + 1
    <3> DEFINE one == <<q>>
    <3>1. one \in Seq(Row) /\ Len(one) = 1 /\ one[1] = q
      OBVIOUS
    <3> HIDE DEF one
    <3>2. \A i \in 1 .. Len(one) : one[i].turn = 0 /\ one[i].look \in PanelChrome
      BY <2>a, <3>1
    <3>3. IsBox(t \o one) /\ Len(t \o one) = Len(t) + Len(one)
      BY <2>a, <3>1, <3>2, BoxJoined
    <3> QED BY <3>1, <3>3 DEF one
  <2>5. IsBox(top \o <<rule>>) /\ Len(top \o <<rule>>) = Len(top) + 1
    BY <1>2, <1>5, <1>6, <2>a
  <2>6. PICK two : two = top \o <<rule>>
    OBVIOUS
  <2>7. IsBox(two \o <<r>>) /\ Len(two \o <<r>>) = Len(two) + 1
    BY <1>2, <2>1, <2>5, <2>6, <2>a
  <2>8. PICK three : three = two \o <<r>>
    OBVIOUS
  <2>9. /\ IsBox(three \o b) /\ Len(three \o b) = Len(three) + Len(b)
        /\ Len(b) # 0 => (three \o b)[Len(three \o b)] = b[Len(b)]
    BY <2>3, <2>4, <2>7, <2>8, BoxJoined
  <2>10. BoxRows(p) = three \o b
    BY <2>2, <2>6, <2>8
  <2>11. Len(three) = Len(top) + 2
    BY <1>5, <2>5, <2>6, <2>7, <2>8
  <2>12. Len(three \o b) = Len(top) + 4 /\ (three \o b)[Len(three \o b)] = work
    BY <1>5, <2>3, <2>9, <2>11
  <2>13. work.look \in Statuses
    BY <1>6
  <2>14. PICK box : box = three \o b
    OBVIOUS
  <2>15. IsBox(box)
    BY <2>9, <2>14
  <2>17. Len(box) \in 4 .. 5
    <3>1. Len(box) = Len(top) + 4
      BY <2>12, <2>14
    <3>2. PICK n \in 0 .. 1 : n = Len(top)
      BY <1>5
    <3>3. Len(box) = n + 4 /\ n + 4 \in 4 .. 5
      <4>1. Len(box) = n + 4
        BY <3>1, <3>2
      <4>2. n = 0 \/ n = 1
        OBVIOUS
      <4>3. n + 4 \in 4 .. 5
        BY <4>2
      <4> QED BY <4>1, <4>3
    <3> QED BY <3>3
  <2>16. box[Len(box)].look \in Statuses
    BY <2>12, <2>13, <2>14
  <2> QED BY <2>10, <2>14, <2>15, <2>16, <2>17 DEF Box
<1> QED BY <1>7, <1>8

(* What a capture is that reads as no dialog: the end of what the CLI has  *)
(* printed, after s rows that have scrolled away, and the box under it.    *)
Shape(c, n, s) ==
  /\ c \in Seq(Row) /\ s \in 0 .. n /\ n - s <= Len(c)
  /\ \A i \in 1 .. n - s : c[i] = conv[s + i]
  /\ \A i \in n - s + 1 .. Len(c) :
       c[i].turn = 0 /\ (c[i].look \in PanelChrome \/ (c[i].look = "spin" /\ i = n - s + 1))
  /\ s = 0 \/ s + Height <= n + 5
  /\ s = n \/ s + Height >= n + 4

LEMMA WindowJoin ==
  ASSUME NEW a \in Seq(Row), NEW b \in Seq(Row)
  PROVE  /\ Window(a \o b) \in Seq(Row)
         /\ \E d \in Nat :
              /\ d <= Len(a) + Len(b)
              /\ (d = 0 /\ Len(a) + Len(b) <= Height) \/ (d >= 1 /\ d + Height = Len(a) + Len(b))
              /\ Len(Window(a \o b)) = Len(a) + Len(b) - d
              /\ \A i \in 1 .. Len(a) + Len(b) - d :
                   Window(a \o b)[i] = IF i + d <= Len(a) THEN a[i + d] ELSE b[i + d - Len(a)]
<1>1. Len(a) \in Nat /\ Len(b) \in Nat /\ Height \in Nat
  BY HeightAssumption
<1>2. /\ a \o b \in Seq(Row) /\ Len(a \o b) = Len(a) + Len(b)
      /\ \A i \in 1 .. Len(a) + Len(b) : (a \o b)[i] = IF i <= Len(a) THEN a[i] ELSE b[i - Len(a)]
  BY ConcatProperties
<1>3. PICK all \in Seq(Row) :
        /\ all = a \o b /\ Len(all) = Len(a) + Len(b)
        /\ \A i \in 1 .. Len(a) + Len(b) : all[i] = IF i <= Len(a) THEN a[i] ELSE b[i - Len(a)]
  BY <1>2
<1>4. PICK d : d = IF Len(all) > Height THEN Len(all) - Height ELSE 0
  OBVIOUS
<1>5. /\ Window(all) \in Seq(Row)
      /\ d \in 0 .. Len(all)
      /\ Len(Window(all)) = Len(all) - d
      /\ \A i \in 1 .. Len(all) - d : Window(all)[i] = all[i + d]
  BY <1>4, WindowRows
<1>6. PICK e \in Nat : e = d /\ e <= Len(all)
  BY <1>5
<1>7. (e = 0 /\ Len(a) + Len(b) <= Height) \/ (e >= 1 /\ e + Height = Len(a) + Len(b))
  <2>1. CASE Len(all) > Height
    BY <1>1, <1>3, <1>4, <1>6, <2>1
  <2>2. CASE ~(Len(all) > Height)
    BY <1>1, <1>3, <1>4, <1>6, <2>2
  <2> QED BY <2>1, <2>2
<1>8. ASSUME NEW i \in 1 .. Len(a) + Len(b) - e
      PROVE  Window(all)[i] = IF i + e <= Len(a) THEN a[i + e] ELSE b[i + e - Len(a)]
  <2>1. i \in Nat /\ i >= 1 /\ i + e <= Len(a) + Len(b)
    BY <1>1
  <2>2. i + e \in 1 .. Len(a) + Len(b) /\ i \in 1 .. Len(all) - d
    BY <1>1, <1>3, <1>6, <2>1
  <2>3. Window(all)[i] = all[i + e]
    BY <1>5, <1>6, <2>2
  <2>4. PICK j \in 1 .. Len(a) + Len(b) : j = i + e
    BY <2>2
  <2>5. all[j] = IF j <= Len(a) THEN a[j] ELSE b[j - Len(a)]
    BY <1>3
  <2> QED BY <2>3, <2>4, <2>5
<1>9. Len(Window(all)) = Len(a) + Len(b) - e /\ e <= Len(a) + Len(b)
  BY <1>3, <1>5, <1>6
<1> QED BY <1>3, <1>5, <1>7, <1>8, <1>9

LEMMA FooterOnScreen ==
  ASSUME NEW a \in Seq(Row), NEW g \in 1 .. 3,
         DetectState(Window(a \o DialogRows(g))) # "dialog"
  PROVE  FALSE
<1>1. PICK b \in Seq(Row) : b = DialogRows(g) /\ Len(b) # 0 /\ b[Len(b)].look = "footer"
  BY DialogEndsWithFooter
<1>2. Window(a \o b) \in Seq(Row)
  BY WindowJoin
<1>3. PICK d \in Nat :
        /\ d <= Len(a) + Len(b)
        /\ (d = 0 /\ Len(a) + Len(b) <= Height) \/ (d >= 1 /\ d + Height = Len(a) + Len(b))
        /\ Len(Window(a \o b)) = Len(a) + Len(b) - d
        /\ \A i \in 1 .. Len(a) + Len(b) - d :
             Window(a \o b)[i] = IF i + d <= Len(a) THEN a[i + d] ELSE b[i + d - Len(a)]
  BY WindowJoin
<1>4. PICK c \in Seq(Row) : c = Window(a \o b)
  BY <1>2
<1>5. Height \in Nat \ {0} /\ BottomRows \in Nat \ {0}
  BY HeightAssumption, BottomAssumption
<1>6. Len(a) \in Nat /\ Len(b) \in Nat /\ Len(b) >= 1
  BY <1>1
<1>7. Len(c) = Len(a) + Len(b) - d /\ Len(c) >= 1
  BY <1>3, <1>4, <1>5, <1>6
<1>8. Len(c) \in 1 .. Len(a) + Len(b) - d /\ Len(c) \in 1 .. Len(c)
  BY <1>6, <1>7
<1>9. c[Len(c)] = b[Len(b)]
  <2>1. Len(c) + d = Len(a) + Len(b) /\ ~(Len(c) + d <= Len(a)) /\ Len(c) + d - Len(a) = Len(b)
    BY <1>6, <1>7
  <2> QED BY <1>3, <1>4, <1>8, <2>1
<1>10. Len(c) > Len(c) - BottomRows
  BY <1>5, <1>7
<1>11. c[Len(c)].look = "footer" /\ c[Len(c)].look # "blank"
  BY <1>1, <1>9
<1>12. DetectState(c) = "dialog"
  BY <1>8, <1>10, <1>11, FooterIsDialog
<1> QED BY <1>1, <1>4, <1>12

LEMMA FooterOverBox ==
  ASSUME NEW a \in Seq(Row), NEW g \in 1 .. 3,
         NEW b, NEW m \in Nat, Box(b, m), BottomRows > 5, Height > m
  PROVE  DetectState(Window((a \o DialogRows(g)) \o b)) = "dialog"
<1>1. PICK q \in Seq(Row) : q = DialogRows(g) /\ Len(q) # 0 /\ q[Len(q)].look = "footer"
  BY DialogEndsWithFooter
<1>2. /\ a \o q \in Seq(Row) /\ Len(a \o q) = Len(a) + Len(q)
      /\ \A i \in 1 .. Len(a) + Len(q) : (a \o q)[i] = IF i <= Len(a) THEN a[i] ELSE q[i - Len(a)]
  BY ConcatProperties
<1>3. PICK f \in Seq(Row) :
        /\ f = a \o q /\ Len(f) = Len(a) + Len(q)
        /\ \A i \in 1 .. Len(a) + Len(q) : f[i] = IF i <= Len(a) THEN a[i] ELSE q[i - Len(a)]
  BY <1>2
<1>4. Len(a) \in Nat /\ Len(q) \in Nat /\ Len(q) >= 1
  BY <1>1
<1>a. b \in Seq(Row) /\ m = Len(b) /\ b[m].look \in Statuses
  BY DEF Box, IsBox
<1>b. m = 4 \/ m = 5
  BY DEF Box
<1>5. f[Len(f)].look = "footer"
  <2>1. /\ Len(f) \in 1 .. Len(a) + Len(q) /\ ~(Len(f) <= Len(a))
        /\ Len(f) - Len(a) = Len(q)
    BY <1>3, <1>4
  <2> QED BY <1>1, <1>3, <2>1
<1>6. PICK n \in Nat : n = Len(f)
  OBVIOUS
<1>7. n >= 1
  BY <1>3, <1>4, <1>6
<1>8. Window(f \o b) \in Seq(Row)
  BY <1>a, WindowJoin
<1>9. \E d \in Nat :
        /\ d <= Len(f) + Len(b)
        /\ (d = 0 /\ Len(f) + Len(b) <= Height) \/ (d >= 1 /\ d + Height = Len(f) + Len(b))
        /\ Len(Window(f \o b)) = Len(f) + Len(b) - d
        /\ \A i \in 1 .. Len(f) + Len(b) - d :
             Window(f \o b)[i] = IF i + d <= Len(f) THEN f[i + d] ELSE b[i + d - Len(f)]
  BY <1>a, WindowJoin
<1>20. PICK c \in Seq(Row) : c = Window(f \o b)
  BY <1>8
<1>10. PICK d \in Nat :
        /\ d <= n + m
        /\ (d = 0 /\ n + m <= Height) \/ (d >= 1 /\ d + Height = n + m)
        /\ Len(c) = n + m - d
        /\ \A i \in 1 .. n + m - d : c[i] = IF i + d <= n THEN f[i + d] ELSE b[i + d - n]
  BY <1>6, <1>9, <1>20, <1>a
<1>11. Height \in Nat \ {0} /\ BottomRows \in Nat \ {0}
  BY HeightAssumption, BottomAssumption
<1>13. d < n
  BY <1>7, <1>10, <1>11
<1>14. PICK i \in Nat : i + d = n /\ i >= 1
  <2>1. n - d \in Nat /\ (n - d) + d = n /\ n - d >= 1
    BY <1>13
  <2> QED BY <2>1
<1>d. PICK l \in Nat : l = i + m
  OBVIOUS
<1>e. n + m - d = l /\ l >= 1
  BY <1>13, <1>14, <1>d
<1>f. l = Len(c) /\ \A j \in 1 .. l : c[j] = IF j + d <= n THEN f[j + d] ELSE b[j + d - n]
  BY <1>10, <1>e
<1>15. i \in 1 .. l /\ l \in 1 .. l /\ ~(l + d <= n) /\ l + d - n = m
  BY <1>14, <1>b, <1>d, <1>e
<1>16. i > l - BottomRows
  <2>1. BottomRows \in Nat
    BY <1>11
  <2> QED BY <1>b, <1>d, <2>1
<1>17. c[i].look = "footer"
  <2>1. c[i] = IF i + d <= n THEN f[i + d] ELSE b[i + d - n]
    BY <1>15, <1>f
  <2>2. c[i] = f[n]
    BY <1>14, <2>1
  <2> QED BY <1>5, <1>6, <2>2
<1>18. c[l].look # "blank"
  <2>1. c[l] = b[m]
    BY <1>15, <1>f
  <2> QED BY <1>a, <2>1 DEF Statuses
<1>19. DetectState(c) = "dialog"
  BY <1>15, <1>16, <1>17, <1>18, <1>f, FooterIsDialog
<1> QED BY <1>1, <1>3, <1>19, <1>20

LEMMA BoxOnly ==
  ASSUME NEW a \in Seq(Row), NEW b, NEW m \in Nat, Box(b, m), Height <= m, NEW n \in Nat
  PROVE  Shape(Window(a \o b), n, n)
<1>1. b \in Seq(Row) /\ m = Len(b)
  BY DEF Box, IsBox
<1>2. m = 4 \/ m = 5
  BY DEF Box
<1>3. PICK k \in Nat : k = Len(a)
  OBVIOUS
<1>4. Window(a \o b) \in Seq(Row)
  BY <1>1, WindowJoin
<1>5. \E d \in Nat :
        /\ d <= Len(a) + Len(b)
        /\ (d = 0 /\ Len(a) + Len(b) <= Height) \/ (d >= 1 /\ d + Height = Len(a) + Len(b))
        /\ Len(Window(a \o b)) = Len(a) + Len(b) - d
        /\ \A i \in 1 .. Len(a) + Len(b) - d :
             Window(a \o b)[i] = IF i + d <= Len(a) THEN a[i + d] ELSE b[i + d - Len(a)]
  BY <1>1, WindowJoin
<1>6. PICK c \in Seq(Row) : c = Window(a \o b)
  BY <1>4
<1>7. PICK d \in Nat :
        /\ d <= k + m
        /\ (d = 0 /\ k + m <= Height) \/ (d >= 1 /\ d + Height = k + m)
        /\ Len(c) = k + m - d
        /\ \A i \in 1 .. k + m - d : c[i] = IF i + d <= k THEN a[i + d] ELSE b[i + d - k]
  BY <1>1, <1>3, <1>5, <1>6
<1>8. Height \in Nat \ {0}
  BY HeightAssumption
<1>9. d >= k
  BY <1>7, <1>8
<1>10. PICK l \in Nat : l = k + m - d
  BY <1>7
<1>11. l = Len(c) /\ \A i \in 1 .. l : c[i] = IF i + d <= k THEN a[i + d] ELSE b[i + d - k]
  BY <1>7, <1>10
<1>12. ASSUME NEW i \in 1 .. l
       PROVE  c[i].turn = 0 /\ (c[i].look \in PanelChrome \/ (c[i].look = "spin" /\ i = 1))
  <2>1. i \in Nat /\ i >= 1 /\ i <= l
    OBVIOUS
  <2>2. PICK j \in Nat : j = i + d - k
    BY <1>9, <2>1
  <2>3. j >= 1 /\ j <= m /\ (j = 1 => i = 1)
    BY <1>9, <1>10, <2>1, <2>2
  <2>4. c[i] = b[j]
    <3>1. ~(i + d <= k)
      BY <1>9, <2>1
    <3> QED BY <1>11, <2>2, <3>1
  <2>5. j \in 1 .. m
    BY <2>3
  <2>6. b[j].turn = 0 /\ (b[j].look \in PanelChrome \/ (j = 1 /\ b[j].look = "spin"))
    BY <1>1, <2>5 DEF Box, IsBox
  <2> QED BY <2>3, <2>4, <2>6
<1>13. n + Height <= n + 5
  BY <1>2, <1>8
<1>14. n - n = 0 /\ n \in 0 .. n /\ 0 <= Len(c) /\ n - n + 1 = 1
  OBVIOUS
<1>15. \A i \in 1 .. 0 : c[i] = conv[n + i]
  OBVIOUS
<1> QED BY <1>6, <1>11, <1>12, <1>13, <1>14, <1>15 DEF Shape

LEMMA BoxUnderRows ==
  ASSUME conv \in Seq(Row), NEW n \in Nat, n <= Len(conv), NEW b, NEW m \in Nat, Box(b, m)
  PROVE  \E s \in Nat : Shape(Window(SubSeq(conv, 1, n) \o b), n, s)
<1>1. b \in Seq(Row) /\ m = Len(b)
  BY DEF Box, IsBox
<1>2. m = 4 \/ m = 5
  BY DEF Box
<1>3. PICK a \in Seq(Row) : /\ a = SubSeq(conv, 1, n) /\ Len(a) = n
                            /\ \A i \in 1 .. n : a[i] = conv[i]
  <2>1. PICK v \in Seq(Row) : v = conv /\ n <= Len(v)
    OBVIOUS
  <2>2. /\ SubSeq(v, 1, n) \in Seq(Row) /\ Len(SubSeq(v, 1, n)) = n
        /\ \A i \in 1 .. n : SubSeq(v, 1, n)[i] = v[i]
    BY <2>1, SubSeqProperties
  <2> QED BY <2>1, <2>2
<1>4. Window(a \o b) \in Seq(Row)
  BY <1>1, WindowJoin
<1>5. \E d \in Nat :
        /\ d <= Len(a) + Len(b)
        /\ (d = 0 /\ Len(a) + Len(b) <= Height) \/ (d >= 1 /\ d + Height = Len(a) + Len(b))
        /\ Len(Window(a \o b)) = Len(a) + Len(b) - d
        /\ \A i \in 1 .. Len(a) + Len(b) - d :
             Window(a \o b)[i] = IF i + d <= Len(a) THEN a[i + d] ELSE b[i + d - Len(a)]
  BY <1>1, WindowJoin
<1>6. PICK c \in Seq(Row) : c = Window(a \o b)
  BY <1>4
<1>7. PICK d \in Nat :
        /\ d <= n + m
        /\ (d = 0 /\ n + m <= Height) \/ (d >= 1 /\ d + Height = n + m)
        /\ Len(c) = n + m - d
        /\ \A i \in 1 .. n + m - d : c[i] = IF i + d <= n THEN a[i + d] ELSE b[i + d - n]
  BY <1>1, <1>3, <1>5, <1>6, ZenonT(60)
<1>8. Height \in Nat \ {0}
  BY HeightAssumption
<1>9. CASE d > n
  <2>1. Height <= m
    BY <1>7, <1>8, <1>9
  <2>2. Shape(c, n, n)
    BY <1>6, <2>1, BoxOnly
  <2> QED BY <1>3, <1>6, <2>2
<1>10. CASE d <= n
  <2>1. PICK l \in Nat : l = n + m - d
    BY <1>7
  <2>2. l = Len(c) /\ \A i \in 1 .. l : c[i] = IF i + d <= n THEN a[i + d] ELSE b[i + d - n]
    BY <1>7, <2>1
  <2>3. PICK k \in Nat : k = n - d
    BY <1>10
  <2>4. k <= l /\ d \in 0 .. n
    BY <1>2, <1>10, <2>1, <2>3
  <2>5. ASSUME NEW i \in 1 .. k PROVE c[i] = conv[d + i]
    <3>1. i \in 1 .. l /\ i + d <= n /\ i + d \in 1 .. n /\ i + d = d + i
      BY <2>3, <2>4
    <3> QED BY <1>3, <2>2, <3>1
  <2>6. ASSUME NEW i \in k + 1 .. l
        PROVE  c[i].turn = 0 /\ (c[i].look \in PanelChrome \/ (c[i].look = "spin" /\ i = k + 1))
    <3>1. i \in Nat /\ i >= k + 1 /\ i <= l
      BY <2>3
    <3>2. PICK j \in Nat : j = i - k
      BY <3>1
    <3>3. j >= 1 /\ j <= m /\ (j = 1 => i = k + 1) /\ i + d - n = j /\ ~(i + d <= n)
      BY <2>1, <2>3, <3>1, <3>2
    <3>7. i \in 1 .. l
      BY <3>1
    <3>4. c[i] = b[j]
      BY <2>2, <3>3, <3>7
    <3>5. j \in 1 .. m
      BY <3>3
    <3>6. b[j].turn = 0 /\ (b[j].look \in PanelChrome \/ (j = 1 /\ b[j].look = "spin"))
      BY <1>1, <3>5 DEF Box, IsBox
    <3> QED BY <3>3, <3>4, <3>6
  <2>7. d = 0 \/ d + Height <= n + 5
    BY <1>2, <1>7, <1>8
  <2>8. d = n \/ d + Height >= n + 4
    BY <1>2, <1>7, <1>8
  <2>9. Shape(c, n, d)
    BY <2>2, <2>3, <2>4, <2>5, <2>6, <2>7, <2>8 DEF Shape
  <2> QED BY <1>3, <1>6, <2>9
<1> QED BY <1>9, <1>10

LEMMA ViewIs ==
  ASSUME conv \in Seq(Row), NEW n \in Nat, n <= Len(conv), NEW g \in 0 .. 3, NEW p \in Panels,
         "lines" \notin Drafts, BottomRows > 5, DetectState(View(n, g, p)) # "dialog"
  PROVE  \E s \in Nat : Shape(View(n, g, p), n, s)
<1>1. PICK a \in Seq(Row) : a = SubSeq(conv, 1, n)
  <2>1. PICK v \in Seq(Row) : v = conv /\ n <= Len(v)
    OBVIOUS
  <2>2. SubSeq(v, 1, n) \in Seq(Row)
    BY <2>1, SubSeqProperties
  <2> QED BY <2>1, <2>2
<1>2. p.cursor = 0
  <2>1. SUFFICES ASSUME p.cursor # 0 PROVE FALSE
    OBVIOUS
  <2>2. p.cursor \in 1 .. 3
    BY <2>1 DEF Panels
  <2>3. PICK h \in Seq(Row) : h = a \o LeftOver(g)
    <3>1. LeftOver(g) \in Seq(Row)
      <4>1. CASE g = 0
        BY <4>1 DEF LeftOver
      <4>2. CASE g \in 1 .. 3
        BY <4>2, DialogEndsWithFooter DEF LeftOver
      <4> QED BY <4>1, <4>2
    <3> QED BY <3>1, ConcatProperties
  <2>4. View(n, g, p) = Window(h \o DialogRows(p.cursor))
    BY <1>1, <2>1, <2>3 DEF View, PanelRows
  <2> QED BY <2>2, <2>4, FooterOnScreen
<1>3. p.draft \in {"empty", "text", "list"}
  BY DraftsAssumption DEF Panels
<1>4. PICK m \in Nat : Box(BoxRows(p), m)
  BY <1>3, BoxIs
<1>5. PICK b : b = BoxRows(p) /\ Box(b, m)
  BY <1>4
<1>6. CASE g = 0
  <2>1. a \o <<>> = a
    BY ConcatEmptySeq
  <2>2. View(n, g, p) = Window(a \o b)
    BY <1>1, <1>2, <1>5, <1>6, <2>1 DEF View, LeftOver, PanelRows
  <2>3. \E s \in Nat : Shape(Window(SubSeq(conv, 1, n) \o b), n, s)
    BY <1>5, BoxUnderRows
  <2> QED BY <1>1, <2>2, <2>3
<1>7. CASE g \in 1 .. 3
  <2>1. View(n, g, p) = Window((a \o DialogRows(g)) \o b)
    BY <1>1, <1>2, <1>5, <1>7 DEF View, LeftOver, PanelRows
  <2>2. Height <= m
    <3>1. ASSUME Height > m PROVE FALSE
      BY <1>5, <1>7, <2>1, <3>1, FooterOverBox
    <3>2. Height \in Nat
      BY HeightAssumption
    <3> QED BY <3>1, <3>2
  <2>3. PICK h \in Seq(Row) : h = a \o DialogRows(g)
    BY <1>7, DialogEndsWithFooter, ConcatProperties
  <2>4. Shape(Window(h \o b), n, n)
    BY <1>5, <2>2, BoxOnly
  <2> QED BY <2>1, <2>3, <2>4
<1> QED BY <1>6, <1>7

-----------------------------------------------------------------------------
(* The inductive invariant.  Of the conversation: its rows are in the order *)
(* of their turns, which follow one another; a turn begins with its message *)
(* and, when it is over, ends with a completion, or with the note of Esc.   *)
Utterances == Bullets \cup {"chevron", "prose", "quote", "code", "result", "done"}

TurnsInOrder == \A i, j \in 1 .. Len(conv) : i <= j => conv[i].turn <= conv[j].turn
OneByOne == \A i \in 2 .. Len(conv) : conv[i].turn <= conv[i - 1].turn + 1
LastIsOfTurn == Len(conv) >= 1 /\ conv[1].turn >= 1 /\ conv[Len(conv)].turn = turn
Said == \A i \in 1 .. Len(conv) : conv[i].look \in Utterances
MessageFirst ==
  \A i \in 1 .. Len(conv) :
     conv[i].look = "chevron" <=> (i = 1 \/ conv[i - 1].turn # conv[i].turn)
Ends(i) == IF i = Len(conv) THEN ~busy ELSE conv[i + 1].turn # conv[i].turn
EndsWell ==
  \A i \in 1 .. Len(conv) : Ends(i) =>
     IF conv[i].turn \in cuts THEN conv[i].look = "result" ELSE conv[i].look \in {"done", "notice"}

Conversation ==
  TurnsInOrder /\ OneByOne /\ LastIsOfTurn /\ Said /\ MessageFirst /\ EndsWell

(* The terminal is behind by what the turn under way has said last, or by  *)
(* one row.                                                                *)
UpToDate(n) == \A i \in n + 1 .. Len(conv) : IF busy THEN conv[i].turn = turn ELSE i = Len(conv)

(* The session and the CLI: a message is not yet taken up, or its turn is  *)
(* the last; the transcript follows.                                       *)
Sending == /\ sent = turn + (IF inbox THEN 1 ELSE 0)
           /\ inbox => observing /\ ~busy /\ lastStreamed = NoRows
           /\ busy => turn \notin cuts
           /\ written <= 2 * turn - (IF busy THEN 1 ELSE 0)

(* Among the n rows painted is a bullet of the turn, or the turn before has *)
(* one and was cut: no gate lets a frame through before that.              *)
Seen(n) == /\ turn = sent
           /\ \E i \in 1 .. Len(conv) :
                /\ conv[i].look \in Bullets
                /\ \/ i <= n /\ conv[i].turn = sent
                   \/ conv[i].turn = sent - 1 /\ sent - 1 \in cuts
Streamed == observing /\ lastStreamed # NoRows => Seen(painted)

(* What is captured has been on the screen.                                *)
Captured ==
  looked =>
    /\ observing
    /\ \E n \in 0 .. painted, g \in 0 .. 3, p \in Panels :
         cap = View(n, g, p) /\ UpToDate(n) /\ (lastStreamed # NoRows => Seen(n))

(* The baseline counts at least the bullets above a message that shares the *)
(* screen with them, if the turn before was cut.                           *)
OldEnd(e) == /\ \A i \in 1 .. e : conv[i].turn < sent
             /\ \A i \in e + 1 .. Len(conv) : conv[i].turn = sent
OldBullets(s, e) == {i \in 1 .. e - s : conv[s + i].look \in Bullets}
Counts ==
  observing /\ sent - 1 \in cuts =>
    \A e \in 0 .. Len(conv) : \A s \in 0 .. e :
       OldEnd(e) /\ s + Height >= e + 5 => Cardinality(OldBullets(s, e)) <= baseline

IInv == /\ TypeOK /\ Conversation /\ UpToDate(painted) /\ Sending /\ Streamed /\ Captured /\ Counts
        /\ FramesAreOfTheTurn

-----------------------------------------------------------------------------
(* Where the last turn begins.                                             *)
Boundary(m) ==
  /\ m \in 1 .. Len(conv)
  /\ \A i \in 1 .. m - 1 : conv[i].turn < turn
  /\ \A i \in m .. Len(conv) : conv[i].turn = turn
  /\ conv[m].look = "chevron"
  /\ \A i \in m + 1 .. Len(conv) : conv[i].look # "chevron"
  /\ m > 1 => /\ conv[m - 1].turn = turn - 1
              /\ IF turn - 1 \in cuts THEN conv[m - 1].look = "result"
                 ELSE conv[m - 1].look \in {"done", "notice"}

LEMMA RowsOfConv ==
  ASSUME TypeOK
  PROVE  /\ conv \in Seq(Row) /\ Len(conv) \in Nat /\ turn \in Nat
         /\ \A i \in 1 .. Len(conv) : conv[i] \in Row /\ conv[i].turn \in Nat
<1>1. conv \in Seq(Row)
  BY DEF TypeOK
<1>2. turn \in Nat
  BY BoundsAssumption DEF TypeOK
<1>3. \A i \in 1 .. Len(conv) : conv[i] \in Row
  BY <1>1
<1>4. \A r \in Row : r.turn \in Nat
  BY DEF Row
<1> QED BY <1>1, <1>2, <1>3, <1>4

LEMMA FirstOfTurn ==
  ASSUME TypeOK, Conversation, NEW i \in 1 .. Len(conv)
  PROVE  \E m \in 1 .. i : /\ conv[m].turn = conv[i].turn
                           /\ conv[m].look = "chevron"
                           /\ \A j \in 1 .. m - 1 : conv[j].turn < conv[i].turn
<1>1. PICK v \in Seq(Row) : v = conv
  BY DEF TypeOK
<1>2. \A j \in 1 .. Len(v) : v[j].turn \in Nat
  BY <1>1, RowsOfConv
<1>3. PICK t : t = v[i].turn
  OBVIOUS
<1>4. PICK S : S = {j \in 1 .. Len(v) : v[j].turn = t}
  OBVIOUS
<1>5. i \in S /\ S \in SUBSET Nat
  BY <1>1, <1>3, <1>4
<1>6. PICK m \in S : \A y \in S : m <= y
  BY <1>5, LeastExists
<1>7. m \in 1 .. Len(v) /\ v[m].turn = t /\ m <= i /\ m \in 1 .. i
  BY <1>1, <1>4, <1>5, <1>6
<1>8. ASSUME NEW j \in 1 .. m - 1 PROVE v[j].turn < t
  <2>1. j \in 1 .. Len(v) /\ j < m
    BY <1>7
  <2>2. v[j].turn # t
    BY <1>4, <1>6, <2>1
  <2>3. v[j].turn <= v[m].turn
    BY <1>1, <1>7, <2>1 DEF Conversation, TurnsInOrder
  <2> QED BY <1>2, <1>7, <2>1, <2>2, <2>3
<1>9. v[m].look = "chevron"
  <2>1. m = 1 \/ v[m - 1].turn # v[m].turn
    <3>1. SUFFICES ASSUME m # 1 PROVE v[m - 1].turn # v[m].turn
      OBVIOUS
    <3>2. m - 1 \in 1 .. m - 1 /\ m - 1 \in 1 .. Len(v)
      BY <1>7, <3>1
    <3> QED BY <1>2, <1>7, <1>8, <3>2
  <2> QED BY <1>1, <1>7, <2>1 DEF Conversation, MessageFirst
<1> QED BY <1>1, <1>3, <1>7, <1>8, <1>9

LEMMA BoundaryExists ==
  ASSUME TypeOK, Conversation
  PROVE  \E m \in Nat : Boundary(m)
<1>1. PICK v \in Seq(Row) : v = conv
  BY DEF TypeOK
<1>2. PICK n \in Nat : n = Len(v) /\ n >= 1 /\ v[n].turn = turn
  BY <1>1 DEF Conversation, LastIsOfTurn
<1>3. \A j \in 1 .. n : v[j].turn \in Nat
  BY <1>1, <1>2, RowsOfConv
<1>4. n \in 1 .. Len(conv)
  BY <1>1, <1>2
<1>5. PICK m \in 1 .. n : /\ v[m].turn = turn
                          /\ v[m].look = "chevron"
                          /\ \A j \in 1 .. m - 1 : v[j].turn < turn
  BY <1>1, <1>2, <1>4, FirstOfTurn
<1>6. m \in Nat /\ m >= 1 /\ m <= n
  OBVIOUS
<1>7. ASSUME NEW i \in m .. n PROVE v[i].turn = turn
  <2>1. i \in 1 .. n /\ m <= i /\ i <= n /\ n \in 1 .. n
    BY <1>6
  <2>2. v[m].turn <= v[i].turn /\ v[i].turn <= v[n].turn
    BY <1>1, <1>2, <2>1 DEF Conversation, TurnsInOrder
  <2> QED BY <1>2, <1>3, <1>5, <2>1, <2>2
<1>8. ASSUME NEW i \in m + 1 .. n PROVE v[i].look # "chevron"
  <2>1. i \in 1 .. n /\ i # 1 /\ i \in m .. n /\ i - 1 \in m .. n
    BY <1>6
  <2>2. v[i - 1].turn = v[i].turn
    BY <1>7, <2>1
  <2> QED BY <1>1, <1>2, <2>1, <2>2 DEF Conversation, MessageFirst
<1>9. ASSUME m > 1
      PROVE  /\ v[m - 1].turn = turn - 1
             /\ IF turn - 1 \in cuts THEN v[m - 1].look = "result"
                ELSE v[m - 1].look \in {"done", "notice"}
  <2>1. m - 1 \in 1 .. m - 1 /\ m - 1 \in 1 .. n /\ m \in 2 .. n /\ m - 1 # n /\ (m - 1) + 1 = m
    BY <1>6, <1>9
  <2>2. v[m - 1].turn < turn
    BY <1>5, <2>1
  <2>3. v[m].turn <= v[m - 1].turn + 1
    BY <1>1, <1>2, <2>1 DEF Conversation, OneByOne
  <2>4. turn \in Nat /\ v[m - 1].turn \in Nat
    BY <1>3, <1>5, <2>1
  <2>5. v[m - 1].turn = turn - 1
    BY <1>5, <2>2, <2>3, <2>4
  <2>6. Ends(m - 1)
    BY <1>1, <1>2, <1>5, <2>1, <2>2, <2>4 DEF Ends
  <2>7. IF v[m - 1].turn \in cuts THEN v[m - 1].look = "result"
        ELSE v[m - 1].look \in {"done", "notice"}
    BY <1>1, <1>2, <2>1, <2>6 DEF Conversation, EndsWell
  <2> QED BY <2>5, <2>7
<1> QED BY <1>1, <1>2, <1>5, <1>7, <1>8, <1>9 DEF Boundary

LEMMA OldEndShown ==
  ASSUME TypeOK, Conversation, NEW n \in Nat, n <= Len(conv), UpToDate(n),
         NEW m \in Nat, Boundary(m)
  PROVE  m - 1 <= n
<1>1. PICK v \in Seq(Row), l \in Nat : v = conv /\ l = Len(v) /\ n <= l
  BY DEF TypeOK
<1>2. m \in 1 .. l
  BY <1>1 DEF Boundary
<1>3. SUFFICES ASSUME n + 1 < m PROVE FALSE
  BY <1>2
<1>4. n + 1 \in 1 .. m - 1 /\ n + 1 \in n + 1 .. l /\ n + 1 # l
  BY <1>2, <1>3
<1>5. CASE busy
  <2>1. v[n + 1].turn = turn
    BY <1>1, <1>4, <1>5 DEF UpToDate
  <2>2. v[n + 1].turn < turn
    BY <1>1, <1>4 DEF Boundary
  <2>3. turn \in Nat
    BY RowsOfConv
  <2> QED BY <2>1, <2>2, <2>3
<1>6. CASE ~busy
  <2>1. n + 1 = l
    BY <1>1, <1>4, <1>6 DEF UpToDate
  <2> QED BY <1>4, <2>1
<1> QED BY <1>5, <1>6

LEMMA ScreenRows ==
  ASSUME TypeOK, Conversation, NEW c, NEW n \in Nat, n <= Len(conv), NEW s \in Nat, Shape(c, n, s)
  PROVE  /\ n - s \in Nat /\ c \in Seq(Row) /\ n - s <= Len(c)
         /\ \A j \in 1 .. n - s : /\ s + j \in 1 .. Len(conv) /\ c[j] = conv[s + j]
                                  /\ c[j].look \in Utterances
         /\ \A j \in 1 .. Len(c) :
              /\ c[j].look \in Bullets \cup {"done", "result"} \/ c[j].turn # 0 => j \in 1 .. n - s
              /\ c[j].look \in Bullets \cup {"done", "result"} => j <= TailEnd(c, PanelChrome)
         /\ TailEnd(c, PanelChrome) \in 0 .. Len(c)
         /\ \A j \in 1 .. TailEnd(c, PanelChrome) : j > n - s => c[j].look = "spin"
<1>1. c \in Seq(Row) /\ s <= n /\ n - s <= Len(c)
  BY DEF Shape
<1>2. PICK k \in Nat : k = n - s
  BY <1>1
<1>3. /\ \A j \in 1 .. k : c[j] = conv[s + j]
      /\ \A j \in k + 1 .. Len(c) :
           c[j].turn = 0 /\ (c[j].look \in PanelChrome \/ (c[j].look = "spin" /\ j = k + 1))
  BY <1>2 DEF Shape
<1>4. PICK l \in Nat : l = Len(conv) /\ n <= l
  BY RowsOfConv
<1>5. ASSUME NEW j \in 1 .. k
      PROVE  s + j \in 1 .. Len(conv) /\ c[j] = conv[s + j] /\ c[j].look \in Utterances
  <2>1. s + j \in 1 .. l
    BY <1>2, <1>4
  <2>2. conv[s + j].look \in Utterances
    BY <1>4, <2>1 DEF Conversation, Said
  <2> QED BY <1>3, <1>4, <2>1, <2>2
<1>6. PICK end \in 0 .. Len(c) :
        /\ end = TailEnd(c, PanelChrome)
        /\ end # 0 => c[end].look \notin PanelChrome
        /\ \A i \in 1 .. Len(c) : c[i].look \notin PanelChrome => i <= end
  BY <1>1, TailOf
<1>7. ASSUME NEW j \in 1 .. Len(c)
      PROVE  /\ c[j].look \in Bullets \cup {"done", "result"} \/ c[j].turn # 0 => j \in 1 .. k
             /\ c[j].look \in Bullets \cup {"done", "result"} => j <= end
  <2>1. j \in Nat /\ j >= 1 /\ j <= Len(c)
    BY <1>1
  <2>2. \A look \in Bullets \cup {"done", "result"} : look \notin PanelChrome /\ look # "spin"
    BY DEF Bullets, PanelChrome, Statuses
  <2>3. ASSUME j > k PROVE c[j].turn = 0 /\ c[j].look \notin Bullets \cup {"done", "result"}
    <3>1. j \in k + 1 .. Len(c)
      BY <2>1, <2>3
    <3> QED BY <1>3, <2>2, <3>1
  <2>4. ~(j > k) => j \in 1 .. k
    BY <2>1
  <2> QED BY <1>6, <2>2, <2>3, <2>4
<1>8. ASSUME NEW j \in 1 .. end, j > k PROVE c[j].look = "spin"
  <2>1. PICK h \in Nat : h = Len(c)
    BY <1>1
  <2>2. end \in Nat /\ end <= h
    BY <1>6, <2>1
  <2>3. j \in Nat /\ j <= end /\ j >= k + 1
    BY <1>8, <2>2
  <2>4. end \in k + 1 .. Len(c) /\ end # 0 /\ j \in k + 1 .. Len(c)
    BY <2>1, <2>2, <2>3
  <2>5. c[end].look = "spin" /\ end = k + 1
    BY <1>3, <1>6, <2>4
  <2> QED BY <2>3, <2>5
<1> QED BY <1>1, <1>2, <1>5, <1>6, <1>7, <1>8

LEMMA ActiveIsSeen ==
  ASSUME TypeOK, Conversation, NEW c, NEW n \in Nat, n <= Len(conv), UpToDate(n),
         NEW s \in Nat, Shape(c, n, s), ActiveBullet(c), turn = sent
  PROVE  Seen(n)
<1>1. PICK m \in Nat : Boundary(m)
  BY BoundaryExists
<1>2. /\ n - s \in Nat /\ c \in Seq(Row) /\ n - s <= Len(c)
      /\ \A j \in 1 .. n - s : s + j \in 1 .. Len(conv) /\ c[j] = conv[s + j]
      /\ \A j \in 1 .. Len(c) : c[j].look \in Bullets => j \in 1 .. n - s
  BY ScreenRows
<1>3. PICK k \in Nat : k = n - s
  BY <1>2
<1>4. PICK te \in 0 .. Len(c) :
        /\ te = TailEnd(c, BulletChrome)
        /\ \A i \in 1 .. Len(c) : c[i].look \notin BulletChrome => i <= te
  BY <1>2, TailOf
<1>5. PICK l \in 1 .. te :
        /\ c[l].look \in Bullets
        /\ \A j \in l .. te : c[j].look \notin {"done", "chevron", "notice"}
  BY <1>2, <1>4, ActiveIs
<1>6. PICK h \in Nat : h = Len(c) /\ k <= h /\ te <= h
  BY <1>2, <1>3, <1>4
<1>7. l \in 1 .. k
  BY <1>2, <1>3, <1>5, <1>6
<1>8. s + l \in 1 .. Len(conv) /\ conv[s + l].look \in Bullets /\ s + l <= n
  BY <1>2, <1>3, <1>5, <1>7
<1>9. PICK b \in Nat : b = s + l
  OBVIOUS
<1>10. CASE b >= m
  <2>1. b \in m .. Len(conv)
    BY <1>8, <1>9, <1>10
  <2>2. conv[b].turn = turn
    BY <1>1, <2>1 DEF Boundary
  <2> QED BY <1>8, <1>9, <2>2 DEF Seen
<1>11. CASE b < m
  <2>1. m > 1 /\ m - 1 <= n /\ m \in 1 .. Len(conv)
    <3>1. b >= 1
      BY <1>7, <1>9
    <3> QED BY <1>1, <1>11, <3>1, OldEndShown DEF Boundary
  <2>2. PICK e \in Nat : e = m - 1
    BY <2>1
  <2>3. e >= b /\ e <= n /\ e \in 1 .. Len(conv)
    BY <1>8, <1>9, <1>11, <2>1, <2>2
  <2>4. PICK o \in Nat : o = e - s
    BY <1>9, <2>3
  <2>5. o >= l /\ o <= k /\ o \in 1 .. k /\ s + o = e
    BY <1>3, <1>7, <1>9, <2>3, <2>4
  <2>6. c[o] = conv[e]
    BY <1>2, <1>3, <2>5
  <2>7. c[o].look \in {"done", "notice", "result"} /\ (c[o].look = "result" => turn - 1 \in cuts)
        /\ conv[e].turn = turn - 1
    BY <1>1, <2>1, <2>2, <2>6 DEF Boundary
  <2>8. o <= te
    <3>1. c[o].look \notin BulletChrome
      BY <2>7 DEF BulletChrome, Statuses
    <3>2. o \in 1 .. Len(c)
      BY <1>6, <2>5
    <3> QED BY <1>4, <3>1, <3>2
  <2>9. o \in l .. te
    BY <2>5, <2>8
  <2>10. turn - 1 \in cuts
    BY <1>5, <2>7, <2>9
  <2>11. PICK f \in 1 .. e : conv[f].turn = conv[e].turn /\ conv[f].look = "chevron"
    BY <2>3, FirstOfTurn
  <2>12. f <= b
    <3>1. SUFFICES ASSUME f > b PROVE FALSE
      BY <2>3
    <3>2. PICK q \in Nat : q = f - s
      BY <1>9, <3>1
    <3>3. q >= l /\ q <= o /\ q \in 1 .. k /\ s + q = f
      BY <1>7, <1>9, <2>3, <2>4, <2>5, <3>1, <3>2
    <3>4. q \in l .. te
      BY <2>8, <3>3
    <3>5. c[q] = conv[f]
      BY <1>2, <1>3, <3>3
    <3> QED BY <1>5, <2>11, <3>4, <3>5
  <2>13. conv[b].turn = turn - 1
    <3>1. f \in 1 .. Len(conv) /\ b \in 1 .. Len(conv)
      BY <1>8, <1>9, <2>3
    <3>2. conv[f].turn <= conv[b].turn /\ conv[b].turn <= conv[e].turn
      BY <2>3, <2>12, <3>1 DEF Conversation, TurnsInOrder
    <3>3. conv[b].turn \in Nat /\ conv[e].turn \in Nat
      BY <2>3, <3>1, RowsOfConv
    <3> QED BY <2>7, <2>11, <3>2, <3>3
  <2> QED BY <1>8, <1>9, <2>10, <2>13 DEF Seen
<1>12. m \in Nat /\ b \in Nat
  OBVIOUS
<1> QED BY <1>10, <1>11, <1>12

(* The landmark, once a bullet is on the screen below a message and no     *)
(* other message is below that one.                                        *)
LEMMA LandmarkShown ==
  ASSUME TypeOK, Conversation, NEW c, NEW n \in Nat, n <= Len(conv), NEW s \in Nat, Shape(c, n, s),
         NEW k \in Nat, k = n - s, NEW end, end = TailEnd(c, PanelChrome),
         NEW x \in 1 .. k, NEW y \in 1 .. k, x < y,
         c[x].look = "chevron", c[y].look \in Bullets,
         \A z \in 1 .. k : z <= end /\ c[z].look = "chevron" => z <= x
  PROVE  Landmark(c, end) \in x + 1 .. k
<1>1. /\ c \in Seq(Row) /\ k <= Len(c)
      /\ \A j \in 1 .. Len(c) :
              /\ c[j].look \in Bullets => j \in 1 .. k
              /\ c[j].look \in Bullets => j <= end
      /\ end \in 0 .. Len(c)
      /\ \A j \in 1 .. end : j > k => c[j].look = "spin"
  BY ScreenRows
<1>2. PICK h \in Nat : h = Len(c) /\ k <= h
  BY <1>1
<1>3. end \in Nat /\ end <= h
  BY <1>1, <1>2
<1>4. x \in Nat /\ x >= 1 /\ x <= k /\ y \in Nat /\ y >= 1 /\ y <= k
  OBVIOUS
<1>5. y <= end
  <2>1. y \in 1 .. Len(c)
    BY <1>2, <1>4
  <2> QED BY <1>1, <2>1
<1>6. x \in 1 .. end /\ y \in 1 .. end
  BY <1>3, <1>4, <1>5
<1>7. ASSUME NEW z \in 1 .. end, c[z].look = "chevron" PROVE z < y
  <2>1. ~(z > k)
    BY <1>1, <1>7
  <2>2. z \in 1 .. k /\ z <= end
    BY <1>3, <2>1
  <2>3. z <= x
    BY <1>7, <2>2
  <2> QED BY <1>4, <2>2, <2>3
<1>8. PICK a : a = Landmark(c, end)
  OBVIOUS
<1>9. /\ a \in 0 .. end
      /\ a # 0 => c[a].look \in Bullets /\ \A i \in 1 .. end : c[i].look = "chevron" => i < a
      /\ \A i, j \in 1 .. end :
               /\ c[i].look \in Bullets /\ c[j].look = "chevron"
               /\ \A z \in 1 .. end : c[z].look = "chevron" => z < i
               => a # 0
  BY <1>3, <1>8, LandmarkIs
<1>10. a # 0
  BY <1>6, <1>7, <1>9
<1>11. a \in Nat /\ x < a /\ a \in 1 .. Len(c)
  BY <1>2, <1>3, <1>6, <1>9, <1>10
<1>12. a \in 1 .. k
  BY <1>1, <1>9, <1>10, <1>11
<1>13. a \in x + 1 .. k
  BY <1>4, <1>11, <1>12
<1> QED BY <1>8, <1>13

(* A row that a frame may hold.                                            *)
Allowed(i) == conv[i].turn = sent \/ (conv[i].turn = sent - 1 /\ sent - 1 \in cuts)

LEMMA AllowedBelow ==
  ASSUME TypeOK, Conversation, turn = sent,
         NEW i \in 1 .. Len(conv), NEW j \in 1 .. Len(conv), i <= j, Allowed(i)
  PROVE  Allowed(j)
<1>1. PICK l \in Nat : l = Len(conv) /\ l \in 1 .. Len(conv) /\ conv[l].turn = turn
  BY RowsOfConv DEF Conversation, LastIsOfTurn
<1>2. conv[i].turn <= conv[j].turn /\ conv[j].turn <= conv[l].turn
  BY <1>1 DEF Conversation, TurnsInOrder
<1>3. conv[i].turn \in Nat /\ conv[j].turn \in Nat /\ turn \in Nat
  BY RowsOfConv
<1> QED BY <1>1, <1>2, <1>3 DEF Allowed

(* Counting finds nothing above the message that is on the screen.         *)
LEMMA CountedBelow ==
  ASSUME TypeOK, Conversation, Counts, observing, sent - 1 \in cuts,
         NEW c, NEW n \in Nat, n <= Len(conv), NEW s \in Nat, Shape(c, n, s),
         NEW e \in Nat, OldEnd(e), s < e, e < n,
         NEW end \in Nat, NEW a \in Nat, a = Counted(c, end, baseline), a # 0
  PROVE  s + a > e
<1>1. SUFFICES ASSUME s + a <= e PROVE FALSE
  OBVIOUS
<1>2. /\ n - s \in Nat
      /\ \A j \in 1 .. n - s : c[j] = conv[s + j]
  BY ScreenRows
<1>3. PICK k \in Nat : k = n - s
  BY <1>2
<1>4. s + Height >= n + 4
  <2>1. s = n \/ s + Height >= n + 4
    BY DEF Shape
  <2> QED BY <2>1
<1>5. s + Height >= e + 5
  <2>1. Height \in Nat
    BY HeightAssumption
  <2> QED BY <1>4, <2>1
<1>6. e \in 0 .. Len(conv) /\ s \in 0 .. e
  <2>1. PICK l \in Nat : l = Len(conv) /\ n <= l
    BY RowsOfConv
  <2> QED BY <2>1
<1>7. Cardinality(OldBullets(s, e)) <= baseline
  BY <1>5, <1>6 DEF Counts
<1>8. Cardinality(Upto(c, a, Bullets)) = baseline + 1
  BY CountedIs
<1>9. PICK o \in Nat : o = e - s
  BY <1>6
<1>10. OldBullets(s, e) \in SUBSET (1 .. o)
  BY <1>9 DEF OldBullets
<1>11. IsFiniteSet(OldBullets(s, e))
  <2>1. IsFiniteSet(1 .. o)
    BY FS_Interval
  <2> QED BY <1>10, <2>1, FS_Subset
<1>12. ASSUME NEW i \in Upto(c, a, Bullets) PROVE i \in OldBullets(s, e)
  <2>1. i \in 1 .. a /\ c[i].look \in Bullets
    BY DEF Upto
  <2>2. i \in 1 .. k /\ i \in 1 .. e - s
    BY <1>1, <1>3, <2>1
  <2>3. c[i] = conv[s + i]
    BY <1>2, <1>3, <2>2
  <2> QED BY <2>1, <2>2, <2>3 DEF OldBullets
<1>13. Cardinality(Upto(c, a, Bullets)) <= Cardinality(OldBullets(s, e))
  <2>1. Upto(c, a, Bullets) \in SUBSET OldBullets(s, e)
    BY <1>12
  <2> QED BY <1>11, <2>1, FS_Subset
<1>14. baseline \in Nat /\ Cardinality(OldBullets(s, e)) \in Nat
  <2>1. baseline \in Nat
    BY RowsOfConv DEF TypeOK
  <2> QED BY <1>11, <2>1, FS_CardinalityType
<1> QED BY <1>7, <1>8, <1>13, <1>14

(* Three rows of it lie below a completion of an older turn.               *)
LEMMA PonderingBelow ==
  ASSUME NEW c \in Seq(Row), NEW end \in 0 .. Len(c),
         NEW x \in 1 .. end, NEW y \in 1 .. end, NEW z \in 1 .. end, x < y, y < z,
         c[x].look # "blank", c[y].look # "blank", c[z].look # "blank",
         NEW a \in Nat, a = Pondering(c, end), a # 0
  PROVE  a >= x
<1>1. SUFFICES ASSUME a < x PROVE FALSE
  OBVIOUS
<1>2. PICK h \in Nat : h = Len(c)
  OBVIOUS
<1>3. end \in Nat /\ end <= h
  BY <1>2
<1>4. PICK D : D = {j \in Solid(c) : a < j /\ j <= end}
  OBVIOUS
<1>5. Cardinality(D) < 3
  BY <1>3, <1>4, PonderingIs
<1>6. D \in SUBSET (1 .. end)
  <2>1. \A j \in Solid(c) : j \in 1 .. h
    BY <1>2 DEF Solid
  <2> QED BY <1>3, <1>4, <2>1
<1>7. IsFiniteSet(D)
  <2>1. IsFiniteSet(1 .. end)
    BY <1>3, FS_Interval
  <2> QED BY <1>6, <2>1, FS_Subset
<1>8. x \in D /\ y \in D /\ z \in D
  <2>1. x \in 1 .. Len(c) /\ y \in 1 .. Len(c) /\ z \in 1 .. Len(c)
    BY <1>2, <1>3
  <2>2. x \in Solid(c) /\ y \in Solid(c) /\ z \in Solid(c)
    BY <2>1 DEF Solid
  <2> QED BY <1>1, <1>3, <1>4, <2>2
<1>9. PICK X : X = {x} /\ IsFiniteSet(X) /\ Cardinality(X) = 1
  BY FS_Singleton
<1>10. PICK Y : Y = X \cup {y} /\ IsFiniteSet(Y) /\ Cardinality(Y) = 2
  <2>1. y \notin X
    BY <1>9
  <2>2. /\ IsFiniteSet(X \cup {y})
        /\ Cardinality(X \cup {y}) = IF y \in X THEN Cardinality(X) ELSE Cardinality(X) + 1
    BY <1>9, FS_AddElement
  <2> QED BY <1>9, <2>1, <2>2
<1>11. PICK Z : Z = Y \cup {z} /\ IsFiniteSet(Z) /\ Cardinality(Z) = 3
  <2>1. z \notin Y
    BY <1>9, <1>10
  <2>2. /\ IsFiniteSet(Y \cup {z})
        /\ Cardinality(Y \cup {z}) = IF z \in Y THEN Cardinality(Y) ELSE Cardinality(Y) + 1
    BY <1>10, FS_AddElement
  <2> QED BY <1>10, <2>1, <2>2
<1>12. Z \in SUBSET D
  BY <1>8, <1>9, <1>10, <1>11
<1>13. 3 <= Cardinality(D) /\ Cardinality(D) \in Nat
  BY <1>7, <1>11, <1>12, FS_Subset, FS_CardinalityType
<1> QED BY <1>5, <1>13

(* extract_raw_response begins at a row of the turn.                       *)
LEMMA StartIsOfTurn ==
  ASSUME TypeOK, Conversation, Counts, observing, turn = sent,
         NEW c, NEW n \in Nat, n <= Len(conv), UpToDate(n), Seen(n),
         NEW s \in Nat, Shape(c, n, s),
         NEW start, start = FrameStart(c, baseline, sent), start \in 1 .. n - s
  PROVE  s + start \in 1 .. Len(conv) /\ Allowed(s + start)
<1>1. PICK m \in Nat : Boundary(m)
  BY BoundaryExists
<1>2. /\ n - s \in Nat /\ c \in Seq(Row) /\ n - s <= Len(c)
      /\ \A j \in 1 .. n - s : /\ s + j \in 1 .. Len(conv) /\ c[j] = conv[s + j]
                               /\ c[j].look \in Utterances
      /\ \A j \in 1 .. Len(c) :
              /\ c[j].look \in Bullets \cup {"done", "result"} \/ c[j].turn # 0 => j \in 1 .. n - s
              /\ c[j].look \in Bullets \cup {"done", "result"} => j <= TailEnd(c, PanelChrome)
      /\ TailEnd(c, PanelChrome) \in 0 .. Len(c)
      /\ \A j \in 1 .. TailEnd(c, PanelChrome) : j > n - s => c[j].look = "spin"
  BY ScreenRows
<1>3. PICK k \in Nat : k = n - s
  BY <1>2
<1>4. PICK end \in Nat : end = TailEnd(c, PanelChrome) /\ end \in 0 .. Len(c)
  BY <1>2
<1>5. PICK l \in Nat : l = Len(conv) /\ n <= l
  BY RowsOfConv
<1>6. s + start \in 1 .. Len(conv) /\ start \in Nat /\ start >= 1
  BY <1>2, <1>3
<1>7. PICK a \in Nat : a = s + start /\ a \in 1 .. Len(conv) /\ a > s
  BY <1>6
<1>8. m \in 1 .. Len(conv) /\ conv[m].look = "chevron" /\ conv[m].turn = sent
  <2>1. m \in m .. Len(conv)
    BY <1>1 DEF Boundary
  <2> QED BY <1>1, <2>1 DEF Boundary
<1>9. ASSUME a >= m PROVE Allowed(a)
  BY <1>7, <1>8, <1>9, AllowedBelow DEF Allowed
<1>10. SUFFICES ASSUME a < m, ~Allowed(a) PROVE FALSE
  BY <1>7, <1>9, <1>8
<1>11. PICK e \in Nat : e = m - 1 /\ s < e /\ e <= n /\ e \in 1 .. Len(conv)
  <2>1. m - 1 <= n
    BY <1>1, OldEndShown
  <2>2. m - 1 \in Nat /\ m - 1 \in 1 .. Len(conv) /\ s < m - 1
    BY <1>5, <1>7, <1>8, <1>10
  <2> QED BY <2>1, <2>2
<1>12. PICK o \in Nat : o = e - s /\ s + o = e
  BY <1>11
<1>13. o >= 1 /\ o <= k /\ start <= o
  BY <1>3, <1>6, <1>7, <1>10, <1>11, <1>12
<1>14. /\ Landmark(c, end) # 0 => start = Landmark(c, end)
       /\ Landmark(c, end) = 0 =>
            IF Counted(c, end, baseline) # 0 THEN start = Counted(c, end, baseline)
            ELSE IF Needle(c, end, sent) # 0 THEN start = Needle(c, end, sent)
            ELSE IF LastBullet(c, end) # 0 THEN start = LastBullet(c, end)
            ELSE start = Pondering(c, end)
  BY <1>4 DEF FrameStart
<1>15. \A z \in 1 .. k : c[z].look = "chevron" => z <= o + 1
  <2>1. SUFFICES ASSUME NEW z \in 1 .. k, z > o + 1, c[z].look = "chevron" PROVE FALSE
    BY <1>12
  <2>2. s + z \in 1 .. Len(conv) /\ c[z] = conv[s + z]
    BY <1>2, <1>3
  <2>3. s + z \in m + 1 .. Len(conv)
    BY <1>11, <1>12, <2>1, <2>2, SMTT(30)
  <2> QED BY <1>1, <2>1, <2>2, <2>3 DEF Boundary
<1>16. ~\E b \in 1 .. Len(conv) : conv[b].look \in Bullets /\ b <= n /\ conv[b].turn = sent
  <2>1. SUFFICES ASSUME NEW b \in 1 .. Len(conv), conv[b].look \in Bullets, b <= n, conv[b].turn = sent
                 PROVE  FALSE
    OBVIOUS
  <2>2. b > m
    <3>1. b >= m
      <4>1. SUFFICES ASSUME b \in 1 .. m - 1 PROVE FALSE
        BY <1>8
      <4>2. conv[b].turn < turn
        BY <1>1, <4>1 DEF Boundary
      <4> QED BY <2>1, <4>2, RowsOfConv
    <3>2. b # m
      BY <1>8, <2>1 DEF Bullets
    <3> QED BY <1>8, <3>1, <3>2
  <2>3. PICK y \in Nat : y = b - s
    BY <1>11, <2>2
  <2>4. y \in 1 .. k /\ s + y = b /\ o + 1 \in 1 .. k /\ o + 1 < y /\ s + (o + 1) = m
    BY <1>3, <1>11, <1>12, <2>1, <2>2, <2>3
  <2>5. c[o + 1].look = "chevron" /\ c[y].look \in Bullets
    BY <1>2, <1>3, <1>8, <2>1, <2>4
  <2>6. Landmark(c, end) \in (o + 1) + 1 .. k
    BY <1>3, <1>4, <1>15, <2>4, <2>5, LandmarkShown
  <2>7. start > o
    BY <1>12, <1>14, <2>6
  <2> QED BY <1>6, <1>13, <2>7
<1>17. PICK b \in 1 .. Len(conv) : conv[b].look \in Bullets /\ conv[b].turn = sent - 1 /\ sent - 1 \in cuts
  BY <1>16 DEF Seen
<1>18. /\ conv[e].look = "result" /\ conv[e].turn = sent - 1 /\ m > 1
  BY <1>1, <1>11, <1>17 DEF Boundary
<1>19. b < e
  <2>1. b < m
    <3>1. SUFFICES ASSUME b \in m .. Len(conv) PROVE FALSE
      BY <1>8
    <3>2. conv[b].turn = turn
      BY <1>1, <3>1 DEF Boundary
    <3> QED BY <1>17, <3>2, RowsOfConv
  <2>2. b # e
    BY <1>17, <1>18 DEF Bullets
  <2> QED BY <1>11, <2>1, <2>2
<1>20. PICK f \in 1 .. b : conv[f].turn = sent - 1 /\ conv[f].look = "chevron"
  BY <1>17, FirstOfTurn
<1>21. f \in Nat /\ f >= 1 /\ f < b /\ f \in 1 .. Len(conv)
  <2>1. f # b
    BY <1>17, <1>20 DEF Bullets
  <2> QED BY <2>1
<1>22. a < f
  <2>1. SUFFICES ASSUME a >= f PROVE FALSE
    BY <1>21
  <2>2. Allowed(f)
    BY <1>17, <1>20 DEF Allowed
  <2>3. Allowed(a)
    BY <1>7, <1>21, <2>1, <2>2, AllowedBelow
  <2> QED BY <1>10, <2>3
<1>23. PICK x \in Nat, y \in Nat : x = f - s /\ y = b - s
  BY <1>7, <1>19, <1>21, <1>22
<1>24. /\ x > start /\ x < y /\ y < o /\ x \in 1 .. k /\ y \in 1 .. k /\ o \in 1 .. k
       /\ s + x = f /\ s + y = b
  BY <1>6, <1>7, <1>11, <1>12, <1>13, <1>19, <1>21, <1>22, <1>23
<1>25. c[x].look = "chevron" /\ c[y].look \in Bullets /\ c[o].look = "result"
  BY <1>2, <1>3, <1>12, <1>17, <1>18, <1>20, <1>24
<1>26. o <= end
  <2>1. o \in 1 .. Len(c)
    BY <1>2, <1>3, <1>13, <1>24
  <2> QED BY <1>2, <1>4, <1>25, <2>1
<1>27. CASE ~(o + 1 <= k /\ o + 1 <= end)
  <2>1. ASSUME NEW z \in 1 .. k, z <= end, c[z].look = "chevron" PROVE z <= x
    <3>1. SUFFICES ASSUME z > x PROVE FALSE
      BY <1>23
    <3>2. z <= o
      BY <1>12, <1>15, <1>27, <2>1
    <3>3. s + z \in 1 .. Len(conv) /\ c[z] = conv[s + z]
      BY <1>2, <1>3
    <3>a. z \in Nat
      OBVIOUS
    <3>b. PICK i \in Nat : i = s + z
      BY <3>a
    <3>c. i > f /\ i <= e /\ f >= 1 /\ f \in Nat
      BY <1>12, <1>21, <1>24, <3>1, <3>2, <3>a, <3>b
    <3>d. i \in 1 .. l /\ i - 1 \in 1 .. l
      BY <1>5, <3>3, <3>b, <3>c, SMTT(30)
    <3>4. i \in 1 .. Len(conv) /\ i - 1 \in 1 .. Len(conv)
      BY <1>5, <3>d
    <3>5. /\ conv[f].turn <= conv[i].turn /\ conv[i].turn <= conv[e].turn
          /\ conv[f].turn <= conv[i - 1].turn /\ conv[i - 1].turn <= conv[e].turn
      <4>1. f <= i /\ i <= e /\ f <= i - 1 /\ i - 1 <= e
        BY <1>11, <3>c
      <4> QED BY <1>11, <1>21, <3>4, <4>1 DEF Conversation, TurnsInOrder
    <3>6. PICK t \in Nat, q \in Nat, p \in Nat :
            t = conv[e].turn /\ q = conv[i].turn /\ p = conv[i - 1].turn
      BY <1>11, <3>4, RowsOfConv
    <3>e. conv[f].turn = t
      BY <1>18, <1>20, <3>6
    <3>f. t <= q /\ q <= t /\ t <= p /\ p <= t
      BY <3>5, <3>6, <3>e
    <3>g. p = q
      BY <3>f
    <3>7. conv[i].turn = conv[i - 1].turn
      BY <3>6, <3>g
    <3>8. i # 1
      BY <3>c
    <3> QED BY <2>1, <3>3, <3>4, <3>7, <3>8, <3>b DEF Conversation, MessageFirst
  <2>2. Landmark(c, end) \in x + 1 .. k
    BY <1>3, <1>4, <1>24, <1>25, <2>1, LandmarkShown
  <2>3. start > x
    BY <1>14, <1>23, <2>2
  <2> QED BY <1>6, <1>24, <2>3
<1>28. CASE o + 1 <= k /\ o + 1 <= end
  <2>1. o + 1 \in 1 .. end /\ s + (o + 1) = m /\ o + 1 \in 1 .. k
    BY <1>11, <1>12, <1>28
  <2>2. c[o + 1].look = "chevron" /\ c[o + 1].turn = sent
    BY <1>2, <1>3, <1>8, <2>1
  <2>3. Landmark(c, end) = 0
    <3>1. SUFFICES ASSUME Landmark(c, end) # 0 PROVE FALSE
      OBVIOUS
    <3>2. o + 1 < start
      BY <1>4, <1>14, <2>1, <2>2, <3>1, LandmarkIs
    <3> QED BY <1>6, <1>13, <3>2
  <2>4. Counted(c, end, baseline) = 0
    <3>1. SUFFICES ASSUME Counted(c, end, baseline) # 0 PROVE FALSE
      OBVIOUS
    <3>2. start = Counted(c, end, baseline) /\ start # 0
      BY <1>14, <2>3, <3>1
    <3>3. OldEnd(e)
      <4>1. m - 1 = e /\ m = e + 1
        BY <1>11
      <4>2. /\ \A i \in 1 .. m - 1 : conv[i].turn < turn
            /\ \A i \in m .. Len(conv) : conv[i].turn = turn
        BY <1>1 DEF Boundary
      <4> QED BY <4>1, <4>2 DEF OldEnd
    <3>4. e < n
      BY <1>3, <1>12, <1>28
    <3>5. s + start > e
      BY <1>6, <1>11, <1>17, <3>2, <3>3, <3>4, CountedBelow
    <3> QED BY <1>6, <1>12, <1>13, <3>5
  <2>5. Needle(c, end, sent) = 0
    <3>1. SUFFICES ASSUME Needle(c, end, sent) # 0 PROVE FALSE
      OBVIOUS
    <3>2. start = Needle(c, end, sent)
      BY <1>14, <2>3, <2>4, <3>1
    <3>3. PICK at \in 1 .. end : at < start /\ c[at].turn = sent
      BY <1>4, <3>1, <3>2, NeedleIs
    <3>4. at \in 1 .. k
      BY <1>6, <1>13, <3>3
    <3>5. s + at \in 1 .. Len(conv) /\ conv[s + at].turn = sent
      BY <1>2, <1>3, <3>3, <3>4
    <3>6. s + at \in 1 .. m - 1
      <4>1. e = m - 1 /\ s + o = e /\ start <= o /\ start \in Nat
        BY <1>6, <1>11, <1>12, <1>13
      <4>2. PICK q \in Nat : q = at /\ q >= 1 /\ q < start
        BY <3>3
      <4>3. s + q >= 1 /\ s + q <= m - 1
        BY <4>1, <4>2
      <4> QED BY <4>2, <4>3
    <3>7. conv[s + at].turn < turn
      BY <1>1, <3>6 DEF Boundary
    <3> QED BY <3>5, <3>7, RowsOfConv
  <2>6. LastBullet(c, end) = 0
    <3>1. SUFFICES ASSUME LastBullet(c, end) # 0 PROVE FALSE
      OBVIOUS
    <3>2. o + 1 < start
      BY <1>4, <1>14, <2>1, <2>2, <2>3, <2>4, <2>5, <3>1, LastBulletIs
    <3> QED BY <1>6, <1>13, <3>2
  <2>7. start = Pondering(c, end)
    BY <1>14, <2>3, <2>4, <2>5, <2>6
  <2>8. x \in 1 .. end /\ y \in 1 .. end /\ o \in 1 .. end
    BY <1>24, <1>26
  <2>9. c[x].look # "blank" /\ c[y].look # "blank" /\ c[o].look # "blank"
    BY <1>25 DEF Bullets
  <2>10. start >= x
    BY <1>2, <1>4, <1>6, <1>24, <2>7, <2>8, <2>9, PonderingBelow, SMTT(30)
  <2> QED BY <1>6, <1>23, <1>24, <2>10
<1> QED BY <1>27, <1>28

(* A tick that streams has captured the end of the conversation, with the   *)
(* box under it and a bullet of the turn in it.                             *)
LEMMA CaptureShape ==
  ASSUME IInv, looked, Streams, BottomRows > 5, "lines" \notin Drafts
  PROVE  /\ turn = sent /\ painted \in Nat
         /\ \E n, s \in Nat : /\ n <= painted /\ n <= Len(conv) /\ UpToDate(n) /\ Seen(n)
                             /\ Shape(cap, n, s)
<1>1. TypeOK /\ Conversation /\ Sending /\ Captured /\ Counts
  BY DEF IInv
<1>2. /\ written = 2 * sent - 1
      /\ DetectState(cap) # "dialog"
      /\ DetectState(cap) = "responding" \/ lastStreamed # NoRows
  BY DEF Streams, Preface, Opened, Verdict, Effective
<1>3. turn = sent
  <2>1. turn \in Nat /\ sent \in Nat
    BY <1>1, RowsOfConv DEF Sending
  <2>2. CASE inbox
    <3>1. sent = turn + 1 /\ written <= 2 * turn
      BY <1>1, <2>1, <2>2 DEF Sending
    <3> QED BY <1>2, <2>1, <3>1
  <2>3. CASE ~inbox
    BY <1>1, <2>1, <2>3 DEF Sending
  <2> QED BY <2>2, <2>3
<1>4. PICK n \in Nat, g \in 0 .. 3, p \in Panels :
        /\ n <= painted /\ n <= Len(conv)
        /\ cap = View(n, g, p) /\ UpToDate(n) /\ (lastStreamed # NoRows => Seen(n))
  <2>1. PICK l \in Nat : l = Len(conv)
    BY <1>1, RowsOfConv
  <2>2. painted \in 0 .. l
    BY <1>1, <2>1 DEF TypeOK
  <2>3. \A n \in 0 .. painted : n \in Nat /\ n <= painted /\ n <= Len(conv)
    BY <2>1, <2>2
  <2> QED BY <1>1, <2>3 DEF Captured
<1>5. n <= painted /\ n <= Len(conv) /\ painted \in Nat
  <2>1. PICK l \in Nat : l = Len(conv)
    BY <1>1, RowsOfConv
  <2>2. painted \in 0 .. l
    BY <1>1, <2>1 DEF TypeOK
  <2> QED BY <1>4, <2>2
<1>6. PICK s \in Nat : Shape(cap, n, s)
  BY <1>1, <1>2, <1>4, <1>5, RowsOfConv, ViewIs
<1>7. Seen(n)
  <2>1. CASE lastStreamed # NoRows
    BY <1>4, <2>1
  <2>2. CASE DetectState(cap) = "responding"
    BY <1>1, <1>3, <1>4, <1>5, <1>6, <2>2, RespondingIsActive, ActiveIsSeen
  <2> QED BY <1>2, <2>1, <2>2
<1> QED BY <1>3, <1>4, <1>5, <1>6, <1>7

(* What the tick streams.                                                  *)
LEMMA FrameIsOfTurn ==
  ASSUME IInv, looked, Streams, BottomRows > 5, "lines" \notin Drafts,
         NEW frame, frame = Response
  PROVE  /\ frame \in Seq(Row) /\ turn = sent /\ Seen(painted)
         /\ \A i \in 1 .. Len(frame) :
              \/ frame[i].turn \in {sent} \cup (cuts \cap {sent - 1})
              \/ frame[i].look \in Spinners
<1>1. TypeOK /\ Conversation /\ Sending /\ Captured /\ Counts
  BY DEF IInv
<1>3. turn = sent
  BY CaptureShape
<1>4. PICK n \in Nat, s \in Nat :
        n <= painted /\ n <= Len(conv) /\ UpToDate(n) /\ Seen(n) /\ Shape(cap, n, s)
  BY CaptureShape
<1>5. n <= painted /\ n <= Len(conv) /\ painted \in Nat
  BY <1>4, CaptureShape
<1>8. Seen(painted)
  <2>1. \A i \in 1 .. Len(conv) : i <= n => i <= painted
    BY <1>5
  <2> QED BY <1>4, <2>1 DEF Seen
<1>9. PICK c : c = cap /\ Shape(c, n, s)
  BY <1>4
<1>17. Shape(c, n, s)
  BY <1>9
<1>16. /\ n - s \in Nat /\ c \in Seq(Row)
       /\ \A j \in 1 .. n - s : s + j \in 1 .. Len(conv) /\ c[j] = conv[s + j]
       /\ \A j \in 1 .. TailEnd(c, PanelChrome) : j > n - s => c[j].look = "spin"
  BY <1>1, <1>5, <1>17, ScreenRows
<1>10. PICK start, end : start = FrameStart(c, baseline, sent) /\ end = TailEnd(c, PanelChrome)
  OBVIOUS
<1>11. frame = RawResponse(c, baseline, sent)
  BY <1>9 DEF Response
<1>12. /\ frame \in Seq(Row) /\ end \in 0 .. Len(c) /\ start \in 0 .. end
       /\ frame # <<>> => start # 0
       /\ \A i \in 1 .. Len(frame) : start + i - 1 \in start .. end /\ frame[i] = c[start + i - 1]
  BY <1>10, <1>11, <1>16, FrameRows
<1>13. PICK h \in Nat : h = Len(c)
  BY <1>16
<1>14. start \in Nat /\ end \in Nat
  BY <1>12, <1>13
<1>15. ASSUME NEW i \in 1 .. Len(frame)
       PROVE  \/ frame[i].turn \in {sent} \cup (cuts \cap {sent - 1})
              \/ frame[i].look \in Spinners
  <2>1. start # 0
    BY <1>12
  <2>2. PICK j \in Nat : j = start + i - 1 /\ j >= start /\ j <= end /\ frame[i] = c[j]
    BY <1>12, <1>14
  <2>3. PICK k \in Nat : k = n - s
    BY <1>16
  <2>4. CASE j > k
    <3>1. j \in 1 .. end
      BY <1>14, <2>1, <2>2
    <3>2. c[j].look = "spin"
      BY <1>10, <1>16, <2>3, <2>4, <3>1
    <3> QED BY <2>2, <3>2 DEF Spinners
  <2>5. CASE j <= k
    <3>1. start \in 1 .. n - s /\ j \in 1 .. n - s
      BY <1>14, <2>1, <2>2, <2>3, <2>5
    <3>2. s + start \in 1 .. Len(conv) /\ Allowed(s + start)
      <4>1. observing
        BY <1>1 DEF Captured
      <4> QED BY <1>1, <1>3, <1>4, <1>5, <1>9, <1>10, <3>1, <4>1, StartIsOfTurn
    <3>3. s + j \in 1 .. Len(conv) /\ c[j] = conv[s + j]
      BY <1>16, <3>1
    <3>4. s + start <= s + j
      BY <1>14, <2>2
    <3>5. Allowed(s + j)
      BY <1>1, <1>3, <3>2, <3>3, <3>4, AllowedBelow
    <3> QED BY <2>2, <3>3, <3>5 DEF Allowed
  <2> QED BY <2>3, <2>4, <2>5
<1> QED BY <1>3, <1>8, <1>12, <1>15

(* A frame starts at a bullet, a spinner or a completion.                   *)
LEMMA StartLooks ==
  ASSUME NEW c \in Seq(Row), NEW count, NEW message,
         NEW start, start = FrameStart(c, count, message), start # 0
  PROVE  c[start].look \in Bullets \cup Spinners \cup {"done"}
<1>1. PICK end \in Nat : end = TailEnd(c, PanelChrome)
  BY TailOf
<1>2. /\ Landmark(c, end) # 0 => c[Landmark(c, end)].look \in Bullets
      /\ Counted(c, end, count) # 0 => c[Counted(c, end, count)].look \in Bullets
      /\ Needle(c, end, message) # 0 => c[Needle(c, end, message)].look \in Bullets
      /\ LastBullet(c, end) # 0 => c[LastBullet(c, end)].look \in Bullets
  BY LandmarkIs, CountedIs, NeedleIs, LastBulletIs
<1>3. Pondering(c, end) # 0 => c[Pondering(c, end)].look \in Spinners \cup {"done"}
  BY PonderingIs
<1> QED BY <1>1, <1>2, <1>3 DEF FrameStart

(* A frame of more than one row that holds nothing of another turn fits     *)
(* below the message, with the spinner.                                     *)
LEMMA FrameFits ==
  ASSUME IInv, looked, Streams, BottomRows > 5, "lines" \notin Drafts,
         NEW frame, frame = Response, Len(frame) > 1,
         \A i \in 1 .. Len(frame) : frame[i].turn = sent \/ frame[i].look \in Spinners
  PROVE  \E m \in 1 .. Len(conv) : /\ conv[m].look = "chevron" /\ conv[m].turn = sent
                                   /\ Len(frame) + m <= Len(conv) + 1
<1>1. TypeOK /\ Conversation
  BY DEF IInv
<1>a. PICK n \in Nat, s \in Nat : n <= Len(conv) /\ Shape(cap, n, s)
  BY CaptureShape
<1>2. n <= Len(conv)
  BY <1>a
<1>b. PICK c : c = cap /\ Shape(c, n, s)
  BY <1>a
<1>3. Shape(c, n, s)
  BY <1>b
<1>4. PICK l \in Nat : l = Len(conv) /\ n <= l
  BY <1>1, <1>2, RowsOfConv
<1>5. /\ n - s \in Nat /\ c \in Seq(Row)
      /\ \A j \in 1 .. n - s : /\ s + j \in 1 .. Len(conv) /\ c[j] = conv[s + j]
                               /\ c[j].look \in Utterances
      /\ \A j \in 1 .. TailEnd(c, PanelChrome) : j > n - s => c[j].look = "spin"
  BY <1>1, <1>2, <1>3, ScreenRows
<1>6. PICK k \in Nat : k = n - s
  BY <1>5
<1>7. PICK start, end : start = FrameStart(c, baseline, sent) /\ end = TailEnd(c, PanelChrome)
  OBVIOUS
<1>8. frame = RawResponse(c, baseline, sent)
  BY <1>b DEF Response
<1>9. /\ frame \in Seq(Row) /\ end \in 0 .. Len(c) /\ start \in 0 .. end
      /\ frame # <<>> => start # 0 /\ Len(frame) <= end - start + 1
      /\ \A i \in 1 .. Len(frame) : start + i - 1 \in start .. end /\ frame[i] = c[start + i - 1]
  BY <1>5, <1>7, <1>8, FrameRows
<1>10. PICK x \in Nat, f \in Nat : x = Len(c) /\ f = Len(frame)
  BY <1>5, <1>9
<1>11. start \in Nat /\ end \in Nat /\ start >= 1 /\ start <= end /\ end <= x /\ f > 1
       /\ f <= end - start + 1
  <2>1. frame # <<>>
    BY <1>9
  <2> QED BY <1>9, <1>10, <2>1
<1>12. end <= k + 1
  <2>1. SUFFICES ASSUME end > k + 1 PROVE FALSE
    BY <1>11
  <2>2. end \in 1 .. x /\ k + 1 < end /\ k + 1 >= 1 /\ end <= x
    BY <1>11, <2>1
  <2>3. end # 0 => c[end].look \notin PanelChrome
    BY <1>5, <1>7, TailOf
  <2>4. \A i \in n - s + 1 .. Len(c) :
          c[i].look \in PanelChrome \/ (c[i].look = "spin" /\ i = n - s + 1)
    BY <1>3 DEF Shape
  <2>5. end \in n - s + 1 .. Len(c) /\ end # n - s + 1
    BY <1>6, <1>10, <2>2
  <2> QED BY <2>2, <2>3, <2>4, <2>5
<1>13. start <= k
  BY <1>11, <1>12
<1>14. start \in 1 .. n - s
  BY <1>6, <1>11, <1>13
<1>15. PICK a \in 1 .. Len(conv) : a = s + start /\ c[start] = conv[a] /\ c[start].look \in Utterances
  BY <1>5, <1>14
<1>16. c[start].look \in {"done"} \cup Bullets
  <2>1. c[start].look \in Bullets \cup Spinners \cup {"done"}
    <3>1. c \in Seq(Row) /\ start = FrameStart(c, baseline, sent) /\ start # 0
      BY <1>5, <1>7, <1>11
    <3> QED BY <3>1, StartLooks
  <2>2. c[start].look \notin Spinners
    BY <1>15 DEF Utterances, Spinners, Bullets
  <2> QED BY <2>1, <2>2
<1>17. conv[a].turn = sent
  <2>1. 1 \in 1 .. Len(frame)
    BY <1>10, <1>11
  <2>2. start + 1 - 1 = start
    BY <1>11
  <2>3. frame[1] = c[start]
    BY <1>9, <2>1, <2>2
  <2>4. c[start].look \notin Spinners
    BY <1>16 DEF Spinners, Bullets
  <2> QED BY <1>15, <2>1, <2>3, <2>4
<1>18. PICK m \in 1 .. a : conv[m].turn = conv[a].turn /\ conv[m].look = "chevron"
  BY <1>1, FirstOfTurn
<1>19. m # a
  BY <1>15, <1>16, <1>18 DEF Bullets
<1>20. m \in 1 .. Len(conv) /\ f + m <= l + 1
  <2>1. m < a /\ a <= l /\ m >= 1 /\ m \in Nat
    BY <1>4, <1>18, <1>19
  <2>2. f + start <= k + 2 /\ s + k = n /\ a = s + start
    BY <1>6, <1>11, <1>12, <1>15
  <2>3. s + start + f <= l + 2
    BY <1>4, <1>11, <2>2
  <2>4. m + 1 <= s + start
    BY <2>1, <2>2
  <2>5. f + m <= l + 1
    BY <1>11, <2>1, <2>3, <2>4
  <2>6. m \in 1 .. l
    BY <2>1
  <2> QED BY <1>4, <2>5, <2>6
<1> QED BY <1>4, <1>10, <1>17, <1>18, <1>20

-----------------------------------------------------------------------------
(* A step at which the CLI prints: it goes on with the last turn, or begins *)
(* the next with a message.                                                *)
Prints(rows) ==
  /\ rows \in Seq(Row) /\ Len(rows) >= 1 /\ Draw(rows)
  /\ turn' = turn \/ (turn' = turn + 1 /\ ~busy)
  /\ \A i \in 1 .. Len(rows) :
       /\ rows[i].turn = turn' /\ rows[i].look \in Utterances
       /\ rows[i].look = "chevron" <=> (i = 1 /\ turn' # turn)
  /\ \A u \in Int : u # turn' => (u \in cuts' <=> u \in cuts)
  /\ ~busy' => /\ Len(rows) = 1
               /\ IF turn' \in cuts' THEN rows[1].look = "result" ELSE rows[1].look \in {"done", "notice"}

LEMMA PrintedRows ==
  ASSUME TypeOK, Conversation, NEW rows, Prints(rows)
  PROVE  /\ conv' \in Seq(Row) /\ Len(conv') = Len(conv) + Len(rows)
         /\ \A i \in 1 .. Len(conv) : conv'[i] = conv[i] /\ conv[i].turn <= turn /\ conv[i].turn \in Nat
         /\ \A i \in Len(conv) + 1 .. Len(conv) + Len(rows) :
              /\ conv'[i].turn = turn' /\ conv'[i].look \in Utterances
              /\ conv'[i].look = "chevron" <=> (i = Len(conv) + 1 /\ turn' # turn)
<1>1. PICK v \in Seq(Row) : v = conv
  BY DEF TypeOK
<1>2. PICK q \in Seq(Row) : q = rows
  BY DEF Prints
<1>3. conv' = v \o q
  BY <1>1, <1>2 DEF Prints, Draw
<1>4. /\ v \o q \in Seq(Row) /\ Len(v \o q) = Len(v) + Len(q)
      /\ \A i \in 1 .. Len(v) + Len(q) : (v \o q)[i] = IF i <= Len(v) THEN v[i] ELSE q[i - Len(v)]
  BY ConcatProperties
<1>5. PICK w \in Seq(Row) :
        /\ w = v \o q /\ Len(w) = Len(v) + Len(q)
        /\ \A i \in 1 .. Len(v) + Len(q) : w[i] = IF i <= Len(v) THEN v[i] ELSE q[i - Len(v)]
  BY <1>4
<1>6. conv' = w
  BY <1>3, <1>5
<1>7. PICK n \in Nat, r \in Nat : n = Len(v) /\ r = Len(q)
  OBVIOUS
<1>8. \A i \in 1 .. n + r : w[i] = IF i <= n THEN v[i] ELSE q[i - n]
  BY <1>5, <1>7
<1>9. n \in 1 .. n /\ v[n].turn = turn
  BY <1>1, <1>7 DEF Conversation, LastIsOfTurn
<1>10. ASSUME NEW i \in 1 .. n PROVE w[i] = v[i] /\ v[i].turn <= turn /\ v[i].turn \in Nat
  <2>1. i \in 1 .. n + r /\ i <= n
    BY <1>7
  <2>2. v[i].turn <= v[n].turn
    BY <1>1, <1>7, <1>9, <2>1 DEF Conversation, TurnsInOrder
  <2>3. v[i].turn \in Nat
    BY <1>1, <1>7, RowsOfConv
  <2> QED BY <1>8, <1>9, <2>1, <2>2, <2>3
<1>11. ASSUME NEW i \in n + 1 .. n + r
       PROVE  /\ w[i].turn = turn' /\ w[i].look \in Utterances
              /\ w[i].look = "chevron" <=> (i = n + 1 /\ turn' # turn)
  <2>1. i \in Nat /\ i >= n + 1 /\ i <= n + r
    BY <1>7
  <2>2. PICK j \in Nat : j = i - n
    BY <2>1
  <2>3. i \in 1 .. n + r /\ ~(i <= n) /\ j \in 1 .. r /\ (j = 1 <=> i = n + 1)
    BY <2>1, <2>2
  <2>4. w[i] = q[j]
    BY <1>8, <2>2, <2>3
  <2>5. /\ q[j].turn = turn' /\ q[j].look \in Utterances
        /\ q[j].look = "chevron" <=> (j = 1 /\ turn' # turn)
    BY <1>2, <1>7, <2>3 DEF Prints
  <2> QED BY <2>3, <2>4, <2>5
<1>12. Len(w) = n + r
  BY <1>5, <1>7
<1> QED BY <1>1, <1>2, <1>6, <1>7, <1>10, <1>11, <1>12

LEMMA ConversationGrows ==
  ASSUME TypeOK, Conversation, NEW rows, Prints(rows)
  PROVE  Conversation'
<1>1. PICK v \in Seq(Row), n \in Nat : v = conv /\ n = Len(v)
  BY DEF TypeOK
<1>2. PICK t \in Nat, u \in Nat : t = turn /\ u = turn' /\ (u = t \/ (u = t + 1 /\ ~busy))
  BY RowsOfConv DEF Prints
<1>3. PICK r \in Nat : r = Len(rows) /\ r >= 1
  <2>1. rows \in Seq(Row) /\ Len(rows) >= 1
    BY DEF Prints
  <2> QED BY <2>1
<1>4. PICK w \in Seq(Row) :
        /\ w = conv' /\ Len(w) = n + r
        /\ \A i \in 1 .. n : w[i] = v[i] /\ v[i].turn <= t /\ v[i].turn \in Nat
        /\ \A i \in n + 1 .. n + r :
              /\ w[i].turn = u /\ w[i].look \in Utterances
              /\ w[i].look = "chevron" <=> (i = n + 1 /\ u # t)
  <2>1. /\ conv' \in Seq(Row) /\ Len(conv') = Len(conv) + Len(rows)
        /\ \A i \in 1 .. Len(conv) : conv'[i] = conv[i] /\ conv[i].turn <= turn /\ conv[i].turn \in Nat
        /\ \A i \in Len(conv) + 1 .. Len(conv) + Len(rows) :
              /\ conv'[i].turn = turn' /\ conv'[i].look \in Utterances
              /\ conv'[i].look = "chevron" <=> (i = Len(conv) + 1 /\ turn' # turn)
    BY PrintedRows
  <2>2. PICK w \in Seq(Row) : w = conv'
    BY <2>1
  <2>3. Len(w) = n + r
    BY <1>1, <1>3, <2>1, <2>2
  <2>4. \A i \in 1 .. n : w[i] = v[i] /\ v[i].turn <= t /\ v[i].turn \in Nat
    BY <1>1, <1>2, <2>1, <2>2
  <2>5. \A i \in n + 1 .. n + r :
              /\ w[i].turn = u /\ w[i].look \in Utterances
              /\ w[i].look = "chevron" <=> (i = n + 1 /\ u # t)
    BY <1>1, <1>2, <1>3, <2>1, <2>2
  <2> QED BY <2>2, <2>3, <2>4, <2>5
<1>5. \A i \in 1 .. n + r : i \in 1 .. n \/ i \in n + 1 .. n + r
  BY <1>3
<1>6. n \in 1 .. n /\ v[n].turn = t /\ v[1].turn >= 1 /\ 1 \in 1 .. n
  BY <1>1, <1>2 DEF Conversation, LastIsOfTurn
<1>7. TurnsInOrder'
  <2>1. ASSUME NEW i \in 1 .. n + r, NEW j \in 1 .. n + r, i <= j PROVE w[i].turn <= w[j].turn
    <3>1. CASE j \in 1 .. n
      <4>1. i \in 1 .. n
        BY <2>1, <3>1
      <4>2. v[i].turn <= v[j].turn
        BY <1>1, <2>1, <3>1, <4>1 DEF Conversation, TurnsInOrder
      <4> QED BY <1>4, <3>1, <4>1, <4>2
    <3>2. CASE j \in n + 1 .. n + r
      <4>1. CASE i \in 1 .. n
        <5>1. w[i].turn <= t /\ w[i].turn \in Nat /\ w[j].turn = u
          BY <1>4, <3>2, <4>1
        <5> QED BY <1>2, <5>1
      <4>2. CASE i \in n + 1 .. n + r
        BY <1>2, <1>4, <3>2, <4>2
      <4> QED BY <1>5, <4>1, <4>2
    <3> QED BY <1>5, <3>1, <3>2
  <2> QED BY <1>4, <2>1 DEF TurnsInOrder
<1>8. OneByOne'
  <2>1. ASSUME NEW i \in 2 .. n + r PROVE w[i].turn <= w[i - 1].turn + 1
    <3>0. i \in 1 .. n + r /\ i \in Nat /\ i >= 2
      BY <1>3
    <3>1. CASE i \in 1 .. n
      <4>1. i \in 2 .. n /\ i - 1 \in 1 .. n
        BY <3>0, <3>1
      <4>2. v[i].turn <= v[i - 1].turn + 1
        BY <1>1, <4>1 DEF Conversation, OneByOne
      <4> QED BY <1>4, <3>1, <4>1, <4>2
    <3>2. CASE i = n + 1
      <4>1. i - 1 = n /\ i \in n + 1 .. n + r
        BY <1>3, <3>2
      <4>2. w[i].turn = u /\ w[i - 1].turn = t
        BY <1>4, <1>6, <4>1
      <4> QED BY <1>2, <4>2
    <3>3. CASE i \in n + 2 .. n + r
      <4>1. i \in n + 1 .. n + r /\ i - 1 \in n + 1 .. n + r
        BY <3>0, <3>3
      <4>2. w[i].turn = u /\ w[i - 1].turn = u
        BY <1>4, <4>1
      <4>3. u <= u + 1
        OBVIOUS
      <4> QED BY <4>2, <4>3
    <3> QED BY <3>0, <3>1, <3>2, <3>3
  <2> QED BY <1>4, <2>1 DEF OneByOne
<1>9. LastIsOfTurn'
  <2>1. n + r \in n + 1 .. n + r /\ n + r >= 1
    BY <1>3
  <2>2. w[n + r].turn = u /\ w[1].turn >= 1
    BY <1>4, <1>6, <2>1
  <2> QED BY <1>2, <1>4, <2>1, <2>2 DEF LastIsOfTurn
<1>10. Said'
  <2>1. ASSUME NEW i \in 1 .. n + r PROVE w[i].look \in Utterances
    <3>1. CASE i \in 1 .. n
      BY <1>1, <1>4, <3>1 DEF Conversation, Said
    <3>2. CASE i \in n + 1 .. n + r
      BY <1>4, <3>2
    <3> QED BY <1>5, <3>1, <3>2
  <2> QED BY <1>4, <2>1 DEF Said
<1>11. MessageFirst'
  <2>1. ASSUME NEW i \in 1 .. n + r
        PROVE  w[i].look = "chevron" <=> (i = 1 \/ w[i - 1].turn # w[i].turn)
    <3>0. i \in Nat /\ i >= 1
      BY <1>3
    <3>1. CASE i \in 1 .. n
      <4>1. v[i].look = "chevron" <=> (i = 1 \/ v[i - 1].turn # v[i].turn)
        BY <1>1, <3>1 DEF Conversation, MessageFirst
      <4>2. i # 1 => i - 1 \in 1 .. n
        BY <3>0, <3>1
      <4> QED BY <1>4, <3>1, <4>1, <4>2
    <3>2. CASE i = n + 1
      <4>1. i - 1 = n /\ i \in n + 1 .. n + r /\ i # 1
        BY <1>3, <1>6, <3>2
      <4>2. w[i].turn = u /\ w[i - 1].turn = t /\ (w[i].look = "chevron" <=> u # t)
        BY <1>4, <1>6, <3>2, <4>1
      <4> QED BY <4>1, <4>2
    <3>3. CASE i \in n + 2 .. n + r
      <4>1. i \in n + 1 .. n + r /\ i - 1 \in n + 1 .. n + r /\ i # n + 1 /\ i # 1
        BY <3>0, <3>3
      <4>2. w[i].turn = u /\ w[i - 1].turn = u /\ w[i].look # "chevron"
        BY <1>4, <4>1
      <4> QED BY <4>1, <4>2
    <3> QED BY <1>5, <3>0, <3>1, <3>2, <3>3
  <2> QED BY <1>4, <2>1 DEF MessageFirst
<1>12. EndsWell'
  <2> DEFINE Well(i) == IF w[i].turn \in cuts' THEN w[i].look = "result"
                        ELSE w[i].look \in {"done", "notice"}
  <2>0. ASSUME NEW i \in 1 .. n, Ends(i), v[i].turn # u PROVE Well(i)
    <3>1. IF v[i].turn \in cuts THEN v[i].look = "result" ELSE v[i].look \in {"done", "notice"}
      BY <1>1, <2>0 DEF Conversation, EndsWell
    <3>2. w[i] = v[i] /\ v[i].turn \in Nat
      BY <1>4
    <3>3. v[i].turn \in cuts' <=> v[i].turn \in cuts
      BY <1>2, <2>0, <3>2 DEF Prints
    <3> QED BY <3>1, <3>2, <3>3
  <2>1. ASSUME NEW i \in 1 .. n + r, i # n + r, w[i + 1].turn # w[i].turn PROVE Well(i)
    <3>0. i \in Nat /\ i >= 1 /\ i < n + r
      BY <1>3, <2>1
    <3>1. CASE i < n
      <4>1. i \in 1 .. n /\ i + 1 \in 1 .. n /\ i # n
        BY <3>0, <3>1
      <4>2. w[i] = v[i] /\ w[i + 1] = v[i + 1] /\ v[i].turn \in Nat /\ v[i + 1].turn \in Nat
            /\ v[i + 1].turn <= t
        BY <1>4, <4>1
      <4>3. v[i].turn <= v[i + 1].turn
        BY <1>1, <4>1, <3>0 DEF Conversation, TurnsInOrder
      <4>4. v[i].turn # u
        BY <1>2, <2>1, <4>2, <4>3
      <4>5. Ends(i)
        BY <1>1, <2>1, <4>1, <4>2 DEF Ends
      <4> QED BY <2>0, <4>1, <4>4, <4>5
    <3>2. CASE i = n
      <4>1. n + 1 \in n + 1 .. n + r /\ i \in 1 .. n
        BY <1>3, <1>6, <3>2
      <4>2. w[i + 1].turn = u /\ w[i].turn = t /\ v[i].turn = t
        BY <1>4, <1>6, <3>2, <4>1
      <4>3. Ends(i)
        BY <1>1, <1>2, <2>1, <3>2, <4>2 DEF Ends
      <4> QED BY <2>0, <2>1, <4>1, <4>2, <4>3
    <3>3. CASE i > n
      <4>1. i \in n + 1 .. n + r /\ i + 1 \in n + 1 .. n + r
        BY <3>0, <3>3
      <4>2. w[i].turn = u /\ w[i + 1].turn = u
        BY <1>4, <4>1
      <4> QED BY <2>1, <4>2
    <3> QED BY <3>0, <3>1, <3>2, <3>3
  <2>2. ASSUME ~busy' PROVE Well(n + r)
    <3>1. r = 1 /\ (IF u \in cuts' THEN rows[1].look = "result" ELSE rows[1].look \in {"done", "notice"})
      BY <1>2, <1>3, <2>2 DEF Prints
    <3>2. w[n + 1].turn = u /\ w[n + 1] = rows[1]
      <4>1. n + 1 \in n + 1 .. n + r
        BY <3>1
      <4>2. w[n + 1].turn = u
        BY <1>4, <4>1
      <4>3. PICK q \in Seq(Row) : q = rows /\ Len(q) = 1 /\ w = v \o q
        BY <1>1, <1>3, <1>4, <3>1, ZenonT(60) DEF Prints, Draw
      <4>4. (v \o q)[Len(v) + 1] = q[1]
        <5>1. \A i \in 1 .. Len(v) + Len(q) :
                (v \o q)[i] = IF i <= Len(v) THEN v[i] ELSE q[i - Len(v)]
          BY ConcatProperties
        <5>2. Len(v) + 1 \in 1 .. Len(v) + Len(q) /\ ~(Len(v) + 1 <= Len(v)) /\ (Len(v) + 1) - Len(v) = 1
          BY <4>3
        <5> QED BY <5>1, <5>2
      <4> QED BY <1>1, <4>2, <4>3, <4>4
    <3> QED BY <3>1, <3>2
  <2>3. ASSUME NEW i \in 1 .. n + r, IF i = n + r THEN ~busy' ELSE w[i + 1].turn # w[i].turn
        PROVE  Well(i)
    BY <2>1, <2>2, <2>3
  <2>4. Len(conv') = n + r /\ conv' = w
    BY <1>4
  <2>5. \A i \in 1 .. Len(conv') :
           (IF i = Len(conv') THEN ~busy' ELSE conv'[i + 1].turn # conv'[i].turn) =>
             IF conv'[i].turn \in cuts' THEN conv'[i].look = "result"
             ELSE conv'[i].look \in {"done", "notice"}
    BY <2>3, <2>4
  <2> QED BY <2>5 DEF EndsWell, Ends
<1> QED BY <1>7, <1>8, <1>9, <1>10, <1>11, <1>12 DEF Conversation

LEMMA OwnIsRow ==
  ASSUME TypeOK, NEW look \in Looks
  PROVE  Own(look) \in Row /\ Own(look).look = look /\ Own(look).turn = turn /\ Own(look).text = "empty"
<1>1. PICK r \in Row : r = Drawn(look) /\ r.look = look /\ r.text = "empty"
  BY DrawnIsRow
<1>2. turn \in Nat /\ Len(conv) + 1 \in Nat
  BY RowsOfConv
<1>3. PICK t \in Nat, l \in Nat : t = turn /\ l = Len(conv) + 1
  BY <1>2
<1>4. Own(look) = [[r EXCEPT !.turn = t] EXCEPT !.line = l]
  BY <1>1, <1>3 DEF Own
<1>5. [r EXCEPT !.turn = t] \in Row /\ [r EXCEPT !.turn = t].look = r.look
      /\ [r EXCEPT !.turn = t].turn = t /\ [r EXCEPT !.turn = t].text = r.text
  BY DEF Row
<1>6. PICK q \in Row : q = [r EXCEPT !.turn = t] /\ q.look = r.look /\ q.turn = t /\ q.text = r.text
  BY <1>5
<1>7. [q EXCEPT !.line = l] \in Row /\ [q EXCEPT !.line = l].look = q.look
      /\ [q EXCEPT !.line = l].turn = q.turn /\ [q EXCEPT !.line = l].text = q.text
  BY DEF Row
<1>8. Own(look) = [q EXCEPT !.line = l]
  BY <1>4, <1>6
<1> QED BY <1>1, <1>3, <1>6, <1>7, <1>8

LEMMA WrappedIs ==
  ASSUME TypeOK, NEW look \in {"bullet", "prose"}, NEW par \in Paragraphs
  PROVE  /\ Wrapped(look, par) \in Seq(Row) /\ Len(Wrapped(look, par)) \in 1 .. 2
         /\ \A i \in 1 .. Len(Wrapped(look, par)) :
              /\ Wrapped(look, par)[i].turn = turn /\ Wrapped(look, par)[i].text = "empty"
              /\ Wrapped(look, par)[i].look = IF i = 1 THEN look ELSE "prose"
<1>1. PICK k \in 1 .. 2 : /\ DOMAIN par = 1 .. k
                          /\ \A n \in 1 .. k : par[n].len \in Nat /\ par[n].first \in Nat
  <2>1. Width \in Nat /\ Width > 4
    BY WidthAssumption, ColumnsAssumption
  <2>2. PICK w \in Nat : w = Width - 2
    BY <2>1
  <2>3. CASE par = <<[len |-> Width, first |-> 2], [len |-> 2, first |-> 2]>>
    <3>1. DOMAIN par = 1 .. 2 /\ \A n \in 1 .. 2 : par[n].len \in Nat /\ par[n].first \in Nat
      BY <2>1, <2>3
    <3> QED BY <3>1
  <2>4. CASE par = <<[len |-> Width - 2, first |-> Width - 2]>>
    <3>1. par = <<[len |-> w, first |-> w]>>
      BY <2>2, <2>4
    <3>2. DOMAIN par = 1 .. 1 /\ \A n \in 1 .. 1 : par[n].len \in Nat /\ par[n].first \in Nat
      BY <3>1
    <3> QED BY <3>2
  <2> QED BY <2>3, <2>4 DEF Paragraphs
<1>2. PICK t \in Nat, l \in Nat : t = turn /\ l = Len(conv) + 1
  BY RowsOfConv
<1>3. PICK a \in Row, b \in Row : /\ a = Drawn(look) /\ b = Drawn("prose")
                                 /\ a.look = look /\ b.look = "prose"
                                 /\ a.text = "empty" /\ b.text = "empty"
  BY DrawnIsRow DEF Looks, Bullets
<1>4. Wrapped(look, par) =
        [n \in 1 .. k |-> [(IF n = 1 THEN a ELSE b) EXCEPT !.turn = t, !.line = l,
                             !.len = par[n].len, !.first = par[n].first]]
  BY <1>1, <1>2, <1>3 DEF Wrapped
<1>6. ASSUME NEW n \in 1 .. k
      PROVE  /\ Wrapped(look, par)[n] \in Row /\ Wrapped(look, par)[n].turn = turn
             /\ Wrapped(look, par)[n].text = "empty"
             /\ Wrapped(look, par)[n].look = IF n = 1 THEN look ELSE "prose"
  <2>1. PICK r \in Row : /\ r = (IF n = 1 THEN a ELSE b) /\ r.text = "empty"
                         /\ r.look = IF n = 1 THEN look ELSE "prose"
    BY <1>3
  <2>2. PICK x \in Nat, y \in Nat : x = par[n].len /\ y = par[n].first
    BY <1>1
  <2>3. Wrapped(look, par)[n] = [r EXCEPT !.turn = t, !.line = l, !.len = x, !.first = y]
    BY <1>4, <2>1, <2>2
  <2>4. PICK q : q = [r EXCEPT !.turn = t, !.line = l, !.len = x, !.first = y]
    OBVIOUS
  <2>6. q \in Row /\ q.turn = t /\ q.look = r.look /\ q.text = r.text
    BY <2>4 DEF Row
  <2>5. Wrapped(look, par)[n] = q
    BY <2>3, <2>4
  <2> QED BY <1>2, <2>1, <2>5, <2>6
<1>7. Wrapped(look, par) \in Seq(Row) /\ Len(Wrapped(look, par)) = k
  <2>1. PICK f : f = Wrapped(look, par)
    OBVIOUS
  <2>2. DOMAIN f = 1 .. k /\ f = [n \in 1 .. k |-> f[n]]
    BY <1>4, <2>1
  <2>3. \A n \in 1 .. k : f[n] \in Row
    BY <1>6, <2>1
  <2>4. f \in [1 .. k -> Row] /\ k \in Nat
    BY <2>2, <2>3
  <2> QED BY <2>1, <2>4
<1> QED BY <1>6, <1>7

(* What the CLI says in one go.                                            *)
Spoken == {"bullet", "tool", "prose", "code", "result"} \cup
          (IF "quote" \in Feature THEN {"quote"} ELSE {})

Speaks(rows) ==
  /\ rows \in Seq(Row) /\ Len(rows) >= 1
  /\ \A i \in 1 .. Len(rows) : /\ rows[i].turn = turn /\ rows[i].text = "empty"
                               /\ rows[i].look \in Spoken

LEMMA SpokenLooks ==
  ASSUME NEW look \in Spoken
  PROVE  /\ look \in Utterances /\ look \notin {"chevron", "done", "notice"}
         /\ "quote" \notin Feature => look # "quote"
BY DEF Spoken, Utterances, Bullets

LEMMA SpeaksOne ==
  ASSUME NEW r \in Row, r.turn = turn, r.look \in Spoken, r.text = "empty"
  PROVE  Speaks(<<r>>)
<1>1. PICK b : b = <<r>>
  OBVIOUS
<1>2. b \in Seq(Row) /\ Len(b) = 1 /\ b[1] = r
  BY <1>1
<1>3. \A i \in 1 .. Len(b) : i = 1
  BY <1>2
<1> QED BY <1>1, <1>2, <1>3 DEF Speaks

LEMMA SpeaksTwo ==
  ASSUME NEW r \in Row, r.turn = turn, r.look \in Spoken, r.text = "empty",
         NEW q \in Row, q.turn = turn, q.look \in Spoken, q.text = "empty"
  PROVE  Speaks(<<r, q>>)
<1>1. PICK b : b = <<r, q>>
  OBVIOUS
<1>2. b \in Seq(Row) /\ Len(b) = 2 /\ b[1] = r /\ b[2] = q
  BY <1>1
<1>3. \A i \in 1 .. Len(b) : i = 1 \/ i = 2
  BY <1>2
<1> QED BY <1>1, <1>2, <1>3 DEF Speaks

LEMMA SayingsSpeak ==
  ASSUME TypeOK, NEW rows \in Sayings
  PROVE  Speaks(rows)
<1>1. PICK l \in Nat : l = Len(conv) + 2
  BY RowsOfConv
<1>2. /\ {"tool", "result", "prose", "code", "bullet"} \subseteq Looks \cap Spoken
      /\ "quote" \in Looks /\ ("quote" \in Feature => "quote" \in Spoken)
  BY DEF Looks, Bullets, Spoken
<1>3. ASSUME NEW look \in {"bullet", "prose"}, NEW par \in Paragraphs, rows = Wrapped(look, par)
      PROVE  Speaks(rows)
  <2>1. /\ Wrapped(look, par) \in Seq(Row) /\ Len(Wrapped(look, par)) \in 1 .. 2
        /\ \A i \in 1 .. Len(Wrapped(look, par)) :
              /\ Wrapped(look, par)[i].turn = turn /\ Wrapped(look, par)[i].text = "empty"
              /\ Wrapped(look, par)[i].look = IF i = 1 THEN look ELSE "prose"
    BY WrappedIs
  <2>2. PICK w : w = Wrapped(look, par)
    OBVIOUS
  <2>3. w \in Seq(Row) /\ Len(w) >= 1
    BY <2>1, <2>2
  <2>4. \A i \in 1 .. Len(w) : w[i].turn = turn /\ w[i].text = "empty" /\ w[i].look \in Spoken
    BY <1>2, <2>1, <2>2
  <2>5. Speaks(w)
    BY <2>3, <2>4 DEF Speaks
  <2> QED BY <1>3, <2>2, <2>5
<1>4. ASSUME rows = <<Own("tool"), [Own("result") EXCEPT !.line = Len(conv) + 2]>>
      PROVE  Speaks(rows)
  <2>1. PICK r \in Row : r = Own("tool") /\ r.look = "tool" /\ r.turn = turn /\ r.text = "empty"
    BY OwnIsRow, <1>2
  <2>2. PICK q \in Row : q = Own("result") /\ q.look = "result" /\ q.turn = turn /\ q.text = "empty"
    BY OwnIsRow, <1>2
  <2>3. PICK p \in Row : p = [q EXCEPT !.line = l] /\ p.look = q.look /\ p.turn = q.turn /\ p.text = q.text
    <3>1. [q EXCEPT !.line = l] \in Row /\ [q EXCEPT !.line = l].look = q.look
          /\ [q EXCEPT !.line = l].turn = q.turn /\ [q EXCEPT !.line = l].text = q.text
      BY DEF Row
    <3> QED BY <3>1
  <2>4. rows = <<r, p>>
    BY <1>1, <1>4, <2>1, <2>2, <2>3
  <2>5. Speaks(<<r, p>>)
    BY SpeaksTwo, <1>2, <2>1, <2>2, <2>3
  <2> QED BY <2>4, <2>5
<1>5. ASSUME rows = <<[Own("prose") EXCEPT !.num = 1], [Own("prose") EXCEPT !.num = 2, !.line = Len(conv) + 2]>>
      PROVE  Speaks(rows)
  <2>1. PICK r \in Row : r = Own("prose") /\ r.look = "prose" /\ r.turn = turn /\ r.text = "empty"
    BY OwnIsRow, <1>2
  <2>2. PICK q \in Row : q = [r EXCEPT !.num = 1] /\ q.look = r.look /\ q.turn = r.turn /\ q.text = r.text
    <3>1. [r EXCEPT !.num = 1] \in Row /\ [r EXCEPT !.num = 1].look = r.look
          /\ [r EXCEPT !.num = 1].turn = r.turn /\ [r EXCEPT !.num = 1].text = r.text
      BY DEF Row
    <3> QED BY <3>1
  <2>3. PICK p \in Row : p = [r EXCEPT !.num = 2, !.line = l] /\ p.look = r.look /\ p.turn = r.turn /\ p.text = r.text
    <3>1. [r EXCEPT !.num = 2] \in Row /\ [r EXCEPT !.num = 2].look = r.look
          /\ [r EXCEPT !.num = 2].turn = r.turn /\ [r EXCEPT !.num = 2].text = r.text
      BY DEF Row
    <3>2. PICK x \in Row : x = [r EXCEPT !.num = 2] /\ x.look = r.look /\ x.turn = r.turn /\ x.text = r.text
      BY <3>1
    <3>3. [x EXCEPT !.line = l] \in Row /\ [x EXCEPT !.line = l].look = x.look
          /\ [x EXCEPT !.line = l].turn = x.turn /\ [x EXCEPT !.line = l].text = x.text
      BY DEF Row
    <3>4. [r EXCEPT !.num = 2, !.line = l] = [x EXCEPT !.line = l]
      BY <3>2
    <3> QED BY <3>2, <3>3, <3>4
  <2>4. rows = <<q, p>>
    BY <1>1, <1>5, <2>1, <2>2, <2>3
  <2>5. Speaks(<<q, p>>)
    BY SpeaksTwo, <1>2, <2>1, <2>2, <2>3
  <2> QED BY <2>4, <2>5
<1>6. ASSUME NEW look \in {"code", "quote"}, look = "quote" => "quote" \in Feature, rows = <<Own(look)>>
      PROVE  Speaks(rows)
  <2>1. PICK r \in Row : r = Own(look) /\ r.look = look /\ r.turn = turn /\ r.text = "empty"
    BY OwnIsRow, <1>2
  <2>2. Speaks(<<r>>)
    BY SpeaksOne, <1>2, <1>6, <2>1
  <2> QED BY <1>6, <2>1, <2>2
<1>7. \/ \E look \in {"bullet", "prose"} : \E par \in Paragraphs : rows = Wrapped(look, par)
      \/ rows = <<Own("tool"), [Own("result") EXCEPT !.line = Len(conv) + 2]>>
      \/ rows = <<[Own("prose") EXCEPT !.num = 1], [Own("prose") EXCEPT !.num = 2, !.line = Len(conv) + 2]>>
      \/ \E look \in {"code", "quote"} : (look = "quote" => "quote" \in Feature) /\ rows = <<Own(look)>>
  BY Zenon DEF Sayings
<1> QED BY <1>3, <1>4, <1>5, <1>6, <1>7

(* A reply starts with a bullet.                                           *)
LEMMA SayingsOpen ==
  ASSUME TypeOK, NEW rows \in Sayings, ~Begun
  PROVE  rows[1].look \in Bullets
<1>1. \/ \E par \in Paragraphs : rows = Wrapped("bullet", par)
      \/ rows = <<Own("tool"), [Own("result") EXCEPT !.line = Len(conv) + 2]>>
  BY Zenon DEF Sayings
<1>2. ASSUME NEW par \in Paragraphs, rows = Wrapped("bullet", par)
      PROVE  rows[1].look \in Bullets
  <2>1. /\ Len(Wrapped("bullet", par)) \in 1 .. 2
        /\ \A i \in 1 .. Len(Wrapped("bullet", par)) :
              Wrapped("bullet", par)[i].look = IF i = 1 THEN "bullet" ELSE "prose"
    BY WrappedIs
  <2>2. 1 \in 1 .. Len(Wrapped("bullet", par))
    BY <2>1
  <2>3. rows[1].look = "bullet"
    BY <1>2, <2>1, <2>2
  <2> QED BY <2>3 DEF Bullets
<1>3. ASSUME rows = <<Own("tool"), [Own("result") EXCEPT !.line = Len(conv) + 2]>>
      PROVE  rows[1].look \in Bullets
  <2>1. Own("tool").look = "tool"
    BY OwnIsRow DEF Looks, Bullets
  <2>2. PICK x, y : x = Own("tool") /\ y = [Own("result") EXCEPT !.line = Len(conv) + 2]
    OBVIOUS
  <2>3. rows = <<x, y>>
    BY <1>3, <2>2
  <2>4. rows[1] = x
    BY <2>3
  <2> QED BY <2>1, <2>2, <2>4 DEF Bullets
<1> QED BY <1>1, <1>2, <1>3

(* The message of turn t as it is echoed.                                  *)
Echoes(rows, t) ==
  /\ rows \in Seq(Row) /\ Len(rows) >= 1 /\ ("number" \notin Feature => Len(rows) = 1)
  /\ \A i \in 1 .. Len(rows) :
       /\ rows[i].turn = t /\ rows[i].look \in {"chevron", "prose"}
       /\ rows[i].look = "chevron" <=> i = 1
       /\ i = 1 => rows[i].text = "message" /\ ("number" \notin Feature => rows[i].num = 0)

LEMMA MessageEchoes ==
  ASSUME NEW t \in Nat
  PROVE  Echoes(MessageRows(t), t)
<1>1. PICK w \in Row : /\ w = Written("chevron", "message") /\ w.look = "chevron"
                       /\ w.text = "message" /\ w.num = 0
  BY WrittenIsRow DEF Looks, Texts
<1>2. /\ [w EXCEPT !.turn = t] \in Row /\ [w EXCEPT !.turn = t].look = w.look /\ [w EXCEPT !.turn = t].turn = t
      /\ [w EXCEPT !.turn = t].text = w.text /\ [w EXCEPT !.turn = t].num = w.num
  BY DEF Row
<1>3. PICK r \in Row : /\ r = [w EXCEPT !.turn = t] /\ r.look = "chevron" /\ r.turn = t
                       /\ r.text = "message" /\ r.num = 0
  BY <1>1, <1>2
<1>4. /\ [r EXCEPT !.num = 1] \in Row /\ [r EXCEPT !.num = 1].look = r.look
      /\ [r EXCEPT !.num = 1].turn = r.turn /\ [r EXCEPT !.num = 1].text = r.text
  BY DEF Row
<1>5. PICK q \in Row : q = [r EXCEPT !.num = 1] /\ q.look = "chevron" /\ q.turn = t /\ q.text = "message"
  BY <1>3, <1>4
<1>6. /\ [r EXCEPT !.look = "prose", !.num = 2] \in Row
      /\ [r EXCEPT !.look = "prose", !.num = 2].look = "prose"
      /\ [r EXCEPT !.look = "prose", !.num = 2].turn = r.turn
  <2>1. "prose" \in Looks
    BY DEF Looks
  <2>2. /\ [r EXCEPT !.look = "prose"] \in Row /\ [r EXCEPT !.look = "prose"].look = "prose"
        /\ [r EXCEPT !.look = "prose"].turn = r.turn
    BY <2>1 DEF Row
  <2>3. PICK x \in Row : x = [r EXCEPT !.look = "prose"] /\ x.look = "prose" /\ x.turn = r.turn
    BY <2>2
  <2>4. /\ [x EXCEPT !.num = 2] \in Row /\ [x EXCEPT !.num = 2].look = x.look
        /\ [x EXCEPT !.num = 2].turn = x.turn
    BY DEF Row
  <2>5. [r EXCEPT !.look = "prose", !.num = 2] = [x EXCEPT !.num = 2]
    BY <2>3
  <2> QED BY <2>3, <2>4, <2>5
<1>7. PICK p \in Row : p = [r EXCEPT !.look = "prose", !.num = 2] /\ p.look = "prose" /\ p.turn = t
  BY <1>3, <1>6
<1>8. CASE "number" \notin Feature
  <2>1. PICK b : b = <<r>>
    OBVIOUS
  <2>2. b \in Seq(Row) /\ Len(b) = 1 /\ b[1] = r /\ \A i \in 1 .. Len(b) : i = 1
    BY <2>1
  <2>3. MessageRows(t) = b
    BY <1>1, <1>3, <1>8, <2>1 DEF MessageRows
  <2>4. \A i \in 1 .. Len(b) :
          /\ b[i].turn = t /\ b[i].look \in {"chevron", "prose"} /\ (b[i].look = "chevron" <=> i = 1)
          /\ i = 1 => b[i].text = "message" /\ ("number" \notin Feature => b[i].num = 0)
    BY <1>3, <2>2
  <2>5. Echoes(b, t)
    BY <1>8, <2>2, <2>4 DEF Echoes
  <2> QED BY <2>3, <2>5
<1>9. CASE "number" \in Feature
  <2>1. PICK b : b = <<q, p>>
    OBVIOUS
  <2>2. b \in Seq(Row) /\ Len(b) = 2 /\ b[1] = q /\ b[2] = p /\ \A i \in 1 .. Len(b) : i = 1 \/ i = 2
    BY <2>1
  <2>3. MessageRows(t) = b
    BY <1>1, <1>3, <1>5, <1>7, <1>9, <2>1 DEF MessageRows
  <2>4. \A i \in 1 .. Len(b) :
          /\ b[i].turn = t /\ b[i].look \in {"chevron", "prose"} /\ (b[i].look = "chevron" <=> i = 1)
          /\ i = 1 => b[i].text = "message" /\ ("number" \notin Feature => b[i].num = 0)
    BY <1>5, <1>7, <1>9, <2>2
  <2>5. Echoes(b, t)
    BY <1>9, <2>2, <2>4 DEF Echoes
  <2> QED BY <2>3, <2>5
<1> QED BY <1>8, <1>9

(* Each action of the CLI that prints does so in this way.                 *)
Types ==
  /\ turn' \in turn .. sent /\ busy' \in BOOLEAN /\ cuts' \subseteq 1 .. turn'
  /\ told' \in 0 .. MaxSay /\ inbox' \in BOOLEAN
  /\ UNCHANGED <<layout, cursor, draft, ttyVars, written, monVars>>

LEMMA TypeGrows ==
  ASSUME TypeOK, Conversation, NEW rows, Prints(rows), Types
  PROVE  TypeOK'
<1>1. PICK n \in Nat, m \in Nat : n = Len(conv) /\ m = Len(conv') /\ n <= m
  <2>1. rows \in Seq(Row)
    BY DEF Prints
  <2>2. Len(conv) \in Nat /\ Len(rows) \in Nat /\ Len(conv') = Len(conv) + Len(rows)
    BY <2>1, PrintedRows, RowsOfConv
  <2>3. PICK a \in Nat, b \in Nat : a = Len(conv) /\ b = Len(rows)
    BY <2>2
  <2>4. Len(conv') = a + b /\ a + b \in Nat /\ a <= a + b
    BY <2>2, <2>3
  <2> QED BY <2>3, <2>4
<1>2. conv' \in Seq(Row)
  BY PrintedRows
<1>3. painted' \in 0 .. Len(conv') /\ baseline' \in 0 .. Len(conv')
  BY <1>1 DEF TypeOK, Types, ttyVars, monVars
<1>4. /\ turn' \in 0 .. MaxTurn /\ written' \in 0 .. 2 * turn' /\ sent' \in turn' .. MaxTurn
  <2>1. /\ MaxTurn \in Nat /\ turn \in 0 .. MaxTurn /\ sent \in turn .. MaxTurn
        /\ written \in 0 .. 2 * turn
    BY BoundsAssumption DEF TypeOK
  <2>2. turn' \in turn .. sent /\ written' = written /\ sent' = sent
    BY DEF Types, monVars
  <2>3. PICK t \in Nat, u \in Nat, x \in Nat, w \in Nat :
           t = turn /\ u = turn' /\ x = sent /\ w = written /\ t <= u /\ u <= x /\ x <= MaxTurn /\ w <= 2 * t
    BY <2>1, <2>2
  <2>4. u \in 0 .. MaxTurn /\ x \in u .. MaxTurn
    BY <2>1, <2>3
  <2>5. w \in 0 .. 2 * u
    <3>1. w <= 2 * t /\ t <= u
      BY <2>3
    <3>2. w <= 2 * u
      BY <3>1
    <3> QED BY <3>2
  <2> QED BY <2>2, <2>3, <2>4, <2>5
<1>5. Len(cap') <= Height /\ shown' \in [busy : BOOLEAN, cursor : 0 .. 3, draft : Drafts]
  BY DEF TypeOK, Types, ttyVars, monVars
<1>6. lastStreamed' \in Seq(Row) /\ prevFinal' \in Seq(Row)
  BY DEF TypeOK, Types, monVars, streamVars
<1>7. layout' \in Layouts /\ busy' \in BOOLEAN /\ cuts' \subseteq 1 .. turn'
      /\ cursor' \in 0 .. 3 /\ draft' \in Drafts /\ told' \in 0 .. MaxSay /\ inbox' \in BOOLEAN
  BY DEF TypeOK, Types
<1>8. ghost' \in 0 .. 3 /\ observing' \in BOOLEAN /\ open' \in BOOLEAN /\ looked' \in BOOLEAN
  BY DEF TypeOK, Types, ttyVars, monVars
<1> QED BY <1>2, <1>3, <1>4, <1>5, <1>6, <1>7, <1>8 DEF TypeOK

(* What such a step does to the rest of the invariant.                     *)
LEMMA PrintKeeps ==
  ASSUME IInv, NEW rows, Prints(rows), Types, painted = Len(conv), ~looked,
         cuts \subseteq cuts', Sending', sent = turn' \/ sent - 1 \notin cuts',
         turn' = turn \/ lastStreamed = NoRows
  PROVE  IInv'
<1>1. TypeOK /\ Conversation /\ Streamed /\ Counts /\ FramesAreOfTheTurn
  BY DEF IInv
<1>2. TypeOK' /\ Conversation'
  BY <1>1, TypeGrows, ConversationGrows
<1>3. /\ sent' = sent /\ observing' = observing /\ baseline' = baseline /\ painted' = painted
      /\ lastStreamed' = lastStreamed /\ looked' = looked
  BY DEF Types, ttyVars, monVars, streamVars
<1>4. rows \in Seq(Row)
  BY DEF Prints
<1>5. PICK n \in Nat, r \in Nat : n = Len(conv) /\ r = Len(rows)
  BY <1>1, <1>4, RowsOfConv
<1>6. Len(conv') = n + r
  BY <1>1, <1>5, PrintedRows
<1>7. \A i \in 1 .. n : conv'[i] = conv[i]
  BY <1>1, <1>5, PrintedRows
<1>8. \A i \in n + 1 .. n + r : conv'[i].turn = turn'
  BY <1>1, <1>5, PrintedRows
<1>9. ~busy' => r = 1
  BY <1>5 DEF Prints
<1>10. turn' \in Nat /\ sent \in Nat
  BY <1>1, RowsOfConv DEF TypeOK, Types
<1>11. UpToDate(painted)'
  <2>1. \A i \in painted' + 1 .. Len(conv') : IF busy' THEN conv'[i].turn = turn' ELSE i = Len(conv')
    BY <1>3, <1>5, <1>6, <1>8, <1>9
  <2> QED BY <2>1 DEF UpToDate
<1>12. Streamed'
  <2>1. SUFFICES ASSUME observing, lastStreamed # NoRows
                 PROVE  Seen(painted)'
    BY <1>3 DEF Streamed
  <2>2. Seen(painted) /\ turn' = turn
    BY <1>1, <2>1 DEF Streamed
  <2>3. PICK i \in 1 .. n : /\ conv[i].look \in Bullets
                            /\ \/ i <= painted /\ conv[i].turn = sent
                               \/ conv[i].turn = sent - 1 /\ sent - 1 \in cuts
    BY <1>5, <2>2 DEF Seen
  <2>4. /\ i \in 1 .. Len(conv') /\ conv'[i].look \in Bullets
        /\ \/ i <= painted' /\ conv'[i].turn = sent'
           \/ conv'[i].turn = sent' - 1 /\ sent' - 1 \in cuts'
    BY <1>3, <1>6, <1>7, <2>3
  <2>5. turn' = sent'
    BY <1>3, <2>2 DEF Seen
  <2> QED BY <2>4, <2>5 DEF Seen
<1>13. Captured'
  BY <1>3 DEF Captured
<1>14. Counts'
  <2>1. SUFFICES ASSUME observing, sent - 1 \in cuts',
                        NEW e \in 0 .. n + r, NEW s \in 0 .. e, OldEnd(e)', s + Height >= e + 5
                 PROVE  Cardinality(OldBullets(s, e)') <= baseline
    BY <1>3, <1>6 DEF Counts, OldBullets
  <2>2. sent = turn'
    BY <2>1
  <2>3. sent - 1 \in cuts
    BY <1>10, <2>1, <2>2 DEF Prints
  <2>4. /\ \A i \in 1 .. e : conv'[i].turn < sent
        /\ \A i \in e + 1 .. n + r : conv'[i].turn = sent
    BY <1>3, <1>6, <2>1 DEF OldEnd
  <2>5. e <= n
    <3>1. SUFFICES ASSUME n < e PROVE FALSE
      OBVIOUS
    <3>2. n + 1 \in n + 1 .. n + r /\ n + 1 \in 1 .. e
      BY <3>1
    <3> QED BY <1>8, <1>10, <2>2, <2>4, <3>2
  <2>6. OldEnd(e)
    <3>1. \A i \in 1 .. e : conv[i].turn < sent
      BY <1>7, <2>4, <2>5
    <3>2. \A i \in e + 1 .. n : conv[i].turn = sent
      BY <1>7, <2>4, <2>5
    <3> QED BY <1>5, <3>1, <3>2 DEF OldEnd
  <2>7. Cardinality(OldBullets(s, e)) <= baseline
    BY <1>1, <1>5, <2>1, <2>3, <2>5, <2>6 DEF Counts
  <2>8. OldBullets(s, e)' = OldBullets(s, e)
    <3>1. \A i \in 1 .. e - s : conv'[s + i] = conv[s + i]
      BY <1>7, <2>5
    <3>2. {i \in 1 .. e - s : conv'[s + i].look \in Bullets} = {i \in 1 .. e - s : conv[s + i].look \in Bullets}
      BY <3>1
    <3> QED BY <3>2 DEF OldBullets
  <2> QED BY <2>7, <2>8
<1>15. FramesAreOfTheTurn'
  BY <1>1, <1>3 DEF FramesAreOfTheTurn
<1> QED BY <1>2, <1>11, <1>12, <1>13, <1>14, <1>15 DEF IInv

LEMMA Numbers ==
  ASSUME TypeOK
  PROVE  /\ turn \in Nat /\ sent \in Nat /\ written \in Nat /\ turn <= sent /\ sent <= MaxTurn
         /\ cuts \subseteq 1 .. turn /\ MaxTurn \in Nat
BY BoundsAssumption DEF TypeOK

LEMMA TurnBegun ==
  ASSUME TypeOK, Conversation
  PROVE  turn \in Nat /\ turn >= 1 /\ Len(conv) \in Nat /\ Len(conv) >= 1
<1>1. Len(conv) >= 1 /\ conv[1].turn >= 1 /\ \A i, j \in 1 .. Len(conv) : i <= j => conv[i].turn <= conv[j].turn
  BY DEF Conversation, LastIsOfTurn, TurnsInOrder
<1>2. PICK n \in Nat : n = Len(conv)
  BY RowsOfConv
<1>3. conv[n].turn = turn /\ conv[1].turn \in Nat /\ conv[1].turn <= conv[n].turn
  BY <1>1, <1>2, RowsOfConv DEF Conversation, LastIsOfTurn
<1> QED BY <1>1, <1>2, <1>3, RowsOfConv

LEMMA TakeUpKeeps ==
  ASSUME IInv, TakeUp
  PROVE  IInv'
<1>1. TypeOK /\ Conversation /\ Sending
  BY DEF IInv
<1>2. /\ turn \in Nat /\ sent \in Nat /\ written \in Nat /\ turn <= sent /\ sent <= MaxTurn
      /\ cuts \subseteq 1 .. turn /\ MaxTurn \in Nat
  BY <1>1, Numbers
<1>3. /\ inbox /\ ~busy /\ inbox' = FALSE /\ busy' = TRUE /\ turn' = turn + 1 /\ cuts' = cuts
      /\ Draw(MessageRows(turn + 1)) /\ painted = Len(conv) /\ ~looked /\ told' = told
  BY DEF TakeUp, Ready
<1>4. sent = turn + 1 /\ lastStreamed = NoRows
  BY <1>1, <1>3 DEF Sending
<1>5. /\ UNCHANGED <<layout, cursor, draft, ttyVars, written, monVars>>
      /\ sent' = sent /\ written' = written
  BY DEF TakeUp, monVars
<1>6. PICK t \in Nat : t = turn + 1
  BY <1>2
<1>7. Echoes(MessageRows(t), t)
  BY MessageEchoes
<1>8. PICK rows : rows = MessageRows(t)
  OBVIOUS
<1>9. Prints(rows)
  <2>1. turn' = t /\ turn' # turn /\ ~busy /\ busy'
    BY <1>2, <1>3, <1>6
  <2>2. Draw(rows)
    BY <1>3, <1>6, <1>8
  <2>3. Echoes(rows, t)
    BY <1>7, <1>8
  <2>4. "chevron" \in Utterances /\ "prose" \in Utterances
    BY DEF Utterances
  <2> QED BY <1>3, <1>6, <2>1, <2>2, <2>3, <2>4 DEF Prints, Echoes
<1>10. Types
  <2>1. turn' \in turn .. sent /\ cuts' \subseteq 1 .. turn'
    BY <1>2, <1>3, <1>4
  <2>2. told' \in 0 .. MaxSay
    BY <1>1, <1>3 DEF TypeOK
  <2> QED BY <1>3, <1>5, <2>1, <2>2 DEF Types
<1>11. Sending'
  <2>1. sent' = turn' /\ ~inbox' /\ turn' \notin cuts'
    BY <1>2, <1>3, <1>4, <1>5
  <2>2. written <= 2 * turn
    BY <1>1, <1>2, <1>3 DEF Sending
  <2>3. written' <= 2 * turn' - 1
    BY <1>2, <1>3, <1>5, <2>2
  <2> QED BY <1>2, <1>3, <1>4, <1>5, <2>1, <2>3 DEF Sending
<1>12. cuts \subseteq cuts' /\ sent = turn'
  BY <1>3, <1>4
<1> QED BY <1>3, <1>4, <1>9, <1>10, <1>11, <1>12, PrintKeeps

LEMMA SayKeeps ==
  ASSUME IInv, Say
  PROVE  IInv'
<1>1. TypeOK /\ Conversation /\ Sending
  BY DEF IInv
<1>2. /\ turn \in Nat /\ sent \in Nat /\ written \in Nat /\ turn <= sent /\ sent <= MaxTurn
      /\ cuts \subseteq 1 .. turn /\ MaxTurn \in Nat
  BY <1>1, Numbers
<1>3. /\ busy /\ painted = Len(conv) /\ ~looked /\ told < MaxSay /\ told' = told + 1
      /\ turn' = turn /\ busy' = busy /\ cuts' = cuts /\ inbox' = inbox
  BY DEF Say, Ready
<1>4. UNCHANGED <<layout, cursor, draft, ttyVars, written, monVars>>
  BY DEF Say
<1>5. sent' = sent /\ written' = written /\ observing' = observing /\ lastStreamed' = lastStreamed
  BY <1>4 DEF monVars, streamVars
<1>6. PICK rows \in Sayings : Draw(rows)
  BY DEF Say
<1>7. Speaks(rows)
  BY <1>1, <1>6, SayingsSpeak
<1>8. Prints(rows)
  BY <1>3, <1>6, <1>7, SpokenLooks DEF Prints, Speaks
<1>9. Types
  <2>1. told' \in 0 .. MaxSay
    BY <1>1, <1>3, BoundsAssumption DEF TypeOK
  <2>2. turn' \in turn .. sent /\ cuts' \subseteq 1 .. turn'
    BY <1>2, <1>3
  <2>3. busy' \in BOOLEAN /\ inbox' \in BOOLEAN
    BY <1>1, <1>3 DEF TypeOK
  <2> QED BY <1>4, <2>1, <2>2, <2>3 DEF Types
<1>10. Sending'
  BY <1>1, <1>3, <1>5 DEF Sending
<1>11. sent = turn'
  BY <1>1, <1>2, <1>3 DEF Sending
<1>12. cuts \subseteq cuts'
  BY <1>3
<1> QED BY <1>3, <1>8, <1>9, <1>10, <1>11, <1>12, PrintKeeps

LEMMA StopKeeps ==
  ASSUME IInv, NEW esc \in BOOLEAN, Stop(esc)
  PROVE  IInv'
<1>1. TypeOK /\ Conversation /\ Sending
  BY DEF IInv
<1>2. /\ turn \in Nat /\ sent \in Nat /\ written \in Nat /\ turn <= sent /\ sent <= MaxTurn
      /\ cuts \subseteq 1 .. turn /\ MaxTurn \in Nat
  BY <1>1, Numbers
<1>3. /\ busy /\ painted = Len(conv) /\ ~looked /\ busy' = FALSE /\ turn' = turn
      /\ cuts' = (IF esc THEN cuts \cup {turn} ELSE cuts)
      /\ told' = told /\ inbox' = inbox
      /\ Draw(<<IF esc THEN Own("result") ELSE Own("done")>>)
  BY DEF Stop, Ready
<1>4. UNCHANGED <<layout, cursor, draft, ttyVars, written, monVars>>
  BY DEF Stop
<1>5. sent' = sent /\ written' = written /\ observing' = observing /\ lastStreamed' = lastStreamed
  BY <1>4 DEF monVars, streamVars
<1>6. ~inbox /\ sent = turn /\ turn \notin cuts
  BY <1>1, <1>2, <1>3 DEF Sending
<1>7. PICK r \in Row : /\ r = (IF esc THEN Own("result") ELSE Own("done"))
                       /\ r.look = (IF esc THEN "result" ELSE "done") /\ r.turn = turn
  BY <1>1, OwnIsRow DEF Looks
<1>8. PICK rows : rows = <<r>>
  OBVIOUS
<1>9. rows \in Seq(Row) /\ Len(rows) = 1 /\ rows[1] = r /\ \A i \in 1 .. Len(rows) : i = 1
  BY <1>8
<1>10. Prints(rows)
  <2>1. Draw(rows)
    BY <1>3, <1>7, <1>8
  <2>2. \A i \in 1 .. Len(rows) :
          /\ rows[i].turn = turn' /\ rows[i].look \in Utterances
          /\ rows[i].look = "chevron" <=> (i = 1 /\ turn' # turn)
    BY <1>3, <1>7, <1>9 DEF Utterances
  <2>3. \A u \in Int : u # turn' => (u \in cuts' <=> u \in cuts)
    BY <1>3
  <2>4. turn' \in cuts' <=> esc
    BY <1>3, <1>6
  <2> QED BY <1>3, <1>7, <1>9, <2>1, <2>2, <2>3, <2>4 DEF Prints
<1>11. Types
  <2>1. told' \in 0 .. MaxSay /\ inbox' \in BOOLEAN
    BY <1>1, <1>3 DEF TypeOK
  <2>2. turn \in 1 .. turn
    BY <1>1, TurnBegun
  <2>3. turn' \in turn .. sent /\ cuts' \subseteq 1 .. turn'
    BY <1>2, <1>3, <2>2
  <2> QED BY <1>3, <1>4, <2>1, <2>3 DEF Types
<1>12. Sending'
  <2>1. written <= 2 * turn - 1
    BY <1>1, <1>3 DEF Sending
  <2>2. written' <= 2 * turn'
    BY <1>2, <1>3, <1>5, <2>1
  <2>3. sent' = turn' /\ ~inbox' /\ ~busy'
    BY <1>3, <1>5, <1>6
  <2> QED BY <1>2, <1>3, <1>5, <1>6, <2>2, <2>3 DEF Sending
<1>13. sent = turn' /\ cuts \subseteq cuts'
  BY <1>3, <1>6
<1> QED BY <1>3, <1>10, <1>11, <1>12, <1>13, PrintKeeps

LEMMA CompactKeeps ==
  ASSUME IInv, Compact
  PROVE  IInv'
<1>1. TypeOK /\ Conversation /\ Sending
  BY DEF IInv
<1>2. /\ turn \in Nat /\ sent \in Nat /\ written \in Nat /\ turn <= sent /\ sent <= MaxTurn
      /\ cuts \subseteq 1 .. turn /\ MaxTurn \in Nat
  BY <1>1, Numbers
<1>3. /\ ~busy /\ painted = Len(conv) /\ ~looked /\ busy' = busy /\ turn' = turn
      /\ cuts' = cuts /\ told' = told /\ inbox' = inbox
      /\ conv[Len(conv)].look = "done" /\ Draw(<<Own("notice")>>)
  BY DEF Compact, Ready
<1>4. UNCHANGED <<layout, cursor, draft, ttyVars, written, monVars>>
  BY DEF Compact
<1>5. sent' = sent /\ written' = written /\ observing' = observing /\ lastStreamed' = lastStreamed
  BY <1>4 DEF monVars, streamVars
<1>6. turn \notin cuts
  <2>1. PICK n \in Nat : n = Len(conv) /\ n >= 1 /\ conv[n].turn = turn
    BY <1>1, RowsOfConv DEF Conversation, LastIsOfTurn
  <2>2. Ends(n)
    BY <1>3, <2>1 DEF Ends
  <2>3. n \in 1 .. Len(conv)
    BY <2>1
  <2>4. IF conv[n].turn \in cuts THEN conv[n].look = "result" ELSE conv[n].look \in {"done", "notice"}
    BY <1>1, <2>2, <2>3 DEF Conversation, EndsWell
  <2> QED BY <1>3, <2>1, <2>4
<1>7. PICK r \in Row : r = Own("notice") /\ r.look = "notice" /\ r.turn = turn
  BY <1>1, OwnIsRow DEF Looks, Bullets
<1>8. PICK rows : rows = <<r>>
  OBVIOUS
<1>9. rows \in Seq(Row) /\ Len(rows) = 1 /\ rows[1] = r /\ \A i \in 1 .. Len(rows) : i = 1
  BY <1>8
<1>10. Prints(rows)
  <2>1. Draw(rows)
    BY <1>3, <1>7, <1>8
  <2>2. \A i \in 1 .. Len(rows) :
          /\ rows[i].turn = turn' /\ rows[i].look \in Utterances
          /\ rows[i].look = "chevron" <=> (i = 1 /\ turn' # turn)
    BY <1>3, <1>7, <1>9 DEF Utterances, Bullets
  <2> QED BY <1>3, <1>6, <1>7, <1>9, <2>1, <2>2 DEF Prints
<1>11. Types
  <2>1. told' \in 0 .. MaxSay /\ inbox' \in BOOLEAN /\ busy' \in BOOLEAN
    BY <1>1, <1>3 DEF TypeOK
  <2>2. turn' \in turn .. sent /\ cuts' \subseteq 1 .. turn'
    BY <1>2, <1>3
  <2> QED BY <1>3, <1>4, <2>1, <2>2 DEF Types
<1>12. Sending'
  BY <1>1, <1>3, <1>5 DEF Sending
<1>13. sent = turn' \/ sent - 1 \notin cuts'
  BY <1>1, <1>2, <1>3, <1>6 DEF Sending
<1>14. cuts \subseteq cuts'
  BY <1>3
<1> QED BY <1>3, <1>10, <1>11, <1>12, <1>13, <1>14, PrintKeeps

LEMMA ViewKept ==
  ASSUME conv' = conv, layout' = layout, NEW n, NEW g, NEW p
  PROVE  View(n, g, p)' = View(n, g, p)
BY DEF View, PanelRows, BoxRows, LeftOver, Window

(* A step that leaves the conversation and the session alone: the terminal  *)
(* or the transcript catches up, or the panel changes.                     *)
Still ==
  /\ UNCHANGED <<layout, conv, turn, busy, cuts, inbox, monVars>>
  /\ painted <= painted'
  /\ written' <= 2 * turn - (IF busy THEN 1 ELSE 0)

LEMMA StillKeeps ==
  ASSUME IInv, Still, TypeOK'
  PROVE  IInv'
<1>1. TypeOK /\ Conversation /\ Sending /\ Streamed /\ Captured /\ Counts /\ FramesAreOfTheTurn
  BY DEF IInv
<1>2. /\ sent' = sent /\ observing' = observing /\ baseline' = baseline /\ cap' = cap
      /\ lastStreamed' = lastStreamed /\ looked' = looked
  BY DEF Still, monVars, streamVars
<1>3. /\ layout' = layout /\ conv' = conv /\ turn' = turn /\ busy' = busy /\ cuts' = cuts
      /\ inbox' = inbox
  BY DEF Still
<1>4. Conversation'
  BY <1>1, <1>3
     DEF Conversation, TurnsInOrder, OneByOne, LastIsOfTurn, Said, MessageFirst, EndsWell, Ends
<1>5. painted \in Nat /\ painted' \in Nat /\ painted <= painted' /\ Len(conv) \in Nat
  <2>1. painted \in 0 .. Len(conv) /\ painted' \in 0 .. Len(conv')
    BY <1>1 DEF TypeOK
  <2> QED BY <1>1, <1>3, <2>1, RowsOfConv DEF Still
<1>6. UpToDate(painted)'
  <2>1. \A i \in painted + 1 .. Len(conv) : IF busy THEN conv[i].turn = turn ELSE i = Len(conv)
    BY DEF IInv, UpToDate
  <2>2. PICK a \in Nat, b \in Nat, l \in Nat : a = painted /\ b = painted' /\ l = Len(conv) /\ a <= b
    BY <1>5
  <2>3. b + 1 .. l \subseteq a + 1 .. l
    BY <2>2
  <2>4. \A i \in b + 1 .. l : IF busy THEN conv[i].turn = turn ELSE i = l
    BY <2>1, <2>2, <2>3
  <2> QED BY <1>3, <2>2, <2>4 DEF UpToDate
<1>7. Sending'
  <2>1. written' <= 2 * turn - (IF busy THEN 1 ELSE 0)
    BY DEF Still
  <2> QED BY <1>1, <1>2, <1>3, <2>1 DEF Sending
<1>8. Streamed'
  <2>1. SUFFICES ASSUME observing, lastStreamed # NoRows
                 PROVE  Seen(painted)'
    BY <1>2 DEF Streamed
  <2>2. Seen(painted)
    BY <1>1, <2>1 DEF Streamed
  <2>3. PICK i \in 1 .. Len(conv) : /\ conv[i].look \in Bullets
                                    /\ \/ i <= painted /\ conv[i].turn = sent
                                       \/ conv[i].turn = sent - 1 /\ sent - 1 \in cuts
    BY <2>2 DEF Seen
  <2>4. i <= painted => i <= painted'
    BY <1>5
  <2> QED BY <1>2, <1>3, <2>2, <2>3, <2>4 DEF Seen
<1>9. Captured'
  <2>1. SUFFICES ASSUME looked
                 PROVE  /\ observing
                        /\ \E n \in 0 .. painted', g \in 0 .. 3, p \in Panels :
                             /\ cap = View(n, g, p)' /\ UpToDate(n)'
                             /\ lastStreamed # NoRows => Seen(n)'
    BY <1>2 DEF Captured
  <2>2. PICK n \in 0 .. painted, g \in 0 .. 3, p \in Panels :
           cap = View(n, g, p) /\ UpToDate(n) /\ (lastStreamed # NoRows => Seen(n))
    BY <1>1, <2>1 DEF Captured
  <2>3. View(n, g, p)' = View(n, g, p)
    BY <1>3, ViewKept
  <2>4. UpToDate(n)'
    BY <1>3, <2>2 DEF UpToDate
  <2>5. Seen(n) => Seen(n)'
    BY <1>2, <1>3 DEF Seen
  <2>6. n \in 0 .. painted'
    BY <1>5
  <2>7. observing
    BY <1>1, <2>1 DEF Captured
  <2> QED BY <2>2, <2>3, <2>4, <2>5, <2>6, <2>7
<1>10. Counts'
  BY <1>1, <1>2, <1>3 DEF Counts, OldEnd, OldBullets
<1>11. FramesAreOfTheTurn'
  BY <1>1, <1>2, <1>3 DEF FramesAreOfTheTurn
<1> QED BY <1>4, <1>6, <1>7, <1>8, <1>9, <1>10, <1>11 DEF IInv

(* What the panel and the terminal may become in such a step.              *)
LEMMA StillTypes ==
  ASSUME TypeOK, Still, told' = told, cursor' \in 0 .. 3, draft' \in Drafts,
         painted' \in 0 .. Len(conv), shown' \in Panels, ghost' \in 0 .. 3,
         written' \in 0 .. 2 * turn
  PROVE  TypeOK'
<1>1. /\ layout' = layout /\ conv' = conv /\ turn' = turn /\ busy' = busy /\ cuts' = cuts
      /\ inbox' = inbox
  BY DEF Still
<1>2. UNCHANGED <<observing, sent, baseline, open, cap, looked, lastStreamed, prevFinal>>
  BY DEF Still, monVars, streamVars
<1> QED BY <1>1, <1>2 DEF TypeOK, Panels

LEMMA WrittenOfTurn ==
  ASSUME IInv
  PROVE  written <= 2 * turn - (IF busy THEN 1 ELSE 0)
BY DEF IInv, Sending

LEMMA PanelsOfTheCLI ==
  ASSUME TypeOK
  PROVE  Panel \in Panels /\ shown \in Panels
BY DEF TypeOK, Panel, Panels

LEMMA AskKeeps ==
  ASSUME IInv, Ask
  PROVE  IInv'
<1>1. TypeOK
  BY DEF IInv
<1>2. cursor' \in 0 .. 3
  BY DEF Ask
<1>3. /\ UNCHANGED <<layout, conv, turn, busy, cuts, inbox, monVars>>
      /\ draft' = draft /\ told' = told /\ written' = written
      /\ painted' = painted /\ shown' = shown /\ ghost' = ghost
  BY DEF Ask, ttyVars
<1>4. painted \in 0 .. Len(conv) /\ draft \in Drafts /\ ghost \in 0 .. 3 /\ written \in 0 .. 2 * turn
  BY <1>1 DEF TypeOK
<1>5. Still
  <2>1. painted <= painted
    BY <1>1, <1>4, RowsOfConv
  <2> QED BY <1>3, <2>1, WrittenOfTurn DEF Still
<1>6. TypeOK'
  BY <1>1, <1>2, <1>3, <1>4, <1>5, StillTypes, PanelsOfTheCLI
<1> QED BY <1>5, <1>6, StillKeeps

LEMMA TypeKeeps ==
  ASSUME IInv, Type
  PROVE  IInv'
<1>1. TypeOK
  BY DEF IInv
<1>2. draft' \in Drafts
  BY DEF Type
<1>3. /\ UNCHANGED <<layout, conv, turn, busy, cuts, inbox, monVars>>
      /\ cursor' = cursor /\ told' = told /\ written' = written
      /\ painted' = painted /\ shown' = shown /\ ghost' = ghost
  BY DEF Type, ttyVars
<1>4. painted \in 0 .. Len(conv) /\ cursor \in 0 .. 3 /\ ghost \in 0 .. 3 /\ written \in 0 .. 2 * turn
  BY <1>1 DEF TypeOK
<1>5. Still
  <2>1. painted <= painted
    BY <1>1, <1>4, RowsOfConv
  <2> QED BY <1>3, <2>1, WrittenOfTurn DEF Still
<1>6. TypeOK'
  BY <1>1, <1>2, <1>3, <1>4, <1>5, StillTypes, PanelsOfTheCLI
<1> QED BY <1>5, <1>6, StillKeeps

LEMMA PaintConvKeeps ==
  ASSUME IInv, PaintConv
  PROVE  IInv'
<1>1. TypeOK
  BY DEF IInv
<1>2. /\ UNCHANGED <<layout, conv, turn, busy, cuts, inbox, monVars>>
      /\ cursor' = cursor /\ draft' = draft /\ told' = told /\ written' = written
      /\ painted' = Len(conv) /\ shown' = shown /\ ghost' = ghost
  BY DEF PaintConv, cliVars
<1>3. /\ painted \in 0 .. Len(conv) /\ cursor \in 0 .. 3 /\ draft \in Drafts /\ ghost \in 0 .. 3
      /\ written \in 0 .. 2 * turn
  BY <1>1 DEF TypeOK
<1>4. painted <= painted' /\ painted' \in 0 .. Len(conv)
  BY <1>1, <1>2, <1>3, RowsOfConv
<1>5. Still
  BY <1>2, <1>4, WrittenOfTurn DEF Still
<1>6. TypeOK'
  BY <1>1, <1>2, <1>3, <1>4, <1>5, StillTypes, PanelsOfTheCLI
<1> QED BY <1>5, <1>6, StillKeeps

LEMMA PaintPanelKeeps ==
  ASSUME IInv, PaintPanel
  PROVE  IInv'
<1>1. TypeOK
  BY DEF IInv
<1>2. /\ UNCHANGED <<layout, conv, turn, busy, cuts, inbox, monVars>>
      /\ cursor' = cursor /\ draft' = draft /\ told' = told /\ written' = written
      /\ painted' = painted /\ shown' = Panel
  BY DEF PaintPanel, cliVars
<1>3. /\ painted \in 0 .. Len(conv) /\ cursor \in 0 .. 3 /\ draft \in Drafts
      /\ written \in 0 .. 2 * turn
  BY <1>1 DEF TypeOK
<1>4. ghost' \in 0 .. 3
  <2>1. shown.cursor \in 0 .. 3
    BY <1>1, PanelsOfTheCLI DEF Panels
  <2>2. ghost' = 0 \/ ghost' = shown.cursor
    BY DEF PaintPanel
  <2> QED BY <2>1, <2>2
<1>5. Still
  <2>1. painted <= painted
    BY <1>1, <1>3, RowsOfConv
  <2> QED BY <1>2, <2>1, WrittenOfTurn DEF Still
<1>6. TypeOK'
  BY <1>1, <1>2, <1>3, <1>4, <1>5, StillTypes, PanelsOfTheCLI
<1> QED BY <1>5, <1>6, StillKeeps

LEMMA RecordKeeps ==
  ASSUME IInv, Record
  PROVE  IInv'
<1>1. TypeOK /\ Conversation
  BY DEF IInv
<1>2. /\ UNCHANGED <<layout, conv, turn, busy, cuts, inbox, monVars>>
      /\ cursor' = cursor /\ draft' = draft /\ told' = told
      /\ painted' = painted /\ shown' = shown /\ ghost' = ghost
  BY DEF Record, cliVars, ttyVars
<1>3. /\ painted \in 0 .. Len(conv) /\ cursor \in 0 .. 3 /\ draft \in Drafts /\ ghost \in 0 .. 3
  BY <1>1 DEF TypeOK
<1>4. written' = 2 * turn - (IF busy THEN 1 ELSE 0)
  BY DEF Record
<1>5. written' \in 0 .. 2 * turn /\ written' <= 2 * turn - (IF busy THEN 1 ELSE 0)
  <2>1. turn \in Nat /\ turn >= 1
    BY <1>1, TurnBegun
  <2> QED BY <1>4, <2>1
<1>6. Still
  <2>1. painted <= painted
    BY <1>1, <1>3, RowsOfConv
  <2> QED BY <1>2, <1>5, <2>1 DEF Still
<1>7. TypeOK'
  BY <1>1, <1>2, <1>3, <1>5, <1>6, StillTypes, PanelsOfTheCLI
<1> QED BY <1>6, <1>7, StillKeeps

(* The capture of a screen that reads as no dialog.                        *)
LEMMA CountIsShown ==
  ASSUME TypeOK, NEW c, NEW n \in Nat, n <= Len(conv), NEW s \in Nat, Shape(c, n, s), Conversation
  PROVE  /\ IsFiniteSet(Upto(c, Len(c), Bullets))
         /\ CountMessages(c) \in 0 .. Len(conv)
<1>1. /\ n - s \in Nat /\ c \in Seq(Row)
      /\ \A j \in 1 .. Len(c) : c[j].look \in Bullets \cup {"done", "result"} \/ c[j].turn # 0
                                  => j \in 1 .. n - s
  BY ScreenRows
<1>2. PICK k \in Nat, l \in Nat : k = n - s /\ l = Len(conv) /\ k <= l
  <2>1. PICK l \in Nat : l = Len(conv) /\ n <= l
    BY RowsOfConv
  <2>2. PICK k \in Nat : k = n - s /\ k <= l
    BY <1>1, <2>1
  <2> QED BY <2>1, <2>2
<1>3. PICK B : B = Upto(c, Len(c), Bullets)
  OBVIOUS
<1>4. B \in SUBSET (1 .. k)
  BY <1>1, <1>2, <1>3 DEF Upto
<1>5. IsFiniteSet(1 .. k) /\ Cardinality(1 .. k) = k
  BY FS_Interval
<1>6. IsFiniteSet(B) /\ Cardinality(B) <= k
  BY <1>4, <1>5, FS_Subset
<1>7. Cardinality(B) \in Nat
  BY <1>6, FS_CardinalityType
<1>8. CountMessages(c) = Cardinality(B)
  BY <1>3 DEF CountMessages
<1> QED BY <1>2, <1>3, <1>6, <1>7, <1>8

(* The baseline counts what a later capture shows of the replies before.   *)
LEMMA BaselineCounts ==
  ASSUME TypeOK, Conversation, ~busy, turn \in cuts,
         NEW c, NEW n \in Nat, n <= Len(conv), UpToDate(n), NEW t \in Nat, Shape(c, n, t),
         NEW e \in Nat, e = Len(conv), NEW s \in 0 .. e, s + Height >= e + 5
  PROVE  Cardinality(OldBullets(s, e)) <= CountMessages(c)
<1>1. /\ n - t \in Nat /\ c \in Seq(Row) /\ n - t <= Len(c)
      /\ \A j \in 1 .. n - t : t + j \in 1 .. Len(conv) /\ c[j] = conv[t + j]
  BY ScreenRows
<1>2. Height \in Nat
  BY HeightAssumption
<1>3. t <= s
  <2>1. t = 0 \/ t + Height <= n + 5
    BY DEF Shape
  <2> QED BY <1>2, <2>1
<1>4. PICK d \in Nat : d = s - t
  BY <1>3
<1>5. PICK S, T : S = OldBullets(s, e) /\ T = Upto(c, Len(c), Bullets)
  OBVIOUS
<1>6. IsFiniteSet(T) /\ CountMessages(c) = Cardinality(T)
  BY <1>5, CountIsShown DEF CountMessages
<1>7. conv[e].look \notin Bullets
  <2>1. e \in 1 .. Len(conv) /\ conv[e].turn = turn
    BY TurnBegun DEF Conversation, LastIsOfTurn
  <2>2. Ends(e)
    BY DEF Ends
  <2>3. conv[e].look = "result"
    BY <2>1, <2>2 DEF Conversation, EndsWell
  <2> QED BY <2>3 DEF Bullets
<1>8. ASSUME NEW i \in S PROVE i \in Nat /\ i + d \in T
  <2>1. i \in 1 .. e - s /\ conv[s + i].look \in Bullets
    BY <1>5 DEF OldBullets
  <2>2. i \in Nat /\ s + i <= e
    BY <2>1
  <2>3. s + i <= n
    <3>1. SUFFICES ASSUME n < s + i PROVE FALSE
      BY <2>2
    <3>2. s + i \in n + 1 .. Len(conv)
      BY <2>2, <3>1
    <3>3. s + i = e
      BY <3>2 DEF UpToDate
    <3> QED BY <1>7, <2>1, <3>3
  <2>4. i + d \in 1 .. n - t /\ t + (i + d) = s + i
    BY <1>4, <2>1, <2>2, <2>3
  <2>5. c[i + d].look \in Bullets
    BY <1>1, <2>1, <2>4
  <2>6. i + d \in 1 .. Len(c)
    <3>1. PICK h \in Nat, k \in Nat : h = Len(c) /\ k = n - t /\ k <= h
      BY <1>1
    <3> QED BY <2>4, <3>1
  <2> QED BY <1>5, <2>2, <2>5, <2>6 DEF Upto
<1>9. PICK f : f = [i \in S |-> i + d]
  OBVIOUS
<1>10. f \in Injection(S, T)
  <2>1. f \in [S -> T]
    BY <1>8, <1>9
  <2>2. \A i, j \in S : f[i] = f[j] => i = j
    BY <1>8, <1>9
  <2> QED BY <2>1, <2>2 DEF Injection, IsInjective
<1>11. Cardinality(S) <= Cardinality(T)
  BY <1>6, <1>10, FS_Injection
<1> QED BY <1>5, <1>6, <1>11

LEMMA ViewFits ==
  ASSUME conv \in Seq(Row), NEW n \in Nat, n <= Len(conv), NEW g \in 0 .. 3, NEW p \in Panels,
         "lines" \notin Drafts
  PROVE  Len(View(n, g, p)) <= Height
<1>1. PICK a \in Seq(Row) : a = SubSeq(conv, 1, n)
  <2>1. PICK v \in Seq(Row) : v = conv /\ n <= Len(v)
    OBVIOUS
  <2>2. SubSeq(v, 1, n) \in Seq(Row)
    BY <2>1, SubSeqProperties
  <2> QED BY <2>1, <2>2
<1>2. PICK h \in Seq(Row) : h = a \o LeftOver(g)
  <2>1. LeftOver(g) \in Seq(Row)
    <3>1. CASE g = 0
      BY <3>1 DEF LeftOver
    <3>2. CASE g \in 1 .. 3
      BY <3>2, DialogEndsWithFooter DEF LeftOver
    <3> QED BY <3>1, <3>2
  <2> QED BY <2>1, ConcatProperties
<1>3. PICK b \in Seq(Row) : b = PanelRows(p)
  <2>1. CASE p.cursor # 0
    <3>1. p.cursor \in 1 .. 3
      BY <2>1 DEF Panels
    <3> QED BY <2>1, <3>1, DialogEndsWithFooter DEF PanelRows
  <2>2. CASE p.cursor = 0
    <3>1. p.draft \in {"empty", "text", "list"}
      BY DraftsAssumption DEF Panels
    <3>2. PICK m \in Nat : Box(BoxRows(p), m)
      BY <3>1, BoxIs
    <3> QED BY <2>2, <3>2 DEF PanelRows, Box, IsBox
  <2> QED BY <2>1, <2>2
<1>4. PICK all \in Seq(Row) : all = h \o b
  BY <1>2, <1>3, ConcatProperties
<1>5. View(n, g, p) = Window(all)
  BY <1>1, <1>2, <1>3, <1>4 DEF View
<1>6. PICK d : d = IF Len(all) > Height THEN Len(all) - Height ELSE 0
  OBVIOUS
<1>7. Len(Window(all)) = Len(all) - d
  BY <1>6, WindowRows
<1>8. PICK l \in Nat : l = Len(all)
  OBVIOUS
<1>9. l - d <= Height
  BY <1>6, <1>8, HeightAssumption
<1> QED BY <1>5, <1>7, <1>8, <1>9

LEMMA LookKeeps ==
  ASSUME IInv, Look, "lines" \notin Drafts
  PROVE  IInv'
<1>1. TypeOK /\ Conversation /\ Sending /\ Streamed /\ Counts /\ FramesAreOfTheTurn /\ UpToDate(painted)
  BY DEF IInv
<1>2. /\ UNCHANGED <<layout, conv, turn, busy, cuts, cursor, draft, told, inbox>>
      /\ UNCHANGED <<painted, shown, ghost, written>>
      /\ UNCHANGED <<observing, sent, baseline, open, lastStreamed, prevFinal>>
      /\ observing /\ looked' = TRUE /\ cap' = screen
  BY DEF Look, cliVars, ttyVars, streamVars
<1>3. PICK n \in Nat : n = painted /\ n <= Len(conv)
  <2>1. painted \in 0 .. Len(conv)
    BY <1>1 DEF TypeOK
  <2> QED BY <1>1, <2>1, RowsOfConv
<1>4. PICK g \in 0 .. 3, p \in Panels : g = ghost /\ p = shown
  BY <1>1, PanelsOfTheCLI DEF TypeOK
<1>5. cap' = View(n, g, p)
  BY <1>2, <1>3, <1>4, ScreenIsView
<1>6. Len(cap') <= Height
  <2>1. conv \in Seq(Row)
    BY <1>1, RowsOfConv
  <2>2. Len(View(n, g, p)) <= Height
    BY <1>3, <2>1, ViewFits
  <2> QED BY <1>5, <2>2
<1>7. TypeOK'
  BY <1>1, <1>2, <1>6 DEF TypeOK
<1>8. Conversation'
  BY <1>1, <1>2
     DEF Conversation, TurnsInOrder, OneByOne, LastIsOfTurn, Said, MessageFirst, EndsWell, Ends
<1>9. UpToDate(painted)' /\ Sending' /\ Streamed' /\ Counts' /\ FramesAreOfTheTurn'
  BY <1>1, <1>2 DEF UpToDate, Sending, Streamed, Seen, Counts, OldEnd, OldBullets, FramesAreOfTheTurn
<1>10. Captured'
  <2>1. View(n, g, p)' = View(n, g, p)
    BY <1>2, ViewKept
  <2>2. UpToDate(n)'
    BY <1>1, <1>2, <1>3 DEF UpToDate
  <2>3. lastStreamed' # NoRows => Seen(n)'
    BY <1>1, <1>2, <1>3 DEF Streamed, Seen
  <2>4. n \in 0 .. painted'
    BY <1>2, <1>3
  <2>5. \E m \in 0 .. painted', h \in 0 .. 3, q \in Panels :
           cap' = View(m, h, q)' /\ UpToDate(m)' /\ (lastStreamed' # NoRows => Seen(m)')
    BY <1>5, <2>1, <2>2, <2>3, <2>4
  <2> QED BY <1>2, <2>5 DEF Captured
<1> QED BY <1>7, <1>8, <1>9, <1>10 DEF IInv

LEMMA SendKeeps ==
  ASSUME IInv, Send, BottomRows > 5, "lines" \notin Drafts
  PROVE  IInv'
<1>1. TypeOK /\ Conversation /\ Sending /\ UpToDate(painted)
  BY DEF IInv
<1>2. /\ UNCHANGED <<layout, conv, turn, busy, cuts, cursor, draft, told>>
      /\ UNCHANGED <<painted, shown, ghost, written, cap, looked>>
      /\ ~looked /\ ~observing /\ ~busy /\ sent < MaxTurn /\ DetectState(screen) # "dialog"
      /\ baseline' = CountMessages(screen) /\ observing' = TRUE /\ sent' = sent + 1
      /\ open' = FALSE /\ prevFinal' = lastStreamed /\ lastStreamed' = NoRows /\ inbox' = TRUE
  BY DEF Send, ttyVars
<1>3. /\ turn \in Nat /\ sent \in Nat /\ turn <= sent /\ sent <= MaxTurn
      /\ cuts \subseteq 1 .. turn /\ MaxTurn \in Nat
  BY <1>1, Numbers
<1>4. ~inbox /\ sent = turn
  BY <1>1, <1>2, <1>3 DEF Sending
<1>5. PICK n \in Nat : n = painted /\ n <= Len(conv)
  <2>1. painted \in 0 .. Len(conv)
    BY <1>1 DEF TypeOK
  <2> QED BY <1>1, <2>1, RowsOfConv
<1>6. PICK g \in 0 .. 3, p \in Panels : g = ghost /\ p = shown
  BY <1>1, PanelsOfTheCLI DEF TypeOK
<1>7. PICK c : c = View(n, g, p)
  OBVIOUS
<1>8. screen = c
  BY <1>5, <1>6, <1>7, ScreenIsView
<1>9. PICK t \in Nat : Shape(c, n, t)
  <2>1. DetectState(View(n, g, p)) # "dialog"
    BY <1>2, <1>7, <1>8
  <2>2. PICK t \in Nat : Shape(View(n, g, p), n, t)
    BY <1>1, <1>5, <2>1, RowsOfConv, ViewIs
  <2> QED BY <1>7, <2>2
<1>10. CountMessages(c) \in 0 .. Len(conv)
  BY <1>1, <1>5, <1>9, CountIsShown
<1>11. TypeOK'
  <2>1. baseline' \in 0 .. Len(conv')
    BY <1>2, <1>8, <1>10
  <2>2. sent' \in turn' .. MaxTurn
    BY <1>2, <1>3
  <2>3. NoRows \in Seq(Row)
    BY DEF NoRows
  <2>4. lastStreamed' \in Seq(Row) /\ prevFinal' \in Seq(Row)
    BY <1>1, <1>2, <2>3 DEF TypeOK
  <2> QED BY <1>1, <1>2, <2>1, <2>2, <2>4 DEF TypeOK
<1>12. Conversation'
  BY <1>1, <1>2
     DEF Conversation, TurnsInOrder, OneByOne, LastIsOfTurn, Said, MessageFirst, EndsWell, Ends
<1>13. UpToDate(painted)' /\ Streamed' /\ Captured'
  BY <1>1, <1>2 DEF UpToDate, Streamed, Captured
<1>14. Sending'
  BY <1>1, <1>2, <1>3, <1>4 DEF Sending
<1>15. Counts'
  <2>1. PICK l \in Nat : l = Len(conv) /\ conv[l].turn = turn
    BY <1>1, RowsOfConv DEF Conversation, LastIsOfTurn
  <2>2. SUFFICES ASSUME turn \in cuts, NEW e \in 0 .. l, NEW s \in 0 .. e,
                        OldEnd(e)', s + Height >= e + 5
                 PROVE  Cardinality(OldBullets(s, e)') <= CountMessages(c)
    <3>1. sent' - 1 = turn /\ cuts' = cuts /\ Len(conv') = l /\ baseline' = CountMessages(c)
      BY <1>2, <1>3, <1>4, <1>8, <2>1
    <3> QED BY <3>1 DEF Counts, OldBullets
  <2>3. \A i \in e + 1 .. l : conv[i].turn = turn + 1
    BY <1>2, <1>4, <2>1, <2>2 DEF OldEnd
  <2>4. e = l
    <3>1. SUFFICES ASSUME e < l PROVE FALSE
      BY <2>1
    <3>2. l \in e + 1 .. l
      BY <2>1, <3>1
    <3> QED BY <1>3, <2>1, <2>3, <3>2
  <2>5. OldBullets(s, e)' = OldBullets(s, e)
    BY <1>2 DEF OldBullets
  <2>6. e \in Nat /\ e = Len(conv) /\ UpToDate(n)
    BY <1>1, <1>5, <2>1, <2>4
  <2>7. Cardinality(OldBullets(s, e)) <= CountMessages(c)
    BY <1>1, <1>2, <1>5, <1>9, <2>2, <2>6, BaselineCounts
  <2> QED BY <2>5, <2>7
<1>16. FramesAreOfTheTurn'
  BY <1>2 DEF FramesAreOfTheTurn, NoRows
<1> QED BY <1>11, <1>12, <1>13, <1>14, <1>15, <1>16 DEF IInv

(* The three ends of a tick.                                               *)
LEMMA TickKeeps ==
  ASSUME IInv, NEW isObserving \in BOOLEAN, NEW isOpen \in BOOLEAN, Tick(isObserving, isOpen),
         isObserving => observing, inbox => isObserving /\ lastStreamed' = NoRows,
         lastStreamed' \in Seq(Row), isObserving /\ lastStreamed' # NoRows => Seen(painted),
         FramesAreOfTheTurn'
  PROVE  IInv'
<1>1. TypeOK /\ Conversation /\ Sending /\ UpToDate(painted) /\ Counts
  BY DEF IInv
<1>2. /\ UNCHANGED <<layout, conv, turn, busy, cuts, cursor, draft, told, inbox>>
      /\ UNCHANGED <<painted, shown, ghost, written, sent, baseline, prevFinal>>
      /\ looked' = FALSE /\ cap' = NoRows /\ observing' = isObserving /\ open' = isOpen
  BY DEF Tick, cliVars, ttyVars
<1>3. TypeOK'
  <2>1. Len(cap') <= Height
    <3>1. Len(NoRows) = 0
      BY DEF NoRows
    <3> QED BY <1>2, <3>1, HeightAssumption
  <2> QED BY <1>1, <1>2, <2>1 DEF TypeOK
<1>4. Conversation'
  BY <1>1, <1>2
     DEF Conversation, TurnsInOrder, OneByOne, LastIsOfTurn, Said, MessageFirst, EndsWell, Ends
<1>5. UpToDate(painted)' /\ Captured'
  BY <1>1, <1>2 DEF UpToDate, Captured
<1>6. Sending'
  BY <1>1, <1>2 DEF Sending
<1>7. Streamed'
  BY <1>2 DEF Streamed, Seen
<1>8. Counts'
  BY <1>1, <1>2 DEF Counts, OldEnd, OldBullets
<1> QED BY <1>3, <1>4, <1>5, <1>6, <1>7, <1>8 DEF IInv

LEMMA CloseKeeps ==
  ASSUME IInv, Close
  PROVE  IInv'
<1>1. TypeOK /\ Sending /\ FramesAreOfTheTurn
  BY DEF IInv
<1>2. Tick(FALSE, FALSE) /\ lastStreamed' = lastStreamed /\ written = 2 * sent
  BY DEF Close
<1>3. ~inbox
  <2>1. SUFFICES ASSUME inbox PROVE FALSE
    OBVIOUS
  <2>2. turn \in Nat /\ sent \in Nat
    BY <1>1, Numbers
  <2>3. sent = turn + 1 /\ written <= 2 * turn
    BY <1>1, <2>1, <2>2 DEF Sending
  <2> QED BY <1>2, <2>2, <2>3
<1>4. FramesAreOfTheTurn' /\ lastStreamed' \in Seq(Row)
  <2>1. cuts' = cuts /\ sent' = sent
    BY <1>2 DEF Tick, cliVars
  <2> QED BY <1>1, <1>2, <2>1 DEF FramesAreOfTheTurn, TypeOK
<1> QED BY <1>2, <1>3, <1>4, TickKeeps

LEMMA ShimmerKeeps ==
  ASSUME IInv, Shimmer
  PROVE  IInv'
<1>1. TypeOK /\ Sending /\ Streamed /\ FramesAreOfTheTurn
  BY DEF IInv
<1>2. PICK isOpen \in BOOLEAN : isOpen = Opened
  BY DEF Opened
<1>3. Tick(TRUE, isOpen) /\ lastStreamed' = lastStreamed /\ observing
  BY <1>2 DEF Shimmer
<1>4. FramesAreOfTheTurn' /\ lastStreamed' \in Seq(Row)
  <2>1. cuts' = cuts /\ sent' = sent
    BY <1>3 DEF Tick, cliVars
  <2> QED BY <1>1, <1>3, <2>1 DEF FramesAreOfTheTurn, TypeOK
<1>5. inbox => lastStreamed' = NoRows
  BY <1>1, <1>3 DEF Sending
<1>6. lastStreamed' # NoRows => Seen(painted)
  BY <1>1, <1>3 DEF Streamed
<1> QED BY <1>3, <1>4, <1>5, <1>6, TickKeeps

LEMMA StreamKeeps ==
  ASSUME IInv, Stream, BottomRows > 5, "lines" \notin Drafts
  PROVE  IInv'
<1>1. TypeOK /\ Sending /\ Captured
  BY DEF IInv
<1>2. PICK isOpen \in BOOLEAN : isOpen = Opened
  BY DEF Opened
<1>3. Tick(TRUE, isOpen) /\ lastStreamed' = Response /\ observing /\ Streams /\ looked
  BY <1>2 DEF Stream, Tick
<1>4. PICK frame : frame = Response
  OBVIOUS
<1>5. /\ frame \in Seq(Row) /\ turn = sent /\ Seen(painted)
      /\ \A i \in 1 .. Len(frame) :
           \/ frame[i].turn \in {sent} \cup (cuts \cap {sent - 1})
           \/ frame[i].look \in Spinners
  BY <1>3, <1>4, FrameIsOfTurn
<1>6. FramesAreOfTheTurn'
  <2>1. cuts' = cuts /\ sent' = sent
    BY <1>3 DEF Tick, cliVars
  <2>2. DOMAIN frame = 1 .. Len(frame)
    BY <1>5
  <2>3. lastStreamed' = frame
    BY <1>3, <1>4
  <2> QED BY <1>5, <2>1, <2>2, <2>3 DEF FramesAreOfTheTurn
<1>7. ~inbox
  <2>1. turn \in Nat /\ sent \in Nat
    BY <1>1, Numbers
  <2> QED BY <1>1, <1>5, <2>1 DEF Sending
<1>8. lastStreamed' \in Seq(Row)
  BY <1>3, <1>4, <1>5
<1> QED BY <1>3, <1>5, <1>6, <1>7, <1>8, TickKeeps

LEMMA StutterKeeps ==
  ASSUME IInv, UNCHANGED vars
  PROVE  IInv'
<1>1. TypeOK /\ Still
  <2>1. TypeOK
    BY DEF IInv
  <2>2. painted \in 0 .. Len(conv) /\ Len(conv) \in Nat
    BY <2>1, RowsOfConv DEF TypeOK
  <2>3. painted <= painted
    BY <2>2
  <2> QED BY <2>1, <2>3, WrittenOfTurn DEF Still, vars, cliVars, ttyVars
<1>2. TypeOK'
  BY <1>1 DEF TypeOK, vars, cliVars, ttyVars, monVars, streamVars
<1> QED BY <1>1, <1>2, StillKeeps

-----------------------------------------------------------------------------
LEMMA PastIs ==
  ASSUME NEW n \in 1 .. 3
  PROVE  /\ PastRow(n) \in Row /\ PastRow(n).turn = 1
         /\ PastRow(n).look = <<"chevron", "bullet", "done">>[n]
<1>1. PICK a \in Row, b \in Row, c \in Row :
         /\ a = Written("chevron", "message") /\ a.look = "chevron"
         /\ b = Drawn("bullet") /\ b.look = "bullet"
         /\ c = Drawn("done") /\ c.look = "done"
  <2>1. {"chevron", "bullet", "done"} \subseteq Looks /\ "message" \in Texts
    BY DEF Looks, Bullets, Texts
  <2>2. PICK a \in Row : a = Written("chevron", "message") /\ a.look = "chevron"
    BY <2>1, WrittenIsRow
  <2>3. PICK b \in Row : b = Drawn("bullet") /\ b.look = "bullet"
    BY <2>1, DrawnIsRow
  <2>4. PICK c \in Row : c = Drawn("done") /\ c.look = "done"
    BY <2>1, DrawnIsRow
  <2> QED BY <2>2, <2>3, <2>4
<1>2. PICK r \in Row : r = Past[n] /\ r.look = <<"chevron", "bullet", "done">>[n]
  <2>1. Past = <<a, b, c>>
    BY <1>1 DEF Past
  <2>2. n = 1 \/ n = 2 \/ n = 3
    OBVIOUS
  <2> QED BY <1>1, <2>1, <2>2
<1>3. /\ [r EXCEPT !.turn = 1, !.line = n] \in Row /\ [r EXCEPT !.turn = 1, !.line = n].turn = 1
      /\ [r EXCEPT !.turn = 1, !.line = n].look = r.look
  <2>1. [r EXCEPT !.turn = 1] \in Row /\ [r EXCEPT !.turn = 1].turn = 1 /\ [r EXCEPT !.turn = 1].look = r.look
    BY DEF Row
  <2>2. PICK q \in Row : q = [r EXCEPT !.turn = 1] /\ q.turn = 1 /\ q.look = r.look
    BY <2>1
  <2>3. PICK m \in Nat : m = n
    OBVIOUS
  <2>4. [q EXCEPT !.line = m] \in Row /\ [q EXCEPT !.line = m].turn = q.turn /\ [q EXCEPT !.line = m].look = q.look
    BY DEF Row
  <2>5. [r EXCEPT !.turn = 1, !.line = n] = [q EXCEPT !.line = m]
    BY <2>2, <2>3
  <2> QED BY <2>2, <2>4, <2>5
<1>4. PastRow(n) = [r EXCEPT !.turn = 1, !.line = n]
  BY <1>2 DEF PastRow
<1> QED BY <1>2, <1>3, <1>4

LEMMA InitHolds ==
  ASSUME Init
  PROVE  IInv
<1>1. PICK esc \in BOOLEAN :
        /\ conv = [i \in 1 .. 3 |-> IF i = 3 /\ esc THEN [PastRow(i) EXCEPT !.look = "result"]
                                    ELSE PastRow(i)]
        /\ cuts = (IF esc THEN {1} ELSE {})
        /\ lastStreamed = <<conv[2]>>
  BY DEF Init
<1>2. PICK a \in Row, b \in Row, c \in Row :
        /\ a = conv[1] /\ a.turn = 1 /\ a.look = "chevron"
        /\ b = conv[2] /\ b.turn = 1 /\ b.look = "bullet"
        /\ c = conv[3] /\ c.turn = 1 /\ c.look = IF esc THEN "result" ELSE "done"
  <2>1. PICK a \in Row : a = conv[1] /\ a.turn = 1 /\ a.look = "chevron"
    BY <1>1, PastIs
  <2>2. PICK b \in Row : b = conv[2] /\ b.turn = 1 /\ b.look = "bullet"
    BY <1>1, PastIs
  <2>3. PICK d \in Row : d = PastRow(3) /\ d.turn = 1 /\ d.look = "done"
    BY PastIs
  <2>4. [d EXCEPT !.look = "result"] \in Row /\ [d EXCEPT !.look = "result"].turn = d.turn
        /\ [d EXCEPT !.look = "result"].look = "result"
    BY DEF Row, Looks
  <2>5. conv[3] = IF esc THEN [d EXCEPT !.look = "result"] ELSE d
    BY <1>1, <2>3
  <2>6. PICK c \in Row : c = conv[3] /\ c.turn = 1 /\ c.look = IF esc THEN "result" ELSE "done"
    BY <2>3, <2>4, <2>5
  <2> QED BY <2>1, <2>2, <2>6
<1>3. conv \in Seq(Row) /\ Len(conv) = 3
  <2>1. conv = <<a, b, c>>
    <3>1. DOMAIN conv = 1 .. 3
      BY <1>1
    <3> QED BY <1>1, <1>2, <3>1
  <2>2. <<a, b, c>> \in Seq(Row) /\ Len(<<a, b, c>>) = 3
    OBVIOUS
  <2> QED BY <2>1, <2>2
<1>4. /\ layout \in Layouts /\ turn = 1 /\ sent = 1 /\ written = 2
      /\ busy = FALSE /\ cursor = 0 /\ draft = "empty" /\ told = 0 /\ inbox = FALSE
      /\ painted = Len(conv) /\ shown = Panel /\ ghost = 0
      /\ observing = FALSE /\ baseline = 0 /\ open = FALSE
      /\ cap = NoRows /\ looked = FALSE /\ prevFinal = NoRows
  BY DEF Init
<1>5. \A i \in 1 .. 3 : i = 1 \/ i = 2 \/ i = 3
  OBVIOUS
<1>6. \A i \in 1 .. 3 : conv[i].turn = 1
  BY <1>2, <1>5
<1>7. TypeOK
  <2>1. shown \in [busy : BOOLEAN, cursor : 0 .. 3, draft : Drafts]
    <3>1. busy \in BOOLEAN
      BY <1>4, Zenon
    <3>2. cursor \in 0 .. 3
      BY <1>4
    <3>3. draft \in Drafts
      BY <1>4, DraftsAssumption, Zenon
    <3>4. shown = [busy |-> busy, cursor |-> cursor, draft |-> draft]
      BY <1>4 DEF Panel
    <3> QED BY <3>1, <3>2, <3>3, <3>4
  <2>2. Len(cap) <= Height
    <3>1. Len(NoRows) = 0
      BY DEF NoRows
    <3> QED BY <1>4, <3>1, HeightAssumption
  <2>3. NoRows \in Seq(Row)
    BY DEF NoRows
  <2>4. lastStreamed \in Seq(Row)
    <3>1. lastStreamed = <<b>>
      BY <1>1, <1>2
    <3> QED BY <3>1
  <2>5. turn \in 0 .. MaxTurn /\ sent \in turn .. MaxTurn /\ told \in 0 .. MaxSay
    BY <1>4, BoundsAssumption
  <2>6. painted \in 0 .. Len(conv) /\ baseline \in 0 .. Len(conv)
    BY <1>3, <1>4
  <2>7. cuts \subseteq 1 .. turn /\ written \in 0 .. 2 * turn
    BY <1>1, <1>4
  <2> QED BY <1>3, <1>4, <2>1, <2>2, <2>3, <2>4, <2>5, <2>6, <2>7, DraftsAssumption DEF TypeOK
<1>8. Conversation
  <2>1. TurnsInOrder /\ OneByOne /\ LastIsOfTurn
    <3>1. \A i \in 1 .. Len(conv) : conv[i].turn = 1
      BY <1>3, <1>6
    <3>2. \A i \in 2 .. Len(conv) : i \in 1 .. Len(conv) /\ i - 1 \in 1 .. Len(conv)
      BY <1>3
    <3> QED BY <1>3, <1>4, <3>1, <3>2 DEF TurnsInOrder, OneByOne, LastIsOfTurn
  <2>2. Said
    BY <1>2, <1>3, <1>5 DEF Said, Utterances, Bullets
  <2>3. MessageFirst
    <3>1. ASSUME NEW i \in 1 .. 3
          PROVE  conv[i].look = "chevron" <=> (i = 1 \/ conv[i - 1].turn # conv[i].turn)
      <4>1. i = 1 => conv[i].look = "chevron"
        BY <1>2
      <4>2. i # 1 => conv[i].look # "chevron" /\ conv[i - 1].turn = 1 /\ conv[i].turn = 1
        BY <1>2, <1>5
      <4> QED BY <4>1, <4>2
    <3> QED BY <1>3, <3>1 DEF MessageFirst
  <2>4. EndsWell
    <3>1. ASSUME NEW i \in 1 .. 3, Ends(i)
          PROVE  IF conv[i].turn \in cuts THEN conv[i].look = "result" ELSE conv[i].look \in {"done", "notice"}
      <4>1. i = 3
        <5>1. SUFFICES ASSUME i # 3 PROVE FALSE
          OBVIOUS
        <5>2. i \in 1 .. 3 /\ i + 1 \in 1 .. 3
          BY <5>1
        <5> QED BY <1>3, <1>6, <3>1, <5>1, <5>2 DEF Ends
      <4>2. conv[3].turn \in cuts <=> esc
        BY <1>1, <1>2
      <4> QED BY <1>2, <4>1, <4>2
    <3> QED BY <1>3, <3>1 DEF EndsWell
  <2> QED BY <2>1, <2>2, <2>3, <2>4 DEF Conversation
<1>9. UpToDate(painted)
  BY <1>3, <1>4 DEF UpToDate
<1>10. Sending
  BY <1>4 DEF Sending
<1>11. Streamed /\ Captured /\ Counts
  BY <1>4 DEF Streamed, Captured, Counts
<1>12. FramesAreOfTheTurn
  <2>1. lastStreamed = <<b>>
    BY <1>1, <1>2
  <2>2. \A i \in DOMAIN lastStreamed : lastStreamed[i].turn = sent
    BY <1>2, <1>4, <2>1
  <2> QED BY <2>2 DEF FramesAreOfTheTurn
<1> QED BY <1>7, <1>8, <1>9, <1>10, <1>11, <1>12 DEF IInv

LEMMA NextKeeps ==
  ASSUME BottomRows > 5, "lines" \notin Drafts, IInv, [Next]_vars
  PROVE  IInv'
<1>1. CASE TakeUp BY <1>1, TakeUpKeeps
<1>2. CASE Say BY <1>2, SayKeeps
<1>3. CASE Stop(TRUE) BY <1>3, StopKeeps
<1>4. CASE Stop(FALSE) BY <1>4, StopKeeps
<1>5. CASE Compact BY <1>5, CompactKeeps
<1>6. CASE Ask BY <1>6, AskKeeps
<1>7. CASE Type BY <1>7, TypeKeeps
<1>8. CASE PaintConv BY <1>8, PaintConvKeeps
<1>9. CASE PaintPanel BY <1>9, PaintPanelKeeps
<1>10. CASE Record BY <1>10, RecordKeeps
<1>11. CASE Send BY <1>11, SendKeeps
<1>12. CASE Look BY <1>12, LookKeeps
<1>13. CASE Close BY <1>13, CloseKeeps
<1>14. CASE Stream BY <1>14, StreamKeeps
<1>15. CASE Shimmer BY <1>15, ShimmerKeeps
<1>16. CASE UNCHANGED vars BY <1>16, StutterKeeps
<1> QED
  BY <1>1, <1>2, <1>3, <1>4, <1>5, <1>6, <1>7, <1>8, <1>9, <1>10, <1>11, <1>12, <1>13, <1>14,
     <1>15, <1>16 DEF Next

LEMMA Invariance ==
  ASSUME BottomRows > 5, "lines" \notin Drafts
  PROVE  Spec => []IInv
<1>1. Init => IInv
  BY InitHolds
<1>2. IInv /\ [Next]_vars => IInv'
  BY NextKeeps
<1> QED BY <1>1, <1>2, PTL DEF Spec

(* The variables keep their types: no more rows are painted than the CLI    *)
(* has printed, the baseline counts no more bullets than there are rows,    *)
(* and the session is never behind the turn the CLI is at.                  *)
THEOREM StreamTypes ==
  ASSUME BottomRows > 5, "lines" \notin Drafts
  PROVE  Spec => []TypeOK
<1>1. IInv => TypeOK
  BY DEF IInv
<1> QED BY <1>1, Invariance, PTL

(* What Monitor::poll streams into the bubble of a turn is of that turn, or *)
(* its spinner, for every height of the terminal, every number of turns,    *)
(* however torn the screen, and whichever strategy of extract_raw_response  *)
(* finds the reply; after an Esc it may also be of the turn that was cut.   *)
THEOREM FramesOfTheTurn ==
  ASSUME BottomRows > 5, "lines" \notin Drafts
  PROVE  Spec => []FramesAreOfTheTurn
<1>1. IInv => FramesAreOfTheTurn
  BY DEF IInv
<1> QED BY <1>1, Invariance, PTL

-----------------------------------------------------------------------------
(* What the rows of the conversation say, for the verdicts on the screen:   *)
(* a chevron row is a message, no completion is printed while the turn is   *)
(* under way, a compaction notice follows a completion, and a reply starts  *)
(* with a bullet right below its message.                                   *)
TextsOfMessages ==
  \A i \in 1 .. Len(conv) :
     /\ conv[i].look = "chevron" =>
          conv[i].text = "message" /\ ("number" \notin Feature => conv[i].num = 0)
     /\ "number" \notin Feature /\ conv[i].text = "message" => conv[i].look = "chevron"
NoQuotes == "quote" \notin Feature => \A i \in 1 .. Len(conv) : conv[i].look # "quote"
UnderWay ==
  busy => \A i \in 1 .. Len(conv) : conv[i].turn = turn => conv[i].look \notin {"done", "notice"}
Notices == \A i \in 1 .. Len(conv) : conv[i].look = "notice" => i > 1 /\ conv[i - 1].look = "done"
Opens ==
  "number" \notin Feature /\ busy => \A i \in 1 .. Len(conv) : \A j \in 1 .. Len(conv) :
     j = i + 1 /\ conv[i].look = "chevron" /\ conv[i].turn = turn => conv[j].look \in Bullets

Steady == TextsOfMessages /\ NoQuotes /\ UnderWay /\ Notices /\ Opens

LEMMA SteadyGrows ==
  ASSUME TypeOK, Conversation, Steady, NEW rows, Prints(rows),
         \A j \in 1 .. Len(rows) :
           /\ rows[j].look = "chevron" =>
                rows[j].text = "message" /\ ("number" \notin Feature => rows[j].num = 0)
           /\ "number" \notin Feature /\ rows[j].text = "message" => rows[j].look = "chevron"
           /\ "quote" \notin Feature => rows[j].look # "quote"
           /\ busy' => rows[j].look \notin {"done", "notice"}
           /\ rows[j].look = "notice" => j = 1 /\ conv[Len(conv)].look = "done",
         busy' => busy \/ turn' # turn,
         turn' # turn /\ "number" \notin Feature => Len(rows) = 1,
         busy' /\ turn' = turn /\ conv[Len(conv)].look = "chevron" => rows[1].look \in Bullets
  PROVE  Steady'
<1>1. PICK v \in Seq(Row) : v = conv
  BY DEF TypeOK
<1>2. PICK q \in Seq(Row) : q = rows
  BY DEF Prints
<1>3. PICK w : w = v \o q
  OBVIOUS
<1>4. conv' = w
  BY <1>1, <1>2, <1>3 DEF Prints, Draw
<1>5. PICK n \in Nat, r \in Nat : n = Len(v) /\ r = Len(q)
  OBVIOUS
<1>6. /\ v \o q \in Seq(Row) /\ Len(v \o q) = Len(v) + Len(q)
      /\ \A i \in 1 .. Len(v) + Len(q) : (v \o q)[i] = IF i <= Len(v) THEN v[i] ELSE q[i - Len(v)]
  BY ConcatProperties
<1>7. Len(w) = n + r /\ \A i \in 1 .. n + r : w[i] = IF i <= n THEN v[i] ELSE q[i - n]
  BY <1>3, <1>5, <1>6
<1>a. ASSUME NEW j \in 1 .. r
      PROVE  /\ q[j].look = "chevron" =>
                  q[j].text = "message" /\ ("number" \notin Feature => q[j].num = 0)
             /\ "number" \notin Feature /\ q[j].text = "message" => q[j].look = "chevron"
             /\ "quote" \notin Feature => q[j].look # "quote"
             /\ busy' => q[j].look \notin {"done", "notice"}
  BY <1>2, <1>5
<1>8. ASSUME NEW i \in 1 .. n + r, i <= n
      PROVE  w[i] = v[i] /\ i \in 1 .. n
  BY <1>7, <1>8
<1>9. ASSUME NEW i \in 1 .. n + r, ~(i <= n)
      PROVE  \E j \in 1 .. r : j = i - n /\ w[i] = q[j]
  <2>1. i - n \in 1 .. r
    BY <1>9
  <2> QED BY <1>7, <1>9, <2>1
<1>10. n >= 1 /\ v[n].turn = turn
  BY <1>1, <1>5 DEF Conversation, LastIsOfTurn
<1>11. \A i \in 1 .. n : v[i].turn <= turn /\ v[i].turn \in Nat
  <2>1. Len(conv) = n
    BY <1>1, <1>5
  <2> QED BY <1>1, <2>1, PrintedRows
<1>12. TextsOfMessages'
  <2>1. SUFFICES ASSUME NEW i \in 1 .. n + r
                 PROVE  /\ w[i].look = "chevron" =>
                             w[i].text = "message" /\ ("number" \notin Feature => w[i].num = 0)
                        /\ "number" \notin Feature /\ w[i].text = "message" => w[i].look = "chevron"
    BY <1>4, <1>7 DEF TextsOfMessages
  <2>2. CASE i <= n
    BY <1>1, <1>5, <1>8, <2>1, <2>2 DEF Steady, TextsOfMessages
  <2>3. CASE ~(i <= n)
    <3>1. PICK j \in 1 .. r : w[i] = q[j]
      BY <1>9, <2>3
    <3> QED BY <1>a, <2>1, <3>1
  <2> QED BY <2>2, <2>3
<1>13. NoQuotes'
  <2>1. SUFFICES ASSUME NEW i \in 1 .. n + r, "quote" \notin Feature
                 PROVE  w[i].look # "quote"
    BY <1>4, <1>7 DEF NoQuotes
  <2>2. CASE i <= n
    BY <1>1, <1>5, <1>8, <2>1, <2>2 DEF Steady, NoQuotes
  <2>3. CASE ~(i <= n)
    <3>1. PICK j \in 1 .. r : w[i] = q[j]
      BY <1>9, <2>3
    <3> QED BY <1>a, <2>1, <3>1
  <2> QED BY <2>2, <2>3
<1>14. UnderWay'
  <2>1. SUFFICES ASSUME NEW i \in 1 .. n + r, busy', w[i].turn = turn'
                 PROVE  w[i].look \notin {"done", "notice"}
    BY <1>4, <1>7 DEF UnderWay
  <2>2. CASE i <= n
    <3>1. w[i] = v[i] /\ i \in 1 .. n
      BY <1>8, <2>2
    <3>2. turn' = turn
      <4>1. turn' = turn \/ turn' = turn + 1
        BY DEF Prints
      <4>2. turn \in Nat /\ v[i].turn <= turn /\ v[i].turn = turn'
        BY <1>11, <2>1, <3>1, RowsOfConv
      <4> QED BY <4>1, <4>2
    <3>3. busy
      BY <2>1, <3>2
    <3> QED BY <1>1, <1>5, <2>1, <3>1, <3>2, <3>3 DEF Steady, UnderWay
  <2>3. CASE ~(i <= n)
    <3>1. PICK j \in 1 .. r : w[i] = q[j]
      BY <1>9, <2>3
    <3> QED BY <1>a, <2>1, <3>1
  <2> QED BY <2>2, <2>3
<1>15. Notices'
  <2>1. SUFFICES ASSUME NEW i \in 1 .. n + r, w[i].look = "notice"
                 PROVE  i > 1 /\ w[i - 1].look = "done"
    BY <1>4, <1>7 DEF Notices
  <2>2. CASE i <= n
    <3>1. v[i].look = "notice" /\ i \in 1 .. n
      BY <1>8, <2>1, <2>2
    <3>2. i > 1 /\ v[i - 1].look = "done"
      BY <1>1, <1>5, <3>1 DEF Steady, Notices
    <3>3. i - 1 \in 1 .. n + r /\ i - 1 <= n
      BY <3>1, <3>2
    <3> QED BY <1>8, <3>2, <3>3
  <2>3. CASE ~(i <= n)
    <3>1. PICK j \in 1 .. r : j = i - n /\ q[j].look = "notice"
      BY <1>9, <2>1, <2>3
    <3>2. j = 1 /\ v[n].look = "done"
      BY <1>1, <1>2, <1>5, <3>1
    <3>3. i - 1 = n /\ n \in 1 .. n + r /\ n <= n /\ i > 1
      BY <1>10, <3>1, <3>2
    <3> QED BY <1>8, <3>2, <3>3
  <2> QED BY <2>2, <2>3
<1>16. Opens'
  <2>1. SUFFICES ASSUME NEW i \in 1 .. n + r, i + 1 \in 1 .. n + r, "number" \notin Feature, busy',
                        w[i].look = "chevron", w[i].turn = turn'
                 PROVE  w[i + 1].look \in Bullets
    BY <1>4, <1>7 DEF Opens
  <2>2. CASE i <= n
    <3>1. w[i] = v[i] /\ i \in 1 .. n
      BY <1>8, <2>2
    <3>2. turn' = turn
      <4>1. turn' = turn \/ turn' = turn + 1
        BY DEF Prints
      <4>2. turn \in Nat /\ v[i].turn <= turn /\ v[i].turn = turn'
        BY <1>11, <2>1, <3>1, RowsOfConv
      <4> QED BY <4>1, <4>2
    <3>3. busy
      BY <2>1, <3>2
    <3>4. CASE i = n
      <4>1. q[1].look \in Bullets
        BY <1>1, <1>2, <1>5, <2>1, <3>1, <3>2, <3>4
      <4>2. n + 1 \in 1 .. n + r /\ ~(n + 1 <= n) /\ n + 1 - n = 1
        BY <2>1, <3>4
      <4>3. w[n + 1] = q[1]
        BY <1>7, <4>2
      <4> QED BY <3>4, <4>1, <4>3
    <3>5. CASE i # n
      <4>1. i + 1 \in 1 .. n /\ i + 1 <= n
        BY <3>1, <3>5
      <4>2. v[i + 1].look \in Bullets
        BY <1>1, <1>5, <2>1, <3>1, <3>2, <3>3, <4>1 DEF Steady, Opens
      <4> QED BY <1>8, <2>1, <4>1, <4>2
    <3> QED BY <3>4, <3>5
  <2>3. CASE ~(i <= n)
    <3>1. PICK j \in 1 .. r : j = i - n /\ q[j].look = "chevron"
      BY <1>9, <2>1, <2>3
    <3>2. turn' # turn
      BY <1>2, <1>5, <3>1 DEF Prints
    <3>3. r = 1
      BY <1>2, <1>5, <2>1, <3>2
    <3> QED BY <2>1, <3>1, <3>3
  <2> QED BY <2>2, <2>3
<1> QED BY <1>12, <1>13, <1>14, <1>15, <1>16 DEF Steady

LEMMA SteadyStays ==
  ASSUME Steady, conv' = conv, turn' = turn, busy' = busy
  PROVE  Steady'
BY DEF Steady, TextsOfMessages, NoQuotes, UnderWay, Notices, Opens

LEMMA TakeUpSteady ==
  ASSUME TypeOK, Conversation, Steady, TakeUp
  PROVE  Steady'
<1>1. ~busy /\ busy' = TRUE /\ turn' = turn + 1 /\ cuts' = cuts /\ Draw(MessageRows(turn + 1))
  BY DEF TakeUp
<1>2. PICK t \in Nat : t = turn + 1 /\ t # turn
  BY RowsOfConv
<1>3. PICK rows : rows = MessageRows(t)
  OBVIOUS
<1>4. Echoes(rows, t)
  BY <1>3, MessageEchoes
<1>5. "chevron" \in Utterances /\ "prose" \in Utterances
  BY DEF Utterances
<1>6. Prints(rows)
  BY <1>1, <1>2, <1>3, <1>4, <1>5 DEF Prints, Echoes
<1>7. ASSUME NEW j \in 1 .. Len(rows)
      PROVE  /\ rows[j].look = "chevron" =>
                  rows[j].text = "message" /\ ("number" \notin Feature => rows[j].num = 0)
             /\ rows[j].look \in {"chevron", "prose"}
             /\ "number" \notin Feature => rows[j].look = "chevron"
  <2>1. ASSUME "number" \notin Feature PROVE j = 1
    <3>1. Len(rows) = 1
      BY <1>4, <2>1 DEF Echoes
    <3> QED BY <3>1
  <2> QED BY <1>4, <2>1 DEF Echoes
<1>8. "number" \notin Feature => Len(rows) = 1
  BY <1>4 DEF Echoes
<1> QED BY <1>1, <1>2, <1>6, <1>7, <1>8, SteadyGrows

LEMMA SaySteady ==
  ASSUME TypeOK, Conversation, Steady, Say
  PROVE  Steady'
<1>1. busy /\ turn' = turn /\ busy' = busy /\ cuts' = cuts
  BY DEF Say
<1>2. PICK rows \in Sayings : Draw(rows)
  BY DEF Say
<1>3. Speaks(rows)
  BY SayingsSpeak
<1>4. Prints(rows)
  BY <1>1, <1>2, <1>3, SpokenLooks DEF Prints, Speaks
<1>5. ASSUME NEW j \in 1 .. Len(rows)
      PROVE  /\ rows[j].look \notin {"chevron", "done", "notice"}
             /\ "quote" \notin Feature => rows[j].look # "quote"
             /\ rows[j].text # "message"
  BY <1>3, SpokenLooks DEF Speaks
<1>6. ASSUME conv[Len(conv)].look = "chevron" PROVE rows[1].look \in Bullets
  <2>1. Len(conv) \in 1 .. Len(conv)
    BY RowsOfConv DEF Conversation, LastIsOfTurn
  <2>2. ~Begun
    BY <1>6, <2>1 DEF Begun, Steady, TextsOfMessages
  <2> QED BY <1>2, <2>2, SayingsOpen
<1> QED BY <1>1, <1>4, <1>5, <1>6, SteadyGrows

(* A turn that ends, and a compaction, print one row.                       *)
LEMMA RowPrinted ==
  ASSUME TypeOK, Conversation, NEW r \in Row, r.turn = turn, turn' = turn, ~busy', Draw(<<r>>),
         r.look \in {"done", "result", "notice"}, r.text = "empty",
         \A u \in Int : u # turn => (u \in cuts' <=> u \in cuts),
         IF turn \in cuts' THEN r.look = "result" ELSE r.look \in {"done", "notice"},
         r.look = "notice" => conv[Len(conv)].look = "done",
         Steady
  PROVE  Steady'
<1>1. PICK rows : rows = <<r>>
  OBVIOUS
<1>2. rows \in Seq(Row) /\ Len(rows) = 1 /\ rows[1] = r /\ \A i \in 1 .. Len(rows) : i = 1
  BY <1>1
<1>3. r.look \in Utterances /\ r.look # "chevron" /\ r.look # "quote"
  BY DEF Utterances, Bullets
<1>4. Prints(rows)
  BY <1>1, <1>2, <1>3 DEF Prints
<1> QED BY <1>2, <1>3, <1>4, SteadyGrows

LEMMA StopSteady ==
  ASSUME IInv, Steady, NEW esc \in BOOLEAN, Stop(esc)
  PROVE  Steady'
<1>1. TypeOK /\ Conversation /\ Sending
  BY DEF IInv
<1>2. /\ busy /\ busy' = FALSE /\ turn' = turn
      /\ cuts' = (IF esc THEN cuts \cup {turn} ELSE cuts)
      /\ Draw(<<IF esc THEN Own("result") ELSE Own("done")>>)
  BY DEF Stop
<1>3. turn \notin cuts
  BY <1>1, <1>2 DEF Sending
<1>4. PICK r \in Row : /\ r = (IF esc THEN Own("result") ELSE Own("done"))
                       /\ r.look = (IF esc THEN "result" ELSE "done") /\ r.turn = turn
                       /\ r.text = "empty"
  BY <1>1, OwnIsRow DEF Looks
<1>5. turn \in cuts' <=> esc
  BY <1>2, <1>3
<1>6. \A u \in Int : u # turn => (u \in cuts' <=> u \in cuts)
  BY <1>2
<1> QED BY <1>1, <1>2, <1>4, <1>5, <1>6, RowPrinted

LEMMA CompactSteady ==
  ASSUME IInv, Steady, Compact
  PROVE  Steady'
<1>1. TypeOK /\ Conversation
  BY DEF IInv
<1>2. /\ ~busy /\ busy' = busy /\ turn' = turn /\ cuts' = cuts
      /\ conv[Len(conv)].look = "done" /\ Draw(<<Own("notice")>>)
  BY DEF Compact
<1>3. PICK r \in Row : r = Own("notice") /\ r.look = "notice" /\ r.turn = turn /\ r.text = "empty"
  BY <1>1, OwnIsRow DEF Looks, Bullets
<1>4. turn \notin cuts
  <2>1. PICK n \in Nat : n = Len(conv) /\ n >= 1 /\ conv[n].turn = turn
    BY <1>1, RowsOfConv DEF Conversation, LastIsOfTurn
  <2>2. Ends(n)
    BY <1>2, <2>1 DEF Ends
  <2>3. n \in 1 .. Len(conv)
    BY <2>1
  <2>4. IF conv[n].turn \in cuts THEN conv[n].look = "result" ELSE conv[n].look \in {"done", "notice"}
    BY <1>1, <2>2, <2>3 DEF Conversation, EndsWell
  <2> QED BY <1>2, <2>1, <2>4
<1> QED BY <1>1, <1>2, <1>3, <1>4, RowPrinted

LEMMA NextSteady ==
  ASSUME IInv, Steady, [Next]_vars
  PROVE  Steady'
<1>1. TypeOK /\ Conversation
  BY DEF IInv
<1>2. CASE TakeUp BY <1>1, <1>2, TakeUpSteady
<1>3. CASE Say BY <1>1, <1>3, SaySteady
<1>4. CASE Stop(TRUE) BY <1>4, StopSteady
<1>5. CASE Stop(FALSE) BY <1>5, StopSteady
<1>6. CASE Compact BY <1>6, CompactSteady
<1>7. CASE Ask \/ Type \/ PaintConv \/ PaintPanel \/ Record
  BY <1>7, SteadyStays DEF Ask, Type, PaintConv, PaintPanel, Record, cliVars
<1>8. CASE Send \/ Look \/ Close \/ Stream \/ Shimmer
  BY <1>8, SteadyStays DEF Send, Look, Close, Stream, Shimmer, Tick, cliVars
<1>9. CASE UNCHANGED vars
  BY <1>9, SteadyStays DEF vars, cliVars
<1> QED BY <1>2, <1>3, <1>4, <1>5, <1>6, <1>7, <1>8, <1>9 DEF Next

LEMMA PastSaid ==
  ASSUME NEW n \in 1 .. 3
  PROVE  IF n = 1 THEN PastRow(n).text = "message" /\ PastRow(n).num = 0
         ELSE PastRow(n).text = "empty"
<1>1. PICK a \in Row : a = Written("chevron", "message") /\ a.text = "message" /\ a.num = 0
  BY WrittenIsRow DEF Looks, Texts
<1>2. PICK b \in Row, d \in Row :
        b = Drawn("bullet") /\ b.text = "empty" /\ d = Drawn("done") /\ d.text = "empty"
  <2>1. "bullet" \in Looks /\ "done" \in Looks
    BY DEF Looks, Bullets
  <2> QED BY <2>1, DrawnIsRow
<1>3. Past[1] = a /\ Past[2] = b /\ Past[3] = d
  <2>1. Past = <<a, b, d>>
    BY <1>1, <1>2 DEF Past
  <2> QED BY <2>1
<1>4. PICK r \in Row : r = Past[n] /\ IF n = 1 THEN r.text = "message" /\ r.num = 0
                                      ELSE r.text = "empty"
  <2>1. n = 1 \/ n = 2 \/ n = 3
    OBVIOUS
  <2> QED BY <1>1, <1>2, <1>3, <2>1
<1>5. [r EXCEPT !.turn = 1, !.line = n].text = r.text /\ [r EXCEPT !.turn = 1, !.line = n].num = r.num
  BY DEF Row
<1> QED BY <1>4, <1>5 DEF PastRow

LEMMA InitSteady ==
  ASSUME Init
  PROVE  Steady
<1>1. PICK esc \in BOOLEAN :
        conv = [i \in 1 .. 3 |-> IF i = 3 /\ esc THEN [PastRow(i) EXCEPT !.look = "result"]
                                    ELSE PastRow(i)]
  BY DEF Init
<1>2. conv[1] = PastRow(1) /\ conv[2] = PastRow(2) /\ ~busy
  BY <1>1 DEF Init
<1>3. conv[1].look = "chevron" /\ conv[1].text = "message" /\ conv[1].num = 0
  BY <1>2, PastIs, PastSaid
<1>4. conv[2].look = "bullet" /\ conv[2].text = "empty"
  BY <1>2, PastIs, PastSaid
<1>5. conv[3].look \in {"result", "done"} /\ conv[3].text = "empty"
  <2>1. PICK d \in Row : d = PastRow(3) /\ d.look = "done" /\ d.text = "empty"
    BY PastIs, PastSaid
  <2>2. [d EXCEPT !.look = "result"].look = "result" /\ [d EXCEPT !.look = "result"].text = d.text
    BY DEF Row
  <2>3. conv[3] = IF esc THEN [d EXCEPT !.look = "result"] ELSE d
    BY <1>1, <2>1
  <2> QED BY <2>1, <2>2, <2>3
<1>6. \A i \in 1 .. Len(conv) : i = 1 \/ i = 2 \/ i = 3
  <2>1. PICK f : f = conv
    OBVIOUS
  <2>2. Len(f) = 3
    <3>1. TypeOK /\ DOMAIN conv = 1 .. 3
      BY <1>1, InitHolds DEF IInv
    <3> QED BY <2>1, <3>1 DEF TypeOK
  <2> QED BY <2>1, <2>2
<1> QED BY <1>2, <1>3, <1>4, <1>5, <1>6 DEF Steady, TextsOfMessages, NoQuotes, UnderWay, Notices, Opens

LEMMA SteadyInvariance ==
  ASSUME BottomRows > 5, "lines" \notin Drafts
  PROVE  Spec => []Steady
<1>1. Init => Steady
  BY InitSteady
<1>2. IInv /\ Steady /\ [Next]_vars => Steady'
  BY NextSteady
<1> QED BY <1>1, <1>2, Invariance, PTL DEF Spec

-----------------------------------------------------------------------------
(* A screen without a dialog: the last rows painted of the conversation,    *)
(* the spinner of a turn that is under way, and the box, in which a draft   *)
(* is under a rule.                                                         *)
BoxLooks == {"border", "boxed", "rule", "chevron"} \cup Statuses

\* The four rows of a box after row n, either way to draw it; o = 1: a turn is under way.
Edged(c, n, o) ==
  \/ /\ \A i \in 1 .. 3 : c[n + i].look \in {"border", "boxed"}
     /\ c[n + 3].look = "border" /\ c[n + 4].look = "status"
  \/ /\ \A i \in 1 .. 3 : c[n + i].look \in {"rule", "chevron"}
     /\ c[n + 4].look = IF o = 1 THEN "busy" ELSE "status"

Boxed(b, o) ==
  /\ b \in Seq(Row) /\ o \in 0 .. 1 /\ Len(b) = o + 4
  /\ \A i \in 1 .. o + 4 : b[i].turn = 0
  /\ Edged(b, o, o)
  /\ o = 1 => b[1].look \in Spinners
  /\ \A i \in 1 .. 4 : b[o + i].look \in BoxLooks
  /\ \A i \in 1 .. 4 : b[o + i].look = "chevron" => i > 1 /\ b[o + i - 1].look = "rule"
  /\ b[o + 4].look \in Statuses
  /\ o = 0 => b[4].look = "status"

\* w is the n rows of a and the m rows of b.
Joins(w, a, n, b, m) ==
  /\ w \in Seq(Row) /\ w = a \o b /\ Len(w) = n + m
  /\ \A i \in 1 .. n : w[i] = a[i]
  /\ \A j \in 1 .. m : w[n + j] = b[j]

LEMMA JoinRows ==
  ASSUME NEW a \in Seq(Row), NEW b \in Seq(Row), NEW n, n = Len(a), NEW m, m = Len(b)
  PROVE  \E w \in Seq(Row) : Joins(w, a, n, b, m)
<1>1. n \in Nat /\ m \in Nat
  OBVIOUS
<1>2. /\ a \o b \in Seq(Row) /\ Len(a \o b) = n + m
      /\ \A i \in 1 .. n + m : (a \o b)[i] = IF i <= n THEN a[i] ELSE b[i - n]
  BY ConcatProperties
<1>3. PICK w \in Seq(Row) :
        /\ w = a \o b /\ Len(w) = n + m
        /\ \A i \in 1 .. n + m : w[i] = IF i <= n THEN a[i] ELSE b[i - n]
  BY <1>2
<1>4. ASSUME NEW i \in 1 .. n PROVE w[i] = a[i]
  <2>1. i \in 1 .. n + m /\ i <= n
    BY <1>1
  <2> QED BY <1>3, <2>1
<1>5. ASSUME NEW j \in 1 .. m PROVE w[n + j] = b[j]
  <2>1. n + j \in 1 .. n + m /\ ~(n + j <= n) /\ n + j - n = j
    BY <1>1
  <2> QED BY <1>3, <2>1
<1> QED BY <1>3, <1>4, <1>5 DEF Joins

LEMMA BoxedIs ==
  ASSUME NEW p \in Panels, p.draft \in {"empty", "text", "list"}
  PROVE  Boxed(BoxRows(p), IF p.busy THEN 1 ELSE 0)
<1> DEFINE o == IF p.busy THEN 1 ELSE 0
<1>1. \A look \in {"spin", "spinHint", "border", "boxed", "rule", "status", "busy"} :
        Drawn(look) \in Row /\ Drawn(look).look = look
  BY DrawnIsRow DEF Looks, Spinners, Statuses
<1>2. p.busy \in BOOLEAN
  BY DEF Panels
<1>3. PICK top \in Seq(Row) :
        /\ top = (IF p.busy THEN <<Drawn(IF layout = "boxed" THEN "spinHint" ELSE "spin")>> ELSE <<>>)
        /\ Len(top) = o /\ (o = 1 => top[1].look \in Spinners)
  <2>1. CASE p.busy
    <3>1. PICK s \in Row : s = Drawn(IF layout = "boxed" THEN "spinHint" ELSE "spin")
                           /\ s.look \in Spinners
      BY <1>1 DEF Spinners
    <3>2. <<s>> \in Seq(Row) /\ Len(<<s>>) = 1 /\ <<s>>[1] = s
      OBVIOUS
    <3> QED BY <2>1, <3>1, <3>2
  <2>2. CASE ~p.busy
    <3>0. PICK t : t = <<>>
      OBVIOUS
    <3>1. t \in Seq(Row) /\ t = <<>> /\ Len(t) = 0
      BY <3>0
    <3>2. o = 0 /\ o # 1
      BY <2>2
    <3> HIDE DEF o
    <3> QED BY <2>2, <3>1, <3>2
  <2> QED BY <2>1, <2>2
<1>4. PICK border \in Row, boxed \in Row, rule \in Row, status \in Row, work \in Row :
        /\ border = Drawn("border") /\ boxed = Drawn("boxed") /\ rule = Drawn("rule")
        /\ status = Drawn("status") /\ work = Drawn(IF p.busy THEN "busy" ELSE "status")
        /\ border.look = "border" /\ boxed.look = "boxed" /\ rule.look = "rule"
        /\ status.look = "status" /\ work.look = IF p.busy THEN "busy" ELSE "status"
  BY <1>1
<1>5. o \in 0 .. 1 /\ o \in Nat /\ (p.busy <=> o = 1)
  BY <1>2
<1>6. \A i \in 1 .. 4 : i = 1 \/ i = 2 \/ i = 3 \/ i = 4
  OBVIOUS
<1> HIDE DEF o
<1>a. SUFFICES Boxed(BoxRows(p), o)
  BY DEF o
<1>7. ASSUME NEW w \in Seq(Row), Len(w) = o + 4, BoxRows(p) = w,
             o = 1 => w[1].look \in Spinners,
             \/ /\ w[o + 1].look = "border" /\ w[o + 2].look = "boxed"
                /\ w[o + 3].look = "border" /\ w[o + 4].look = "status"
             \/ /\ w[o + 1].look = "rule" /\ w[o + 2].look = "chevron"
                /\ w[o + 3].look = "rule" /\ w[o + 4].look = IF p.busy THEN "busy" ELSE "status"
      PROVE  Boxed(BoxRows(p), o)
  <2>1. w[o + 4].look \in Statuses /\ (o = 0 => w[4].look = "status")
    BY <1>5, <1>7 DEF Statuses
  <2>2. \A i \in 1 .. 4 : w[o + i].look \in BoxLooks
    BY <1>6, <1>7, <2>1 DEF BoxLooks
  <2>3. ASSUME NEW i \in 1 .. 4, w[o + i].look = "chevron"
        PROVE  i > 1 /\ w[o + i - 1].look = "rule"
    <3>1. i = 2 /\ w[o + 1].look = "rule"
      BY <1>6, <1>7, <2>1, <2>3 DEF Statuses
    <3>2. o + i - 1 = o + 1
      BY <1>5, <3>1
    <3> QED BY <3>1, <3>2
  <2>4. \A i \in 1 .. o + 4 : w[i].turn = 0
    <3>1. PICK m : Box(BoxRows(p), m)
      BY BoxIs
    <3>2. IsBox(w)
      BY <1>7, <3>1 DEF Box
    <3> QED BY <1>7, <3>2 DEF IsBox
  <2>5. Edged(w, o, o)
    <3>1. \A i \in 1 .. 3 : i = 1 \/ i = 2 \/ i = 3
      OBVIOUS
    <3>2. CASE w[o + 1].look = "border"
      BY <1>7, <3>1, <3>2 DEF Edged
    <3>3. CASE w[o + 1].look = "rule"
      BY <1>5, <1>7, <3>1, <3>3 DEF Edged
    <3> QED BY <1>7, <3>2, <3>3
  <2> QED BY <1>5, <1>7, <2>1, <2>2, <2>3, <2>4, <2>5 DEF Boxed
<1>8. CASE layout = "boxed"
  <2>0. PICK b : b = <<border, boxed, border, status>>
    OBVIOUS
  <2>1. /\ b \in Seq(Row) /\ b = <<border, boxed, border, status>> /\ Len(b) = 4
        /\ b[1] = border /\ b[2] = boxed /\ b[3] = border /\ b[4] = status
    BY <2>0
  <2>2. BoxRows(p) = top \o b
    BY <1>3, <1>4, <1>8, <2>1 DEF BoxRows
  <2>3. PICK w \in Seq(Row) : Joins(w, top, o, b, 4)
    BY <1>3, <2>1, JoinRows
  <2>4. w[o + 1] = border /\ w[o + 2] = boxed /\ w[o + 3] = border /\ w[o + 4] = status
    <3>1. \A j \in 1 .. 4 : w[o + j] = b[j]
      BY <2>3 DEF Joins
    <3>2. w[o + 1] = b[1] /\ w[o + 2] = b[2] /\ w[o + 3] = b[3] /\ w[o + 4] = b[4]
      BY <3>1
    <3> QED BY <2>1, <3>2
  <2>5. o = 1 => w[1].look \in Spinners
    BY <1>3, <2>3 DEF Joins
  <2>6. Len(w) = o + 4 /\ BoxRows(p) = w
    BY <2>2, <2>3 DEF Joins
  <2> QED BY <1>4, <1>7, <2>4, <2>5, <2>6
<1>9. CASE layout # "boxed"
  <2>1. PICK r \in Row : r.look = "chevron" /\ DraftRows(p.draft) = <<r>>
    BY DraftIsRow
  <2>0. PICK x, y, b : x = <<rule>> /\ y = <<r>> /\ b = <<rule, work>>
    OBVIOUS
  <2>2. /\ x \in Seq(Row) /\ Len(x) = 1 /\ x[1] = rule
        /\ y \in Seq(Row) /\ Len(y) = 1 /\ y[1] = r
        /\ b \in Seq(Row) /\ Len(b) = 2 /\ b[1] = rule /\ b[2] = work
    BY <2>0
  <2>3. BoxRows(p) = top \o x \o y \o b
    BY <1>3, <1>4, <1>9, <2>0, <2>1 DEF BoxRows
  <2>4. PICK u \in Seq(Row) : Joins(u, top, o, x, 1)
    <3>1. o = Len(top) /\ 1 = Len(x)
      BY <1>3, <2>2
    <3> QED BY <1>3, <2>2, <3>1, JoinRows
  <2>5. PICK v \in Seq(Row) : Joins(v, u, o + 1, y, 1)
    <3>1. Len(u) = o + 1
      BY <2>4 DEF Joins
    <3> QED BY <2>2, <3>1, JoinRows
  <2>6. PICK w \in Seq(Row) : Joins(w, v, o + 1 + 1, b, 2)
    <3>1. Len(v) = o + 1 + 1
      BY <2>5 DEF Joins
    <3> QED BY <2>2, <3>1, JoinRows
  <2>7. o = 0 \/ o = 1
    BY <1>5
  <2>8. w[o + 1] = rule /\ w[o + 2] = r
    <3>1. u[o + 1] = rule /\ v[o + 1 + 1] = r
      BY <2>2, <2>4, <2>5 DEF Joins
    <3>2. o + 1 \in 1 .. o + 1 /\ o + 1 \in 1 .. o + 1 + 1 /\ o + 1 + 1 \in 1 .. o + 1 + 1
          /\ o + 1 + 1 = o + 2
      BY <1>5
    <3>3. v[o + 1] = u[o + 1]
      BY <2>5, <3>2 DEF Joins
    <3>4. w[o + 1] = v[o + 1] /\ w[o + 1 + 1] = v[o + 1 + 1]
      BY <2>6, <3>2 DEF Joins
    <3> QED BY <3>1, <3>2, <3>3, <3>4
  <2>9. w[o + 3] = rule /\ w[o + 4] = work
    <3>0. \A j \in 1 .. 2 : w[o + 1 + 1 + j] = b[j]
      BY <2>6 DEF Joins
    <3>1. w[o + 1 + 1 + 1] = b[1] /\ w[o + 1 + 1 + 2] = b[2]
      BY <3>0
    <3>2. o + 1 + 1 + 1 = o + 3 /\ o + 1 + 1 + 2 = o + 4
      BY <1>5
    <3> QED BY <2>2, <3>1, <3>2
  <2>10. o = 1 => w[1].look \in Spinners
    <3>1. ASSUME o = 1 PROVE w[1] = top[1]
      <4>1. 1 \in 1 .. o /\ 1 \in 1 .. o + 1 /\ 1 \in 1 .. o + 1 + 1
        BY <3>1
      <4> QED BY <2>4, <2>5, <2>6, <4>1 DEF Joins
    <3> QED BY <1>3, <3>1
  <2>11. Len(w) = o + 4 /\ BoxRows(p) = w
    <3>1. Len(w) = o + 1 + 1 + 2
      BY <2>6 DEF Joins
    <3>2. BoxRows(p) = w
      BY <2>3, <2>4, <2>5, <2>6 DEF Joins
    <3> QED BY <1>5, <3>1, <3>2
  <2> QED BY <1>4, <1>7, <2>1, <2>8, <2>9, <2>10, <2>11
<1> QED BY <1>8, <1>9

\* c shows the last k of n rows of the conversation, o rows of a spinner, the box.
Paints(c, n, k, o, s) ==
  /\ c \in Seq(Row) /\ k \in Nat /\ o \in 0 .. 1 /\ s \in Nat
  /\ s + k = n /\ Len(c) = k + o + 4
  /\ \A i \in k + 1 .. k + o + 4 : c[i].turn = 0
  /\ Edged(c, k + o, o)
  /\ s = 0 \/ k + o >= 2
  /\ \A i \in 1 .. k : c[i] = conv[s + i]
  /\ o = 1 => c[k + 1].look \in Spinners
  /\ \A i \in k + o + 1 .. k + o + 4 :
       /\ c[i].look \in BoxLooks
       /\ c[i].look = "chevron" => i > k + o + 1 /\ c[i - 1].look = "rule"
  /\ c[k + o + 4].look \in Statuses
  /\ o = 0 => c[k + o + 4].look = "status"

LEMMA BoxPaints ==
  ASSUME NEW a \in Seq(Row), NEW n \in Nat, n = Len(a), \A i \in 1 .. n : a[i] = conv[i],
         NEW b, NEW o, Boxed(b, o), Height > 5
  PROVE  \E k, s \in Nat : Paints(Window(a \o b), n, k, o, s)
<1>2. b \in Seq(Row) /\ o \in 0 .. 1 /\ Len(b) = o + 4 /\ (o = 0 \/ o = 1) /\ o \in Nat
  BY DEF Boxed
<1>3. PICK m \in Nat, h \in Nat : m = o + 4 /\ h = Height /\ h > 5
  BY <1>2, HeightAssumption
<1>4. PICK c \in Seq(Row) : c = Window(a \o b)
  BY <1>2, WindowJoin
<1>5. Len(b) = m
  BY <1>2, <1>3
<1>6. PICK d \in Nat :
        /\ d <= n + m
        /\ (d = 0 /\ n + m <= h) \/ (d >= 1 /\ d + h = n + m)
        /\ Len(c) = n + m - d
        /\ \A i \in 1 .. n + m - d : c[i] = IF i + d <= n THEN a[i + d] ELSE b[i + d - n]
  <2>1. \E d \in Nat :
          /\ d <= Len(a) + Len(b)
          /\ (d = 0 /\ Len(a) + Len(b) <= Height) \/ (d >= 1 /\ d + Height = Len(a) + Len(b))
          /\ Len(Window(a \o b)) = Len(a) + Len(b) - d
          /\ \A i \in 1 .. Len(a) + Len(b) - d :
               Window(a \o b)[i] = IF i + d <= Len(a) THEN a[i + d] ELSE b[i + d - Len(a)]
    BY <1>2, WindowJoin
  <2> QED BY <1>3, <1>4, <1>5, <2>1, ZenonT(60)
<1>7. d <= n
  BY <1>2, <1>3, <1>6
<1>8. PICK k \in Nat : k = n - d
  BY <1>7
<1>9. d + k = n /\ Len(c) = k + o + 4 /\ (d = 0 \/ k + o >= 2) /\ n + m - d = k + o + 4
  <2>1. m = o + 4 /\ d + k = n /\ n + m - d = k + m /\ k + m = k + o + 4
    BY <1>2, <1>3, <1>7, <1>8
  <2>2. Len(c) = n + m - d
    BY <1>6
  <2>3. d = 0 \/ k + o >= 2
    BY <1>2, <1>3, <1>6, <2>1
  <2> QED BY <2>1, <2>2, <2>3
<1>10. \A i \in 1 .. k + o + 4 : c[i] = IF i + d <= n THEN a[i + d] ELSE b[i + d - n]
  BY <1>6, <1>9
<1>11. ASSUME NEW i \in 1 .. k PROVE c[i] = conv[d + i]
  <2>1. i \in 1 .. k + o + 4 /\ i + d <= n /\ i + d = d + i /\ d + i \in 1 .. n
    BY <1>2, <1>9
  <2> QED BY <1>10, <2>1
<1>12. ASSUME NEW j \in 1 .. o + 4 PROVE c[k + j] = b[j]
  <2>0. PICK i \in Nat : i = j /\ i >= 1 /\ i <= o + 4
    BY <1>2
  <2>1. k + i \in 1 .. k + o + 4 /\ ~(k + i + d <= n) /\ k + i + d - n = i
    <3>1. d + k = n
      BY <1>9
    <3>2. PICK e \in Nat : e = k + i /\ e >= 1
      BY <2>0
    <3>3. e <= k + o + 4
      BY <1>2, <2>0, <3>2
    <3>4. e + d = n + i
      BY <2>0, <3>1, <3>2
    <3>5. ~(e + d <= n) /\ e + d - n = i
      BY <2>0, <3>4
    <3> QED BY <1>2, <3>2, <3>3, <3>5
  <2> QED BY <1>10, <2>0, <2>1
<1>13. o = 1 => c[k + 1].look \in Spinners
  <2>1. 1 \in 1 .. o + 4
    BY <1>2
  <2> QED BY <1>12, <2>1 DEF Boxed
<1>14. ASSUME NEW i \in k + o + 1 .. k + o + 4
       PROVE  /\ c[i].look \in BoxLooks
              /\ c[i].look = "chevron" => i > k + o + 1 /\ c[i - 1].look = "rule"
              /\ i = k + o + 4 => c[i].look \in Statuses /\ (o = 0 => c[i].look = "status")
  <2>1. PICK j \in 1 .. 4 : j = i - k - o
    <3>1. i - k - o \in 1 .. 4
      BY <1>2
    <3> QED BY <3>1
  <2>2. o + j \in 1 .. o + 4 /\ k + (o + j) = i /\ (i > k + o + 1 <=> j > 1)
    BY <1>2, <2>1
  <2>3. c[i] = b[o + j]
    BY <1>12, <2>2
  <2>4. b[o + j].look \in BoxLooks
    BY DEF Boxed
  <2>5. ASSUME c[i].look = "chevron" PROVE i > k + o + 1 /\ c[i - 1].look = "rule"
    <3>1. j > 1 /\ b[o + j - 1].look = "rule"
      BY <2>3, <2>5 DEF Boxed
    <3>2. o + j - 1 \in 1 .. o + 4 /\ k + (o + j - 1) = i - 1
      <4>1. j \in Nat /\ o \in Nat /\ k \in Nat /\ j > 1 /\ j <= 4
        BY <1>2, <3>1
      <4>2. i = k + o + j
        BY <2>1, <1>2
      <4> QED BY <4>1, <4>2
    <3> QED BY <1>12, <2>2, <3>1, <3>2
  <2>6. ASSUME i = k + o + 4 PROVE c[i].look \in Statuses /\ (o = 0 => c[i].look = "status")
    <3>1. j = 4
      BY <1>2, <2>1, <2>6
    <3>2. o = 0 => o + j = 4
      BY <3>1
    <3> QED BY <2>3, <3>1, <3>2 DEF Boxed
  <2> QED BY <2>3, <2>4, <2>5, <2>6
<1>15. k + o + 4 \in k + o + 1 .. k + o + 4
  BY <1>2
<1>16. ASSUME NEW i \in k + 1 .. k + o + 4 PROVE c[i].turn = 0
  <2>1. PICK j \in 1 .. o + 4 : k + j = i
    <3>1. i - k \in 1 .. o + 4 /\ k + (i - k) = i
      BY <1>2
    <3> QED BY <3>1
  <2> QED BY <1>12, <2>1 DEF Boxed
<1>17. Edged(c, k + o, o)
  <2>1. ASSUME NEW i \in 1 .. 4 PROVE c[k + o + i] = b[o + i]
    <3>1. o + i \in 1 .. o + 4 /\ k + (o + i) = k + o + i
      BY <1>2
    <3> QED BY <1>12, <3>1
  <2>2. c[k + o + 3] = b[o + 3] /\ c[k + o + 4] = b[o + 4]
    BY <2>1
  <2>3. \A i \in 1 .. 3 : c[k + o + i] = b[o + i]
    BY <2>1
  <2>4. Edged(b, o, o)
    BY DEF Boxed
  <2> QED BY <2>2, <2>3, <2>4 DEF Edged
<1>18. Paints(c, n, k, o, d)
  BY <1>2, <1>9, <1>11, <1>13, <1>14, <1>15, <1>16, <1>17 DEF Paints
<1> QED BY <1>4, <1>18

LEMMA PaintedScreen ==
  ASSUME TypeOK, shown.cursor = 0, ghost = 0, "lines" \notin Drafts, Height > 5
  PROVE  /\ painted \in Nat /\ painted <= Len(conv)
         /\ \E k, o, s \in Nat : Paints(screen, painted, k, o, s) /\ (shown.busy <=> o = 1)
<1>1. shown \in Panels
  BY DEF TypeOK, Panels
<1>2. shown.draft \in {"empty", "text", "list"} /\ shown.busy \in BOOLEAN
  BY <1>1, DraftsAssumption DEF Panels
<1>3. PICK n \in Nat, v \in Seq(Row) : n = painted /\ v = conv /\ n <= Len(v)
  BY DEF TypeOK
<1>4. PICK a \in Seq(Row) : a = SubSeq(v, 1, n) /\ Len(a) = n /\ \A i \in 1 .. n : a[i] = v[i]
  <2>1. /\ SubSeq(v, 1, n) \in Seq(Row) /\ Len(SubSeq(v, 1, n)) = n
        /\ \A i \in 1 .. n : SubSeq(v, 1, n)[i] = v[i]
    BY <1>3, SubSeqProperties
  <2> QED BY <2>1
<1>5. PICK b, o : b = BoxRows(shown) /\ o = IF shown.busy THEN 1 ELSE 0
  OBVIOUS
<1>6. Boxed(b, o) /\ (shown.busy <=> o = 1) /\ o \in Nat
  BY <1>1, <1>2, <1>5, BoxedIs
<1>7. screen = Window(a \o b)
  <2>1. a \o <<>> = a
    BY ConcatEmptySeq
  <2>2. screen = Window(a \o <<>> \o b)
    BY <1>3, <1>4, <1>5, ScreenIsView DEF View, LeftOver, PanelRows
  <2> QED BY <2>1, <2>2
<1>8. \E k, s \in Nat : Paints(Window(a \o b), n, k, o, s)
  BY <1>3, <1>4, <1>6, BoxPaints
<1>9. PICK k \in Nat, s \in Nat : Paints(screen, n, k, o, s)
  BY <1>7, <1>8
<1> QED BY <1>3, <1>6, <1>9

(* Where no row is blank, the row above a draft is the one right above it.  *)
LEMMA ComposerIs ==
  ASSUME NEW c \in Seq(Row), NEW l \in Nat, l = Len(c),
         \A j \in 1 .. l : c[j].look # "blank", NEW i \in 1 .. l
  PROVE  IsComposer(c, i) <=> c[i].look = "chevron" /\ i > 1 /\ c[i - 1].look = "rule"
<1> DEFINE S == {j \in Solid(c) : j < i}
<1>1. Solid(c) = 1 .. l
  BY DEF Solid
<1>2. S = 1 .. i - 1
  BY <1>1
<1> HIDE DEF S
<1>3. Highest(S) = i - 1
  <2>1. i - 1 \in Nat /\ S \in SUBSET (1 .. i - 1)
    BY <1>2
  <2>2. /\ Highest(S) \in 0 .. i - 1 /\ (S = {} => Highest(S) = 0)
        /\ (S # {} => Highest(S) \in S) /\ \A j \in S : j <= Highest(S)
    BY <2>1, HighestOf
  <2>3. i = 1 \/ i - 1 \in S
    BY <1>2
  <2> QED BY <2>1, <2>2, <2>3
<1> QED BY <1>3 DEF IsComposer, S

LEMMA TrimmedAll ==
  ASSUME NEW c \in Seq(Row), NEW l \in Nat \ {0}, l = Len(c), \A j \in 1 .. l : c[j].look # "blank"
  PROVE  Trimmed(c) = c
<1>1. Solid(c) = 1 .. l
  BY DEF Solid
<1>2. 1 \in 1 .. l /\ l \in 1 .. l /\ (1 .. l) \in SUBSET (1 .. l) /\ 1 .. l # {}
  OBVIOUS
<1>3. /\ Highest(1 .. l) \in 1 .. l /\ \A j \in 1 .. l : j <= Highest(1 .. l)
  BY <1>2, HighestOf
<1>4. /\ Lowest(1 .. l) \in 1 .. l /\ \A j \in 1 .. l : Lowest(1 .. l) <= j
  BY <1>2, LowestOf
<1>5. Highest(1 .. l) = l /\ Lowest(1 .. l) = 1
  BY <1>2, <1>3, <1>4
<1>6. Max(1 .. l) = l /\ Min(1 .. l) = 1
  BY <1>2, <1>5 DEF Highest, Lowest
<1>7. Trimmed(c) = SubSeq(c, 1, l)
  BY <1>1, <1>2, <1>6 DEF Trimmed
<1> QED BY <1>7, SubSeqFull

(* detect_state of a screen without dialog that ends in a status row.       *)
LEMMA VerdictIs ==
  ASSUME NEW c \in Seq(Row), NEW l \in Nat \ {0}, l = Len(c), Trimmed(c) = c,
         \A i \in 1 .. l : /\ c[i].look \notin Dialogs
                           /\ c[i].look = "chevron" /\ c[i].num > 0 => IsComposer(c, i),
         c[l].look \in Statuses
  PROVE  /\ DetectState(c) \in {"responding", "thinking", "idle"}
         /\ (c[l].look = "status" /\ ~ActiveBullet(c) /\ \A i \in 1 .. l : c[i].look \notin Spinners)
              => DetectState(c) = "idle"
         /\ (ActiveBullet(c) /\ (c[l].look = "busy" \/ (l > 1 /\ c[l - 1].look = "border")))
              => DetectState(c) = "responding"
<1> DEFINE chrome == {"blank", "rule", "compact", "chevron"}
           one == TailEnd(c, chrome)
           two == TailEnd(c, chrome \cup Statuses)
           under(i) == IF i = 0 THEN "none" ELSE c[i].look
           bottom == {i \in DOMAIN c : i > Len(c) - BottomRows}
           asks == \E i \in bottom : \/ c[i].look \in Dialogs
                                     \/ c[i].look = "chevron" /\ c[i].num > 0 /\ ~IsComposer(c, i)
<1>1. c # <<>> /\ ~asks
  BY DEF Dialogs
<1>2. DetectState(c) =
        IF under(one) = "busy" THEN (IF ActiveBullet(c) THEN "responding" ELSE "thinking")
        ELSE IF \E i \in one + 1 .. Len(c) : c[i].look = "chevron" THEN "idle"
        ELSE IF under(two) = "done" THEN "idle"
        ELSE IF under(two) \in Spinners THEN "thinking"
        ELSE IF ActiveBullet(c) THEN "responding" ELSE "idle"
  BY <1>1 DEF DetectState
<1>3. one = l
  <2>1. /\ one \in 0 .. l
        /\ \A i \in 1 .. l : c[i].look \notin chrome => i <= one
    BY TailOf
  <2>2. c[l].look \notin chrome /\ l \in 1 .. l
    BY DEF Statuses
  <2> HIDE DEF one
  <2> QED BY <2>1, <2>2
<1>4. under(one) = c[l].look
  BY <1>3
<1>5. ASSUME \A i \in 1 .. l : c[i].look \notin Spinners
      PROVE  under(two) \notin Spinners
  <2>1. two \in 0 .. l
    BY TailOf
  <2>2. "none" \notin Spinners
    BY DEF Spinners
  <2> HIDE DEF two
  <2>3. two = 0 \/ two \in 1 .. l
    BY <2>1
  <2> QED BY <1>5, <2>2, <2>3
<1>8. ASSUME c[l].look # "busy", l > 1, c[l - 1].look = "border"
      PROVE  under(two) = "border"
  <2>1. /\ two \in 0 .. l /\ (two # 0 => c[two].look \notin chrome \cup Statuses)
        /\ \A i \in 1 .. l : c[i].look \notin chrome \cup Statuses => i <= two
    BY TailOf
  <2>2. "border" \notin chrome \cup Statuses
    BY DEF Statuses
  <2>3. l - 1 \in 1 .. l
    BY <1>8
  <2> HIDE DEF two
  <2>4. l - 1 <= two /\ two # l
    BY <1>8, <2>1, <2>2, <2>3
  <2>5. two = l - 1
    BY <2>1, <2>4
  <2> QED BY <1>8, <2>5
<1>9. \A i \in one + 1 .. Len(c) : FALSE
  BY <1>3
<1> HIDE DEF one, two, under, chrome
<1>10. ASSUME ActiveBullet(c), c[l].look = "busy" \/ (l > 1 /\ c[l - 1].look = "border")
       PROVE  DetectState(c) = "responding"
  <2>1. CASE c[l].look = "busy"
    BY <1>2, <1>4, <1>10, <2>1
  <2>2. CASE c[l].look # "busy"
    <3>1. under(two) = "border"
      BY <1>8, <1>10, <2>2
    <3>2. under(two) # "done" /\ under(two) \notin Spinners
      BY <3>1 DEF Spinners
    <3> QED BY <1>2, <1>4, <1>9, <1>10, <2>2, <3>2
  <2> QED BY <2>1, <2>2
<1>6. DetectState(c) \in {"responding", "thinking", "idle"}
  BY <1>2
<1>7. ASSUME c[l].look = "status", ~ActiveBullet(c), \A i \in 1 .. l : c[i].look \notin Spinners
      PROVE  DetectState(c) = "idle"
  BY <1>2, <1>4, <1>5, <1>7
<1> QED BY <1>6, <1>7, <1>10

\* What is known of a screen that may be read, and of one that is settled.
Readable(c, n, k, o, s) ==
  /\ TypeOK /\ Conversation /\ Steady /\ "quote" \notin Feature /\ "number" \notin Feature
  /\ n \in Nat /\ n <= Len(conv) /\ k \in Nat /\ o \in Nat /\ s \in Nat
  /\ Paints(c, n, k, o, s)

Settles(c, k, o, s) == Readable(c, Len(conv), k, o, s) /\ (busy <=> o = 1)

LEMMA PaintedRows ==
  ASSUME NEW c, NEW n, NEW k, NEW o, NEW s, Readable(c, n, k, o, s), NEW l \in Nat, l = k + o + 4
  PROVE  /\ c \in Seq(Row) /\ Len(c) = l
         /\ \A i \in 1 .. k : /\ s + i \in 1 .. Len(conv) /\ c[i] = conv[s + i]
                              /\ c[i].look \in Utterances \ {"quote"}
         /\ \A i \in 1 .. l : c[i].look \notin Dialogs \cup {"blank"}
         /\ \A i \in 1 .. l : c[i].look = "chevron" =>
              \/ i <= k /\ c[i].num = 0 /\ c[i].text = "message" /\ (i > 1 => c[i - 1].look # "rule")
              \/ i > k /\ i > 1 /\ c[i - 1].look = "rule"
         /\ \A i \in 1 .. l : c[i].look \in Bullets \cup {"done"} => i <= k
         /\ \A i \in 1 .. l : c[i].look \in Spinners <=> o = 1 /\ i = k + 1
<1>0. /\ TypeOK /\ Conversation /\ Steady /\ "quote" \notin Feature /\ "number" \notin Feature
      /\ n \in Nat /\ n <= Len(conv) /\ k \in Nat /\ o \in Nat /\ s \in Nat
      /\ Paints(c, n, k, o, s)
  BY DEF Readable
<1>1. /\ c \in Seq(Row) /\ o \in 0 .. 1 /\ (o = 0 \/ o = 1)
      /\ s + k = n /\ Len(c) = l
      /\ \A i \in 1 .. k : c[i] = conv[s + i]
      /\ o = 1 => c[k + 1].look \in Spinners
  <2>1. /\ c \in Seq(Row) /\ o \in 0 .. 1 /\ s + k = n /\ Len(c) = k + o + 4
        /\ \A i \in 1 .. k : c[i] = conv[s + i]
        /\ o = 1 => c[k + 1].look \in Spinners
    BY <1>0 DEF Paints
  <2> QED BY <2>1
<1>2. PICK x \in Nat : x = Len(conv) /\ n <= x
  BY <1>0, RowsOfConv
<1>3. ASSUME NEW i \in 1 .. k
      PROVE  /\ s + i \in 1 .. Len(conv) /\ c[i] = conv[s + i]
             /\ c[i].look \in Utterances \ {"quote"}
             /\ c[i].look = "chevron" => c[i].num = 0 /\ c[i].text = "message"
  <2>1. s + i \in 1 .. x
    BY <1>0, <1>1, <1>2
  <2>2. PICK j \in 1 .. Len(conv) : j = s + i
    BY <1>2, <2>1
  <2>3. conv[j].look \in Utterances
    BY <1>0 DEF Conversation, Said
  <2>4. conv[j].look # "quote"
    BY <1>0 DEF Steady, NoQuotes
  <2>5. conv[j].look = "chevron" => conv[j].num = 0 /\ conv[j].text = "message"
    BY <1>0 DEF Steady, TextsOfMessages
  <2> QED BY <1>1, <2>2, <2>3, <2>4, <2>5
<1>4. ASSUME NEW i \in k + o + 1 .. l
      PROVE  /\ c[i].look \in BoxLooks
             /\ c[i].look = "chevron" => i > k + o + 1 /\ c[i - 1].look = "rule"
  BY <1>0 DEF Paints
<1>5. /\ \A look \in Utterances \ {"quote"} : look \notin Dialogs \cup Spinners \cup {"blank", "rule"}
      /\ \A look \in BoxLooks : look \notin Dialogs \cup Spinners \cup Bullets \cup {"blank", "done"}
      /\ \A look \in Spinners :
           look \notin Dialogs \cup Bullets \cup {"blank", "chevron", "done"}
  BY DEF Utterances, Dialogs, Spinners, Bullets, BoxLooks, Statuses
<1>6. ASSUME NEW i \in 1 .. l
      PROVE  i \in 1 .. k \/ (o = 1 /\ i = k + 1) \/ i \in k + o + 1 .. l
  BY <1>0, <1>1
<1>7. \A i \in k + o + 1 .. l : i > k
  BY <1>0
<1>8. \A i \in 1 .. k : i <= k /\ (i > 1 => i - 1 \in 1 .. k) /\ ~(i = k + 1)
  BY <1>0
<1>9. \A i \in k + o + 1 .. l : ~(o = 1 /\ i = k + 1)
  BY <1>0
<1>10. ASSUME NEW i \in 1 .. l PROVE c[i].look \notin Dialogs \cup {"blank"}
  BY <1>1, <1>3, <1>4, <1>5, <1>6
<1>11. ASSUME NEW i \in 1 .. l, c[i].look = "chevron"
       PROVE  \/ i <= k /\ c[i].num = 0 /\ c[i].text = "message" /\ (i > 1 => c[i - 1].look # "rule")
              \/ i > k /\ i > 1 /\ c[i - 1].look = "rule"
  <2>1. CASE i \in 1 .. k
    BY <1>3, <1>5, <1>8, <1>11, <2>1
  <2>2. CASE o = 1 /\ i = k + 1
    BY <1>1, <1>5, <1>11, <2>2
  <2>3. CASE i \in k + o + 1 .. l
    <3>1. i > k + o + 1 /\ c[i - 1].look = "rule"
      BY <1>4, <1>11, <2>3
    <3>2. i > k /\ i > 1
      BY <1>0, <3>1
    <3> QED BY <3>1, <3>2
  <2> QED BY <1>6, <2>1, <2>2, <2>3
<1>12. ASSUME NEW i \in 1 .. l, c[i].look \in Bullets \cup {"done"} PROVE i <= k
  BY <1>1, <1>4, <1>5, <1>6, <1>8, <1>12
<1>13. ASSUME NEW i \in 1 .. l PROVE c[i].look \in Spinners <=> o = 1 /\ i = k + 1
  BY <1>1, <1>3, <1>4, <1>5, <1>6, <1>8, <1>9
<1> QED BY <1>1, <1>3, <1>10, <1>11, <1>12, <1>13

LEMMA ComposersOfScreen ==
  ASSUME NEW c, NEW n, NEW k, NEW o, NEW s, Readable(c, n, k, o, s), NEW l \in Nat, l = k + o + 4,
         NEW i \in 1 .. l, c[i].look = "chevron"
  PROVE  IsComposer(c, i) <=> i > k
<1>1. k \in Nat /\ o \in Nat /\ s \in Nat
  BY DEF Readable
<1>2. /\ c \in Seq(Row) /\ Len(c) = l
      /\ \A j \in 1 .. l : c[j].look \notin Dialogs \cup {"blank"}
      /\ \A j \in 1 .. l : c[j].look = "chevron" =>
              \/ j <= k /\ c[j].num = 0 /\ c[j].text = "message" /\ (j > 1 => c[j - 1].look # "rule")
              \/ j > k /\ j > 1 /\ c[j - 1].look = "rule"
  BY PaintedRows
<1>3. IsComposer(c, i) <=> c[i].look = "chevron" /\ i > 1 /\ c[i - 1].look = "rule"
  <2>1. \A j \in 1 .. l : c[j].look # "blank"
    BY <1>2
  <2> QED BY <1>2, <2>1, ComposerIs
<1>4. \/ i <= k /\ (i > 1 => c[i - 1].look # "rule")
      \/ i > k /\ i > 1 /\ c[i - 1].look = "rule"
  BY <1>2
<1>5. i \in Nat /\ c[i].look = "chevron"
  BY <1>1
<1> QED BY <1>1, <1>3, <1>4, <1>5

LEMMA ScreenVerdict ==
  ASSUME NEW c, NEW n, NEW k, NEW o, NEW s, Readable(c, n, k, o, s), NEW l \in Nat, l = k + o + 4
  PROVE  /\ DetectState(c) \in {"responding", "thinking", "idle"}
         /\ o = 0 /\ ~ActiveBullet(c) => DetectState(c) = "idle"
         /\ o = 1 /\ ActiveBullet(c) => DetectState(c) = "responding"
<1>1. k \in Nat /\ o \in Nat /\ s \in Nat /\ l \in Nat \ {0} /\ l \in 1 .. l
  BY DEF Readable
<1>2. /\ c \in Seq(Row) /\ Len(c) = l
      /\ \A i \in 1 .. l : c[i].look \notin Dialogs \cup {"blank"}
      /\ \A i \in 1 .. l : c[i].look = "chevron" =>
              \/ i <= k /\ c[i].num = 0 /\ c[i].text = "message" /\ (i > 1 => c[i - 1].look # "rule")
              \/ i > k /\ i > 1 /\ c[i - 1].look = "rule"
      /\ \A i \in 1 .. l : c[i].look \in Spinners <=> o = 1 /\ i = k + 1
  BY PaintedRows
<1>3. Trimmed(c) = c
  BY <1>1, <1>2, TrimmedAll
<1>4. ASSUME NEW i \in 1 .. l, c[i].look = "chevron", c[i].num > 0 PROVE IsComposer(c, i)
  <2>1. i > k
    BY <1>1, <1>2, <1>4
  <2> QED BY <1>4, <2>1, ComposersOfScreen
<1>5. /\ c[l].look \in Statuses /\ (o = 0 => c[l].look = "status")
      /\ (o = 0 \/ o = 1)
  BY <1>1 DEF Readable, Paints
<1>6. /\ DetectState(c) \in {"responding", "thinking", "idle"}
      /\ (c[l].look = "status" /\ ~ActiveBullet(c) /\ \A i \in 1 .. l : c[i].look \notin Spinners)
              => DetectState(c) = "idle"
      /\ (ActiveBullet(c) /\ (c[l].look = "busy" \/ (l > 1 /\ c[l - 1].look = "border")))
              => DetectState(c) = "responding"
  BY <1>1, <1>2, <1>3, <1>4, <1>5, VerdictIs
<1>8. ASSUME o = 1, ActiveBullet(c) PROVE DetectState(c) = "responding"
  <2>1. Edged(c, k + o, o)
    BY DEF Readable, Paints
  <2>2. k + o + 4 = l /\ k + o + 3 = l - 1 /\ l > 1
    BY <1>1, <1>8
  <2>3. c[l].look = "busy" \/ c[l - 1].look = "border"
    BY <1>8, <2>1, <2>2 DEF Edged
  <2> QED BY <1>6, <1>8, <2>2, <2>3
<1>7. ASSUME o = 0, ~ActiveBullet(c) PROVE DetectState(c) = "idle"
  BY <1>2, <1>5, <1>6, <1>7
<1> QED BY <1>6, <1>7, <1>8

(* What is under a turn that is over: its completion, or the notice of a    *)
(* compaction under it.                                                     *)
LEMMA CompletionShown ==
  ASSUME NEW c, NEW k, NEW o, NEW s, Settles(c, k, o, s), ~busy, turn \notin cuts
  PROVE  /\ k \in Nat /\ k >= 1 /\ c[k].look \in {"done", "notice"}
         /\ \E p \in 1 .. k : /\ c[p].look = "done"
                              /\ p = k \/ (p = k - 1 /\ c[k].look = "notice")
<1>1. /\ TypeOK /\ Conversation /\ Steady /\ k \in Nat /\ o \in Nat /\ s \in Nat
      /\ s + k = Len(conv) /\ (s = 0 \/ k + o >= 2)
      /\ \A i \in 1 .. k : c[i] = conv[s + i]
  BY DEF Settles, Readable, Paints
<1>2. o = 0
  BY DEF Settles, Readable, Paints
<1>3. PICK n \in Nat : n = Len(conv) /\ n >= 1 /\ conv[n].turn = turn /\ n = s + k
  BY <1>1, TurnBegun DEF Conversation, LastIsOfTurn
<1>4. n \in 1 .. Len(conv) /\ Ends(n)
  BY <1>3 DEF Ends
<1>5. conv[n].look \in {"done", "notice"}
  BY <1>1, <1>3, <1>4 DEF Conversation, EndsWell
<1>6. k >= 1 /\ k \in 1 .. k
  BY <1>1, <1>2, <1>3
<1>7. c[k] = conv[n]
  BY <1>1, <1>3, <1>6
<1>8. CASE conv[n].look = "done"
  BY <1>5, <1>6, <1>7, <1>8
<1>9. CASE conv[n].look = "notice"
  <2>1. n > 1 /\ conv[n - 1].look = "done"
    BY <1>1, <1>4, <1>9 DEF Steady, Notices
  <2>2. k >= 2
    BY <1>1, <1>2, <1>3, <2>1
  <2>3. k - 1 \in 1 .. k /\ s + (k - 1) = n - 1
    BY <1>1, <1>3, <2>2
  <2>4. c[k - 1] = conv[n - 1]
    BY <1>1, <2>3
  <2> QED BY <1>5, <1>6, <1>7, <1>9, <2>1, <2>3, <2>4
<1> QED BY <1>5, <1>8, <1>9

LEMMA OverIsQuiet ==
  ASSUME NEW c, NEW k, NEW o, NEW s, Settles(c, k, o, s), ~busy, turn \notin cuts
  PROVE  ~ActiveBullet(c)
<1>1. SUFFICES ASSUME ActiveBullet(c) PROVE FALSE
  OBVIOUS
<1>0. PICK n \in Nat : n = Len(conv) /\ Readable(c, n, k, o, s)
  BY DEF Settles, Readable
<1>2. k \in Nat /\ o \in Nat /\ s \in Nat
  BY DEF Settles, Readable
<1>3. PICK l \in Nat : l = k + o + 4
  BY <1>2
<1>4. /\ c \in Seq(Row) /\ Len(c) = l
      /\ \A i \in 1 .. l : c[i].look \in Bullets \cup {"done"} => i <= k
  BY <1>0, <1>3, PaintedRows
<1>5. PICK e \in Nat : /\ e = TailEnd(c, BulletChrome) /\ e <= l
                       /\ \A i \in 1 .. l : c[i].look \notin BulletChrome => i <= e
  BY <1>4, TailOf
<1>6. PICK b \in 1 .. e : /\ c[b].look \in Bullets
                          /\ \A j \in b .. e : c[j].look \notin {"done", "chevron", "notice"}
  BY <1>1, <1>4, <1>5, ActiveIs
<1>7. k >= 1 /\ c[k].look \in {"done", "notice"}
  BY CompletionShown
<1>8. k \in 1 .. l /\ c[k].look \notin BulletChrome
  BY <1>2, <1>3, <1>7 DEF BulletChrome, Statuses
<1>9. k <= e /\ b <= k
  BY <1>4, <1>5, <1>6, <1>8
<1>10. k \in b .. e
  BY <1>2, <1>6, <1>9
<1> QED BY <1>6, <1>7, <1>10

LEMMA SpinnerShown ==
  ASSUME NEW c, NEW k, NEW o, NEW s, Settles(c, k, o, s)
  PROVE  SpinnerLine(c) # NoSpinner <=> busy
<1>0. PICK n \in Nat : n = Len(conv) /\ Readable(c, n, k, o, s)
  BY DEF Settles, Readable
<1>1. k \in Nat /\ o \in Nat /\ s \in Nat
  BY DEF Settles, Readable
<1>2. PICK l \in Nat : l = k + o + 4
  BY <1>1
<1>3. /\ c \in Seq(Row) /\ Len(c) = l
      /\ \A i \in 1 .. l : c[i].look \in Bullets \cup {"done"} => i <= k
      /\ \A i \in 1 .. l : c[i].look \in Spinners <=> o = 1 /\ i = k + 1
  BY <1>0, <1>2, PaintedRows
<1>4. PICK at \in 0 .. l :
        /\ at = Highest(Upto(c, Len(c), Spinners \cup Bullets \cup {"done"}))
        /\ at # 0 => c[at].look \in Spinners \cup Bullets \cup {"done"}
        /\ \A i \in 1 .. l : c[i].look \in Spinners \cup Bullets \cup {"done"} => i <= at
  BY <1>3, HighestUpto
<1>5. busy <=> o = 1
  BY DEF Settles
<1>6. CASE busy
  <2>1. k + 1 \in 1 .. l /\ o = 1
    BY <1>1, <1>2, <1>5, <1>6
  <2>2. k + 1 <= at
    BY <1>3, <1>4, <2>1
  <2>3. at \in 1 .. l /\ ~(at <= k)
    BY <1>1, <2>2
  <2>4. c[at].look \in Spinners
    BY <1>3, <1>4, <2>3
  <2> DEFINE A == Highest(Upto(c, Len(c), Spinners \cup Bullets \cup {"done"}))
             B == Highest(From(c, A + 1, Len(c), {"bar"}))
  <2>5. A # 0 /\ c[A].look \in Spinners
    BY <1>4, <2>3, <2>4
  <2>6. SpinnerLine(c) = <<c[A]>> \o (IF B = 0 THEN <<>> ELSE <<c[B]>>)
    BY <2>5 DEF SpinnerLine
  <2> HIDE DEF A, B
  <2>7. <<c[A]>> \o (IF B = 0 THEN <<>> ELSE <<c[B]>>) # <<>>
    <3>1. PICK u, v : u = c[A] /\ v = c[B]
      OBVIOUS
    <3>2. PICK x, y : x = <<u>> /\ y = IF B = 0 THEN <<>> ELSE <<v>>
      OBVIOUS
    <3>3. \E S : x \in Seq(S) /\ y \in Seq(S) /\ Len(x) = 1
      <4>1. x \in Seq({u, v}) /\ Len(x) = 1
        BY <3>2
      <4>2. y \in Seq({u, v})
        <5>1. CASE B = 0
          BY <3>2, <5>1
        <5>2. CASE B # 0
          <6>1. y = <<v>>
            BY <3>2, <5>2
          <6> QED BY <6>1
        <5> QED BY <5>1, <5>2
      <4> QED BY <4>1, <4>2
    <3>4. PICK S : x \in Seq(S) /\ y \in Seq(S) /\ Len(x) = 1
      BY <3>3
    <3>5. Len(x \o y) = Len(x) + Len(y) /\ Len(y) \in Nat
      BY <3>4, ConcatProperties
    <3>6. Len(x \o y) # 0
      BY <3>4, <3>5
    <3>7. <<c[A]>> \o (IF B = 0 THEN <<>> ELSE <<c[B]>>) = x \o y
      BY <3>1, <3>2
    <3>8. Len(<<>>) = 0
      OBVIOUS
    <3> QED BY <3>6, <3>7, <3>8
  <2> QED BY <1>6, <2>6, <2>7 DEF NoSpinner
<1>7. CASE ~busy
  <2>1. at = 0 \/ c[at].look \notin Spinners
    BY <1>3, <1>5, <1>7
  <2>2. SpinnerLine(c) = NoSpinner
    BY <1>4, <2>1 DEF SpinnerLine
  <2> QED BY <1>7, <2>2
<1> QED BY <1>6, <1>7

(* Among the rows of a turn under way there is no completion, and its       *)
(* message, or the top of the screen, is below that of any turn before.     *)
LEMMA CompletionIsOver ==
  ASSUME NEW c, NEW k, NEW o, NEW s, Settles(c, k, o, s), turn \notin cuts
  PROVE  TurnComplete(c) <=> ~busy
<1> DEFINE U == {i \in DOMAIN c : Texted(c[i]) /\ ~IsComposer(c, i)}
<1>0. PICK n \in Nat : n = Len(conv) /\ Readable(c, n, k, o, s)
  BY DEF Settles, Readable
<1>1. k \in Nat /\ o \in Nat /\ s \in Nat
  BY DEF Settles, Readable
<1>2. PICK l \in Nat : l = k + o + 4
  BY <1>1
<1>3. /\ TypeOK /\ Conversation /\ Steady /\ "quote" \notin Feature /\ "number" \notin Feature
      /\ n <= Len(conv) /\ Paints(c, n, k, o, s)
  BY <1>0 DEF Readable
<1>4. /\ c \in Seq(Row) /\ Len(c) = l
      /\ \A i \in 1 .. k : s + i \in 1 .. Len(conv) /\ c[i] = conv[s + i]
      /\ \A i \in 1 .. l : c[i].look \in Bullets \cup {"done"} => i <= k
      /\ \A i \in 1 .. l : c[i].look = "chevron" =>
              \/ i <= k /\ c[i].num = 0 /\ c[i].text = "message" /\ (i > 1 => c[i - 1].look # "rule")
              \/ i > k /\ i > 1 /\ c[i - 1].look = "rule"
  BY <1>0, <1>2, PaintedRows
<1>5. ASSUME NEW i \in U PROVE i \in 1 .. k /\ c[i].look = "chevron"
  <2>1. i \in 1 .. l /\ c[i].look = "chevron" /\ ~IsComposer(c, i)
    BY <1>4 DEF Texted
  <2>2. ~(i > k)
    BY <1>2, <2>1, <1>0, ComposersOfScreen
  <2> QED BY <1>1, <2>1, <2>2
<1>6. ASSUME NEW i \in 1 .. k, c[i].look = "chevron" PROVE i \in U
  <2>1. i \in 1 .. l /\ i \in DOMAIN c /\ ~(i > k)
    BY <1>1, <1>2, <1>4
  <2>2. c[i].text = "message"
    BY <1>4, <1>6, <2>1
  <2>3. Texted(c[i])
    BY <1>6, <2>2 DEF Texted
  <2>4. ~IsComposer(c, i)
    BY <1>2, <1>6, <2>1, <1>0, ComposersOfScreen
  <2> QED BY <2>1, <2>3, <2>4
<1>7. TurnComplete(c) <=> From(c, Highest(U) + 1, Len(c), {"done"}) # {}
  BY DEF TurnComplete
<1> HIDE DEF U
<1>8. PICK u \in 0 .. k : /\ u = Highest(U) /\ (u # 0 => u \in U) /\ \A i \in U : i <= u
  <2>1. U \in SUBSET (1 .. k)
    BY <1>5
  <2>2. /\ Highest(U) \in 0 .. k /\ (U = {} => Highest(U) = 0)
        /\ (U # {} => Highest(U) \in U) /\ \A i \in U : i <= Highest(U)
    BY <1>1, <2>1, HighestOf
  <2> QED BY <2>2
<1>9. From(c, Highest(U) + 1, Len(c), {"done"}) = {i \in u + 1 .. l : c[i].look = "done"}
  BY <1>4, <1>8 DEF From
<1>10. CASE ~busy
  <2>1. c[k].look \in {"done", "notice"}
    BY <1>10, CompletionShown
  <2>2. PICK p \in 1 .. k : c[p].look = "done" /\ (p = k \/ p = k - 1)
    BY <1>10, CompletionShown
  <2>3. u # 0 => c[u].look = "chevron"
    BY <1>5, <1>8
  <2>4. u # p /\ u # k
    BY <1>1, <2>1, <2>2, <2>3
  <2>5. u < p
    BY <1>1, <1>8, <2>2, <2>4
  <2>6. p \in u + 1 .. l
    BY <1>1, <1>2, <1>8, <2>2, <2>5
  <2> QED BY <1>7, <1>9, <1>10, <2>2, <2>6
<1>11. CASE busy
  <2>1. SUFFICES ASSUME NEW p \in u + 1 .. l, c[p].look = "done" PROVE FALSE
    BY <1>7, <1>9, <1>11
  <2>2. p \in 1 .. l
    BY <1>1, <1>8
  <2>3. p \in 1 .. k
    BY <1>1, <1>4, <2>1, <2>2
  <2>4. PICK q \in 1 .. Len(conv) : q = s + p /\ conv[q].look = "done"
    BY <1>4, <2>1, <2>3
  <2>5. conv[q].turn # turn
    BY <1>3, <1>11, <2>4 DEF Steady, UnderWay
  <2>6. PICK m \in Nat : Boundary(m)
    BY <1>3, BoundaryExists
  <2>7. s + k = n
    BY <1>3 DEF Paints
  <2>8. m \in 1 .. n /\ q \in 1 .. n /\ ~(q \in m .. n) /\ conv[m].look = "chevron"
    BY <1>0, <2>4, <2>5, <2>6 DEF Boundary
  <2>9. PICK i \in 1 .. k : i = m - s /\ i > p
    <3>1. q < m
      BY <2>8
    <3>2. m - s \in 1 .. k /\ m - s > p
      BY <1>1, <2>3, <2>4, <2>7, <2>8, <3>1
    <3> QED BY <3>2
  <2>10. s + i = m
    BY <1>1, <2>8, <2>9
  <2>11. c[i].look = "chevron"
    BY <1>4, <2>8, <2>10
  <2>12. i <= u
    BY <1>6, <1>8, <2>11
  <2> QED BY <1>1, <1>8, <2>1, <2>3, <2>9, <2>12
<1> QED BY <1>10, <1>11

LEMMA ScreenSettles ==
  ASSUME IInv, Steady, Settled, cursor = 0,
         "lines" \notin Drafts, Height > 5, "quote" \notin Feature, "number" \notin Feature
  PROVE  \E k, o, s \in Nat : Settles(screen, k, o, s)
<1>1. TypeOK /\ Conversation
  BY DEF IInv
<1>2. \E k, o, s \in Nat : Settles(screen, k, o, s)
  <2>1. painted = Len(conv) /\ ghost = 0 /\ shown.cursor = 0 /\ (shown.busy <=> busy)
    BY DEF Settled, Panel
  <2>2. PICK k, o, s \in Nat : Paints(screen, painted, k, o, s) /\ (shown.busy <=> o = 1)
    BY <1>1, <2>1, PaintedScreen
  <2>3. painted \in Nat /\ painted <= Len(conv)
    BY <1>1, <2>1, PaintedScreen
  <2> QED BY <1>1, <2>1, <2>2, <2>3 DEF Settles, Readable
<1> QED BY <1>2

(* A settled screen is read for what it is: it is no dialog, its spinner    *)
(* and its verdict tell whether a turn is under way, and its completion     *)
(* tells that one is over.                                                  *)
LEMMA SettledIsRead ==
  ASSUME IInv, Steady, Settled, cursor = 0,
         "lines" \notin Drafts, Height > 5, "quote" \notin Feature, "number" \notin Feature
  PROVE  /\ DetectState(screen) # "dialog"
         /\ SpinnerLine(screen) # NoSpinner <=> busy
         /\ turn \notin cuts =>
              /\ Effective(DetectState(screen), busy) \in
                   (IF busy THEN {"thinking", "responding"} ELSE {"idle"})
              /\ (DetectState(screen) = "idle" /\ TurnComplete(screen)) <=> ~busy
<1>1. TypeOK /\ Conversation
  BY DEF IInv
<1>2. PICK k, o, s \in Nat : Settles(screen, k, o, s)
  BY ScreenSettles
<1>3. PICK c : c = screen
  OBVIOUS
<1>4. Settles(c, k, o, s) /\ (busy <=> o = 1) /\ (o = 0 \/ o = 1)
  BY <1>2, <1>3 DEF Settles, Readable, Paints
<1>5. PICK l \in Nat : l = k + o + 4
  OBVIOUS
<1>6. /\ DetectState(c) \in {"responding", "thinking", "idle"}
      /\ ~busy /\ ~ActiveBullet(c) => DetectState(c) = "idle"
  <2>1. PICK n : n = Len(conv)
    OBVIOUS
  <2>2. Readable(c, n, k, o, s)
    BY <1>4, <2>1 DEF Settles
  <2> QED BY <1>4, <1>5, <2>2, ScreenVerdict
<1>7. SpinnerLine(c) # NoSpinner <=> busy
  BY <1>4, SpinnerShown
<1>8. ASSUME turn \notin cuts
      PROVE  /\ TurnComplete(c) <=> ~busy
             /\ ~busy => DetectState(c) = "idle"
  BY <1>4, <1>6, <1>8, CompletionIsOver, OverIsQuiet
<1>9. PICK v : v = DetectState(c)
  OBVIOUS
<1>10. v \in {"responding", "thinking", "idle"}
  BY <1>6, <1>9
<1>11. ASSUME turn \notin cuts
       PROVE  Effective(v, busy) \in (IF busy THEN {"thinking", "responding"} ELSE {"idle"})
  <2>1. CASE busy
    BY <1>10, <2>1 DEF Effective
  <2>2. CASE ~busy
    <3>1. v = "idle"
      BY <1>8, <1>9, <1>11, <2>2
    <3> QED BY <2>2, <3>1 DEF Effective
  <2> QED BY <2>1, <2>2
<1>12. ASSUME turn \notin cuts
       PROVE  (v = "idle" /\ TurnComplete(c)) <=> ~busy
  BY <1>8, <1>9, <1>12
<1>13. v # "dialog"
  BY <1>10
<1> QED BY <1>3, <1>7, <1>9, <1>11, <1>12, <1>13

(* Whether a turn is under way, and whether it is over, Monitor::poll reads *)
(* off a settled screen as it is, whatever the reply, the draft, the turns  *)
(* before and the height of the terminal: detect_state with what the        *)
(* transcript says, extract_spinner_line, and turn_complete.                *)
THEOREM ProgressRead ==
  ASSUME BottomRows > 5, Height > 5, "lines" \notin Drafts,
         "quote" \notin Feature, "number" \notin Feature
  PROVE  Spec => []ProgressIsRead
<1>1. IInv /\ Steady => ProgressIsRead
  BY SettledIsRead DEF ProgressIsRead, WorkIsSeen, CompleteIsOver
<1> QED BY <1>1, Invariance, SteadyInvariance, PTL

-----------------------------------------------------------------------------
(* Numbers in order.                                                       *)
LEMMA InOrderOne ==
  ASSUME NEW a \in Nat
  PROVE  InOrder({a}) = <<a>>
<1>1. Cardinality({a}) = 1
  BY FS_Singleton
<1>2. {j \in {a} : j <= a} = {a}
  OBVIOUS
<1>3. (CHOOSE i \in {a} : Cardinality({j \in {a} : j <= i}) = 1) = a
  BY <1>1, <1>2
<1>4. \A n \in 1 .. 1 : n = 1
  OBVIOUS
<1>5. InOrder({a}) = [n \in 1 .. 1 |-> a]
  BY <1>1, <1>3, <1>4 DEF InOrder
<1> QED BY <1>5

LEMMA InOrderTwo ==
  ASSUME NEW a \in Nat, NEW b \in Nat, a < b
  PROVE  InOrder({a, b}) = <<a, b>>
<1> DEFINE S == {a, b}
           place(n) == CHOOSE i \in S : Cardinality({j \in S : j <= i}) = n
<1>1. a # b
  OBVIOUS
<1>2. Cardinality({a}) = 1
  BY FS_Singleton
<1>3. IsFiniteSet({a})
  BY FS_Singleton
<1>4. Cardinality(S) = 2
  <2>1. {a} \cup {b} = S /\ b \notin {a}
    BY <1>1
  <2>2. Cardinality({a} \cup {b}) = Cardinality({a}) + 1
    BY <1>3, <2>1, FS_AddElement
  <2> QED BY <1>2, <2>1, <2>2
<1>5. {j \in S : j <= a} = {a} /\ {j \in S : j <= b} = S
  OBVIOUS
<1>6. place(1) = a /\ place(2) = b
  <2>1. \A i \in S : Cardinality({j \in S : j <= i}) = IF i = a THEN 1 ELSE 2
    BY <1>1, <1>2, <1>4, <1>5
  <2>2. a \in S /\ b \in S /\ \A i \in S : i = a \/ i = b
    OBVIOUS
  <2>3. \A i \in S : Cardinality({j \in S : j <= i}) = 1 <=> i = a
    BY <2>1
  <2>4. \A i \in S : Cardinality({j \in S : j <= i}) = 2 <=> i = b
    BY <1>1, <2>1, <2>2
  <2> HIDE DEF S
  <2> QED BY <2>2, <2>3, <2>4
<1>7. InOrder(S) = [n \in 1 .. 2 |-> place(n)]
  BY <1>4 DEF InOrder
<1>8. \A n \in 1 .. 2 : n = 1 \/ n = 2
  OBVIOUS
<1> HIDE DEF place, S
<1>9. InOrder(S) = <<a, b>>
  BY <1>6, <1>7, <1>8
<1> QED BY <1>9 DEF S

-----------------------------------------------------------------------------
(* A screen with a dialog: its seven rows are at the bottom.               *)
Asked(b, at) ==
  /\ b \in Seq(Row) /\ Len(b) = 7
  /\ b[1].look = "rule" /\ b[2] = Written("prose", "command")
  /\ b[3].look = "blank" /\ b[4] = Written("prose", "question")
  /\ b[5].look = (IF at = 1 THEN "chevron" ELSE "prose") /\ b[5].num = 1 /\ b[5].text = "refuse"
  /\ b[6].look = (IF at = 2 THEN "chevron" ELSE "prose") /\ b[6].num = 2 /\ b[6].text = "accept"
  /\ b[7].look = "footer"

LEMMA OptionSays ==
  ASSUME NEW n \in 1 .. 3, NEW label \in Texts, NEW at
  PROVE  /\ Option(n, label, at).look = (IF at = n THEN "chevron" ELSE "prose")
         /\ Option(n, label, at).num = n /\ Option(n, label, at).text = label
<1>1. \A look \in {"prose", "chevron"} : Drawn(look) \in Row /\ Drawn(look).look = look
  BY DrawnIsRow DEF Looks
<1>2. PICK r \in Row : r = Drawn(IF at = n THEN "chevron" ELSE "prose")
                       /\ r.look = IF at = n THEN "chevron" ELSE "prose"
  BY <1>1
<1>3. Option(n, label, at) = [[r EXCEPT !.num = n] EXCEPT !.text = label]
  BY <1>2 DEF Option
<1>4. n \in 0 .. 9
  OBVIOUS
<1>5. PICK q \in Row : q = [r EXCEPT !.num = n] /\ q.num = n /\ q.look = r.look
  <2>1. [r EXCEPT !.num = n] \in Row /\ [r EXCEPT !.num = n].num = n
        /\ [r EXCEPT !.num = n].look = r.look
    BY <1>4 DEF Row
  <2> QED BY <2>1
<1>6. [q EXCEPT !.text = label].num = q.num /\ [q EXCEPT !.text = label].look = q.look
      /\ [q EXCEPT !.text = label].text = label
  BY DEF Row
<1> QED BY <1>2, <1>3, <1>5, <1>6

LEMMA AskedIs ==
  ASSUME NEW at \in 1 .. 2, "chat" \notin Feature
  PROVE  Asked(DialogRows(at), at)
<1>1. PICK rule \in Row, blank \in Row, footer \in Row :
        /\ rule = Drawn("rule") /\ blank = Drawn("blank") /\ footer = Drawn("footer")
        /\ rule.look = "rule" /\ blank.look = "blank" /\ footer.look = "footer"
  BY DrawnIsRow DEF Looks
<1>2. PICK command \in Row, question \in Row :
        command = Written("prose", "command") /\ question = Written("prose", "question")
  BY WrittenIsRow DEF Looks, Texts
<1>3. PICK refuse \in Row :
        /\ refuse = Option(1, "refuse", at) /\ refuse.look = (IF at = 1 THEN "chevron" ELSE "prose")
        /\ refuse.num = 1 /\ refuse.text = "refuse"
  <2>1. "refuse" \in Texts
    BY DEF Texts
  <2> QED BY <2>1, OptionIsRow, OptionSays
<1>4. PICK accept \in Row :
        /\ accept = Option(2, "accept", at) /\ accept.look = (IF at = 2 THEN "chevron" ELSE "prose")
        /\ accept.num = 2 /\ accept.text = "accept"
  <2>1. "accept" \in Texts
    BY DEF Texts
  <2> QED BY <2>1, OptionIsRow, OptionSays
<1>5. PICK x, y : x = <<rule, command, blank, question, refuse, accept>> /\ y = <<footer>>
  OBVIOUS
<1>6. /\ x \in Seq(Row) /\ Len(x) = 6 /\ y \in Seq(Row) /\ Len(y) = 1 /\ y[1] = footer
      /\ x[1] = rule /\ x[2] = command /\ x[3] = blank /\ x[4] = question
      /\ x[5] = refuse /\ x[6] = accept
  BY <1>5
<1>7. DialogRows(at) = x \o y
  <2>1. DialogRows(at) = x \o <<>> \o y
    BY <1>1, <1>2, <1>3, <1>4, <1>5 DEF DialogRows
  <2>2. x \o <<>> = x
    BY <1>6, ConcatEmptySeq
  <2> QED BY <2>1, <2>2
<1>8. PICK b \in Seq(Row) : Joins(b, x, 6, y, 1)
  BY <1>6, JoinRows
<1>9. Len(b) = 7 /\ b = DialogRows(at)
  BY <1>7, <1>8 DEF Joins
<1>10. \A i \in 1 .. 6 : b[i] = x[i]
  BY <1>8 DEF Joins
<1>11. b[7] = footer
  <2>1. \A j \in 1 .. 1 : b[6 + j] = y[j]
    BY <1>8 DEF Joins
  <2>2. b[6 + 1] = y[1]
    BY <2>1
  <2> QED BY <1>6, <2>2
<1>12. /\ b[1] = rule /\ b[2] = command /\ b[3] = blank /\ b[4] = question
       /\ b[5] = refuse /\ b[6] = accept
  BY <1>6, <1>10
<1>13. Asked(b, at)
  BY <1>1, <1>2, <1>3, <1>4, <1>9, <1>11, <1>12 DEF Asked
<1> QED BY <1>9, <1>13

\* c ends in a dialog, of which the last row above is the kth.
Asks(c, k, at) ==
  /\ c \in Seq(Row) /\ k \in Nat /\ Len(c) = k + 7 /\ at \in 1 .. 2
  /\ \E b : Asked(b, at) /\ \A j \in 1 .. 7 : c[k + j] = b[j]

LEMMA DialogShown ==
  ASSUME NEW a \in Seq(Row), NEW at \in 1 .. 2, "chat" \notin Feature, Height > 6
  PROVE  \E k \in Nat : Asks(Window(a \o DialogRows(at)), k, at)
<1>1. PICK b \in Seq(Row) : b = DialogRows(at) /\ Asked(b, at) /\ Len(b) = 7
  BY AskedIs DEF Asked
<1>2. PICK n \in Nat, h \in Nat : n = Len(a) /\ h = Height /\ h > 6
  BY HeightAssumption
<1>3. PICK c \in Seq(Row) : c = Window(a \o b)
  BY WindowJoin
<1>4. PICK d \in Nat :
        /\ d <= n + 7
        /\ (d = 0 /\ n + 7 <= h) \/ (d >= 1 /\ d + h = n + 7)
        /\ Len(c) = n + 7 - d
        /\ \A i \in 1 .. n + 7 - d : c[i] = IF i + d <= n THEN a[i + d] ELSE b[i + d - n]
  <2>1. \E d \in Nat :
          /\ d <= Len(a) + Len(b)
          /\ (d = 0 /\ Len(a) + Len(b) <= Height) \/ (d >= 1 /\ d + Height = Len(a) + Len(b))
          /\ Len(Window(a \o b)) = Len(a) + Len(b) - d
          /\ \A i \in 1 .. Len(a) + Len(b) - d :
               Window(a \o b)[i] = IF i + d <= Len(a) THEN a[i + d] ELSE b[i + d - Len(a)]
    BY WindowJoin
  <2> QED BY <1>1, <1>2, <1>3, <2>1, ZenonT(60)
<1>5. PICK k \in Nat : k = n - d
  <2>1. d <= n
    BY <1>2, <1>4
  <2> QED BY <2>1
<1>6. Len(c) = k + 7 /\ n + 7 - d = k + 7
  BY <1>4, <1>5
<1>7. ASSUME NEW j \in 1 .. 7 PROVE c[k + j] = b[j]
  <2>1. k + j \in 1 .. n + 7 - d /\ ~(k + j + d <= n) /\ k + j + d - n = j
    BY <1>5, <1>6
  <2> QED BY <1>4, <2>1
<1>8. Asks(c, k, at)
  BY <1>1, <1>6, <1>7 DEF Asks
<1> QED BY <1>1, <1>3, <1>8

LEMMA DialogRowsAre ==
  ASSUME NEW c, NEW k, NEW at, Asks(c, k, at)
  PROVE  /\ c \in Seq(Row) /\ k \in Nat /\ Len(c) = k + 7 /\ at \in 1 .. 2
         /\ c[k + 1].look = "rule" /\ c[k + 2] = Written("prose", "command")
         /\ c[k + 3].look = "blank" /\ c[k + 4] = Written("prose", "question")
         /\ c[k + 5].look = (IF at = 1 THEN "chevron" ELSE "prose")
         /\ c[k + 5].num = 1 /\ c[k + 5].text = "refuse"
         /\ c[k + 6].look = (IF at = 2 THEN "chevron" ELSE "prose")
         /\ c[k + 6].num = 2 /\ c[k + 6].text = "accept"
         /\ c[k + 7].look = "footer"
         /\ c[k + 2].look = "prose" /\ c[k + 4].look = "prose" /\ c[k + 4].num = 0
         /\ c[k + 2].num = 0
<1>1. PICK b : Asked(b, at) /\ \A j \in 1 .. 7 : c[k + j] = b[j]
  BY DEF Asks
<1>2. /\ c[k + 1] = b[1] /\ c[k + 2] = b[2] /\ c[k + 3] = b[3] /\ c[k + 4] = b[4]
      /\ c[k + 5] = b[5] /\ c[k + 6] = b[6] /\ c[k + 7] = b[7]
  BY <1>1
<1>3. \A text \in {"command", "question"} :
        Written("prose", text).look = "prose" /\ Written("prose", text).num = 0
  BY WrittenIsRow DEF Looks, Texts
<1>4. c \in Seq(Row) /\ k \in Nat /\ Len(c) = k + 7 /\ at \in 1 .. 2
  BY DEF Asks
<1> QED BY <1>1, <1>2, <1>3, <1>4 DEF Asked

(* The row right above is the nearest one, unless it is blank.             *)
LEMMA RightAbove ==
  ASSUME NEW c \in Seq(Row), NEW l \in Nat, l = Len(c), NEW i \in 2 .. l,
         c[i - 1].look # "blank"
  PROVE  Highest({j \in Solid(c) : j < i}) = i - 1
<1> DEFINE S == {j \in Solid(c) : j < i}
<1>1. i - 1 \in 1 .. l /\ DOMAIN c = 1 .. l
  OBVIOUS
<1>2. PICK m \in Nat : m = i - 1
  BY <1>1
<1>3. S \in SUBSET (1 .. m) /\ m \in S
  BY <1>1, <1>2 DEF Solid
<1> HIDE DEF S
<1>4. Highest(S) \in S /\ \A j \in S : j <= Highest(S)
  BY <1>2, <1>3, HighestOf
<1>5. Highest(S) = m
  <2>1. PICK h \in 1 .. m : h = Highest(S)
    BY <1>3, <1>4
  <2> QED BY <1>2, <1>3, <1>4, <2>1
<1> QED BY <1>2, <1>5 DEF S

LEMMA DialogOptions ==
  ASSUME NEW c, NEW k, NEW at, Asks(c, k, at)
  PROVE  /\ Options(c) \in SUBSET (1 .. k + 6) /\ k + 5 \in Options(c) /\ k + 6 \in Options(c)
         /\ \A i \in Options(c) : i > k => i = k + 5 \/ i = k + 6
         /\ \A i \in Options(c) : c[i].num \in Nat \ {0}
<1>1. /\ c \in Seq(Row) /\ k \in Nat /\ Len(c) = k + 7
      /\ c[k + 1].look = "rule" /\ c[k + 2].num = 0
      /\ c[k + 3].look = "blank" /\ c[k + 4].num = 0 /\ c[k + 4].look = "prose"
      /\ c[k + 5].look \in {"chevron", "prose"} /\ c[k + 5].num = 1
      /\ c[k + 6].look \in {"chevron", "prose"} /\ c[k + 6].num = 2
      /\ c[k + 7].look = "footer"
  BY DialogRowsAre
<1>2. PICK l \in Nat : l = k + 7 /\ l = Len(c)
  BY <1>1
<1>3. ~IsComposer(c, k + 5)
  <2>1. PICK i \in 2 .. l : i = k + 5 /\ i - 1 = k + 4
    BY <1>1, <1>2
  <2>2. c[i - 1].look = "prose"
    BY <1>1, <2>1
  <2>3. Highest({j \in Solid(c) : j < i}) = i - 1
    BY <1>1, <1>2, <2>2, RightAbove
  <2>4. ~IsComposer(c, i)
    BY <2>2, <2>3 DEF IsComposer
  <2> QED BY <2>1, <2>4
<1>4. ~IsComposer(c, k + 6)
  <2>1. PICK i \in 2 .. l : i = k + 6 /\ i - 1 = k + 5
    BY <1>1, <1>2
  <2>2. c[i - 1].look \in {"chevron", "prose"}
    BY <1>1, <2>1
  <2>3. Highest({j \in Solid(c) : j < i}) = i - 1
    BY <1>1, <1>2, <2>2, RightAbove
  <2>4. ~IsComposer(c, i)
    BY <2>2, <2>3 DEF IsComposer
  <2> QED BY <2>1, <2>4
<1>5. k + 5 \in 1 .. l /\ k + 6 \in 1 .. l /\ DOMAIN c = 1 .. l
  BY <1>1, <1>2
<1>6. k + 5 \in Options(c) /\ k + 6 \in Options(c)
  BY <1>1, <1>3, <1>4, <1>5 DEF Options
<1>7. ASSUME NEW i \in Options(c), i > k PROVE i = k + 5 \/ i = k + 6
  <2>1. i \in 1 .. l /\ c[i].num > 0 /\ c[i].look \in {"chevron", "prose"}
    BY <1>5 DEF Options
  <2>2. i = k + 1 \/ i = k + 2 \/ i = k + 3 \/ i = k + 4 \/ i = k + 5 \/ i = k + 6 \/ i = k + 7
    BY <1>1, <1>2, <1>7, <2>1
  <2> QED BY <1>1, <2>1, <2>2
<1>8. ASSUME NEW i \in Options(c) PROVE i \in 1 .. k + 6 /\ c[i].num \in Nat \ {0}
  <2>1. i \in 1 .. l /\ c[i].num > 0
    BY <1>5 DEF Options
  <2>2. c[i] \in Row
    BY <1>1, <1>2, <2>1
  <2>3. c[i].num \in Nat
    BY <2>2 DEF Row
  <2>4. i <= k \/ i = k + 5 \/ i = k + 6
    BY <1>1, <1>7, <2>1
  <2>5. i \in Nat /\ i >= 1 /\ i <= k + 6
    BY <1>1, <2>1, <2>4
  <2>6. i \in 1 .. k + 6
    BY <1>1, <2>5
  <2> QED BY <2>1, <2>3, <2>6
<1> QED BY <1>6, <1>7, <1>8

(* The two options are the last sequence on the screen, and a picker.      *)
LEMMA PickerIs ==
  ASSUME NEW c, NEW k, NEW at, Asks(c, k, at)
  PROVE  /\ Highest(Pickers(c)) = k + 5
         /\ Sequence(c, Starts(c), k + 5) = {k + 5, k + 6}
<1>1. /\ k \in Nat /\ Len(c) = k + 7 /\ at \in 1 .. 2
      /\ c[k + 5].look = (IF at = 1 THEN "chevron" ELSE "prose") /\ c[k + 5].num = 1
      /\ c[k + 6].look = (IF at = 2 THEN "chevron" ELSE "prose") /\ c[k + 6].num = 2
  BY DialogRowsAre
<1>2. /\ Options(c) \in SUBSET (1 .. k + 6) /\ k + 5 \in Options(c) /\ k + 6 \in Options(c)
      /\ \A i \in Options(c) : i > k => i = k + 5 \/ i = k + 6
      /\ \A i \in Options(c) : c[i].num \in Nat \ {0}
  BY DialogOptions
<1>3. PICK a \in Nat, b \in Nat : a = k + 5 /\ b = k + 6 /\ b = a + 1
  BY <1>1
<1>4. ASSUME NEW i \in Options(c) PROVE i \in 1 .. b /\ (i >= a => i = a \/ i = b)
  <2>1. i \in 1 .. b
    BY <1>2, <1>3
  <2> QED BY <1>1, <1>2, <1>3, <2>1
<1>5. Before(c, a) = 0
  <2> DEFINE S == {j \in Options(c) : j < a}
             prev == Highest(S)
  <2>1. S \in SUBSET (1 .. b)
    BY <1>4
  <2> HIDE DEF S
  <2>2. prev = 0 \/ prev \in S
    BY <1>3, <2>1, HighestOf
  <2>3. prev # 0 => c[prev].num \in Nat \ {0}
    BY <1>2, <2>2 DEF S
  <2>4. ~(prev # 0 /\ c[prev].num + 1 = c[a].num)
    BY <1>1, <1>3, <2>3
  <2> QED BY <2>4 DEF Before, S
<1>6. Before(c, b) = a
  <2> DEFINE S == {j \in Options(c) : j < b}
  <2>1. S \in SUBSET (1 .. a) /\ a \in S
    BY <1>2, <1>3, <1>4
  <2> HIDE DEF S
  <2>2. Highest(S) \in S /\ \A j \in S : j <= Highest(S)
    BY <1>3, <2>1, HighestOf
  <2>3. Highest(S) = a
    <3>1. PICK h \in 1 .. a : h = Highest(S)
      BY <2>1, <2>2
    <3> QED BY <1>3, <2>1, <2>2, <3>1
  <2>4. From(c, a, b, {"rule"} \cup Statuses) = {}
    <3>1. \A i \in a .. b : i = a \/ i = b
      BY <1>3
    <3>2. \A i \in a .. b : c[i].look \in {"chevron", "prose"}
      BY <1>1, <1>3, <3>1
    <3> QED BY <3>2 DEF From, Statuses
  <2>5. a # 0 /\ c[a].num + 1 = c[b].num
    BY <1>1, <1>3
  <2> QED BY <2>3, <2>4, <2>5 DEF Before, S
<1>7. a \in Starts(c) /\ \A i \in Starts(c) : i \in Options(c) /\ i # b
  BY <1>2, <1>3, <1>5, <1>6 DEF Starts
<1>8. Sequence(c, Starts(c), a) = {a, b}
  <2>1. \A j \in Options(c) : a <= j => j = a \/ j = b
    BY <1>3, <1>4
  <2>2. \A m \in Starts(c) : ~(a < m)
    <3>1. \A m \in Starts(c) : m \in 1 .. b /\ (m >= a => m = a)
      BY <1>4, <1>7
    <3> QED BY <1>3, <3>1
  <2>3. a \in Options(c) /\ b \in Options(c) /\ a <= a /\ a <= b
    BY <1>2, <1>3
  <2> QED BY <2>1, <2>2, <2>3 DEF Sequence
<1>9. a \in Pickers(c)
  <2>1. Cardinality({a, b}) >= 2
    <3>1. IsFiniteSet({a}) /\ Cardinality({a}) = 1
      BY FS_Singleton
    <3>2. {a} \cup {b} = {a, b} /\ b \notin {a}
      BY <1>3
    <3>3. Cardinality({a} \cup {b}) = Cardinality({a}) + 1
      BY <3>1, <3>2, FS_AddElement
    <3> QED BY <3>1, <3>2, <3>3
  <2>2. \E j \in {a, b} : c[j].look = "chevron"
    BY <1>1, <1>3
  <2>3. c[a].num = 1
    BY <1>1, <1>3
  <2> QED BY <1>7, <1>8, <2>1, <2>2, <2>3 DEF Pickers
<1>10. Pickers(c) \in SUBSET (1 .. a)
  <2>1. \A i \in Pickers(c) : i \in Starts(c)
    BY DEF Pickers
  <2>2. \A i \in Starts(c) : i \in 1 .. a
    BY <1>3, <1>4, <1>7
  <2> QED BY <2>1, <2>2
<1>11. Highest(Pickers(c)) = a
  <2>1. PICK P \in SUBSET (1 .. a) : P = Pickers(c) /\ a \in P
    BY <1>9, <1>10
  <2>2. Highest(P) \in P /\ \A j \in P : j <= Highest(P)
    BY <1>3, <2>1, HighestOf
  <2>3. Highest(P) = a
    BY <1>3, <2>1, <2>2
  <2> QED BY <2>1, <2>3
<1> QED BY <1>3, <1>8, <1>11

LEMMA OneRow ==
  ASSUME NEW c \in Seq(Row), NEW i \in 1 .. Len(c)
  PROVE  SubSeq(c, i, i) = <<c[i]>>
<1>1. i \in Int /\ \A j \in i .. i : c[j] \in Row
  OBVIOUS
<1>2. PICK s : s = SubSeq(c, i, i)
  OBVIOUS
<1>3. /\ s \in Seq(Row) /\ Len(s) = IF i <= i THEN i - i + 1 ELSE 0
      /\ \A j \in 1 .. i - i + 1 : s[j] = c[i + j - 1]
  BY <1>1, <1>2, SubSeqProperties
<1>4. Len(s) = 1 /\ s[1] = c[i]
  <2>1. i - i + 1 = 1 /\ i + 1 - 1 = i /\ 1 \in 1 .. i - i + 1 /\ i <= i
    OBVIOUS
  <2> QED BY <1>3, <2>1
<1>5. PICK r \in Row : r = c[i]
  OBVIOUS
<1>6. s = <<r>>
  BY <1>3, <1>4, <1>5
<1> QED BY <1>2, <1>5, <1>6

LEMMA CommandRead ==
  ASSUME NEW c, NEW k, NEW at, Asks(c, k, at)
  PROVE  SolidRows(c, k + 2, k + 3) = <<c[k + 2]>>
<1>1. k \in Nat /\ c[k + 2].look = "prose" /\ c[k + 3].look = "blank"
  BY DialogRowsAre
<1>2. PICK a \in Nat : a = k + 2 /\ k + 3 = a + 1
  BY <1>1
<1>3. \A i \in a .. a + 1 : i = a \/ i = a + 1
  OBVIOUS
<1>4. {i \in a .. a + 1 : c[i].look # "blank"} = {a}
  BY <1>1, <1>2, <1>3
<1>5. PICK order : order = <<a>>
  OBVIOUS
<1>6. InOrder({i \in a .. a + 1 : c[i].look # "blank"}) = order
  BY <1>4, <1>5, InOrderOne
<1>7. DOMAIN order = 1 .. 1 /\ order[1] = a
  BY <1>5
<1>8. SolidRows(c, a, a + 1) = [n \in 1 .. 1 |-> c[order[n]]]
  BY <1>6, <1>7 DEF SolidRows
<1>9. \A n \in 1 .. 1 : n = 1
  OBVIOUS
<1>10. [n \in 1 .. 1 |-> c[order[n]]] = [n \in 1 .. 1 |-> c[a]]
  BY <1>7, <1>9
<1>11. [n \in 1 .. 1 |-> c[a]] = <<c[a]>>
  OBVIOUS
<1> QED BY <1>2, <1>8, <1>10, <1>11

OptionsRead(at) ==
  <<[digit |-> 1, label |-> "refuse", selected |-> at = 1],
    [digit |-> 2, label |-> "accept", selected |-> at = 2]>>

LEMMA ChoicesRead ==
  ASSUME NEW c, NEW k, NEW at, Asks(c, k, at)
  PROVE  LET order == InOrder({k + 5, k + 6})
         IN [n \in DOMAIN order |-> [digit |-> c[order[n]].num,
                                     label |-> c[order[n]].text,
                                     selected |-> c[order[n]].look = "chevron"]] = OptionsRead(at)
<1>1. /\ k \in Nat /\ at \in 1 .. 2
      /\ c[k + 5].look = (IF at = 1 THEN "chevron" ELSE "prose")
      /\ c[k + 5].num = 1 /\ c[k + 5].text = "refuse"
      /\ c[k + 6].look = (IF at = 2 THEN "chevron" ELSE "prose")
      /\ c[k + 6].num = 2 /\ c[k + 6].text = "accept"
  BY DialogRowsAre
<1>2. PICK a \in Nat, b \in Nat : a = k + 5 /\ b = k + 6 /\ a < b
  BY <1>1
<1>3. PICK order : order = <<a, b>>
  OBVIOUS
<1>4. InOrder({a, b}) = order
  BY <1>2, <1>3, InOrderTwo
<1>5. DOMAIN order = 1 .. 2 /\ order[1] = a /\ order[2] = b
  BY <1>3
<1> DEFINE choice(i) == [digit |-> c[i].num, label |-> c[i].text, selected |-> c[i].look = "chevron"]
<1>6. choice(a) = [digit |-> 1, label |-> "refuse", selected |-> at = 1]
  <2>1. (c[a].look = "chevron") = (at = 1)
    BY <1>1, <1>2
  <2>2. c[a].num = 1 /\ c[a].text = "refuse"
    BY <1>1, <1>2
  <2> QED BY <2>1, <2>2
<1>7. choice(b) = [digit |-> 2, label |-> "accept", selected |-> at = 2]
  <2>1. (c[b].look = "chevron") = (at = 2)
    BY <1>1, <1>2
  <2>2. c[b].num = 2 /\ c[b].text = "accept"
    BY <1>1, <1>2
  <2> QED BY <2>1, <2>2
<1>8. [n \in DOMAIN order |-> choice(order[n])] = <<choice(a), choice(b)>>
  <2> HIDE DEF choice
  <2>1. \A n \in 1 .. 2 : n = 1 \/ n = 2
    OBVIOUS
  <2>2. PICK x, y : x = choice(a) /\ y = choice(b)
    OBVIOUS
  <2>3. [n \in 1 .. 2 |-> choice(order[n])] = <<x, y>>
    BY <1>5, <2>1, <2>2
  <2> QED BY <1>5, <2>2, <2>3
<1>9. [n \in DOMAIN order |-> choice(order[n])] = OptionsRead(at)
  <2> HIDE DEF choice
  <2> QED BY <1>6, <1>7, <1>8 DEF OptionsRead
<1> QED BY <1>2, <1>4, <1>9

LEMMA QuestionRead ==
  ASSUME NEW c, NEW k, NEW at, Asks(c, k, at)
  PROVE  ParseQuestion(c) =
           [text |-> <<Written("prose", "question")>>,
            context |-> <<Written("prose", "command")>>, options |-> OptionsRead(at)]
<1>1. /\ c \in Seq(Row) /\ k \in Nat /\ Len(c) = k + 7
      /\ c[k + 1].look = "rule" /\ c[k + 2] = Written("prose", "command")
      /\ c[k + 3].look = "blank" /\ c[k + 4] = Written("prose", "question")
      /\ c[k + 2].look = "prose" /\ c[k + 4].look = "prose"
  BY DialogRowsAre
<1> DEFINE start == Highest(Pickers(c))
           last  == Highest({j \in Solid(c) : j < start})
           stop  == Highest(Upto(c, last, QuestionChrome \cup {"blank"}))
           short == last - stop < 6
           top   == IF short /\ stop > 0 /\ last > stop /\ c[stop].look = "blank"
                    THEN Highest(Upto(c, stop, QuestionChrome \cup {"chevron"})) ELSE 0
           body  == IF top = 0 THEN <<>> ELSE SolidRows(c, top + 1, stop)
           anchored == top # 0 /\ c[top].look \in Rules /\ Len(body) <= 14
           order == InOrder(Sequence(c, Starts(c), start))
           choices == [n \in DOMAIN order |-> [digit |-> c[order[n]].num,
                                               label |-> c[order[n]].text,
                                               selected |-> c[order[n]].look = "chevron"]]
<1>2. ParseQuestion(c) =
        IF start = 0 THEN NoQuestion
        ELSE [text |-> SubSeq(c, IF short THEN stop + 1 ELSE last - 5, last),
              context |-> IF anchored THEN body ELSE <<>>, options |-> choices]
  BY DEF ParseQuestion
<1>3. start = k + 5 /\ choices = OptionsRead(at)
  <2>1. start = k + 5 /\ Sequence(c, Starts(c), k + 5) = {k + 5, k + 6}
    BY PickerIs
  <2> HIDE DEF start
  <2> QED BY <2>1, ChoicesRead
<1> HIDE DEF start, choices
<1>4. last = k + 4
  <2>1. PICK l \in Nat : l = Len(c) /\ l = k + 7
    BY <1>1
  <2>2. PICK i \in 2 .. l : i = k + 5 /\ i - 1 = k + 4
    BY <1>1, <2>1
  <2>3. Highest({j \in Solid(c) : j < i}) = i - 1
    <3>1. c[i - 1].look # "blank"
      BY <1>1, <2>2
    <3> QED BY <1>1, <2>1, <3>1, RightAbove
  <2> QED BY <1>3, <2>2, <2>3
<1> HIDE DEF last
<1>5. /\ \A look \in QuestionChrome \cup {"blank", "chevron"} : look # "prose"
      /\ "blank" \notin QuestionChrome \cup {"chevron"} /\ "rule" \in QuestionChrome
      /\ "rule" \in Rules
  BY DEF QuestionChrome, Bullets, Statuses, Rules
<1>6. stop = k + 3
  <2>1. PICK n \in Nat : n = last /\ n = k + 4
    BY <1>1, <1>4
  <2>2. PICK h \in 0 .. n : h = Highest(Upto(c, n, QuestionChrome \cup {"blank"}))
    BY HighestUpto
  <2>3. /\ h # 0 => c[h].look \in QuestionChrome \cup {"blank"}
        /\ \A i \in 1 .. n : c[i].look \in QuestionChrome \cup {"blank"} => i <= h
    BY <2>2, HighestUpto
  <2>4. k + 3 \in 1 .. n
    BY <1>1, <2>1
  <2>5. k + 3 <= h
    BY <1>1, <2>3, <2>4
  <2>6. h # k + 4
    BY <1>1, <1>5, <2>3
  <2> QED BY <1>1, <2>1, <2>2, <2>5, <2>6
<1> HIDE DEF stop
<1>7. short
  BY <1>1, <1>4, <1>6
<1>8. top = Highest(Upto(c, stop, QuestionChrome \cup {"chevron"}))
  <2>1. stop > 0 /\ last > stop /\ c[stop].look = "blank"
    BY <1>1, <1>4, <1>6
  <2> QED BY <1>7, <2>1
<1> HIDE DEF top, short
<1>9. top = k + 1
  <2>1. PICK n \in Nat : n = stop /\ n = k + 3
    BY <1>1, <1>6
  <2>2. PICK h \in 0 .. n : h = Highest(Upto(c, n, QuestionChrome \cup {"chevron"}))
    BY HighestUpto
  <2>3. /\ h # 0 => c[h].look \in QuestionChrome \cup {"chevron"}
        /\ \A i \in 1 .. n : c[i].look \in QuestionChrome \cup {"chevron"} => i <= h
    BY <2>2, HighestUpto
  <2>4. k + 1 \in 1 .. n
    BY <1>1, <2>1
  <2>5. k + 1 <= h
    BY <1>1, <1>5, <2>3, <2>4
  <2>6. h # k + 2 /\ h # k + 3
    BY <1>1, <1>5, <2>3
  <2>7. h = k + 1
    BY <1>1, <2>1, <2>2, <2>5, <2>6
  <2> QED BY <1>8, <2>1, <2>2, <2>7
<1>10. body = <<c[k + 2]>>
  <2>1. top # 0 /\ top + 1 = k + 2
    BY <1>1, <1>9
  <2>2. body = SolidRows(c, k + 2, k + 3)
    BY <1>6, <2>1
  <2> QED BY <2>2, CommandRead
<1> HIDE DEF body
<1>11. anchored
  <2>1. top # 0 /\ c[top].look \in Rules
    BY <1>1, <1>5, <1>9
  <2>2. Len(body) = 1
    <3>1. PICK x : x = <<c[k + 2]>>
      OBVIOUS
    <3>2. Len(x) = 1
      BY <3>1
    <3> QED BY <1>10, <3>1, <3>2
  <2> QED BY <2>1, <2>2
<1> HIDE DEF anchored
<1>12. SubSeq(c, stop + 1, last) = <<c[k + 4]>>
  <2>1. stop + 1 = k + 4 /\ k + 4 \in 1 .. Len(c)
    BY <1>1, <1>6
  <2> QED BY <1>1, <1>4, <2>1, OneRow
<1>13. start # 0
  BY <1>1, <1>3
<1> QED BY <1>1, <1>2, <1>3, <1>7, <1>10, <1>11, <1>12, <1>13

LEMMA AskingVerdict ==
  ASSUME NEW c, NEW k, NEW at, Asks(c, k, at)
  PROVE  DetectState(c) = "dialog"
<1>1. c \in Seq(Row) /\ k \in Nat /\ Len(c) = k + 7 /\ c[k + 7].look = "footer"
  BY DialogRowsAre
<1>2. PICK l \in Nat : l = Len(c) /\ l \in 1 .. Len(c) /\ c[l].look = "footer"
  BY <1>1
<1>3. l > Len(c) - BottomRows /\ c[Len(c)].look # "blank"
  BY <1>2, BottomAssumption
<1> QED BY <1>1, <1>2, <1>3, FooterIsDialog

LEMMA KeyRead ==
  ASSUME NEW c, NEW k, NEW at, Asks(c, k, at)
  PROVE  StartupAction(c) = [does |-> "answer", key |-> IF at = 2 THEN "Enter" ELSE "2"]
<1>1. c \in Seq(Row) /\ k \in Nat /\ Len(c) = k + 7 /\ c[k + 7].look = "footer" /\ at \in 1 .. 2
  BY DialogRowsAre
<1> DEFINE last == Highest(Solid(c))
           t == Trimmed(c)
           wanted == {o \in ToSet(ParseQuestion(c).options) : o.label \in Wanted}
           answers == {[does |-> "answer", key |-> Key(o)] : o \in wanted}
           anchored == \E i \in DOMAIN t : i > Len(t) - BottomRows /\ t[i].text \in Anchors
           say(what) == [does |-> what, key |-> NoKey]
           state == DetectState(c)
<1>2. StartupAction(c) =
        IF last # 0 /\ c[last].look = "chevron" /\ c[last].num = 0 THEN say("prompt")
        ELSE IF state = "idle" THEN say("prompt")
        ELSE IF state # "dialog" THEN say("booting")
        ELSE IF answers # {} THEN CHOOSE a \in answers : TRUE
        ELSE IF anchored THEN [does |-> "answer", key |-> "Enter"]
        ELSE say("unknown")
  BY DEF StartupAction
<1>3. last = k + 7
  <2>1. PICK l \in Nat : l = k + 7 /\ l = Len(c) /\ l \in 1 .. l
    BY <1>1
  <2>2. PICK S \in SUBSET (1 .. l) : S = Solid(c) /\ l \in S
    <3>1. DOMAIN c = 1 .. l /\ c[l].look # "blank"
      BY <1>1, <2>1
    <3>2. Solid(c) \in SUBSET (1 .. l) /\ l \in Solid(c)
      BY <2>1, <3>1 DEF Solid
    <3> QED BY <3>2
  <2>3. Highest(S) \in S /\ \A j \in S : j <= Highest(S)
    BY <2>1, <2>2, HighestOf
  <2>4. PICK h \in 1 .. l : h = Highest(S)
    BY <2>2, <2>3
  <2>5. h = l
    BY <2>1, <2>2, <2>3, <2>4
  <2> QED BY <2>1, <2>2, <2>4, <2>5
<1>4. c[last].look = "footer" /\ state = "dialog"
  BY <1>1, <1>3, AskingVerdict
<1> HIDE DEF last, state
<1>5. PICK x, y : /\ x = [digit |-> 1, label |-> "refuse", selected |-> at = 1]
                  /\ y = [digit |-> 2, label |-> "accept", selected |-> at = 2]
  OBVIOUS
<1>6. PICK options : options = <<x, y>> /\ options = ParseQuestion(c).options
  <2>1. PICK q : q = <<Written("prose", "question")>>
    OBVIOUS
  <2>2. PICK r : r = <<Written("prose", "command")>>
    OBVIOUS
  <2>3. PICK s : s = <<x, y>>
    OBVIOUS
  <2>4. ParseQuestion(c) = [text |-> q, context |-> r, options |-> s]
    BY <1>5, <2>1, <2>2, <2>3, QuestionRead DEF OptionsRead
  <2> QED BY <2>3, <2>4
<1>7. ToSet(options) = {x, y}
  <2>1. DOMAIN options = 1 .. 2 /\ options[1] = x /\ options[2] = y
    BY <1>6
  <2>2. \A n \in 1 .. 2 : n = 1 \/ n = 2
    OBVIOUS
  <2>3. ToSet(options) = {options[n] : n \in 1 .. 2}
    BY <2>1 DEF ToSet
  <2> QED BY <2>1, <2>2, <2>3
<1>8. wanted = {y}
  <2>1. x.label = "refuse" /\ y.label = "accept"
    BY <1>5
  <2>2. "refuse" \notin Wanted /\ "accept" \in Wanted
    BY DEF Wanted
  <2> QED BY <1>6, <1>7, <2>1, <2>2
<1> HIDE DEF wanted
<1>9. Key(y) = IF at = 2 THEN "Enter" ELSE "2"
  <2>1. y.digit = 2 /\ (y.selected <=> at = 2)
    BY <1>5
  <2>2. Digits[2] = "2"
    BY DEF Digits
  <2> QED BY <2>1, <2>2 DEF Key
<1>10. PICK answer : answer = [does |-> "answer", key |-> IF at = 2 THEN "Enter" ELSE "2"]
  OBVIOUS
<1>11. answers = {answer}
  BY <1>8, <1>9, <1>10
<1> HIDE DEF answers, anchored, say
<1>12. answers # {} /\ (CHOOSE a \in answers : TRUE) = answer
  BY <1>11
<1>13. StartupAction(c) = answer
  BY <1>2, <1>4, <1>12
<1> QED BY <1>10, <1>13

(* Without a dialog no option has the cursor: a message is no option, and  *)
(* a draft is under a rule.                                                *)
LEMMA NothingAsked ==
  ASSUME NEW c, NEW n, NEW k, NEW o, NEW s, Readable(c, n, k, o, s)
  PROVE  /\ DetectState(c) # "dialog"
         /\ ParseQuestion(c) = NoQuestion
         /\ StartupAction(c) \in [does : {"prompt", "booting", "unknown"}, key : {NoKey}]
<1>1. PICK l \in Nat : l = k + o + 4
  BY DEF Readable
<1>2. k \in Nat /\ o \in Nat /\ s \in Nat
  BY DEF Readable
<1>3. /\ c \in Seq(Row) /\ Len(c) = l
      /\ \A i \in 1 .. l : c[i].look = "chevron" =>
              \/ i <= k /\ c[i].num = 0 /\ c[i].text = "message" /\ (i > 1 => c[i - 1].look # "rule")
              \/ i > k /\ i > 1 /\ c[i - 1].look = "rule"
  BY <1>1, PaintedRows
<1>4. DetectState(c) \in {"responding", "thinking", "idle"}
  BY <1>1, ScreenVerdict
<1>5. ASSUME NEW i \in Options(c) PROVE c[i].look # "chevron"
  <2>1. i \in 1 .. l /\ c[i].num > 0 /\ ~IsComposer(c, i)
    BY <1>3 DEF Options
  <2>2. SUFFICES ASSUME c[i].look = "chevron" PROVE FALSE
    OBVIOUS
  <2>3. ~(i > k)
    BY <1>1, <2>1, <2>2, ComposersOfScreen
  <2>4. c[i].num = 0
    BY <1>3, <2>1, <2>2, <2>3
  <2> QED BY <2>1, <2>4
<1>6. Pickers(c) = {}
  <2>1. ASSUME NEW i \in Pickers(c) PROVE FALSE
    <3>1. \E j \in Sequence(c, Starts(c), i) : c[j].look = "chevron"
      BY DEF Pickers
    <3>2. PICK j \in Options(c) : c[j].look = "chevron"
      BY <3>1 DEF Sequence
    <3> QED BY <1>5, <3>2
  <2> QED BY <2>1
<1>7. Highest(Pickers(c)) = 0
  BY <1>6 DEF Highest
<1>8. ParseQuestion(c) = NoQuestion
  BY <1>7 DEF ParseQuestion
<1>9. PICK v : v = DetectState(c) /\ v \in {"responding", "thinking", "idle"}
  BY <1>4
<1>10. \/ StartupAction(c) = [does |-> "prompt", key |-> NoKey]
       \/ StartupAction(c) = [does |-> "booting", key |-> NoKey]
  BY <1>9 DEF StartupAction
<1>11. StartupAction(c) \in [does : {"prompt", "booting", "unknown"}, key : {NoKey}]
  BY <1>10
<1> QED BY <1>4, <1>8, <1>11

-----------------------------------------------------------------------------
(* No dialog is left over, and none has a third row to choose.             *)
TwoOptions == ghost = 0 /\ cursor \in 0 .. 2 /\ shown.cursor \in 0 .. 2

LEMMA NextTwoOptions ==
  ASSUME TwoOptions, [Next]_vars, "chat" \notin Feature, "ghost" \notin Feature
  PROVE  TwoOptions'
<1>1. CASE Ask
  BY <1>1 DEF Ask, TwoOptions, ttyVars
<1>2. CASE PaintPanel
  BY <1>2 DEF PaintPanel, TwoOptions, cliVars, Panel
<1>3. CASE TakeUp \/ Say \/ Stop(TRUE) \/ Stop(FALSE) \/ Compact \/ Type
  <2>1. UNCHANGED <<cursor, shown, ghost>>
    BY <1>3 DEF TakeUp, Say, Stop, Compact, Type, ttyVars
  <2> QED BY <2>1 DEF TwoOptions
<1>4. CASE PaintConv \/ Record \/ Send \/ Look \/ Close \/ Stream \/ Shimmer
  <2>1. UNCHANGED <<cursor, shown, ghost>>
    BY <1>4 DEF PaintConv, Record, Send, Look, Close, Stream, Shimmer, Tick, cliVars, ttyVars
  <2> QED BY <2>1 DEF TwoOptions
<1>5. CASE UNCHANGED vars
  BY <1>5 DEF vars, cliVars, ttyVars, TwoOptions
<1> QED BY <1>1, <1>2, <1>3, <1>4, <1>5 DEF Next

LEMMA TwoOptionsInvariance ==
  ASSUME "chat" \notin Feature, "ghost" \notin Feature
  PROVE  Spec => []TwoOptions
<1>1. Init => TwoOptions
  BY DEF Init, TwoOptions, Panel
<1>2. TwoOptions /\ [Next]_vars => TwoOptions'
  BY NextTwoOptions
<1> QED BY <1>1, <1>2, PTL DEF Spec

(* What stands on the screen, torn or whole, is read for the dialog that   *)
(* it shows.                                                               *)
LEMMA ScreenAsks ==
  ASSUME TypeOK, ghost = 0, shown.cursor \in 1 .. 2, "chat" \notin Feature, Height > 6
  PROVE  \E k \in Nat : Asks(screen, k, shown.cursor)
<1>1. PICK at \in 1 .. 2 : at = shown.cursor
  OBVIOUS
<1>2. PICK n \in Nat, v \in Seq(Row) : n = painted /\ v = conv /\ n <= Len(v)
  BY DEF TypeOK
<1>3. PICK a \in Seq(Row) : a = SubSeq(v, 1, n)
  <2>1. \A i \in 1 .. n : v[i] \in Row
    BY <1>2
  <2>2. SubSeq(v, 1, n) \in Seq(Row)
    BY <2>1, SubSeqProperties
  <2> QED BY <2>2
<1>4. screen = Window(a \o DialogRows(at))
  <2>1. a \o <<>> = a
    BY ConcatEmptySeq
  <2>2. screen = Window(a \o <<>> \o DialogRows(at))
    BY <1>1, <1>2, <1>3, ScreenIsView DEF View, LeftOver, PanelRows
  <2> QED BY <2>1, <2>2
<1>5. \E k \in Nat : Asks(Window(a \o DialogRows(at)), k, at)
  BY DialogShown
<1> QED BY <1>1, <1>4, <1>5

LEMMA ScreenReadable ==
  ASSUME IInv, Steady, ghost = 0, shown.cursor = 0,
         "lines" \notin Drafts, Height > 5, "quote" \notin Feature, "number" \notin Feature
  PROVE  \E n, k, o, s : Readable(screen, n, k, o, s)
<1>1. TypeOK /\ Conversation
  BY DEF IInv
<1>2. /\ painted \in Nat /\ painted <= Len(conv)
      /\ \E k, o, s \in Nat : Paints(screen, painted, k, o, s)
  BY <1>1, PaintedScreen
<1> QED BY <1>1, <1>2 DEF Readable

(* What is done about dialogs is about the one on the screen: it is seen   *)
(* as long as it is up and no longer; parse_dialog_question relays its     *)
(* question, its command and its options, and nothing off a screen without *)
(* one, however torn; and startup_action types the key that leads to the   *)
(* wanted answer, into a dialog only.                                      *)
THEOREM DialogsRead ==
  ASSUME BottomRows > 5, Height > 6, "lines" \notin Drafts, "quote" \notin Feature,
         "number" \notin Feature, "chat" \notin Feature, "ghost" \notin Feature
  PROVE  Spec => []DialogsAreRead
<1>1. ASSUME IInv, Steady, TwoOptions PROVE DialogsAreRead
  <2>1. PICK c, at : c = screen /\ at = shown.cursor
    OBVIOUS
  <2>2. ghost = 0 /\ at \in 0 .. 2
    BY <1>1, <2>1 DEF TwoOptions
  <2>3. Settled => cursor = at
    BY <2>1 DEF Settled, Panel
  <2>4. CASE at = 0
    <3>0. Height > 5
      BY HeightAssumption
    <3>1. \E n, k, o, s : Readable(screen, n, k, o, s)
      BY <1>1, <2>1, <2>2, <2>4, <3>0, ScreenReadable
    <3>2. PICK n, k, o, s : Readable(c, n, k, o, s)
      BY <2>1, <3>1
    <3>3. /\ DetectState(c) # "dialog" /\ ParseQuestion(c) = NoQuestion
          /\ StartupAction(c) \in [does : {"prompt", "booting", "unknown"}, key : {NoKey}]
      BY <3>2, NothingAsked
    <3>4. DialogIsSeen
      BY <2>1, <2>3, <2>4, <3>3 DEF DialogIsSeen
    <3>5. QuestionIsItsOwn
      BY <2>1, <2>4, <3>3 DEF QuestionIsItsOwn
    <3>6. StartupKeysAreForDialogs
      BY <2>1, <2>4, <3>3 DEF StartupKeysAreForDialogs
    <3> QED BY <3>4, <3>5, <3>6 DEF DialogsAreRead
  <2>5. CASE at # 0
    <3>1. at \in 1 .. 2
      BY <2>2, <2>5
    <3>2. TypeOK
      BY <1>1 DEF IInv
    <3>3. \E k \in Nat : Asks(screen, k, shown.cursor)
      BY <2>1, <2>2, <3>1, <3>2, ScreenAsks
    <3>4. PICK k \in Nat : Asks(c, k, at)
      BY <2>1, <3>3
    <3>5. DetectState(c) = "dialog"
      BY <3>4, AskingVerdict
    <3>6. ParseQuestion(c) =
            [text |-> <<Written("prose", "question")>>,
             context |-> <<Written("prose", "command")>>, options |-> OptionsRead(at)]
      BY <3>4, QuestionRead
    <3>7. StartupAction(c) = [does |-> "answer", key |-> IF at = 2 THEN "Enter" ELSE "2"]
      BY <3>4, KeyRead
    <3>8. DialogIsSeen
      BY <2>1, <2>3, <2>5, <3>5 DEF DialogIsSeen
    <3>9. QuestionIsItsOwn
      BY <2>1, <2>5, <3>6 DEF QuestionIsItsOwn, OptionsRead
    <3>10. StartupKeysAreForDialogs
      BY <2>1, <2>5, <3>7 DEF StartupKeysAreForDialogs
    <3> QED BY <3>8, <3>9, <3>10 DEF DialogsAreRead
  <2> QED BY <2>4, <2>5
<1> QED BY <1>1, Invariance, SteadyInvariance, TwoOptionsInvariance, PTL

-----------------------------------------------------------------------------
(* What the stream is compared with: the last frame of the turn before      *)
(* holds nothing of this one, and a frame of this one alone fits below its  *)
(* message, with the spinner.                                               *)
Olds == \A i \in DOMAIN prevFinal : prevFinal[i].turn < sent \/ prevFinal[i].look \in Spinners
Fits ==
  FramesAreOwn /\ Len(lastStreamed) > 1 =>
    \E m \in 1 .. Len(conv) : /\ conv[m].look = "chevron" /\ conv[m].turn = sent
                              /\ Len(lastStreamed) + m <= Len(conv) + 1

Follows == Olds /\ Fits

LEMMA FollowsGrows ==
  ASSUME TypeOK, Follows, NEW rows \in Seq(Row), Draw(rows),
         lastStreamed' = lastStreamed, prevFinal' = prevFinal, sent' = sent
  PROVE  Follows'
<1>1. PICK v \in Seq(Row), n \in Nat, r \in Nat : v = conv /\ n = Len(v) /\ r = Len(rows)
  BY DEF TypeOK
<1>2. PICK w \in Seq(Row) : Joins(w, v, n, rows, r)
  BY <1>1, JoinRows
<1>3. conv' = w /\ Len(w) = n + r /\ \A i \in 1 .. n : w[i] = v[i]
  BY <1>1, <1>2 DEF Joins, Draw
<1>4. Olds'
  BY DEF Follows, Olds
<1>5. Fits'
  <2>1. SUFFICES ASSUME FramesAreOwn, Len(lastStreamed) > 1
                 PROVE  \E m \in 1 .. Len(w) : /\ w[m].look = "chevron" /\ w[m].turn = sent
                                               /\ Len(lastStreamed) + m <= Len(w) + 1
    BY <1>3 DEF Fits, FramesAreOwn
  <2>2. PICK m \in 1 .. n : /\ v[m].look = "chevron" /\ v[m].turn = sent
                            /\ Len(lastStreamed) + m <= n + 1
    BY <1>1, <2>1 DEF Follows, Fits
  <2>3. PICK f \in Nat : f = Len(lastStreamed)
    BY DEF TypeOK
  <2>4. m \in 1 .. Len(w) /\ f + m <= Len(w) + 1
    BY <1>1, <1>3, <2>2, <2>3
  <2> QED BY <1>3, <2>2, <2>3, <2>4
<1> QED BY <1>4, <1>5 DEF Follows

LEMMA FollowsStays ==
  ASSUME Follows, conv' = conv, lastStreamed' = lastStreamed, prevFinal' = prevFinal, sent' = sent
  PROVE  Follows'
BY DEF Follows, Olds, Fits, FramesAreOwn

LEMMA PrintFollows ==
  ASSUME IInv, Follows, TakeUp \/ Say \/ (\E esc \in BOOLEAN : Stop(esc)) \/ Compact
  PROVE  Follows'
<1>1. TypeOK
  BY DEF IInv
<1>2. ASSUME TakeUp PROVE \E rows \in Seq(Row) : Draw(rows)
  <2>1. PICK t \in Nat : t = turn + 1
    BY <1>1, RowsOfConv
  <2>2. MessageRows(t) \in Seq(Row)
    BY MessageEchoes DEF Echoes
  <2> QED BY <1>2, <2>1, <2>2 DEF TakeUp
<1>3. ASSUME Say PROVE \E rows \in Seq(Row) : Draw(rows)
  <2>1. PICK rows \in Sayings : Draw(rows)
    BY <1>3 DEF Say
  <2> QED BY <1>1, <2>1, SayingsSpeak DEF Speaks
<1>4. ASSUME NEW r \in Row, Draw(<<r>>) PROVE \E rows \in Seq(Row) : Draw(rows)
  <2>1. <<r>> \in Seq(Row)
    OBVIOUS
  <2> QED BY <1>4, <2>1
<1>5. "result" \in Looks /\ "done" \in Looks /\ "notice" \in Looks
  BY DEF Looks, Bullets
<1>6. ASSUME NEW esc \in BOOLEAN, Stop(esc) PROVE \E rows \in Seq(Row) : Draw(rows)
  <2>1. PICK r \in Row : r = IF esc THEN Own("result") ELSE Own("done")
    BY <1>1, <1>5, OwnIsRow
  <2> QED BY <1>4, <1>6, <2>1 DEF Stop
<1>7. ASSUME Compact PROVE \E rows \in Seq(Row) : Draw(rows)
  <2>1. PICK r \in Row : r = Own("notice")
    BY <1>1, <1>5, OwnIsRow
  <2> QED BY <1>4, <1>7, <2>1 DEF Compact
<1>8. PICK rows \in Seq(Row) : Draw(rows)
  BY <1>2, <1>3, <1>6, <1>7
<1>9. lastStreamed' = lastStreamed /\ prevFinal' = prevFinal /\ sent' = sent
  BY DEF TakeUp, Say, Stop, Compact, monVars, streamVars
<1> QED BY <1>1, <1>8, <1>9, FollowsGrows

LEMMA SendFollows ==
  ASSUME IInv, Send
  PROVE  Follows'
<1>1. TypeOK /\ FramesAreOfTheTurn
  BY DEF IInv
<1>2. prevFinal' = lastStreamed /\ lastStreamed' = NoRows /\ sent' = sent + 1
  BY DEF Send
<1>3. sent \in Nat
  BY <1>1, Numbers
<1>4. \A i \in DOMAIN lastStreamed :
        lastStreamed[i].turn < sent + 1 \/ lastStreamed[i].look \in Spinners
  BY <1>1, <1>3 DEF FramesAreOfTheTurn
<1>5. Olds'
  BY <1>2, <1>4 DEF Olds
<1>6. Len(lastStreamed') = 0
  BY <1>2 DEF NoRows
<1>7. Fits'
  BY <1>6 DEF Fits
<1> QED BY <1>5, <1>7 DEF Follows

LEMMA StreamFollows ==
  ASSUME IInv, Follows, Stream, BottomRows > 5, "lines" \notin Drafts
  PROVE  Follows'
<1>1. PICK frame : frame = Response
  OBVIOUS
<1>2. /\ looked /\ Streams /\ lastStreamed' = frame
      /\ conv' = conv /\ prevFinal' = prevFinal /\ sent' = sent
  BY <1>1 DEF Stream, Tick, cliVars
<1>3. frame \in Seq(Row)
  BY <1>1, <1>2, FrameIsOfTurn
<1>4. Olds'
  BY <1>2 DEF Follows, Olds
<1>5. Fits'
  <2>1. SUFFICES ASSUME \A i \in DOMAIN frame : frame[i].turn = sent \/ frame[i].look \in Spinners,
                        Len(frame) > 1
                 PROVE  \E m \in 1 .. Len(conv) : /\ conv[m].look = "chevron" /\ conv[m].turn = sent
                                                  /\ Len(frame) + m <= Len(conv) + 1
    BY <1>2 DEF Fits, FramesAreOwn
  <2>2. DOMAIN frame = 1 .. Len(frame)
    BY <1>3
  <2> QED BY <1>1, <1>2, <2>1, <2>2, FrameFits
<1> QED BY <1>4, <1>5 DEF Follows

LEMMA NextFollows ==
  ASSUME BottomRows > 5, "lines" \notin Drafts, IInv, Follows, [Next]_vars
  PROVE  Follows'
<1>1. CASE TakeUp \/ Say \/ Stop(TRUE) \/ Stop(FALSE) \/ Compact
  BY <1>1, PrintFollows
<1>2. CASE Ask \/ Type \/ PaintConv \/ PaintPanel \/ Record
  BY <1>2, FollowsStays DEF Ask, Type, PaintConv, PaintPanel, Record, cliVars, monVars, streamVars
<1>3. CASE Send
  BY <1>3, SendFollows
<1>4. CASE Look \/ Close \/ Shimmer
  BY <1>4, FollowsStays DEF Look, Close, Shimmer, Tick, cliVars, streamVars
<1>5. CASE Stream
  BY <1>5, StreamFollows
<1>6. CASE UNCHANGED vars
  BY <1>6, FollowsStays DEF vars, cliVars, monVars, streamVars
<1> QED BY <1>1, <1>2, <1>3, <1>4, <1>5, <1>6 DEF Next

LEMMA FollowsInvariance ==
  ASSUME BottomRows > 5, "lines" \notin Drafts
  PROVE  Spec => []Follows
<1>1. Init => Follows
  <2>1. SUFFICES ASSUME Init PROVE Follows
    OBVIOUS
  <2>2. PICK r : r = conv[2]
    OBVIOUS
  <2>3. prevFinal = NoRows /\ lastStreamed = <<r>>
    BY <2>1, <2>2 DEF Init
  <2>4. DOMAIN prevFinal = {}
    BY <2>3 DEF NoRows
  <2>5. Len(lastStreamed) = 1
    BY <2>3
  <2> QED BY <2>4, <2>5 DEF Follows, Olds, Fits
<1>2. IInv /\ Follows /\ [Next]_vars => Follows'
  BY NextFollows
<1> QED BY <1>1, <1>2, Invariance, PTL DEF Spec

-----------------------------------------------------------------------------
(* A tick over a settled screen that shows the message of the turn under    *)
(* way, at row p, and some of its reply: rows p + 1 to k, over a spinner    *)
(* and the box.                                                             *)
Replying(c, k, s, p) ==
  /\ Settles(c, k, 1, s) /\ k \in Nat /\ s \in Nat /\ p \in Nat /\ p >= 1 /\ p < k
  /\ s + k = Len(conv) /\ s + p \in 1 .. Len(conv) /\ Boundary(s + p)
  /\ c[p].look = "chevron" /\ c[p + 1].look \in Bullets /\ c[k] = conv[Len(conv)]
  /\ \A i \in p + 1 .. k : c[i].look \notin {"chevron", "done", "notice"}

LEMMA MessageAbove ==
  ASSUME NEW c, NEW k, NEW s, Settles(c, k, 1, s), busy, Begun,
         NEW e \in 1 .. Len(c), c[e].turn = turn, c[e].text = "message"
  PROVE  \E p \in Nat : Replying(c, k, s, p)
<1>1. /\ TypeOK /\ Conversation /\ Steady /\ "number" \notin Feature
      /\ k \in Nat /\ s \in Nat /\ Paints(c, Len(conv), k, 1, s)
  BY DEF Settles, Readable
<1>2. PICK n \in Nat : n = Len(conv)
  BY <1>1, RowsOfConv
<1>3. Readable(c, n, k, 1, s)
  BY <1>2 DEF Settles
<1>4. PICK l \in Nat : l = k + 1 + 4
  BY <1>1
<1>5. /\ c \in Seq(Row) /\ Len(c) = l
      /\ \A i \in 1 .. k : s + i \in 1 .. Len(conv) /\ c[i] = conv[s + i]
  BY <1>3, <1>4, PaintedRows
<1>6. s + k = n /\ \A i \in k + 1 .. k + 1 + 4 : c[i].turn = 0
  BY <1>1, <1>2 DEF Paints
<1>7. PICK m \in Nat : Boundary(m)
  BY <1>1, BoundaryExists
<1>8. m \in 1 .. n /\ conv[m].turn = turn /\ turn \in Nat /\ turn >= 1
  <2>1. m \in 1 .. n /\ m \in m .. Len(conv)
    BY <1>2, <1>7 DEF Boundary
  <2>2. conv[m].turn = turn /\ turn \in Nat
    BY <1>1, <1>7, <2>1, RowsOfConv DEF Boundary
  <2>3. turn >= 1
    BY <1>1, TurnBegun
  <2> QED BY <2>1, <2>2, <2>3
<1>9. e \in 1 .. k
  <2>1. SUFFICES ASSUME e > k PROVE FALSE
    BY <1>1, <1>5
  <2>2. e \in k + 1 .. k + 1 + 4
    BY <1>1, <1>4, <1>5, <2>1
  <2> QED BY <1>6, <1>8, <2>2
<1>10. PICK f \in 1 .. n : f = s + e /\ conv[f].turn = turn /\ conv[f].text = "message"
  BY <1>2, <1>5, <1>9
<1>11. conv[f].look = "chevron"
  BY <1>1, <1>2, <1>10 DEF Steady, TextsOfMessages
<1>12. f = m
  <2>1. ~(f < m)
    <3>1. SUFFICES ASSUME f \in 1 .. m - 1 PROVE FALSE
      BY <1>8, <1>10
    <3>2. conv[f].turn < turn
      BY <1>7, <3>1 DEF Boundary
    <3> QED BY <1>8, <1>10, <3>2
  <2>2. ~(f > m)
    <3>1. SUFFICES ASSUME f \in m + 1 .. n PROVE FALSE
      BY <1>8, <1>10
    <3> QED BY <1>2, <1>7, <1>11, <3>1 DEF Boundary
  <2> QED BY <1>8, <1>10, <2>1, <2>2
<1>13. PICK p \in Nat : p = e /\ p >= 1 /\ p <= k /\ s + p = m
  BY <1>9, <1>10, <1>12
<1>14. m # n
  <2>1. conv[n].text # "message"
    BY <1>2 DEF Begun
  <2> QED BY <1>10, <1>12, <2>1
<1>15. p < k
  BY <1>1, <1>6, <1>13, <1>14
<1>16. conv[m + 1].look \in Bullets
  <2>1. m \in 1 .. Len(conv) /\ m + 1 \in 1 .. Len(conv)
    BY <1>2, <1>8, <1>14
  <2> QED BY <1>1, <1>8, <1>11, <1>12, <2>1 DEF Steady, Opens
<1>17. c[p + 1] = conv[m + 1] /\ c[p] = conv[m] /\ c[k] = conv[n]
  <2>1. p + 1 \in 1 .. k /\ p \in 1 .. k /\ k \in 1 .. k /\ s + (p + 1) = m + 1
    BY <1>1, <1>13, <1>15
  <2> QED BY <1>5, <1>6, <1>13, <2>1
<1>18. ASSUME NEW i \in p + 1 .. k PROVE c[i].look \notin {"chevron", "done", "notice"}
  <2>1. PICK j \in Nat : j = s + i
    BY <1>1, <1>13
  <2>2. i \in 1 .. k /\ j \in m + 1 .. n /\ j \in m .. n /\ j \in 1 .. n
    BY <1>1, <1>6, <1>8, <1>13, <2>1
  <2>3. c[i] = conv[j]
    BY <1>5, <2>1, <2>2
  <2>4. conv[j].look # "chevron" /\ conv[j].turn = turn
    BY <1>2, <1>7, <2>2 DEF Boundary
  <2>5. conv[j].look \notin {"done", "notice"}
    BY <1>1, <1>2, <2>2, <2>4 DEF Steady, UnderWay
  <2> QED BY <2>3, <2>4, <2>5
<1>19. c[p].look = "chevron" /\ c[p + 1].look \in Bullets
  BY <1>11, <1>12, <1>16, <1>17
<1>20. s + p \in 1 .. Len(conv) /\ Boundary(s + p) /\ s + k = Len(conv) /\ c[k] = conv[Len(conv)]
  BY <1>2, <1>6, <1>7, <1>8, <1>13, <1>17
<1> QED BY <1>1, <1>13, <1>15, <1>18, <1>19, <1>20 DEF Replying

(* The rows of such a screen.                                              *)
LEMMA ReplyingRows ==
  ASSUME NEW c, NEW k, NEW s, NEW p, Replying(c, k, s, p)
  PROVE  /\ c \in Seq(Row) /\ Len(c) = k + 5
         /\ \A i \in 1 .. k + 5 : c[i].look # "blank" /\ (c[i].look \in Bullets => i <= k)
         /\ \A i \in p + 1 .. k : c[i].look \notin PanelChrome
         /\ c[k + 1].look \in Spinners
         /\ \A i \in k + 2 .. k + 5 : c[i].look \in PanelChrome
         /\ \/ /\ c[k + 4].look = "border"
               /\ \A i \in k + 2 .. k + 5 : c[i].look \notin {"chevron", "done", "notice"}
            \/ \A i \in k + 2 .. k + 5 : c[i].look \in BulletChrome
<1>1. /\ TypeOK /\ Conversation /\ Paints(c, Len(conv), k, 1, s)
      /\ k \in Nat /\ s \in Nat /\ p \in Nat /\ p >= 1 /\ p < k
  BY DEF Replying, Settles, Readable
<1>2. PICK n \in Nat : n = Len(conv)
  BY <1>1, RowsOfConv
<1>3. Readable(c, n, k, 1, s)
  BY <1>2 DEF Replying, Settles
<1>4. PICK l \in Nat : l = k + 1 + 4
  BY <1>1
<1>5. /\ c \in Seq(Row) /\ Len(c) = l
      /\ \A i \in 1 .. k : c[i].look \in Utterances \ {"quote"}
      /\ \A i \in 1 .. l : c[i].look \notin Dialogs \cup {"blank"}
      /\ \A i \in 1 .. l : c[i].look \in Bullets \cup {"done"} => i <= k
      /\ \A i \in 1 .. l : c[i].look \in Spinners <=> 1 = 1 /\ i = k + 1
  BY <1>3, <1>4, PaintedRows
<1>6. Edged(c, k + 1, 1)
  BY <1>1 DEF Paints
<1>7. l = k + 5 /\ k + 1 \in 1 .. l
  BY <1>1, <1>4
<1>8. ASSUME NEW i \in p + 1 .. k PROVE c[i].look \notin PanelChrome
  <2>1. i \in 1 .. k
    BY <1>1
  <2>2. c[i].look \in Utterances /\ c[i].look # "chevron"
    BY <1>5, <2>1 DEF Replying
  <2>3. \A look \in Utterances : look # "chevron" => look \notin PanelChrome
    BY DEF Utterances, PanelChrome, Bullets, Statuses
  <2> QED BY <2>2, <2>3
<1>9. \A i \in k + 2 .. k + 5 : i = k + 1 + 1 \/ i = k + 1 + 2 \/ i = k + 1 + 3 \/ i = k + 1 + 4
  BY <1>1
<1>10. k + 1 + 3 = k + 4
  BY <1>1
<1>11. CASE /\ \A i \in 1 .. 3 : c[k + 1 + i].look \in {"border", "boxed"}
            /\ c[k + 1 + 3].look = "border" /\ c[k + 1 + 4].look = "status"
  <2>1. \A i \in k + 2 .. k + 5 : c[i].look \in {"border", "boxed", "status"}
    BY <1>9, <1>11
  <2>2. \A look \in {"border", "boxed", "status"} :
          look \in PanelChrome /\ look \notin {"chevron", "done", "notice"}
    BY DEF PanelChrome, Statuses
  <2>3. c[k + 4].look = "border"
    BY <1>10, <1>11
  <2> QED BY <1>5, <1>7, <1>8, <2>1, <2>2, <2>3
<1>12. CASE /\ \A i \in 1 .. 3 : c[k + 1 + i].look \in {"rule", "chevron"}
            /\ c[k + 1 + 4].look = "busy"
  <2>1. \A i \in k + 2 .. k + 5 : c[i].look \in {"rule", "chevron", "busy"}
    BY <1>9, <1>12
  <2>2. \A look \in {"rule", "chevron", "busy"} : look \in PanelChrome /\ look \in BulletChrome
    BY DEF PanelChrome, BulletChrome, Statuses
  <2> QED BY <1>5, <1>7, <1>8, <2>1, <2>2
<1> QED BY <1>6, <1>11, <1>12 DEF Edged

LEMMA ReplyingActive ==
  ASSUME NEW c, NEW k, NEW s, NEW p, Replying(c, k, s, p)
  PROVE  ActiveBullet(c)
<1> DEFINE end == TailEnd(c, BulletChrome)
           last == Highest(Upto(c, end, Bullets))
<1>1. /\ k \in Nat /\ p \in Nat /\ p >= 1 /\ p < k /\ c[p + 1].look \in Bullets
      /\ \A i \in p + 1 .. k : c[i].look \notin {"chevron", "done", "notice"}
  BY DEF Replying
<1>2. PICK l \in Nat : l = k + 5
  BY <1>1
<1>3. /\ c \in Seq(Row) /\ Len(c) = l
      /\ \A i \in 1 .. l : c[i].look \in Bullets => i <= k
      /\ c[k + 1].look \in Spinners
      /\ \/ /\ c[k + 4].look = "border"
            /\ \A i \in k + 2 .. l : c[i].look \notin {"chevron", "done", "notice"}
         \/ \A i \in k + 2 .. l : c[i].look \in BulletChrome
  BY <1>2, ReplyingRows
<1>4. PICK e \in 0 .. l : /\ e = end /\ (e # 0 => c[e].look \notin BulletChrome)
                          /\ \A i \in 1 .. l : c[i].look \notin BulletChrome => i <= e
  BY <1>3, TailOf
<1>5. k + 1 <= e
  <2>1. k + 1 \in 1 .. l
    BY <1>1, <1>2
  <2>2. c[k + 1].look \notin BulletChrome
    BY <1>3 DEF Spinners, BulletChrome, Statuses
  <2> QED BY <1>4, <2>1, <2>2
<1>6. PICK b \in 0 .. e : /\ b = last /\ (b # 0 => c[b].look \in Bullets)
                          /\ \A i \in 1 .. e : c[i].look \in Bullets => i <= b
  <2>1. e \in Nat
    OBVIOUS
  <2> HIDE DEF end
  <2> QED BY <1>4, <2>1, HighestUpto
<1>7. p + 1 <= b /\ b <= k
  <2>1. p + 1 \in 1 .. e
    BY <1>1, <1>5
  <2>2. p + 1 <= b
    BY <1>1, <1>6, <2>1
  <2>3. b \in 1 .. l /\ b # 0
    BY <1>1, <2>2
  <2> QED BY <1>3, <1>6, <2>2, <2>3
<1>8. ASSUME NEW i \in b .. e PROVE c[i].look \notin {"done", "chevron", "notice"}
  <2>1. CASE i <= k
    <3>1. i \in p + 1 .. k
      BY <1>1, <1>7, <2>1
    <3> QED BY <1>1, <3>1
  <2>2. CASE i = k + 1
    BY <1>3, <2>2 DEF Spinners
  <2>3. CASE i > k + 1
    <3>1. i \in k + 2 .. l /\ e \in k + 2 .. l /\ e # 0
      BY <1>1, <2>3
    <3> QED BY <1>3, <1>4, <3>1
  <2> QED BY <1>1, <2>1, <2>2, <2>3
<1>9. From(c, b, e, {"done", "chevron", "notice"}) = {}
  BY <1>8 DEF From
<1>10. b # 0
  BY <1>1, <1>7
<1> QED BY <1>4, <1>6, <1>9, <1>10 DEF ActiveBullet

(* A response that no completion closes goes on to the end of the tail.    *)
LEMMA FrameWhole ==
  ASSUME NEW c \in Seq(Row), NEW count, NEW message, NEW end, end = TailEnd(c, PanelChrome),
         NEW a, a = Landmark(c, end), a # 0,
         \A i \in a + 1 .. end : c[i].look # "done", \A i \in 1 .. Len(c) : c[i].look # "blank"
  PROVE  RawResponse(c, count, message) = SubSeq(c, a, end)
<1>0. PICK b, x, y : /\ b = Counted(c, end, count) /\ x = Needle(c, end, message)
                     /\ y = LastBullet(c, end)
  OBVIOUS
<1> DEFINE tries == <<a, b, x, y>>
           hits == {n \in DOMAIN tries : tries[n] # 0}
           start == IF hits = {} THEN Pondering(c, end) ELSE tries[Min(hits)]
           closed == Highest(From(c, start + 1, end, {"done"}))
           S == {i \in Solid(c) : a <= i /\ i <= end}
<1>1. end \in 0 .. Len(c) /\ Len(c) \in Nat
  BY TailOf
<1>2. a \in 1 .. end
  <2>1. a \in 0 .. end
    BY <1>1, LandmarkIs
  <2> QED BY <1>1, <2>1
<1>3. hits # {} /\ start = a
  <2>1. hits = {} <=> a = 0 /\ b = 0 /\ x = 0 /\ y = 0
    BY FirstOfFour
  <2>2. hits # {} => tries[Min(hits)] = IF a # 0 THEN a ELSE IF b # 0 THEN b
                                         ELSE IF x # 0 THEN x ELSE y
    BY SMTT(30), FirstOfFour
  <2> HIDE DEF hits, tries
  <2> QED BY <2>1, <2>2
<1>4. RawResponse(c, count, message) =
        IF start = 0 THEN <<>>
        ELSE Region(c, start, IF hits # {} /\ closed # 0 THEN closed ELSE end)
  BY <1>0 DEF RawResponse
<1> HIDE DEF hits, tries, start
<1>5. closed = 0
  <2>1. From(c, start + 1, end, {"done"}) = {}
    BY <1>3 DEF From
  <2> QED BY <2>1 DEF Highest
<1>6. RawResponse(c, count, message) = Region(c, a, end)
  BY <1>3, <1>4, <1>5
<1>7. Highest(S) = end
  <2>1. S \in SUBSET (1 .. end) /\ end \in S
    BY <1>1, <1>2 DEF Solid
  <2> HIDE DEF S
  <2>2. Highest(S) \in 0 .. end /\ \A i \in S : i <= Highest(S)
    BY <1>1, <2>1, HighestOf
  <2>3. end <= Highest(S)
    BY <2>1, <2>2
  <2> QED BY <1>1, <2>2, <2>3
<1> QED BY <1>6, <1>7 DEF Region, S

LEMMA FrameShown ==
  ASSUME NEW c, NEW k, NEW s, NEW p, Replying(c, k, s, p), NEW count, NEW message,
         NEW frame, frame = RawResponse(c, count, message)
  PROVE  /\ frame \in Seq(Row) /\ Len(frame) >= k - p
         /\ \E i \in 1 .. Len(frame) : frame[i] = conv[Len(conv)]
<1>1. /\ k \in Nat /\ p \in Nat /\ p >= 1 /\ p < k /\ c[p].look = "chevron"
      /\ c[p + 1].look \in Bullets /\ c[k] = conv[Len(conv)]
      /\ \A i \in p + 1 .. k : c[i].look \notin {"chevron", "done", "notice"}
  BY DEF Replying
<1>2. PICK l \in Nat : l = k + 5
  BY <1>1
<1>3. /\ c \in Seq(Row) /\ Len(c) = l
      /\ \A i \in 1 .. l : c[i].look # "blank"
      /\ \A i \in p + 1 .. k : c[i].look \notin PanelChrome
      /\ c[k + 1].look \in Spinners
      /\ \A i \in k + 2 .. l : c[i].look \in PanelChrome
  BY <1>2, ReplyingRows
<1>4. PICK e \in 0 .. l : /\ e = TailEnd(c, PanelChrome) /\ (e # 0 => c[e].look \notin PanelChrome)
                          /\ \A i \in 1 .. l : c[i].look \notin PanelChrome => i <= e
  BY <1>3, TailOf
<1>5. e = k \/ e = k + 1
  <2>1. k \in p + 1 .. k /\ k \in 1 .. l
    BY <1>1, <1>2
  <2>2. k <= e
    BY <1>3, <1>4, <2>1
  <2>3. ~(e \in k + 2 .. l)
    BY <1>1, <1>3, <1>4
  <2> QED BY <1>1, <2>2, <2>3
<1>6. \A i \in p + 1 .. e : c[i].look \notin {"chevron", "done"}
  <2>1. SUFFICES ASSUME NEW i \in p + 1 .. e PROVE c[i].look \notin {"chevron", "done"}
    OBVIOUS
  <2>2. i \in p + 1 .. k \/ i = k + 1
    BY <1>1, <1>5
  <2> QED BY <1>1, <1>3, <2>2 DEF Spinners
<1>7. Highest(Upto(c, e, {"chevron"})) = p
  <2>1. PICK h \in 0 .. e : /\ h = Highest(Upto(c, e, {"chevron"}))
                            /\ h # 0 => c[h].look \in {"chevron"}
                            /\ \A i \in 1 .. e : c[i].look \in {"chevron"} => i <= h
    BY HighestUpto
  <2>2. p \in 1 .. e
    BY <1>1, <1>5
  <2>3. p <= h
    BY <1>1, <2>1, <2>2
  <2>4. ~(h \in p + 1 .. e)
    BY <1>1, <1>6, <2>1
  <2> QED BY <1>1, <2>1, <2>3, <2>4
<1>8. Lowest(From(c, p + 1, e, Bullets)) = p + 1
  <2>1. p + 1 \in Nat \ {0} /\ p + 1 \in p + 1 .. e
    BY <1>1, <1>5
  <2>2. PICK h \in 0 .. e : /\ h = Lowest(From(c, p + 1, e, Bullets)) /\ (h # 0 => h \in p + 1 .. e)
                            /\ \A i \in p + 1 .. e : c[i].look \in Bullets => h # 0 /\ h <= i
    BY <2>1, LowestFrom
  <2>3. h # 0 /\ h <= p + 1
    BY <1>1, <2>1, <2>2
  <2> QED BY <1>1, <2>2, <2>3
<1>9. Landmark(c, e) = p + 1 /\ p + 1 # 0
  BY <1>1, <1>7, <1>8 DEF Landmark
<1>10. frame = SubSeq(c, p + 1, e)
  <2>1. \A i \in (p + 1) + 1 .. e : c[i].look # "done"
    BY <1>1, <1>6
  <2>2. PICK a : a = p + 1
    OBVIOUS
  <2> QED BY <1>3, <1>4, <1>9, <2>1, <2>2, FrameWhole
<1>11. PICK a \in Nat : a = p + 1 /\ a >= 1 /\ a <= k /\ a <= e
  BY <1>1, <1>5
<1>12. /\ frame \in Seq(Row) /\ Len(frame) = e - a + 1
       /\ \A i \in 1 .. e - a + 1 : frame[i] = c[a + i - 1]
  <2>1. \A i \in a .. e : c[i] \in Row
    BY <1>3, <1>11
  <2>2. /\ SubSeq(c, a, e) \in Seq(Row)
        /\ Len(SubSeq(c, a, e)) = IF a <= e THEN e - a + 1 ELSE 0
        /\ \A i \in 1 .. e - a + 1 : SubSeq(c, a, e)[i] = c[a + i - 1]
    BY <1>11, <2>1, SubSeqProperties
  <2> QED BY <1>10, <1>11, <2>2
<1>13. k - p \in 1 .. Len(frame) /\ a + (k - p) - 1 = k
  BY <1>1, <1>5, <1>11, <1>12
<1>14. frame[k - p] = c[k]
  BY <1>12, <1>13
<1>15. Len(frame) >= k - p
  BY <1>1, <1>5, <1>11, <1>12
<1> QED BY <1>1, <1>12, <1>13, <1>14, <1>15

(* The frame before is at most one row longer, if it has nothing of another *)
(* turn: the flicker guard lets this one through.                           *)
LEMMA NoFlicker ==
  ASSUME TypeOK, Fits, FramesAreOwn, turn = sent, NEW c, NEW k, NEW s, NEW p, Replying(c, k, s, p)
  PROVE  2 * (k - p) >= Len(lastStreamed)
<1>1. /\ k \in Nat /\ s \in Nat /\ p \in Nat /\ p >= 1 /\ p < k
      /\ s + k = Len(conv) /\ s + p \in 1 .. Len(conv) /\ Boundary(s + p)
  BY DEF Replying
<1>2. PICK f \in Nat, n \in Nat : f = Len(lastStreamed) /\ n = Len(conv) /\ s + k = n
  <2>1. lastStreamed \in Seq(Row)
    BY DEF TypeOK
  <2>2. Len(lastStreamed) \in Nat /\ Len(conv) \in Nat
    BY <2>1, RowsOfConv
  <2> QED BY <1>1, <2>2
<1>3. CASE f <= 1
  BY <1>1, <1>2, <1>3
<1>4. CASE f > 1
  <2>1. PICK m \in 1 .. n : conv[m].look = "chevron" /\ conv[m].turn = sent /\ f + m <= n + 1
    BY <1>2, <1>4 DEF Fits
  <2>2. PICK b \in Nat : b = s + p /\ Boundary(b)
    BY <1>1
  <2>3. ~(m < b)
    <3>1. SUFFICES ASSUME m \in 1 .. b - 1 PROVE FALSE
      BY <2>2
    <3>2. conv[m].turn < turn /\ turn \in Nat
      BY <2>2, <3>1, RowsOfConv DEF Boundary
    <3> QED BY <2>1, <3>2
  <2>4. f + b <= n + 1
    BY <2>1, <2>2, <2>3
  <2>5. f <= k - p + 1
    BY <1>1, <1>2, <2>2, <2>4
  <2> QED BY <1>1, <1>2, <2>5
<1> QED BY <1>2, <1>3, <1>4

LEMMA TickIsFresh ==
  ASSUME IInv, Steady, Follows, [Next]_vars, looked, ~looked', observing', open', Shows, EchoShown,
         "lines" \notin Drafts, Height > 5, "quote" \notin Feature, "number" \notin Feature
  PROVE  CatchesUp
<1>1. TypeOK
  BY DEF IInv
<1>2. /\ Settled /\ cap = screen /\ busy /\ cursor = 0 /\ turn = sent /\ Begun /\ FramesAreOwn
  BY DEF Shows
<1>3. PICK k \in Nat, o \in Nat, s \in Nat : Settles(screen, k, o, s)
  BY <1>2, ScreenSettles
<1>4. PICK c : c = cap /\ Settles(c, k, 1, s)
  BY <1>2, <1>3 DEF Settles
<1>5. c \in Seq(Row)
  BY <1>4 DEF Settles, Readable, Paints
<1>6. PICK e \in 1 .. Len(c) : c[e].turn = turn /\ c[e].text = "message"
  <2>1. PICK e \in DOMAIN c : c[e].turn = sent /\ c[e].text = "message"
    BY <1>4 DEF EchoShown
  <2>2. DOMAIN c = 1 .. Len(c)
    BY <1>5
  <2> QED BY <1>2, <2>1, <2>2
<1>7. PICK p \in Nat : Replying(c, k, s, p)
  BY <1>2, <1>4, <1>6, MessageAbove
<1>8. PICK n \in Nat, l \in Nat : n = Len(conv) /\ l = k + 1 + 4
  BY <1>1, RowsOfConv
<1>9. DetectState(c) = "responding"
  <2>1. Readable(c, n, k, 1, s)
    BY <1>4, <1>8 DEF Settles
  <2>2. ActiveBullet(c)
    BY <1>7, ReplyingActive
  <2> QED BY <1>8, <2>1, <2>2, ScreenVerdict
<1>10. PICK frame : frame = Response
  OBVIOUS
<1>11. /\ frame \in Seq(Row) /\ Len(frame) >= k - p
       /\ \E i \in 1 .. Len(frame) : frame[i] = conv[Len(conv)]
  <2>1. frame = RawResponse(c, baseline, sent)
    BY <1>4, <1>10 DEF Response
  <2> QED BY <1>7, <2>1, FrameShown
<1>12. PICK i \in 1 .. Len(frame) : frame[i] = conv[Len(conv)]
  BY <1>11
<1>13. i \in DOMAIN frame
  BY <1>11
<1>14. Stream \/ Shimmer
  BY DEF Next, TakeUp, Ready, Say, Stop, Compact, Ask, Type, PaintConv, PaintPanel, Record, Send, Look,
         Close, Tick, vars, monVars
<1>15. lastStreamed' = IF Streams THEN frame ELSE lastStreamed
  BY <1>10, <1>14 DEF Stream, Shimmer
<1>16. Opened
  BY <1>14 DEF Stream, Shimmer, Tick
<1>17. Streams <=> Fresh(frame)
  <2>1. Verdict = "responding"
    BY <1>4, <1>9 DEF Verdict, Effective
  <2> QED BY <1>10, <1>16, <2>1 DEF Streams, Preface
<1>18. CASE Streams
  BY <1>12, <1>13, <1>15, <1>18 DEF CatchesUp
<1>19. CASE ~Streams
  <2>1. frame # NoRows
    BY <1>13 DEF NoRows
  <2>2. 2 * Len(frame) >= Len(lastStreamed)
    <3>1. 2 * (k - p) >= Len(lastStreamed)
      BY <1>1, <1>2, <1>7, NoFlicker DEF Follows
    <3>2. PICK f \in Nat, g \in Nat : f = Len(frame) /\ g = Len(lastStreamed)
      BY <1>1, <1>11 DEF TypeOK
    <3> QED BY <1>11, <3>1, <3>2
  <2>3. frame # prevFinal
    <3>1. PICK r : r = conv[Len(conv)] /\ r.turn = sent /\ r.look \in Utterances /\ sent \in Nat
      <4>1. Conversation /\ n \in 1 .. Len(conv)
        BY <1>8, RowsOfConv DEF IInv, Conversation, LastIsOfTurn
      <4> QED BY <1>1, <1>2, <1>8, <4>1, RowsOfConv DEF Conversation, LastIsOfTurn, Said
    <3>2. r.look \notin Spinners
      BY <3>1 DEF Utterances, Spinners, Bullets
    <3>3. SUFFICES ASSUME frame = prevFinal PROVE FALSE
      OBVIOUS
    <3>4. prevFinal[i].turn < sent \/ prevFinal[i].look \in Spinners
      BY <1>13, <3>3 DEF Follows, Olds
    <3> QED BY <1>12, <3>1, <3>2, <3>3, <3>4
  <2>4. frame = lastStreamed
    BY <1>17, <1>19, <2>1, <2>2, <2>3 DEF Fresh
  <2> QED BY <1>12, <1>13, <1>15, <1>19, <2>4 DEF CatchesUp
<1> QED BY <1>18, <1>19

(* What Monitor::poll streams keeps up with the CLI: a tick over a screen   *)
(* that shows the message of the turn under way, and some reply to it,      *)
(* leaves the last row of that reply in the stream, whatever the height of  *)
(* the terminal, the draft, the turns before and the frames streamed so     *)
(* far: neither the gate on the verdict nor the guard against stale and     *)
(* shrunken frames holds it back.                                           *)
THEOREM StreamFresh ==
  ASSUME BottomRows > 5, Height > 5, "lines" \notin Drafts,
         "quote" \notin Feature, "number" \notin Feature
  PROVE  Spec => StreamIsFresh
<1>1. IInv /\ Steady /\ Follows /\ [Next]_vars
        => [(looked /\ ~looked' /\ observing' /\ open' /\ Shows /\ EchoShown) => CatchesUp]_vars
  BY TickIsFresh
<1> QED BY <1>1, Invariance, SteadyInvariance, FollowsInvariance, PTL DEF Spec, StreamIsFresh

=============================================================================
