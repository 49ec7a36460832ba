-------------------------- MODULE EventRelayProofs --------------------------
(***************************************************************************)
(* Proofs about EventRelay, for every number of clients and events and     *)
(* every size of the buffer and of the sockets.                            *)
(*                                                                         *)
(* The order of the events rests on one count: all events up to Done have  *)
(* left the buffer for good, and what is pending, the line being written   *)
(* and the buffer, is the run of events after Done, in order.              *)
(***************************************************************************)
EXTENDS EventRelay, TLAPS

InFlight == IF line = 0 THEN 0 ELSE 1

Done == emitted - Len(buffer) - InFlight

(* The connection the next successful write may go to. *)
Target == IF lock = "flush" THEN conn
          ELSE IF client # NoClient /\ peer[client] # "gone" THEN client ELSE NoClient

(* The lock, the accept loop and the client agree on who is being served.  *)
Served ==
  /\ client # NoClient => client = conn
  /\ conn # NoClient => conn \in served
  /\ lock \in {"hello", "flush"} => conn # NoClient /\ client = NoClient
  /\ lock = "emit" => client # NoClient
  /\ lock \in {"free", "hello", "stuck"} => line = 0
  /\ lock = "emit" => line = emitted /\ line > 0

(* The buffer holds the newest events but for the line being emitted.      *)
BufferIsTail ==
  /\ Len(buffer) + InFlight <= emitted
  /\ lock = "flush" /\ line # 0 => line = Done + 1
  /\ \A i \in DOMAIN buffer :
       buffer[i] = i + emitted - Len(buffer) - (IF lock = "emit" THEN 1 ELSE 0)

(* An installed client that still has a buffer behind it is one whose      *)
(* flush failed.                                                           *)
BufferMeansGone ==
  client # NoClient /\ buffer # <<>> => peer[client] = "gone"

SentIsOld ==
  \A i \in DOMAIN sent : sent[i].n <= Done /\ sent[i].to \in served

(* Nothing has been lost since the last write to the connection in use.    *)
UpToDate ==
  sent # <<>> /\ sent[Len(sent)].to = Target /\ Target # NoClient =>
    sent[Len(sent)].n = Done

(* Before the flush nothing was sent to the connection.                    *)
FreshConn ==
  lock = "hello" => \A i \in DOMAIN sent : sent[i].to # conn

BrokenServed ==
  \A b \in broken : b.to \in served /\ (lock \in {"hello", "flush"} => b.to # conn)

IInv ==
  /\ TypeOK /\ Served /\ BufferIsTail /\ BufferMeansGone /\ SentIsOld
  /\ UpToDate /\ FreshConn /\ BrokenServed
  /\ InOrder /\ NoGap

-----------------------------------------------------------------------------
(* What push_buf leaves in the buffer.                                     *)
LEMMA PushFacts ==
  ASSUME buffer \in Seq(Event), Len(buffer) <= BufMax, overflow \in SUBSET Event,
         NEW n \in Event, Push(n)
  PROVE  LET k == IF Len(buffer) = BufMax THEN 1 ELSE 0 IN
         /\ buffer' \in Seq(Event)
         /\ Len(buffer') = Len(buffer) + 1 - k
         /\ Len(buffer') <= BufMax
         /\ \A i \in 1 .. Len(buffer') - 1 : buffer'[i] = buffer[i + k]
         /\ buffer'[Len(buffer')] = n
         /\ overflow' \in SUBSET Event
<1>1. CASE Len(buffer) = BufMax
  <2>1. buffer # <<>> /\ Tail(buffer) \in Seq(Event)
        /\ Len(Tail(buffer)) = Len(buffer) - 1 /\ Head(buffer) \in Event
    BY <1>1, BufAssumption
  <2>2. \A i \in 1 .. Len(buffer) - 1 : Tail(buffer)[i] = buffer[i + 1]
    BY <2>1
  <2>3. buffer' = Append(Tail(buffer), n) /\ overflow' = overflow \cup {Head(buffer)}
    BY <1>1, BufAssumption DEF Push
  <2> QED BY <1>1, <2>1, <2>2, <2>3
<1>2. CASE Len(buffer) # BufMax
  <2>1. buffer' = Append(buffer, n) /\ overflow' = overflow
    BY <1>2, BufAssumption DEF Push
  <2>2. Len(buffer) \in Nat /\ Len(buffer) < BufMax
    BY <1>2, BufAssumption
  <2>3. buffer' \in Seq(Event) /\ Len(buffer') = Len(buffer) + 1
    BY <2>1
  <2>4. /\ \A i \in 1 .. Len(buffer) : buffer'[i] = buffer[i]
        /\ buffer'[Len(buffer) + 1] = n
    BY <2>1
  <2> QED BY <1>2, <2>1, <2>2, <2>3, <2>4, BufAssumption
<1> QED BY <1>1, <1>2

(* Every step keeps the types. *)
LEMMA TypeStep == TypeOK /\ Served /\ [Next]_vars => TypeOK'
<1> SUFFICES ASSUME TypeOK, Served, [Next]_vars PROVE TypeOK'
  OBVIOUS
<1> USE EventAssumption, BufAssumption, ClientAssumption
<1>1. CASE PeerStep
  <2>1. CASE \E c \in Client : Connect(c)
    BY <2>1 DEF Connect, TypeOK, PeerState, history
  <2>2. CASE \E c \in Client : Reads(c)
    <3>1. PICK c \in Client : Reads(c)
      BY <2>2
    <3>2. unread' \in [Client -> Nat]
      BY <3>1 DEF Reads, TypeOK
    <3> QED BY <3>1, <3>2 DEF Reads, TypeOK, history
  <2>3. CASE \E c \in Client : Hangs(c, "mute") \/ Hangs(c, "gone")
    BY <2>3 DEF Hangs, TypeOK, PeerState, history
  <2>4. CASE \E c \in Client : StopsReading(c)
    BY <2>4 DEF StopsReading, TypeOK, history
  <2> QED BY <1>1, <2>1, <2>2, <2>3, <2>4 DEF PeerStep
<1>2. CASE EmitBuffered
  <2>1. emitted + 1 \in Event /\ emitted + 1 \in 0 .. MaxEvent
    BY <1>2 DEF EmitBuffered, TypeOK, Event
  <2> QED BY <1>2, <2>1, PushFacts DEF EmitBuffered, TypeOK, netVars
<1>3. CASE EmitBegins
  BY <1>3 DEF EmitBegins, TypeOK, LockState, netVars, history
<1>4. CASE EmitWritten
  <2>1. client \in Client /\ line \in Event
    BY <1>4 DEF EmitWritten, Served, TypeOK, Event
  <2> QED BY <1>4, <2>1 DEF EmitWritten, Written, TypeOK, LockState, Write
<1>5. CASE EmitFails
  <2>1. line \in Event
    BY <1>5 DEF EmitFails, Served, TypeOK, Event
  <2> QED BY <1>5, <2>1, PushFacts DEF EmitFails, TypeOK, LockState, netVars
<1>6. CASE \E c \in Client : Accept(c)
  BY <1>6 DEF Accept, TypeOK, LockState, netVars, history
<1>7. CASE Greeted
  BY <1>7 DEF Greeted, TypeOK, LockState, history, Served
<1>8. CASE GreetFails
  BY <1>8 DEF GreetFails, TypeOK, LockState, netVars, history
<1>9. CASE FlushTakes
  <2>1. Head(buffer) \in Event /\ Tail(buffer) \in Seq(Event)
        /\ Len(Tail(buffer)) = Len(buffer) - 1
    BY <1>9 DEF FlushTakes, TypeOK
  <2> QED BY <1>9, <2>1 DEF FlushTakes, TypeOK, netVars, history, Event
<1>10. CASE FlushWritten
  <2>1. conn \in Client /\ line \in Event
    BY <1>10 DEF FlushWritten, Served, TypeOK, Event
  <2> QED BY <1>10, <2>1 DEF FlushWritten, Written, TypeOK, Write
<1>11. CASE FlushFails
  <2>1. conn \in Client /\ line \in Event
    BY <1>11 DEF FlushFails, Served, TypeOK, Event
  <2> QED BY <1>11, <2>1 DEF FlushFails, Attached, TypeOK, LockState, Write, netVars
<1>12. CASE FlushDone
  BY <1>12 DEF FlushDone, Attached, TypeOK, LockState, netVars, history
<1>13. CASE ConnEnds
  BY <1>13 DEF ConnEnds, TypeOK, netVars, history
<1>14. CASE UNCHANGED vars
  BY <1>14 DEF vars, netVars, history, TypeOK
<1> QED
  BY <1>1, <1>2, <1>3, <1>4, <1>5, <1>6, <1>7, <1>8, <1>9, <1>10, <1>11, <1>12, <1>13, <1>14
  DEF Next, DaemonStep

-----------------------------------------------------------------------------
(* Who is being served. *)
LEMMA ServedStep == IInv /\ [Next]_vars => Served'
<1> SUFFICES ASSUME IInv, [Next]_vars PROVE Served'
  OBVIOUS
<1> USE ClientAssumption DEF IInv, TypeOK, Served
<1>1. CASE PeerStep
  BY <1>1 DEF PeerStep, Connect, Reads, StopsReading, Hangs
<1>2. CASE EmitBuffered \/ EmitBegins \/ EmitWritten \/ EmitFails
  BY <1>2 DEF EmitBuffered, EmitBegins, EmitWritten, EmitFails
<1>3. CASE \E c \in Client : Accept(c)
  BY <1>3 DEF Accept
<1>4. CASE Greeted \/ GreetFails
  BY <1>4 DEF Greeted, GreetFails
<1>5. CASE FlushTakes \/ FlushWritten \/ FlushFails \/ FlushDone
  BY <1>5 DEF FlushTakes, FlushWritten, FlushFails, FlushDone, Attached
<1>6. CASE ConnEnds
  BY <1>6 DEF ConnEnds
<1>7. CASE UNCHANGED vars
  BY <1>7 DEF vars
<1> QED BY <1>1, <1>2, <1>3, <1>4, <1>5, <1>6, <1>7 DEF Next, DaemonStep

(* Pushing an event keeps the buffer the run of the newest events.         *)
LEMMA PushKeepsTail ==
  ASSUME TypeOK, TypeOK', BufferIsTail, NEW n \in Event, Push(n),
         n = emitted', line' = 0, lock' = "free",
         \/ (emitted' = emitted + 1 /\ line = 0 /\ lock = "free")
         \/ (emitted' = emitted /\ line = emitted /\ line > 0 /\ lock = "emit")
  PROVE  BufferIsTail' /\ Done' >= Done
<1> DEFINE k == IF Len(buffer) = BufMax THEN 1 ELSE 0
<1>1. /\ Len(buffer') = Len(buffer) + 1 - k
      /\ \A i \in 1 .. Len(buffer') - 1 : buffer'[i] = buffer[i + k]
      /\ buffer'[Len(buffer')] = n
  BY PushFacts DEF TypeOK
<1>2. Len(buffer) \in Nat /\ Len(buffer') \in Nat /\ emitted \in Nat /\ emitted' \in Nat
  BY DEF TypeOK
<1>3. Len(buffer) >= k
  BY <1>2, BufAssumption
<1>4. \A i \in DOMAIN buffer' : buffer'[i] = i + emitted' - Len(buffer')
  <2> TAKE i \in DOMAIN buffer'
  <2>1. i \in 1 .. Len(buffer')
    BY DEF TypeOK
  <2>2. CASE i = Len(buffer')
    BY <2>2, <1>1, <1>2
  <2>3. CASE i # Len(buffer')
    <3>1. i \in 1 .. Len(buffer') - 1 /\ i + k \in 1 .. Len(buffer)
      BY <2>1, <2>3, <1>1, <1>2, <1>3
    <3>2. i + k \in DOMAIN buffer
      BY <3>1 DEF TypeOK
    <3>3. buffer'[i] = i + k + emitted - Len(buffer) - (IF lock = "emit" THEN 1 ELSE 0)
      BY <3>1, <3>2, <1>1, <1>2 DEF BufferIsTail
    <3>4. k \in 0 .. 1 /\ i \in Nat
      BY <2>1, <1>2
    <3>5. buffer'[i] = i + k + emitted' - 1 - Len(buffer)
      <4>1. CASE lock = "free"
        BY <4>1, <3>3, <3>4, <1>2
      <4>2. CASE lock = "emit"
        BY <4>2, <3>3, <3>4, <1>2
      <4> QED BY <4>1, <4>2
    <3> HIDE DEF k
    <3> QED BY <3>4, <3>5, <1>1, <1>2
  <2> QED BY <2>2, <2>3
<1>5. Len(buffer') <= emitted'
  BY <1>1, <1>2, <1>3 DEF BufferIsTail, InFlight
<1>6. BufferIsTail'
  BY <1>4, <1>5, <1>2 DEF BufferIsTail, InFlight
<1>7. Done' >= Done
  BY <1>1, <1>2, <1>3 DEF Done, InFlight
<1> QED BY <1>6, <1>7

(* The buffer stays the run of the newest events. *)
LEMMA BufferStep == IInv /\ [Next]_vars => BufferIsTail' /\ BufferMeansGone'
<1> SUFFICES ASSUME IInv, [Next]_vars PROVE BufferIsTail' /\ BufferMeansGone'
  OBVIOUS
<1>0. TypeOK' /\ Served'
  BY TypeStep, ServedStep DEF IInv
<1>a. emitted \in Nat /\ Len(buffer) \in Nat /\ DOMAIN buffer = 1 .. Len(buffer)
  BY DEF IInv, TypeOK
<1>1. CASE PeerStep
  BY <1>1 DEF IInv, PeerStep, Connect, Reads, StopsReading, Hangs, BufferIsTail, BufferMeansGone, InFlight,
              Done, TypeOK
<1>2. CASE EmitBuffered
  <2>1. emitted + 1 \in Event
    BY <1>2, EventAssumption DEF EmitBuffered, IInv, TypeOK, Event
  <2>2. BufferIsTail'
    BY <1>0, <1>2, <2>1, PushKeepsTail DEF EmitBuffered, IInv, Served
  <2> QED BY <1>2, <2>2 DEF EmitBuffered, BufferMeansGone
<1>3. CASE EmitBegins
  <2>1. /\ line = 0 /\ line' = emitted + 1 /\ line' # 0 /\ lock = "free" /\ lock' = "emit"
        /\ buffer' = buffer /\ emitted' = emitted + 1
    BY <1>3, <1>a DEF EmitBegins, IInv, Served
  <2>2. Len(buffer) <= emitted /\ \A i \in DOMAIN buffer : buffer[i] = i + emitted - Len(buffer)
    BY <2>1, <1>a DEF IInv, BufferIsTail, InFlight
  <2>3. \A i \in DOMAIN buffer' : buffer'[i] = i + emitted' - Len(buffer') - 1
    BY <2>1, <2>2, <1>a
  <2>4. BufferIsTail'
    BY <2>1, <2>2, <2>3, <1>a DEF BufferIsTail, InFlight
  <2> QED BY <1>3, <2>4 DEF EmitBegins, IInv, BufferMeansGone, netVars
<1>4. CASE EmitWritten
  <2>1. buffer = <<>>
    BY <1>4 DEF EmitWritten, Written, Takes, IInv, BufferMeansGone, Served
  <2> QED BY <1>4, <2>1, <1>a
      DEF EmitWritten, BufferIsTail, BufferMeansGone, InFlight
<1>5. CASE EmitFails
  <2>1. line \in Event /\ line = emitted /\ line > 0 /\ lock = "emit"
    BY <1>5 DEF EmitFails, IInv, Served, TypeOK, Event
  <2>2. BufferIsTail'
    BY <1>0, <1>5, <2>1, PushKeepsTail DEF EmitFails, IInv
  <2> QED BY <1>5, <2>2 DEF EmitFails, BufferMeansGone
<1>6. CASE (\E c \in Client : Accept(c)) \/ Greeted \/ GreetFails \/ ConnEnds
  BY <1>6, <1>a DEF Accept, Greeted, GreetFails, ConnEnds, IInv, BufferIsTail,
                    BufferMeansGone, InFlight, Served, netVars
<1>7. CASE FlushTakes
  <2>1. /\ Head(buffer) = buffer[1] /\ Len(Tail(buffer)) = Len(buffer) - 1
        /\ DOMAIN Tail(buffer) = 1 .. Len(buffer) - 1
        /\ \A i \in 1 .. Len(buffer) - 1 : Tail(buffer)[i] = buffer[i + 1]
        /\ Len(buffer) > 0
    BY <1>7, <1>a DEF FlushTakes, IInv, TypeOK
  <2>2. buffer[1] = 1 + emitted - Len(buffer)
    BY <1>7, <2>1, <1>a DEF FlushTakes, IInv, BufferIsTail
  <2>3. line' # 0 /\ line' = Done' + 1
    BY <1>7, <2>1, <2>2, <1>a DEF FlushTakes, Done, InFlight, IInv, BufferIsTail
  <2>4. \A i \in 1 .. Len(buffer) - 1 :
          Tail(buffer)[i] = i + emitted - (Len(buffer) - 1)
    BY <1>7, <2>1, <1>a DEF FlushTakes, IInv, BufferIsTail
  <2>5. BufferIsTail'
    BY <1>7, <2>1, <2>3, <2>4, <1>a DEF FlushTakes, BufferIsTail, InFlight, IInv
  <2> QED BY <1>7, <2>5 DEF FlushTakes, BufferMeansGone, IInv, Served
<1>8. CASE FlushWritten
  BY <1>8, <1>a DEF FlushWritten, IInv, BufferIsTail, BufferMeansGone, InFlight, Served
<1>9. CASE FlushFails
  BY <1>9, <1>a DEF FlushFails, Attached, Fails, IInv, BufferIsTail, BufferMeansGone,
                    InFlight, netVars
<1>10. CASE FlushDone
  BY <1>10, <1>a DEF FlushDone, Attached, IInv, BufferIsTail, BufferMeansGone, InFlight
<1>11. CASE UNCHANGED vars
  BY <1>11 DEF vars, netVars, IInv, BufferIsTail, BufferMeansGone, InFlight, Done
<1> QED
  BY <1>1, <1>2, <1>3, <1>4, <1>5, <1>6, <1>7, <1>8, <1>9, <1>10, <1>11 DEF Next, DaemonStep

-----------------------------------------------------------------------------
(* A successful write of the event after Done keeps the log of writes in   *)
(* order and without a gap.                                                *)
LEMMA WriteKeepsOrder ==
  ASSUME IInv, NEW c \in Client, NEW n \in Event, c = Target, c \in served,
         n = Done + 1, sent' = Append(sent, [to |-> c, n |-> n]),
         Done' = Done + 1, served' = served, Target' = Target
  PROVE  SentIsOld' /\ UpToDate' /\ InOrder' /\ NoGap'
<1> DEFINE w == [to |-> c, n |-> n]
<1>1. /\ Len(sent) \in Nat /\ DOMAIN sent = 1 .. Len(sent)
      /\ Len(sent') = Len(sent) + 1 /\ DOMAIN sent' = 1 .. Len(sent) + 1
      /\ \A i \in 1 .. Len(sent) : sent'[i] = sent[i] /\ sent[i] \in Write
      /\ sent'[Len(sent) + 1] = w
  <2>1. sent \in Seq(Write) /\ w \in Write
    BY DEF IInv, TypeOK, Write
  <2>2. sent' = Append(sent, w)
    OBVIOUS
  <2> HIDE DEF w
  <2> QED BY <2>1, <2>2
<1>2. w.to = c /\ w.n = n /\ Done \in Int /\ n \in Int
  BY DEF IInv, TypeOK, Done, InFlight, Event
<1> HIDE DEF w
<1>3. \A i \in 1 .. Len(sent) : sent[i].n <= Done /\ sent[i].to \in served /\ sent[i].n \in Int
  BY <1>1 DEF IInv, SentIsOld, Write, Event
<1>4. SentIsOld'
  BY <1>1, <1>2, <1>3 DEF SentIsOld
<1>5. UpToDate'
  BY <1>1, <1>2 DEF UpToDate
<1>6. InOrder'
  <2> SUFFICES ASSUME NEW i \in 1 .. Len(sent) + 1, NEW j \in 1 .. Len(sent) + 1, i < j
               PROVE  sent'[i].n < sent'[j].n
    BY <1>1 DEF InOrder
  <2>1. CASE j = Len(sent) + 1
    BY <2>1, <1>1, <1>2, <1>3
  <2>2. CASE j # Len(sent) + 1
    BY <2>2, <1>1 DEF IInv, InOrder
  <2> QED BY <2>1, <2>2
<1>7. NoGap'
  <2> SUFFICES ASSUME NEW i \in 1 .. Len(sent) + 1, i > 1, sent'[i].to = sent'[i - 1].to
               PROVE  sent'[i].n = sent'[i - 1].n + 1
    BY <1>1 DEF NoGap
  <2>1. CASE i = Len(sent) + 1
    <3>a. Len(sent) \in Nat
      BY <1>1
    <3>1. i - 1 = Len(sent) /\ Len(sent) > 0
      BY <2>1, <3>a
    <3>0. sent # <<>> /\ sent'[i - 1] = sent[Len(sent)]
      BY <3>1, <1>1
    <3>2. sent[Len(sent)].to = Target /\ Target # NoClient
      BY <2>1, <3>0, <3>1, <1>1, <1>2, ClientAssumption
    <3>3. sent[Len(sent)].n = Done
      BY <3>0, <3>2 DEF IInv, UpToDate
    <3> QED BY <2>1, <3>0, <3>1, <3>3, <1>1, <1>2
  <2>2. CASE i # Len(sent) + 1
    <3>1. i \in 1 .. Len(sent) /\ i - 1 \in 1 .. Len(sent)
      BY <2>2, <1>1
    <3> QED BY <3>1, <1>1 DEF IInv, NoGap
  <2> QED BY <2>1, <2>2
<1> QED BY <1>4, <1>5, <1>6, <1>7

(* A step that writes nothing keeps the log in order if Done does not go   *)
(* back, and the next write is either to the same connection, with Done    *)
(* where it was, or to none, or to one nothing was sent to.                *)
LEMMA NoWriteKeepsOrder ==
  ASSUME IInv, sent' = sent, Done' >= Done, served \subseteq served', Done' \in Int,
         \/ Target' = Target /\ Done' = Done
         \/ Target' = NoClient
         \/ \A i \in DOMAIN sent : sent[i].to # Target'
  PROVE  SentIsOld' /\ UpToDate' /\ InOrder' /\ NoGap'
<1>1. Done \in Int /\ \A i \in DOMAIN sent : sent[i].n \in Int
  <2>1. Done \in Int
    BY DEF IInv, TypeOK, Done, InFlight
  <2>2. \A i \in DOMAIN sent : sent[i] \in Write
    BY DEF IInv, TypeOK
  <2> QED BY <2>1, <2>2 DEF Write, Event
<1>2. SentIsOld'
  BY <1>1 DEF IInv, SentIsOld
<1>3. UpToDate'
  <2>1. sent # <<>> => Len(sent) \in DOMAIN sent
    BY DEF IInv, TypeOK
  <2> QED BY <2>1 DEF IInv, UpToDate
<1>4. InOrder' /\ NoGap'
  BY DEF IInv, InOrder, NoGap
<1> QED BY <1>2, <1>3, <1>4

LEMMA OrderStep ==
  IInv /\ [Next]_vars => SentIsOld' /\ UpToDate' /\ InOrder' /\ NoGap'
<1> SUFFICES ASSUME IInv, [Next]_vars PROVE SentIsOld' /\ UpToDate' /\ InOrder' /\ NoGap'
  OBVIOUS
<1>0. TypeOK' /\ Served' /\ BufferIsTail'
  BY TypeStep, ServedStep, BufferStep DEF IInv
<1>a. /\ emitted \in Nat /\ Len(buffer) \in Nat /\ Len(buffer') \in Nat /\ emitted' \in Nat
      /\ Done' \in Int /\ Done \in Int
  BY <1>0 DEF IInv, TypeOK, Done, InFlight
<1>1. CASE PeerStep
  <2>1. /\ sent' = sent /\ served' = served
        /\ emitted' = emitted /\ buffer' = buffer /\ line' = line
        /\ client' = client /\ conn' = conn /\ lock' = lock
        /\ \A c \in Client : peer'[c] # "gone" => peer[c] # "gone"
    BY <1>1 DEF PeerStep, Connect, Reads, StopsReading, Hangs, history, IInv, TypeOK
  <2>2. Done' = Done
    BY <2>1 DEF Done, InFlight
  <2>3. Target' = Target \/ Target' = NoClient
    BY <2>1 DEF Target, IInv, TypeOK
  <2> QED BY <1>a, <2>1, <2>2, <2>3, NoWriteKeepsOrder
<1>2. CASE EmitBuffered
  <2>1. emitted + 1 \in Event
    BY <1>2, EventAssumption DEF EmitBuffered, IInv, TypeOK, Event
  <2>2. Done' >= Done
    BY <1>0, <1>2, <2>1, PushKeepsTail DEF EmitBuffered, IInv, Served
  <2>3. Target' = NoClient
    BY <1>2 DEF EmitBuffered, Target, IInv, Served
  <2> QED BY <1>2, <1>a, <2>2, <2>3, NoWriteKeepsOrder DEF EmitBuffered
<1>3. CASE EmitBegins
  <2>1. Done' = Done
    BY <1>3, <1>a DEF EmitBegins, Done, InFlight, IInv, Served
  <2>2. Target' = Target
    BY <1>3 DEF EmitBegins, Target, netVars
  <2> QED BY <1>3, <1>a, <2>1, <2>2, NoWriteKeepsOrder DEF EmitBegins, history
<1>4. CASE EmitWritten
  <2>1. buffer = <<>> /\ client = Target /\ client \in Client /\ client \in served
    BY <1>4 DEF EmitWritten, Written, Takes, IInv, BufferMeansGone, Served, Target, TypeOK
  <2>2. line \in Event /\ line = Done + 1 /\ Done' = Done + 1
    BY <1>4, <2>1, <1>a DEF EmitWritten, IInv, Served, TypeOK, Event, Done, InFlight
  <2>3. Target' = Target
    BY <1>4, <2>1 DEF EmitWritten, Target, Served, IInv
  <2> QED BY <1>4, <2>1, <2>2, <2>3, WriteKeepsOrder DEF EmitWritten, Written
<1>5. CASE EmitFails
  <2>1. line \in Event /\ line = emitted /\ line > 0 /\ lock = "emit"
    BY <1>5 DEF EmitFails, IInv, Served, TypeOK, Event
  <2>2. Done' >= Done
    BY <1>0, <1>5, <2>1, PushKeepsTail DEF EmitFails, IInv
  <2>3. Target' = NoClient
    BY <1>5 DEF EmitFails, Target
  <2> QED BY <1>5, <1>a, <2>2, <2>3, NoWriteKeepsOrder DEF EmitFails
<1>6. CASE (\E c \in Client : Accept(c)) \/ GreetFails \/ ConnEnds
  <2>1. Done' = Done /\ Target' = NoClient
    BY <1>6, <1>a DEF Accept, GreetFails, ConnEnds, Done, InFlight, Target, IInv, Served
  <2> QED BY <1>6, <1>a, <2>1, NoWriteKeepsOrder DEF Accept, GreetFails, ConnEnds, history
<1>7. CASE Greeted
  <2>1. Done' = Done /\ \A i \in DOMAIN sent : sent[i].to # Target'
    BY <1>7, <1>a DEF Greeted, Done, InFlight, Target, IInv, FreshConn
  <2> QED BY <1>7, <1>a, <2>1, NoWriteKeepsOrder DEF Greeted, history
<1>8. CASE FlushTakes
  <2>0. Head(buffer) \in Event /\ Len(Tail(buffer)) = Len(buffer) - 1
    BY <1>8 DEF FlushTakes, IInv, TypeOK
  <2>1. Len(buffer') = Len(buffer) - 1 /\ line' # 0
    BY <1>8, <2>0 DEF FlushTakes, Event
  <2>2. Done' = Done /\ Target' = Target
    BY <1>8, <1>a, <2>1 DEF FlushTakes, Done, InFlight, Target
  <2> QED BY <1>8, <1>a, <2>2, NoWriteKeepsOrder DEF FlushTakes, history
<1>9. CASE FlushWritten
  <2>1. conn = Target /\ conn \in Client /\ conn \in served
    BY <1>9 DEF FlushWritten, IInv, Served, Target, TypeOK
  <2>2. line \in Event /\ line = Done + 1 /\ Done' = Done + 1
    BY <1>9, <1>a DEF FlushWritten, IInv, BufferIsTail, TypeOK, Event, Done, InFlight
  <2>3. Target' = Target
    BY <1>9 DEF FlushWritten, Target
  <2> QED BY <1>9, <2>1, <2>2, <2>3, WriteKeepsOrder DEF FlushWritten, Written
<1>10. CASE FlushFails
  <2>1. Done' >= Done /\ Target' = NoClient
    BY <1>10, <1>a DEF FlushFails, Attached, Fails, Done, InFlight, Target, netVars, IInv
  <2> QED BY <1>10, <1>a, <2>1, NoWriteKeepsOrder DEF FlushFails
<1>11. CASE FlushDone
  <2>1. Done' = Done /\ (Target' = Target \/ Target' = NoClient)
    BY <1>11, <1>a DEF FlushDone, Attached, Done, InFlight, Target, netVars, IInv
  <2> QED BY <1>11, <1>a, <2>1, NoWriteKeepsOrder DEF FlushDone, history
<1>12. CASE UNCHANGED vars
  <2>1. Done' = Done /\ Target' = Target
    BY <1>12 DEF vars, netVars, Done, InFlight, Target
  <2> QED BY <1>12, <1>a, <2>1, NoWriteKeepsOrder DEF vars, history
<1> QED
  BY <1>1, <1>2, <1>3, <1>4, <1>5, <1>6, <1>7, <1>8, <1>9, <1>10, <1>11, <1>12
  DEF Next, DaemonStep

(* Nothing was sent to, or lost by, a connection before its flush.         *)
LEMMA FreshStep == IInv /\ [Next]_vars => FreshConn' /\ BrokenServed'
<1> SUFFICES ASSUME IInv, [Next]_vars PROVE FreshConn' /\ BrokenServed'
  OBVIOUS
<1> USE DEF FreshConn, BrokenServed
<1>1. CASE PeerStep
  BY <1>1 DEF PeerStep, Connect, Reads, StopsReading, Hangs, history, IInv
<1>2. CASE EmitBuffered \/ EmitBegins \/ EmitFails
  BY <1>2 DEF EmitBuffered, EmitBegins, EmitFails, history, IInv
<1>3. CASE EmitWritten \/ FlushWritten
  BY <1>3 DEF EmitWritten, FlushWritten, IInv
<1>4. CASE \E c \in Client : Accept(c)
  BY <1>4 DEF Accept, history, IInv, SentIsOld
<1>5. CASE Greeted \/ GreetFails \/ FlushTakes \/ FlushDone \/ ConnEnds
  BY <1>5 DEF Greeted, GreetFails, FlushTakes, FlushDone, Attached, ConnEnds, history, IInv
<1>6. CASE FlushFails
  BY <1>6 DEF FlushFails, Attached, IInv, Served
<1>7. CASE UNCHANGED vars
  BY <1>7 DEF vars, history, IInv
<1> QED BY <1>1, <1>2, <1>3, <1>4, <1>5, <1>6, <1>7 DEF Next, DaemonStep

LEMMA InitIInv == Init => IInv
<1> SUFFICES ASSUME Init PROVE IInv
  OBVIOUS
<1> USE EventAssumption, BufAssumption DEF Init
<1>1. TypeOK
  BY DEF TypeOK, PeerState, LockState
<1>2. Served /\ BufferIsTail /\ BufferMeansGone
  BY DEF Served, BufferIsTail, BufferMeansGone, InFlight
<1>3. SentIsOld /\ UpToDate /\ FreshConn /\ BrokenServed /\ InOrder /\ NoGap
  BY DEF SentIsOld, UpToDate, FreshConn, BrokenServed, InOrder, NoGap
<1> QED BY <1>1, <1>2, <1>3 DEF IInv

LEMMA StepIInv == IInv /\ [Next]_vars => IInv'
  BY TypeStep, ServedStep, BufferStep, OrderStep, FreshStep DEF IInv

THEOREM Inductive == Spec => []IInv
  BY InitIInv, StepIInv, PTL DEF Spec

(* The types hold, and the buffer never exceeds BUF_MAX.                   *)
THEOREM Types == Spec => []TypeOK
<1>1. IInv => TypeOK
  BY DEF IInv
<1> QED BY Inductive, <1>1, PTL

-----------------------------------------------------------------------------
(* A client that breaks off during its flush costs one event at most.      *)
LEMMA BoundedLoss == Spec => []OneLostPerClient
<1>1. Init => OneLostPerClient
  BY DEF Init, OneLostPerClient
<1>2. IInv /\ OneLostPerClient /\ [Next]_vars => OneLostPerClient'
  <2> SUFFICES ASSUME IInv, OneLostPerClient, [Next]_vars PROVE OneLostPerClient'
    OBVIOUS
  <2>1. CASE FlushFails
    <3>1. \A b \in broken : b.to # conn
      BY <2>1 DEF FlushFails, IInv, BrokenServed
    <3>2. broken' = broken \cup {[to |-> conn, n |-> line]}
      BY <2>1 DEF FlushFails
    <3> QED BY <3>1, <3>2 DEF OneLostPerClient
  <2>2. CASE broken' = broken
    BY <2>2 DEF OneLostPerClient
  <2> QED
    BY <2>1, <2>2
    DEF Next, PeerStep, Connect, Reads, StopsReading, Hangs, DaemonStep, EmitBuffered, EmitBegins,
        EmitWritten, EmitFails, Accept, Greeted, GreetFails, FlushTakes, FlushWritten,
        FlushDone, ConnEnds, vars, history
<1> QED BY <1>1, <1>2, Inductive, PTL DEF Spec

(* A client that is attached, and whose flush did not fail, has the whole  *)
(* backlog: nothing stays behind in the buffer.                            *)
LEMMA BacklogFirst == Spec => []NothingHeldBack
<1>1. Init => NothingHeldBack
  BY DEF Init, NothingHeldBack
<1>2. IInv /\ NothingHeldBack /\ [Next]_vars => NothingHeldBack'
  <2> SUFFICES ASSUME IInv, NothingHeldBack, [Next]_vars PROVE NothingHeldBack'
    OBVIOUS
  <2> USE DEF NothingHeldBack
  <2>1. CASE client' = client /\ broken' = broken /\ buffer' = buffer
    BY <2>1
  <2>2. CASE EmitBuffered \/ EmitFails \/ ConnEnds
    BY <2>2 DEF EmitBuffered, EmitFails, ConnEnds
  <2>3. CASE FlushTakes
    BY <2>3 DEF FlushTakes, IInv, Served
  <2>4. CASE FlushFails
    <3> DEFINE b == [to |-> conn, n |-> line]
    <3>1. b \in broken' /\ client' = conn
      BY <2>4 DEF FlushFails, Attached
    <3>2. b.to = conn
      OBVIOUS
    <3> HIDE DEF b
    <3> QED BY <3>1, <3>2
  <2>5. CASE FlushDone
    BY <2>5 DEF FlushDone
  <2>6. CASE PeerStep \/ (\E c \in Client : Accept(c)) \/ UNCHANGED vars
    BY <2>6 DEF PeerStep, Connect, Reads, StopsReading, Hangs, Accept, vars, history
  <2>7. CASE EmitBegins \/ EmitWritten \/ Greeted \/ GreetFails \/ FlushWritten
    BY <2>7 DEF EmitBegins, EmitWritten, Greeted, GreetFails, FlushWritten, history
  <2> QED BY <2>2, <2>3, <2>4, <2>5, <2>6, <2>7 DEF Next, DaemonStep
<1> QED BY <1>1, <1>2, Inductive, PTL DEF Spec

(* Over all clients events go out at most once and in the order they were  *)
(* emitted; one client sees no gap between what was buffered and what comes *)
(* live; what was buffered comes first; a failing client costs one event.  *)
THEOREM StreamIsKept == Spec => []StreamKept
<1>1. IInv => InOrder /\ NoGap
  BY DEF IInv
<1>2. InOrder /\ NoGap /\ OneLostPerClient /\ NothingHeldBack => StreamKept
  BY DEF StreamKept
<1> QED BY <1>1, <1>2, Inductive, BoundedLoss, BacklogFirst, PTL

(* No event vanishes: it is sent, buffered, being written, pushed out of a *)
(* full buffer, or was being flushed when its client broke off.            *)
THEOREM EveryEventAccounted == Spec => []Accounted
<1>1. Init => Accounted
  BY DEF Init, Accounted
<1>2. IInv /\ Accounted /\ [Next]_vars => Accounted'
  <2> SUFFICES ASSUME IInv, Accounted, [Next]_vars, NEW n \in 1 .. emitted'
               PROVE  \/ \E i \in DOMAIN sent' : sent'[i].n = n
                      \/ \E i \in DOMAIN buffer' : buffer'[i] = n
                      \/ line' = n \/ n \in overflow' \/ \E b \in broken' : b.n = n
    BY DEF Accounted
  <2>0. /\ TypeOK /\ TypeOK' /\ emitted \in Nat /\ emitted' \in Nat /\ n \in Nat
        /\ DOMAIN buffer = 1 .. Len(buffer) /\ Len(buffer) \in Nat
        /\ DOMAIN buffer' = 1 .. Len(buffer') /\ Len(buffer') \in Nat
        /\ DOMAIN sent = 1 .. Len(sent) /\ Len(sent) \in Nat
    BY TypeStep DEF IInv, TypeOK
  <2>1. ASSUME NEW m \in Event, Push(m), n = m \/ \E i \in DOMAIN buffer : buffer[i] = n
        PROVE  (\E i \in DOMAIN buffer' : buffer'[i] = n) \/ n \in overflow'
    <3>1. /\ buffer' = Append(IF Len(buffer) >= BufMax THEN Tail(buffer) ELSE buffer, m)
          /\ Len(buffer) >= BufMax => overflow' = overflow \cup {Head(buffer)}
      BY <2>1 DEF Push
    <3>a. PICK X \in Seq(Event) : buffer' = Append(X, m)
      <4>1. Len(buffer) >= BufMax => Tail(buffer) \in Seq(Event)
        BY <2>0, BufAssumption DEF TypeOK
      <4> QED BY <3>1, <4>1, <2>0 DEF TypeOK
    <3>b. Len(X) + 1 \in DOMAIN buffer' /\ buffer'[Len(X) + 1] = m
      BY <3>a, <2>1
    <3>2. CASE n = m
      BY <3>2, <3>b
    <3>3. CASE n # m
      <4>1. PICK i \in 1 .. Len(buffer) : buffer[i] = n
        BY <2>1, <2>0, <3>3
      <4>2. CASE Len(buffer) >= BufMax
        <5>1. Len(Tail(buffer)) = Len(buffer) - 1 /\ Head(buffer) = buffer[1]
              /\ Tail(buffer) \in Seq(Event)
              /\ \A j \in 1 .. Len(buffer) - 1 : Tail(buffer)[j] = buffer[j + 1]
          BY <4>2, <2>0, BufAssumption DEF TypeOK
        <5>2. \A j \in 1 .. Len(buffer) - 1 : buffer'[j] = buffer[j + 1] /\ j \in DOMAIN buffer'
          BY <3>1, <4>2, <5>1, <2>0
        <5>3. CASE i = 1
          <6>1. n = Head(buffer)
            BY <5>3, <5>1, <4>1
          <6> QED BY <6>1, <4>2, <3>1
        <5>4. CASE i # 1
          <6>1. i - 1 \in 1 .. Len(buffer) - 1 /\ i - 1 + 1 = i
            BY <5>4, <2>0
          <6> QED BY <6>1, <5>2, <4>1
        <5> QED BY <5>3, <5>4
      <4>3. CASE ~(Len(buffer) >= BufMax)
        <5>1. buffer' = Append(buffer, m)
          BY <4>3, <3>1
        <5>2. i \in DOMAIN buffer' /\ buffer'[i] = buffer[i]
          BY <5>1, <2>0 DEF TypeOK
        <5> QED BY <5>2, <4>1
      <4> QED BY <4>2, <4>3
    <3> QED BY <3>2, <3>3
  <2>2. n \in 1 .. emitted \/ (n = emitted + 1 /\ emitted' = emitted + 1)
    <3>1. emitted' = emitted \/ emitted' = emitted + 1
      BY DEF Next, PeerStep, Connect, Reads, StopsReading, Hangs, DaemonStep, EmitBuffered, EmitBegins,
        EmitWritten, EmitFails, Accept, Greeted, GreetFails, FlushTakes, FlushWritten,
        FlushFails, FlushDone, ConnEnds, vars
    <3> QED BY <3>1, <2>0
  <2>3. n \in 1 .. emitted =>
          \/ \E i \in DOMAIN sent : sent[i].n = n
          \/ \E i \in DOMAIN buffer : buffer[i] = n
          \/ line = n \/ n \in overflow \/ \E b \in broken : b.n = n
    BY DEF Accounted
  <2>4. CASE EmitBuffered
    <3>1. emitted' \in Event /\ Push(emitted') /\ line = 0 /\ sent' = sent /\ broken' = broken
          /\ emitted' = emitted + 1 /\ overflow \subseteq overflow'
      BY <2>4, <2>0, EventAssumption DEF EmitBuffered, IInv, Served, TypeOK, Event, Push
    <3>2. n = emitted' \/ n \in 1 .. emitted
      BY <3>1, <2>2
    <3> QED BY <3>1, <3>2, <2>1, <2>3, <2>0
  <2>5. CASE EmitFails
    <3>1. line \in Event /\ Push(line) /\ sent' = sent /\ broken' = broken
          /\ emitted' = emitted /\ overflow \subseteq overflow'
      BY <2>5, <2>0 DEF EmitFails, IInv, Served, TypeOK, Event, Push
    <3> QED BY <3>1, <2>1, <2>2, <2>3, <2>0
  <2>6. CASE EmitBegins
    BY <2>6, <2>2, <2>3, <2>0 DEF EmitBegins, history, IInv, Served
  <2>7. CASE EmitWritten \/ FlushWritten
    <3>1. PICK c : sent' = Append(sent, [to |-> c, n |-> line])
      BY <2>7 DEF EmitWritten, FlushWritten, Written
    <3>2. /\ \A i \in DOMAIN sent : i \in DOMAIN sent' /\ sent'[i] = sent[i]
          /\ Len(sent) + 1 \in DOMAIN sent' /\ sent'[Len(sent) + 1] = [to |-> c, n |-> line]
      BY <3>1, <2>0 DEF TypeOK
    <3> QED BY <2>7, <3>2, <2>2, <2>3, <2>0 DEF EmitWritten, FlushWritten
  <2>8. CASE FlushTakes
    <3>1. /\ Len(Tail(buffer)) = Len(buffer) - 1 /\ Head(buffer) = buffer[1]
          /\ \A j \in 1 .. Len(buffer) - 1 : Tail(buffer)[j] = buffer[j + 1]
      BY <2>8, <2>0 DEF FlushTakes, TypeOK
    <3>2. ASSUME NEW i \in DOMAIN buffer, buffer[i] = n
          PROVE  line' = n \/ \E j \in DOMAIN buffer' : buffer'[j] = n
      <4>1. CASE i = 1
        BY <4>1, <3>1, <3>2, <2>8 DEF FlushTakes
      <4>2. CASE i # 1
        <5>1. i - 1 \in 1 .. Len(buffer) - 1
          BY <4>2, <2>0
        <5> QED BY <5>1, <3>1, <3>2, <2>8, <2>0 DEF FlushTakes
      <4> QED BY <4>1, <4>2
    <3>3. line # n /\ n \in 1 .. emitted /\ sent' = sent /\ overflow' = overflow /\ broken' = broken
      BY <2>8, <2>2, <2>0 DEF FlushTakes, history
    <3> QED BY <3>2, <3>3, <2>3
  <2>9. CASE FlushFails
    <3> DEFINE b == [to |-> conn, n |-> line]
    <3>1. /\ broken \subseteq broken' /\ b \in broken' /\ emitted' = emitted
          /\ sent' = sent /\ buffer' = buffer /\ overflow' = overflow
      BY <2>9 DEF FlushFails, Attached
    <3>2. b.n = line
      OBVIOUS
    <3>3. n \in 1 .. emitted
      BY <3>1, <2>2, <2>0
    <3> HIDE DEF b
    <3> QED BY <3>1, <3>2, <3>3, <2>3
  <2>10. CASE sent' = sent /\ buffer' = buffer /\ emitted' = emitted /\ line' = line
              /\ overflow' = overflow /\ broken' = broken
    BY <2>10, <2>2, <2>3
  <2>11. CASE PeerStep \/ (\E c \in Client : Accept(c)) \/ UNCHANGED vars
    BY <2>11, <2>10 DEF PeerStep, Connect, Reads, StopsReading, Hangs, Accept, vars, history
  <2>12. CASE Greeted \/ GreetFails \/ FlushDone \/ ConnEnds
    BY <2>12, <2>10 DEF Greeted, GreetFails, FlushDone, Attached, ConnEnds, history
  <2> QED
    BY <2>4, <2>5, <2>6, <2>7, <2>8, <2>9, <2>11, <2>12 DEF Next, DaemonStep
<1> QED BY <1>1, <1>2, Inductive, PTL DEF Spec
=============================================================================
