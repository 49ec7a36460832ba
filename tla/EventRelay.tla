----------------------------- MODULE EventRelay -----------------------------
(***************************************************************************)
(* How events leave the daemon: emit, push_buf, attach_client,             *)
(* detach_client and the control accept loop of src/src/main.rs.           *)
(*                                                                         *)
(* One client is served at a time.  While there is none, events collect in *)
(* a bounded buffer, which the next client is given first.  Every write is *)
(* awaited with the monitor's lock held, so between two writes only the    *)
(* peers move: they read, stop reading, and close.                         *)
(***************************************************************************)
EXTENDS Integers, Sequences, FiniteSets

CONSTANTS
  Client,    \* the connections made to the control socket, each used once
  NoClient,
  BufMax,    \* BUF_MAX
  SockMax,   \* the lines a socket holds before a write to it has to wait
  MaxEvent   \* bound: events are numbered 1..MaxEvent as they are emitted

ASSUME ClientAssumption == NoClient \notin Client
ASSUME BufAssumption == BufMax \in Nat \ {0}
ASSUME EventAssumption == MaxEvent \in Nat

VARIABLES
  emitted,   \* events emitted so far
  buffer,    \* Monitor.buffer
  client,    \* Monitor.client
  conn,      \* the connection the accept loop is at, or NoClient
  lock,      \* what the holder of the monitor's lock is awaiting
  line,      \* the event being written, 0 for none
  served,    \* the connections accepted so far
  peer,      \* peer[c]: state of the other end of connection c
  unread,    \* unread[c]: lines in the socket of c
  deaf,      \* the connections whose other end reads no more
  sent,      \* the writes that succeeded, oldest first (history)
  overflow,  \* events pushed out of a full buffer (history)
  broken     \* flush writes that failed, with their connection (history)

netVars == <<peer, unread, deaf>>
history == <<sent, overflow, broken>>
vars == <<emitted, buffer, client, conn, served, lock, line, netVars, history>>

Event == 1 .. MaxEvent
Write == [to : Client, n : Event]

(* "free": no one; "hello", "flush", "emit": a write; "stuck": the lock    *)
(* itself.                                                                 *)
LockState == {"free", "hello", "flush", "emit", "stuck"}

(* "mute" has closed its sending side and still reads.                     *)
PeerState == {"new", "up", "mute", "gone"}

Init ==
  /\ emitted = 0 /\ buffer = <<>>
  /\ client = NoClient /\ conn = NoClient
  /\ served = {} /\ lock = "free" /\ line = 0
  /\ peer = [c \in Client |-> "new"]
  /\ unread = [c \in Client |-> 0]
  /\ deaf = {}
  /\ sent = <<>> /\ overflow = {} /\ broken = {}

-----------------------------------------------------------------------------
(* The peers. *)

Connect(c) ==
  /\ peer[c] = "new"
  /\ peer' = [peer EXCEPT ![c] = "up"]
  /\ UNCHANGED <<emitted, buffer, client, conn, served, lock, line, unread, deaf, history>>

Reads(c) ==
  /\ peer[c] \in {"up", "mute"} /\ c \notin deaf /\ unread[c] > 0
  /\ unread' = [unread EXCEPT ![c] = @ - 1]
  /\ UNCHANGED <<emitted, buffer, client, conn, served, lock, line, peer, deaf, history>>

(* It matters to the daemon, and is noted, when the socket is full.        *)
StopsReading(c) ==
  /\ peer[c] \in {"up", "mute"} /\ c \notin deaf /\ unread[c] = SockMax
  /\ deaf' = deaf \cup {c}
  /\ UNCHANGED <<emitted, buffer, client, conn, served, lock, line, peer, unread, history>>

Hangs(c, how) ==
  /\ peer[c] = "up" \/ (peer[c] = "mute" /\ how = "gone")
  /\ peer' = [peer EXCEPT ![c] = how]
  /\ UNCHANGED <<emitted, buffer, client, conn, served, lock, line, unread, deaf, history>>

PeerStep ==
  \E c \in Client :
    Connect(c) \/ Reads(c) \/ StopsReading(c) \/ Hangs(c, "mute") \/ Hangs(c, "gone")

-----------------------------------------------------------------------------
(* write_all: done once the socket takes the line, failed once the peer    *)
(* has gone.                                                               *)
Takes(c) == peer[c] # "gone" /\ unread[c] < SockMax
Fails(c) == peer[c] = "gone"

Written(c, n) ==
  /\ Takes(c)
  /\ unread' = [unread EXCEPT ![c] = @ + 1]
  /\ sent' = Append(sent, [to |-> c, n |-> n])

(* Fault: a full buffer turns the new event away.                          *)
PushUnlessFull(n) ==
  LET full == Len(buffer) >= BufMax
  IN  /\ buffer' = IF full THEN buffer ELSE Append(buffer, n)
      /\ overflow' = IF full THEN overflow \cup {n} ELSE overflow

(* push_buf: a full buffer loses its oldest event.                         *)
Push(n) ==
  LET full == Len(buffer) >= BufMax
  IN  /\ buffer' = Append(IF full THEN Tail(buffer) ELSE buffer, n)
      /\ overflow' = IF full THEN overflow \cup {Head(buffer)} ELSE overflow

(* emit, by whoever holds the lock: a tick, or a command of the client.    *)
EmitBuffered ==
  /\ lock = "free" /\ client = NoClient /\ emitted < MaxEvent
  /\ emitted' = emitted + 1
  /\ Push(emitted + 1)
  /\ UNCHANGED <<client, conn, served, lock, line, netVars, sent, broken>>

EmitBegins ==
  /\ lock = "free" /\ client # NoClient /\ emitted < MaxEvent
  /\ emitted' = emitted + 1
  /\ lock' = "emit" /\ line' = emitted + 1
  /\ UNCHANGED <<buffer, client, conn, served, netVars, history>>

EmitWritten ==
  /\ lock = "emit" /\ Written(client, line)
  /\ lock' = "free" /\ line' = 0
  /\ UNCHANGED <<emitted, buffer, client, conn, served, peer, deaf, overflow, broken>>

(* Fault: the event whose write failed is not kept.                        *)
EmitFailsForgetting ==
  /\ lock = "emit" /\ Fails(client)
  /\ client' = NoClient
  /\ lock' = "free" /\ line' = 0
  /\ UNCHANGED <<emitted, buffer, conn, served, netVars, history>>

(* The client is dropped and the event kept for the next one.              *)
EmitFails ==
  /\ lock = "emit" /\ Fails(client)
  /\ client' = NoClient
  /\ Push(line)
  /\ lock' = "free" /\ line' = 0
  /\ UNCHANGED <<emitted, conn, served, netVars, sent, broken>>

-----------------------------------------------------------------------------
(* The accept loop. *)

Accept(c) ==
  /\ lock = "free" /\ conn = NoClient
  /\ peer[c] # "new" /\ c \notin served
  /\ conn' = c /\ served' = served \cup {c}
  /\ lock' = "hello"
  /\ UNCHANGED <<emitted, buffer, client, line, netVars, history>>

(* attach_client writes monitor_ready.                                     *)
Greeted ==
  /\ lock = "hello" /\ Takes(conn)
  /\ unread' = [unread EXCEPT ![conn] = @ + 1]
  /\ lock' = "flush"
  /\ UNCHANGED <<emitted, buffer, client, conn, served, line, peer, deaf, history>>

(* The error branch locks the monitor to detach the client.  It is the     *)
(* body of an `if let` whose scrutinee locked it too, and that guard lives *)
(* to the end of the statement: the lock waits for itself.                 *)
GreetFails ==
  /\ lock = "hello" /\ Fails(conn)
  /\ lock' = "stuck"
  /\ UNCHANGED <<emitted, buffer, client, conn, served, line, netVars, history>>

(* The flush takes the oldest event out of the buffer, then writes it.     *)
FlushTakes ==
  /\ lock = "flush" /\ line = 0 /\ buffer # <<>>
  /\ line' = Head(buffer) /\ buffer' = Tail(buffer)
  /\ UNCHANGED <<emitted, client, conn, served, lock, netVars, history>>

FlushWritten ==
  /\ lock = "flush" /\ line # 0 /\ Written(conn, line)
  /\ line' = 0
  /\ UNCHANGED <<emitted, buffer, client, conn, served, lock, peer, deaf, overflow, broken>>

Attached == client' = conn /\ lock' = "free" /\ line' = 0

(* Fault: the flush tries a failed write forever.                          *)
FlushFailsAgain ==
  /\ lock = "flush" /\ line # 0 /\ Fails(conn)
  /\ UNCHANGED vars

(* The flush stops at the first failure; the client is installed anyway.   *)
FlushFails ==
  /\ lock = "flush" /\ line # 0 /\ Fails(conn)
  /\ broken' = broken \cup {[to |-> conn, n |-> line]}
  /\ Attached
  /\ UNCHANGED <<emitted, buffer, conn, served, netVars, sent, overflow>>

FlushDone ==
  /\ lock = "flush" /\ line = 0 /\ buffer = <<>>
  /\ Attached
  /\ UNCHANGED <<emitted, buffer, conn, served, netVars, history>>

(* The accept loop reads the end of the client's input.                    *)
ConnEnds ==
  /\ lock = "free" /\ conn # NoClient
  /\ peer[conn] \in {"mute", "gone"}
  /\ client' = NoClient /\ conn' = NoClient
  /\ UNCHANGED <<emitted, buffer, served, lock, line, netVars, history>>

DaemonStep ==
  \/ EmitBuffered \/ EmitBegins \/ EmitWritten \/ EmitFails
  \/ \E c \in Client : Accept(c)
  \/ Greeted \/ GreetFails
  \/ FlushTakes \/ FlushWritten \/ FlushFails \/ FlushDone
  \/ ConnEnds

Next == PeerStep \/ DaemonStep

Spec == Init /\ [][Next]_vars

(* The daemon goes on with a write as soon as it can, and a peer that has  *)
(* not stopped reading reads on.                                           *)
FairSpec ==
  /\ Spec
  /\ WF_vars(DaemonStep)
  /\ \A c \in Client : WF_vars(Reads(c))

-----------------------------------------------------------------------------
(* Type invariant. *)
TypeOK ==
  /\ emitted \in 0 .. MaxEvent
  /\ buffer \in Seq(Event) /\ Len(buffer) <= BufMax
  /\ client \in Client \cup {NoClient}
  /\ conn \in Client \cup {NoClient}
  /\ served \in SUBSET Client
  /\ lock \in LockState
  /\ line \in 0 .. MaxEvent
  /\ peer \in [Client -> PeerState]
  /\ unread \in [Client -> Nat]
  /\ deaf \in SUBSET Client
  /\ sent \in Seq(Write)
  /\ overflow \in SUBSET Event
  /\ broken \in SUBSET Write

(* No client ever gets an event twice, and over all clients events go out  *)
(* in the order they were emitted, through buffering, overflow, failed     *)
(* writes and reconnections.                                               *)
InOrder ==
  \A i, j \in DOMAIN sent : i < j => sent[i].n < sent[j].n

(* What one client is sent has no gap: the buffer loses its oldest events, *)
(* and the live stream goes on where the flush ended.                      *)
NoGap ==
  \A i \in DOMAIN sent : i > 1 /\ sent[i].to = sent[i - 1].to =>
    sent[i].n = sent[i - 1].n + 1

(* An event that is not sent, buffered or being written was pushed out of  *)
(* a full buffer, or was being flushed when its client broke off.          *)
Accounted ==
  \A n \in 1 .. emitted :
    \/ \E i \in DOMAIN sent : sent[i].n = n
    \/ \E i \in DOMAIN buffer : buffer[i] = n
    \/ line = n \/ n \in overflow \/ \E b \in broken : b.n = n

(* A client that breaks off during the flush costs one event at most.      *)
OneLostPerClient ==
  \A a, b \in broken : a.to = b.to => a = b

(* Events buffered while there was no client reach the next one, as        *)
(* README.md has it, unless the buffer overflows.                          *)
OnlyOverflowLoses == broken = {}

(* While a client is attached and its flush did not fail, nothing is held  *)
(* back in the buffer.                                                     *)
NothingHeldBack ==
  client # NoClient /\ (\A b \in broken : b.to # client) => buffer = <<>>

(* The stream of events as a whole: in order, without a gap, at most one   *)
(* event lost to a failing client, the backlog first.                      *)
StreamKept == InOrder /\ NoGap /\ OneLostPerClient /\ NothingHeldBack

(* The client at the other end is there and reads no more.  It keeps a     *)
(* lock that waits for a full socket: no write has a time-out.             *)
Clogged == conn \in deaf /\ peer[conn] # "gone"

(* A client that has been greeted and reads on, or closes its end, or is   *)
(* cut off in the middle of a write gives the daemon its lock back, also   *)
(* one that stopped reading and hung up at last.                           *)
ServedIsFreed == lock \in {"flush", "emit"} ~> lock = "free" \/ Clogged

(* So does a client that hangs up while it is being greeted.               *)
LockFreed == lock # "free" ~> lock = "free" \/ Clogged
=============================================================================
