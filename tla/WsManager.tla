----------------------------- MODULE WsManager -----------------------------
(***************************************************************************)
(* WebSocketManager (app/transport/ws_manager.py) and the endpoint that    *)
(* runs one task per browser (app/api/routes/ws.py).  The manager's lock   *)
(* is never held across an await, and _enqueue never awaits, so each of    *)
(* its methods is one step, except disconnects, which the heartbeat makes  *)
(* one after the other.  broadcast enqueues a turn of the event loop after *)
(* it lists the sessions; for one client that is broadcasting at the later *)
(* moment, or before the client was listed.                                *)
(*                                                                         *)
(* Events are numbered in the order in which they are broadcast.  A browser*)
(* that reconnects is a new client.  Left out: the shutdown of the server, *)
(* payloads, and a sender that ends of an exception it does not catch      *)
(* (neither WebSocketDisconnect nor RuntimeError): disconnect would raise  *)
(* it where it awaits the sender, and end the heartbeat with it.           *)
(***************************************************************************)
EXTENDS OrderedMaps

CONSTANTS
  Clients,    \* the websockets
  QueueSize,  \* ws_client_queue_size
  Misses,     \* heartbeats without a pong after which a client is stale
  MaxEvents   \* bound: the events broadcast

ASSUME QueueSizeAssumption == QueueSize \in Nat \ {0}
ASSUME MissesAssumption == Misses \in Nat
ASSUME MaxEventsAssumption == MaxEvents \in Nat

VARIABLES
  published,  \* the number of events broadcast so far
  clients,    \* the keys of _clients
  route,      \* where each client's endpoint task is
  snap,       \* the last event the state it read for INIT includes
  queue,      \* each session's queue
  hand,       \* what each sender task is sending, if anything
  sender,     \* the senders that run
  missed,     \* heartbeats since the last pong
  stale,      \* the clients the heartbeat has yet to disconnect
  alive,      \* the clients that still read and answer
  asked,      \* the clients that owe a pong
  got,        \* history: INIT and the events each open socket carried
  lost        \* history: the open sockets for which something was dropped

session == <<queue, hand, sender>>
browser == <<asked, got, lost>>
vars == <<published, clients, route, snap, session, missed, stale, alive, browser>>

Message == [kind: {"event"}, n: 1..MaxEvents] \cup [kind: {"init"}, n: 0..MaxEvents]
             \cup [kind: {"ping"}, n: {0}]

Event(n) == [kind |-> "event", n |-> n]
Ping == [kind |-> "ping", n |-> 0]

Init ==
  /\ published = 0
  /\ clients = {}
  /\ route = [c \in Clients |-> "off"]
  /\ snap = [c \in Clients |-> 0]
  /\ queue = [c \in Clients |-> <<>>]
  /\ hand = [c \in Clients |-> <<>>]
  /\ sender = {}
  /\ missed = [c \in Clients |-> 0]
  /\ stale = {}
  /\ alive = Clients
  /\ asked = {}
  /\ got = [c \in Clients |-> <<>>]
  /\ lost = {}
-----------------------------------------------------------------------------
\* Mutants: a full queue refuses the new payload; nothing is dropped.
PutRefuses(q, m) == IF Len(q) < QueueSize THEN Append(q, m) ELSE q
PutUnbounded(q, m) == Append(q, m)

\* _enqueue: a full queue drops its oldest payload to take the new one.
PutNewest(q, m) ==
  IF Len(q) < QueueSize THEN Append(q, m) ELSE Append(Tail(q), m)

\* m is enqueued for the clients in cs.
Enqueue(cs, m) ==
  /\ queue' = [c \in Clients |-> IF c \in cs THEN PutNewest(queue[c], m) ELSE queue[c]]
  /\ lost' = lost \cup {c \in cs : Len(queue[c]) >= QueueSize}

\* disconnect: the session and its sender are gone, the socket is closed, and
\* the histories of that socket end.
Disconnect(c) ==
  /\ clients' = clients \ {c}
  /\ queue' = [queue EXCEPT ![c] = <<>>]
  /\ hand' = [hand EXCEPT ![c] = <<>>]
  /\ sender' = sender \ {c}
  /\ missed' = [missed EXCEPT ![c] = 0]
  /\ asked' = asked \ {c}
  /\ got' = [got EXCEPT ![c] = <<>>]
  /\ lost' = lost \ {c}
-----------------------------------------------------------------------------
\* websocket_endpoint: connect, read the state, send INIT, then receive.
Connect(c) ==
  /\ route[c] = "off"
  /\ route' = [route EXCEPT ![c] = "connected"]
  /\ clients' = clients \cup {c}
  /\ sender' = sender \cup {c}
  /\ UNCHANGED <<published, snap, queue, hand, missed, stale, alive, browser>>

ReadState(c) ==
  /\ route[c] = "connected"
  /\ route' = [route EXCEPT ![c] = "read"]
  /\ snap' = [snap EXCEPT ![c] = published]
  /\ UNCHANGED <<published, clients, session, missed, stale, alive, browser>>

SendInit(c) ==
  /\ route[c] = "read"
  /\ route' = [route EXCEPT ![c] = "receiving"]
  /\ Enqueue({c} \cap clients, [kind |-> "init", n |-> snap[c]])
  /\ UNCHANGED <<published, clients, snap, hand, sender, missed, stale, alive, asked, got>>

\* The endpoint notices that the socket is closed.
Leave(c) ==
  /\ route[c] = "receiving"
  /\ c \notin alive \/ c \notin clients
  /\ route' = [route EXCEPT ![c] = "left"]
  /\ Disconnect(c)
  /\ UNCHANGED <<published, snap, stale, alive>>

\* mark_pong
Pong(c) ==
  /\ route[c] = "receiving"
  /\ c \in alive \cap asked \cap clients
  /\ missed' = [missed EXCEPT ![c] = 0]
  /\ asked' = asked \ {c}
  /\ UNCHANGED <<published, clients, route, snap, session, stale, alive, got, lost>>
-----------------------------------------------------------------------------
\* Mutant: events go only to the clients that INIT was sent to.
BroadcastAfterInit ==
  /\ published < MaxEvents
  /\ published' = published + 1
  /\ Enqueue({c \in clients : route[c] = "receiving"}, Event(published'))
  /\ UNCHANGED <<clients, route, snap, hand, sender, missed, stale, alive, asked, got>>

Broadcast ==
  /\ published < MaxEvents
  /\ published' = published + 1
  /\ Enqueue(clients, Event(published'))
  /\ UNCHANGED <<clients, route, snap, hand, sender, missed, stale, alive, asked, got>>

\* Mutant: the newest payload is sent first.
TakeNewest(c) ==
  /\ c \in sender
  /\ hand[c] = <<>> /\ queue[c] # <<>>
  /\ hand' = [hand EXCEPT ![c] = <<queue[c][Len(queue[c])]>>]
  /\ queue' = [queue EXCEPT ![c] = SubSeq(@, 1, Len(@) - 1)]
  /\ UNCHANGED <<published, clients, route, snap, sender, missed, stale, alive, browser>>

\* _sender takes the oldest payload, sends it, and ends if that fails.
Take(c) ==
  /\ c \in sender
  /\ hand[c] = <<>> /\ queue[c] # <<>>
  /\ hand' = [hand EXCEPT ![c] = <<Head(queue[c])>>]
  /\ queue' = [queue EXCEPT ![c] = Tail(@)]
  /\ UNCHANGED <<published, clients, route, snap, sender, missed, stale, alive, browser>>

Send(c) ==
  /\ c \in sender \cap alive
  /\ hand[c] # <<>>
  /\ hand' = [hand EXCEPT ![c] = <<>>]
  /\ \/ hand[c] = <<Ping>> /\ asked' = asked \cup {c} /\ UNCHANGED got
     \/ /\ hand[c] # <<Ping>>
        /\ got' = [got EXCEPT ![c] = Append(@, hand[c][1])]
        /\ UNCHANGED asked
  /\ UNCHANGED <<published, clients, route, snap, queue, sender, missed, stale, alive, lost>>

\* What is sent to a client that vanished is lost, and may end the sender.
SendLost(c) ==
  /\ c \in sender \ alive
  /\ hand[c] # <<>>
  /\ hand' = [hand EXCEPT ![c] = <<>>]
  /\ sender' \in {sender, sender \ {c}}
  /\ UNCHANGED <<published, clients, route, snap, queue, missed, stale, alive, browser>>
-----------------------------------------------------------------------------
\* Mutant: only clients whose sender runs are looked at.
HeartbeatSenders ==
  LET gone == {c \in clients \cap sender : missed[c] = Misses}
  IN  /\ stale = {}
      /\ stale' = gone
      /\ Enqueue(clients \ gone, Ping)
      /\ missed' = [c \in Clients |-> IF c \in (clients \cap sender) \ gone
                                      THEN missed[c] + 1 ELSE missed[c]]
      /\ UNCHANGED <<published, clients, route, snap, hand, sender, alive, asked, got>>

\* One round of _heartbeat_loop: stale clients are listed, the others pinged.
Heartbeat ==
  LET gone == {c \in clients : missed[c] = Misses}
  IN  /\ stale = {}
      /\ stale' = gone
      /\ Enqueue(clients \ gone, Ping)
      /\ missed' = [c \in Clients |-> IF c \in clients \ gone THEN missed[c] + 1 ELSE missed[c]]
      /\ UNCHANGED <<published, clients, route, snap, hand, sender, alive, asked, got>>

\* A listed client is disconnected even if its pong has come meanwhile.
DropStale(c) ==
  /\ c \in stale
  /\ stale' = stale \ {c}
  /\ Disconnect(c)
  /\ UNCHANGED <<published, route, snap, alive>>

\* The browser goes away, or its network does.
Vanish(c) ==
  /\ c \in alive
  /\ alive' = alive \ {c}
  /\ UNCHANGED <<published, clients, route, snap, session, missed, stale, asked, got, lost>>
-----------------------------------------------------------------------------
Client(c) ==
  \/ Connect(c) \/ ReadState(c) \/ SendInit(c) \/ Leave(c) \/ Pong(c) \/ Vanish(c)
Sender(c) == Take(c) \/ Send(c) \/ SendLost(c)

Next ==
  \/ Broadcast \/ Heartbeat
  \/ \E c \in Clients : Client(c) \/ Sender(c) \/ DropStale(c)

Spec == Init /\ [][Next]_vars

\* The heartbeat task keeps running.
FairSpec == Spec /\ WF_vars(Heartbeat) /\ \A c \in Clients : WF_vars(DropStale(c))
-----------------------------------------------------------------------------
TypeOK ==
  /\ published \in 0..MaxEvents
  /\ clients \subseteq Clients
  /\ route \in [Clients -> {"off", "connected", "read", "receiving", "left"}]
  /\ snap \in [Clients -> 0..MaxEvents]
  /\ queue \in [Clients -> Seq(Message)]
  /\ hand \in [Clients -> Seq(Message)]
  /\ \A c \in Clients : Len(queue[c]) <= QueueSize /\ Len(hand[c]) <= 1
  /\ sender \subseteq clients
  /\ missed \in [Clients -> 0..Misses]
  /\ stale \subseteq Clients
  /\ alive \subseteq Clients
  /\ asked \subseteq Clients
  /\ got \in [Clients -> Seq(Message)]
  /\ lost \subseteq Clients

\* What has been received, is being sent, and waits, in this order.
Stream(c) == got[c] \o hand[c] \o queue[c]
EventsOf(s) == {m.n : m \in {x \in Elems(s) : x.kind = "event"}}

\* Events reach a client once and in the order in which they were broadcast,
\* whatever is dropped between them.
StreamInOrder ==
  \A c \in Clients : LET s == Stream(c) IN
    \A i, j \in DOMAIN s :
      i < j /\ s[i].kind = "event" /\ s[j].kind = "event" => s[i].n < s[j].n

\* Backpressure costs a client the oldest payloads it has not been sent, INIT and
\* queue updates like any other, although ws_manager.py:97 speaks of the "oldest
\* non-critical payload": _enqueue does not look at what it drops.  No newer event
\* is dropped for an older one, and those that wait are the newest broadcast.
NewestKept ==
  \A c \in clients : LET waiting == EventsOf(queue[c]) IN
    \A n \in waiting : n..published \subseteq waiting

\* Every event either is in the state INIT was built from or follows it: the
\* endpoint registers the client before it reads the state, so a client that
\* keeps up misses nothing.
NoGap ==
  \A c \in (clients \cap alive) \ lost :
    route[c] = "receiving"
      => (snap[c] + 1)..published \subseteq EventsOf(Stream(c))

\* A client that vanished is disconnected in the end, whether or not its
\* endpoint or its sender notice.
SilentDropped == \A c \in Clients : c \notin alive ~> c \notin clients
=============================================================================
