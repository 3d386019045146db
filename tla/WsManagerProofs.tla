-------------------------- MODULE WsManagerProofs --------------------------
(***************************************************************************)
(* What WsManager.tla promises of the events a client receives, for every  *)
(* number of clients and events and every size of the queues: proved with  *)
(* the inductive invariant IInv.                                           *)
(***************************************************************************)
EXTENDS WsManager, TLAPS

\* The events in s stand in the order of their numbers.
Ordered(s) ==
  \A i, j \in DOMAIN s :
    i < j /\ s[i].kind = "event" /\ s[j].kind = "event" => s[i].n < s[j].n

\* The events in s were broadcast before those in t.
Precedes(s, t) == \A m \in EventsOf(s), n \in EventsOf(t) : m < n

UpTo(s, k) == \A n \in EventsOf(s) : n <= k

\* The numbers of all the events in a stream: received, being sent, waiting.
Known(g, h, q) == EventsOf(g) \cup EventsOf(h) \cup EventsOf(q)

\* Each part of a stream is in order, one part precedes the next, and k is the
\* newest event of all.
StreamOf(g, h, q, k) ==
  /\ Ordered(g) /\ Ordered(q)
  /\ Precedes(g, h) /\ Precedes(g, q) /\ Precedes(h, q)
  /\ UpTo(g, k) /\ UpTo(h, k) /\ UpTo(q, k)

\* A client without a session has no stream.
SessionInv ==
  \A c \in Clients :
    /\ c \notin clients => got[c] = <<>> /\ hand[c] = <<>> /\ queue[c] = <<>>
    /\ route[c] = "off" => c \notin clients

OrderInv == \A c \in Clients : StreamOf(got[c], hand[c], queue[c], published)

\* Nothing is missing between the state a client was told and the newest event.
GapInv ==
  \A c \in (clients \cap alive) \ lost :
    route[c] \in {"read", "receiving"} => (snap[c] + 1)..published \subseteq Known(got[c], hand[c], queue[c])

IInv == TypeOK /\ SessionInv /\ OrderInv /\ NewestKept /\ GapInv
-----------------------------------------------------------------------------
\* The invariants after a step, in terms of the variables after it.
LEMMA Primed ==
  /\ OrderInv' <=> \A c \in Clients : StreamOf(got'[c], hand'[c], queue'[c], published')
  /\ NewestKept' <=> \A c \in clients' : \A n \in EventsOf(queue'[c]) :
                       n..published' \subseteq EventsOf(queue'[c])
  /\ GapInv' <=> \A c \in (clients' \cap alive') \ lost' :
                   route'[c] \in {"read", "receiving"}
                     => (snap'[c] + 1)..published' \subseteq Known(got'[c], hand'[c], queue'[c])
PROOF
  BY DEF OrderInv, NewestKept, GapInv, StreamOf, Known, Ordered, Precedes, UpTo, EventsOf, Elems

\* Messages have a kind and a number; those that the manager makes are messages.
LEMMA Messages ==
  /\ \A m \in Message : m.n \in Nat
  /\ \A k \in 1..MaxEvents : Event(k) \in Message
  /\ \A k \in 0..MaxEvents : [kind |-> "init", n |-> k] \in Message
  /\ Ping \in Message
PROOF
  BY MaxEventsAssumption DEF Message, Event, Ping

\* Events of a message, of none, and of the parts of a sequence.
LEMMA EventsOfParts ==
  /\ EventsOf(<<>>) = {}
  /\ \A s \in Seq(Message), m \in Message :
       EventsOf(Append(s, m)) = EventsOf(s) \cup (IF m.kind = "event" THEN {m.n} ELSE {})
  /\ \A s \in Seq(Message) : s # <<>> =>
       EventsOf(s) = EventsOf(Tail(s)) \cup (IF Head(s).kind = "event" THEN {Head(s).n} ELSE {})
  /\ \A s, t \in Seq(Message) : EventsOf(s \o t) = EventsOf(s) \cup EventsOf(t)
PROOF
  <1>1. EventsOf(<<>>) = {}
    BY DEF EventsOf, Elems
  <1>2. ASSUME NEW s \in Seq(Message), NEW m \in Message
        PROVE  EventsOf(Append(s, m)) = EventsOf(s) \cup (IF m.kind = "event" THEN {m.n} ELSE {})
    <2>1. Elems(Append(s, m)) = Elems(s) \cup {m}
      <3>1. ASSUME NEW x \in Elems(Append(s, m)) PROVE x \in Elems(s) \cup {m}
        BY DEF Elems
      <3>2. ASSUME NEW x \in Elems(s) PROVE x \in Elems(Append(s, m))
        <4>1. PICK i \in DOMAIN s : x = s[i]
          BY DEF Elems
        <4>2. i \in DOMAIN Append(s, m) /\ Append(s, m)[i] = x
          BY <4>1
        <4>3. QED
          BY <4>2 DEF Elems
      <3>3. m \in Elems(Append(s, m))
        <4>1. Len(s) + 1 \in DOMAIN Append(s, m) /\ Append(s, m)[Len(s) + 1] = m
          OBVIOUS
        <4>2. QED
          BY <4>1 DEF Elems
      <3>4. QED
        BY <3>1, <3>2, <3>3
    <2>2. QED
      BY <2>1 DEF EventsOf
  <1>3. ASSUME NEW s \in Seq(Message), s # <<>>
        PROVE  EventsOf(s) = EventsOf(Tail(s))
                               \cup (IF Head(s).kind = "event" THEN {Head(s).n} ELSE {})
    <2>1. Elems(s) = Elems(Tail(s)) \cup {Head(s)}
      <3>1. ASSUME NEW x \in Elems(s) PROVE x \in Elems(Tail(s)) \cup {Head(s)}
        <4>1. PICK i \in DOMAIN s : x = s[i]
          BY DEF Elems
        <4>2. CASE i = 1
          BY <1>3, <4>1, <4>2
        <4>3. CASE i # 1
          <5>1. i - 1 \in DOMAIN Tail(s) /\ Tail(s)[i - 1] = x
            BY <1>3, <4>1, <4>3
          <5>2. QED
            BY <5>1 DEF Elems
        <4>4. QED
          BY <4>2, <4>3
      <3>2. ASSUME NEW x \in Elems(Tail(s)) PROVE x \in Elems(s)
        <4>1. PICK i \in DOMAIN Tail(s) : x = Tail(s)[i]
          BY <3>2 DEF Elems
        <4>2. i + 1 \in DOMAIN s /\ s[i + 1] = x
          BY <1>3, <4>1
        <4>3. QED
          BY <4>2 DEF Elems
      <3>3. Head(s) \in Elems(s)
        <4>1. 1 \in DOMAIN s /\ s[1] = Head(s)
          BY <1>3
        <4>2. QED
          BY <4>1 DEF Elems
      <3>4. QED
        BY <3>1, <3>2, <3>3
    <2>2. QED
      BY <2>1 DEF EventsOf
  <1>4. ASSUME NEW s \in Seq(Message), NEW t \in Seq(Message)
        PROVE  EventsOf(s \o t) = EventsOf(s) \cup EventsOf(t)
    <2>1. Elems(s \o t) = Elems(s) \cup Elems(t)
      <3>1. ASSUME NEW x \in Elems(s \o t) PROVE x \in Elems(s) \cup Elems(t)
        BY <3>1 DEF Elems
      <3>2. ASSUME NEW x \in Elems(s) PROVE x \in Elems(s \o t)
        <4>1. PICK i \in DOMAIN s : x = s[i]
          BY <3>2 DEF Elems
        <4>2. i \in DOMAIN (s \o t) /\ (s \o t)[i] = x
          BY <4>1
        <4>3. QED
          BY <4>2 DEF Elems
      <3>3. ASSUME NEW x \in Elems(t) PROVE x \in Elems(s \o t)
        <4>1. PICK i \in DOMAIN t : x = t[i]
          BY <3>3 DEF Elems
        <4>2. Len(s) + i \in DOMAIN (s \o t) /\ (s \o t)[Len(s) + i] = x
          BY <4>1
        <4>3. QED
          BY <4>2 DEF Elems
      <3>4. QED
        BY <3>1, <3>2, <3>3
    <2>2. QED
      BY <2>1 DEF EventsOf
  <1>5. QED
    BY <1>1, <1>2, <1>3, <1>4

LEMMA EventNumbers ==
  ASSUME NEW s \in Seq(Message)
  PROVE  EventsOf(s) \subseteq Nat
PROOF
  BY Messages DEF EventsOf, Elems

\* Two parts in order, of which one precedes the other, are in order together.
LEMMA OrderedParts ==
  ASSUME NEW s \in Seq(Message), NEW t \in Seq(Message),
         Ordered(s), Ordered(t), Precedes(s, t)
  PROVE  Ordered(s \o t)
PROOF
  <1>1. SUFFICES ASSUME NEW i \in DOMAIN (s \o t), NEW j \in DOMAIN (s \o t), i < j,
                        (s \o t)[i].kind = "event", (s \o t)[j].kind = "event"
                 PROVE  (s \o t)[i].n < (s \o t)[j].n
    BY DEF Ordered
  <1>2. i \in 1..Len(s) + Len(t) /\ j \in 1..Len(s) + Len(t)
    OBVIOUS
  <1>3. CASE j <= Len(s)
    BY <1>1, <1>2, <1>3 DEF Ordered
  <1>4. CASE i > Len(s)
    <2>1. /\ i - Len(s) \in DOMAIN t /\ (s \o t)[i] = t[i - Len(s)]
          /\ j - Len(s) \in DOMAIN t /\ (s \o t)[j] = t[j - Len(s)]
      BY <1>1, <1>2, <1>4
    <2>2. i - Len(s) < j - Len(s)
      BY <1>1, <1>2
    <2>3. QED
      BY <1>1, <2>1, <2>2 DEF Ordered
  <1>5. CASE i <= Len(s) /\ j > Len(s)
    <2>1. /\ i \in DOMAIN s /\ (s \o t)[i] = s[i]
          /\ j - Len(s) \in DOMAIN t /\ (s \o t)[j] = t[j - Len(s)]
      BY <1>2, <1>5
    <2>2. s[i].n \in EventsOf(s) /\ t[j - Len(s)].n \in EventsOf(t)
      BY <1>1, <2>1 DEF EventsOf, Elems
    <2>3. QED
      BY <2>1, <2>2 DEF Precedes
  <1>6. QED
    BY <1>2, <1>3, <1>4, <1>5

\* One message is in order.
LEMMA OrderedShort ==
  ASSUME NEW s \in Seq(Message), Len(s) <= 1
  PROVE  Ordered(s)
PROOF
  BY DEF Ordered

\* A sequence without its oldest message is in order, and that one precedes it.
LEMMA OrderedTail ==
  ASSUME NEW s \in Seq(Message), s # <<>>, Ordered(s)
  PROVE  /\ Tail(s) \in Seq(Message) /\ Head(s) \in Message /\ <<Head(s)>> \in Seq(Message)
         /\ Len(Tail(s)) = Len(s) - 1
         /\ Ordered(Tail(s))
         /\ Precedes(<<Head(s)>>, Tail(s))
PROOF
  <1>1. /\ Tail(s) \in Seq(Message) /\ Head(s) \in Message /\ <<Head(s)>> \in Seq(Message)
        /\ Len(Tail(s)) = Len(s) - 1
    OBVIOUS
  <1>2. \A i \in DOMAIN Tail(s) : i + 1 \in DOMAIN s /\ Tail(s)[i] = s[i + 1] /\ 1 < i + 1
    OBVIOUS
  <1>3. Ordered(Tail(s))
    <2>1. SUFFICES ASSUME NEW i \in DOMAIN Tail(s), NEW j \in DOMAIN Tail(s), i < j,
                          Tail(s)[i].kind = "event", Tail(s)[j].kind = "event"
                   PROVE  Tail(s)[i].n < Tail(s)[j].n
      BY DEF Ordered
    <2>2. i + 1 < j + 1
      BY <2>1, <1>1
    <2>3. QED
      BY <1>2, <2>1, <2>2 DEF Ordered
  <1>4. Precedes(<<Head(s)>>, Tail(s))
    <2>1. SUFFICES ASSUME NEW m \in EventsOf(<<Head(s)>>), NEW n \in EventsOf(Tail(s))
                   PROVE  m < n
      BY DEF Precedes
    <2>2. 1 \in DOMAIN s /\ s[1].kind = "event" /\ s[1].n = m
      BY <2>1 DEF EventsOf, Elems
    <2>3. PICK i \in DOMAIN Tail(s) : Tail(s)[i].kind = "event" /\ Tail(s)[i].n = n
      BY <2>1 DEF EventsOf, Elems
    <2>4. QED
      BY <1>2, <2>2, <2>3 DEF Ordered
  <1>5. QED
    BY <1>1, <1>3, <1>4
-----------------------------------------------------------------------------
\* What _enqueue leaves in a queue: an event is put last and the oldest message
\* may go, which is the oldest event if it is one.
LEMMA PutFacts ==
  ASSUME NEW q \in Seq(Message), Len(q) <= QueueSize, NEW m \in Message, Ordered(q)
  PROVE  LET r == PutNewest(q, m)
             new == IF m.kind = "event" THEN {m.n} ELSE {}
         IN  /\ r \in Seq(Message) /\ Len(r) <= QueueSize
             /\ EventsOf(r) \subseteq EventsOf(q) \cup new
             /\ new \subseteq EventsOf(r)
             /\ \A k \in EventsOf(q) \ EventsOf(r), n \in EventsOf(q) \cap EventsOf(r) : k < n
             /\ Len(q) < QueueSize => EventsOf(r) = EventsOf(q) \cup new
             /\ (\A n \in EventsOf(q), k \in new : n < k) => Ordered(r)
PROOF
  <1> DEFINE new == IF m.kind = "event" THEN {m.n} ELSE {}
  <1>1. ASSUME NEW s \in Seq(Message), Ordered(s), \A n \in EventsOf(s), k \in new : n < k
        PROVE  Ordered(Append(s, m))
    <2>1. <<m>> \in Seq(Message) /\ Append(s, m) = s \o <<m>> /\ Len(<<m>>) = 1
      OBVIOUS
    <2>2. EventsOf(<<m>>) \subseteq new
      BY DEF EventsOf, Elems
    <2>3. Precedes(s, <<m>>)
      BY <1>1, <2>2, Zenon DEF Precedes
    <2>4. Ordered(<<m>>)
      BY DEF Ordered
    <2>5. QED
      BY <1>1, <2>1, <2>3, <2>4, OrderedParts
  <1>2. CASE Len(q) < QueueSize
    <2>1. PutNewest(q, m) = Append(q, m)
      BY <1>2 DEF PutNewest
    <2>2. EventsOf(Append(q, m)) = EventsOf(q) \cup new
      BY EventsOfParts
    <2>3. Append(q, m) \in Seq(Message) /\ Len(Append(q, m)) <= QueueSize
      BY <1>2, QueueSizeAssumption
    <2>4. QED
      BY <1>1, <2>1, <2>2, <2>3
  <1>3. CASE ~(Len(q) < QueueSize)
    <2>1. PutNewest(q, m) = Append(Tail(q), m)
      BY <1>3 DEF PutNewest
    <2>2. q # <<>>
      BY <1>3, QueueSizeAssumption
    <2>3. /\ Tail(q) \in Seq(Message) /\ Head(q) \in Message /\ <<Head(q)>> \in Seq(Message)
          /\ Len(Tail(q)) = Len(q) - 1
          /\ Ordered(Tail(q)) /\ Precedes(<<Head(q)>>, Tail(q))
      BY <2>2, OrderedTail
    <2>4. EventsOf(Append(Tail(q), m)) = EventsOf(Tail(q)) \cup new
      BY <2>3, EventsOfParts
    <2>5. EventsOf(q) = EventsOf(Tail(q)) \cup (IF Head(q).kind = "event" THEN {Head(q).n} ELSE {})
      BY <2>2, EventsOfParts
    <2>6. ASSUME NEW k \in EventsOf(q) \ EventsOf(Append(Tail(q), m)),
                 NEW n \in EventsOf(q) \cap EventsOf(Append(Tail(q), m))
          PROVE  k < n
      <3>1. Head(q).kind = "event" /\ k = Head(q).n
        BY <2>4, <2>5, <2>6
      <3>2. EventsOf(<<Head(q)>>) = {k}
        BY <3>1 DEF EventsOf, Elems
      <3>3. n \in EventsOf(Tail(q))
        BY <2>4, <2>5, <2>6, <3>1
      <3>4. QED
        BY <2>3, <3>2, <3>3 DEF Precedes
    <2>7. Append(Tail(q), m) \in Seq(Message) /\ Len(Append(Tail(q), m)) <= QueueSize
      BY <2>2, <2>3, QueueSizeAssumption
    <2>8. (\A n \in EventsOf(q), k \in new : n < k) => Ordered(Append(Tail(q), m))
      BY <1>1, <2>3, <2>5
    <2>9. QED
      BY <1>3, <2>1, <2>4, <2>5, <2>6, <2>7, <2>8
  <1>4. QED
    BY <1>2, <1>3
-----------------------------------------------------------------------------
LEMMA InitHolds == Init => IInv
PROOF
  <1> SUFFICES ASSUME Init PROVE IInv
    OBVIOUS
  <1>1. TypeOK
    BY QueueSizeAssumption, MissesAssumption, MaxEventsAssumption DEF Init, TypeOK
  <1>2. OrderInv
    BY EventsOfParts DEF Init, OrderInv, StreamOf, Ordered, Precedes, UpTo
  <1>3. QED
    BY <1>1, <1>2 DEF Init, IInv, SessionInv, NewestKept, GapInv

\* m is enqueued for the clients cs: for all clients with the next number if it
\* is an event.
LEMMA EnqueueKeeps ==
  ASSUME IInv, NEW cs \in SUBSET clients, NEW m \in Message, Enqueue(cs, m),
         \/ m.kind = "event" /\ m.n = published + 1 /\ published' = published + 1 /\ cs = clients
         \/ m.kind # "event" /\ published' = published,
         UNCHANGED <<clients, hand, got>>
  PROVE  /\ queue' \in [Clients -> Seq(Message)]
         /\ \A c \in Clients : Len(queue'[c]) <= QueueSize
         /\ \A c \in Clients : c \notin clients => queue'[c] = <<>>
         /\ OrderInv'
         /\ NewestKept'
         /\ \A c \in clients \ lost' :
              Known(got[c], hand[c], queue[c]) \cup (published + 1)..published'
                \subseteq Known(got[c], hand[c], queue'[c])
PROOF
  <1> DEFINE new == IF m.kind = "event" THEN {m.n} ELSE {}
  <1>1. /\ queue \in [Clients -> Seq(Message)] /\ published \in Nat /\ published' \in Nat
        /\ hand \in [Clients -> Seq(Message)] /\ got \in [Clients -> Seq(Message)]
        /\ clients \subseteq Clients
        /\ \A c \in Clients : Len(queue[c]) <= QueueSize
        /\ hand' = hand /\ got' = got /\ clients' = clients
        /\ \A k \in new : k = published + 1 /\ k = published'
        /\ published <= published'
    BY MaxEventsAssumption DEF IInv, TypeOK
  <1>2. \A c \in Clients : /\ c \in cs => queue'[c] = PutNewest(queue[c], m)
                           /\ c \notin cs => queue'[c] = queue[c]
    BY DEF Enqueue
  <1>3. \A c \in Clients : /\ Ordered(got[c]) /\ Ordered(queue[c])
                           /\ Precedes(got[c], hand[c]) /\ Precedes(got[c], queue[c])
                           /\ Precedes(hand[c], queue[c])
                           /\ UpTo(got[c], published) /\ UpTo(hand[c], published)
                           /\ UpTo(queue[c], published)
    BY DEF IInv, OrderInv, StreamOf
  <1>4. \A c \in Clients : /\ EventsOf(queue[c]) \subseteq Nat /\ EventsOf(hand[c]) \subseteq Nat
                           /\ EventsOf(got[c]) \subseteq Nat
    BY <1>1, EventNumbers
  <1>5. \A c \in Clients : \A n \in EventsOf(queue[c]), k \in new : n < k
    BY <1>1, <1>3, <1>4 DEF UpTo
  <1>6. ASSUME NEW c \in cs
        PROVE  /\ queue'[c] \in Seq(Message) /\ Len(queue'[c]) <= QueueSize
               /\ EventsOf(queue'[c]) \subseteq EventsOf(queue[c]) \cup new
               /\ new \subseteq EventsOf(queue'[c])
               /\ \A k \in EventsOf(queue[c]) \ EventsOf(queue'[c]),
                     n \in EventsOf(queue[c]) \cap EventsOf(queue'[c]) : k < n
               /\ Len(queue[c]) < QueueSize => EventsOf(queue'[c]) = EventsOf(queue[c]) \cup new
               /\ Ordered(queue'[c])
    <2>1. c \in Clients /\ queue[c] \in Seq(Message) /\ Len(queue[c]) <= QueueSize
      BY <1>1
    <2>2. queue'[c] = PutNewest(queue[c], m)
      BY <1>2, <2>1
    <2>3. Ordered(queue[c]) /\ (\A n \in EventsOf(queue[c]), k \in new : n < k)
      BY <1>3, <1>5, <2>1
    <2>4. QED
      BY <2>1, <2>2, <2>3, PutFacts
  <1>7. queue' \in [Clients -> Seq(Message)]
    BY <1>1, <1>2, <1>6 DEF Enqueue
  <1>8. \A c \in Clients : /\ Len(queue'[c]) <= QueueSize /\ Ordered(queue'[c])
                           /\ EventsOf(queue'[c]) \subseteq EventsOf(queue[c]) \cup new
    BY <1>1, <1>2, <1>3, <1>6
  <1>9. \A c \in Clients : c \notin clients => queue'[c] = <<>>
    BY <1>2 DEF IInv, SessionInv
  <1>10. OrderInv'
    <2>1. ASSUME NEW c \in Clients
          PROVE  /\ UpTo(got[c], published') /\ UpTo(hand[c], published')
                 /\ UpTo(queue'[c], published')
                 /\ Precedes(got[c], queue'[c]) /\ Precedes(hand[c], queue'[c])
      <3>1. ASSUME NEW n \in EventsOf(got[c]) \cup EventsOf(hand[c]) \cup EventsOf(queue[c])
            PROVE  n \in Nat /\ n <= published
        BY <1>3, <1>4, <2>1 DEF UpTo
      <3>2. UpTo(got[c], published') /\ UpTo(hand[c], published')
        BY <1>1, <3>1 DEF UpTo
      <3>3. UpTo(queue'[c], published')
        <4>1. ASSUME NEW n \in EventsOf(queue'[c]) PROVE n <= published'
          <5>1. n \in EventsOf(queue[c]) \/ n \in new
            BY <1>8, <2>1, <4>1
          <5>2. QED
            BY <1>1, <3>1, <5>1
        <4>2. QED
          BY <4>1 DEF UpTo
      <3>4. Precedes(got[c], queue'[c]) /\ Precedes(hand[c], queue'[c])
        BY <1>1, <1>3, <1>8, <2>1, <3>1 DEF Precedes
      <3>5. QED
        BY <3>2, <3>3, <3>4
    <2>2. \A c \in Clients : StreamOf(got'[c], hand'[c], queue'[c], published')
      BY <1>1, <1>3, <1>8, <2>1 DEF StreamOf
    <2>3. QED
      BY <2>2, Primed
  <1>11. NewestKept'
    <2>1. SUFFICES ASSUME NEW c \in clients, NEW n \in EventsOf(queue'[c]), NEW k \in n..published'
                   PROVE  k \in EventsOf(queue'[c])
      BY <1>1, Primed
    <2>2. \A x \in EventsOf(queue[c]) : x..published \subseteq EventsOf(queue[c])
      BY DEF IInv, NewestKept
    <2>3. c \in Clients /\ n \in Nat /\ k \in Nat /\ n <= k /\ k <= published'
      <3>1. c \in Clients /\ (n \in EventsOf(queue[c]) \/ n \in new)
        BY <1>1, <1>8, <2>1
      <3>2. n \in Nat
        BY <1>1, <1>4, <3>1
      <3>3. QED
        BY <1>1, <2>1, <3>1, <3>2
    <2>4. CASE c \notin cs
      <3>1. queue'[c] = queue[c] /\ published' = published
        BY <1>2, <2>3, <2>4
      <3>2. QED
        BY <2>1, <2>2, <3>1
    <2>5. CASE c \in cs /\ k \in new
      BY <1>6, <2>5
    <2>6. CASE c \in cs /\ k \notin new
      <3>1. k <= published
        BY <1>1, <2>3, <2>6
      <3>2. n \in EventsOf(queue[c])
        BY <1>1, <1>8, <2>3, <3>1
      <3>3. k \in EventsOf(queue[c])
        BY <1>1, <2>2, <2>3, <3>1, <3>2
      <3>4. k \notin EventsOf(queue'[c]) => k < n
        BY <1>6, <2>6, <2>1, <3>2, <3>3
      <3>5. QED
        BY <2>3, <3>4
    <2>7. QED
      BY <2>4, <2>5, <2>6
  <1>12. ASSUME NEW c \in clients \ lost'
         PROVE  Known(got[c], hand[c], queue[c]) \cup (published + 1)..published'
                  \subseteq Known(got[c], hand[c], queue'[c])
    <2>1. CASE c \in cs
      <3>1. Len(queue[c]) < QueueSize
        BY <1>1, <1>12, <2>1, QueueSizeAssumption DEF Enqueue
      <3>2. EventsOf(queue'[c]) = EventsOf(queue[c]) \cup new
        BY <1>6, <2>1, <3>1
      <3>3. (published + 1)..published' \subseteq new
        BY <1>1
      <3>4. QED
        BY <3>2, <3>3 DEF Known
    <2>2. CASE c \notin cs
      <3>1. queue'[c] = queue[c] /\ published' = published
        BY <1>1, <1>2, <1>12, <2>2
      <3>2. (published + 1)..published' = {}
        BY <1>1, <3>1
      <3>3. QED
        BY <3>1, <3>2 DEF Known
    <2>3. QED
      BY <2>1, <2>2
  <1>13. QED
    BY <1>7, <1>8, <1>9, <1>10, <1>11, <1>12

\* A session that ends takes its whole stream with it.
LEMMA DisconnectKeeps ==
  ASSUME IInv, NEW c \in Clients, Disconnect(c), UNCHANGED <<published, snap, alive>>,
         \/ route' = route
         \/ route[c] # "off" /\ route' = [route EXCEPT ![c] = "left"],
         stale' \in SUBSET stale
  PROVE  IInv'
PROOF
  <1>1. TypeOK'
    <2>1. queue' \in [Clients -> Seq(Message)] /\ hand' \in [Clients -> Seq(Message)]
          /\ got' \in [Clients -> Seq(Message)]
      BY DEF IInv, TypeOK, Disconnect
    <2>2. \A d \in Clients : Len(queue'[d]) <= QueueSize /\ Len(hand'[d]) <= 1
      BY QueueSizeAssumption DEF IInv, TypeOK, Disconnect
    <2>3. missed' \in [Clients -> 0..Misses]
      BY MissesAssumption DEF IInv, TypeOK, Disconnect
    <2>4. route' \in [Clients -> {"off", "connected", "read", "receiving", "left"}]
      BY DEF IInv, TypeOK
    <2>5. /\ clients' \subseteq Clients /\ sender' \subseteq clients'
          /\ stale' \subseteq Clients /\ alive' \subseteq Clients
          /\ asked' \subseteq Clients /\ lost' \subseteq Clients
      BY DEF IInv, TypeOK, Disconnect
    <2>6. published' \in 0..MaxEvents /\ snap' \in [Clients -> 0..MaxEvents]
      BY DEF IInv, TypeOK
    <2>7. QED
      BY <2>1, <2>2, <2>3, <2>4, <2>5, <2>6 DEF TypeOK
  <1>2. SessionInv'
    BY DEF IInv, TypeOK, SessionInv, Disconnect
  <1>3. \A d \in Clients : /\ d # c => /\ got'[d] = got[d] /\ hand'[d] = hand[d]
                                       /\ queue'[d] = queue[d] /\ route'[d] = route[d]
                           /\ d = c => got'[d] = <<>> /\ hand'[d] = <<>> /\ queue'[d] = <<>>
    BY DEF IInv, TypeOK, Disconnect
  <1>4. OrderInv'
    <2>1. StreamOf(<<>>, <<>>, <<>>, published)
      BY EventsOfParts DEF StreamOf, Ordered, Precedes, UpTo
    <2>2. \A d \in Clients : StreamOf(got'[d], hand'[d], queue'[d], published')
      BY <1>3, <2>1 DEF IInv, OrderInv
    <2>3. QED
      BY <2>2, Primed
  <1>5. /\ clients' \subseteq clients /\ c \notin clients' /\ clients \subseteq Clients
        /\ \A d \in clients' \ lost' : d \notin lost
    BY DEF IInv, TypeOK, Disconnect
  <1>6. NewestKept'
    BY <1>3, <1>5, Primed DEF IInv, NewestKept
  <1>7. GapInv'
    BY <1>3, <1>5, Primed DEF IInv, GapInv
  <1>8. QED
    BY <1>1, <1>2, <1>4, <1>6, <1>7 DEF IInv

\* A step that leaves the streams and the sessions' members alone.
LEMMA RestKeeps ==
  ASSUME IInv, TypeOK', UNCHANGED <<published, queue, hand, got, lost>>,
         clients \subseteq clients', alive' \subseteq alive,
         SessionInv',
         \A c \in clients' : c \notin clients => queue[c] = <<>>,
         \A c \in clients' :
           \/ route'[c] \notin {"read", "receiving"}
           \/ route'[c] = route[c] /\ snap'[c] = snap[c] /\ c \in clients
           \/ snap'[c] = published
  PROVE  IInv'
PROOF
  <1>1. OrderInv'
    BY Primed DEF IInv, OrderInv
  <1>2. NewestKept'
    BY Primed, EventsOfParts DEF IInv, NewestKept
  <1>3. GapInv'
    <2>1. published \in Nat /\ (published + 1)..published = {}
      BY MaxEventsAssumption DEF IInv, TypeOK
    <2>2. QED
      BY <2>1, Primed DEF IInv, GapInv
  <1>4. QED
    BY <1>1, <1>2, <1>3 DEF IInv

\* A step that enqueues a message.
LEMMA MessageKeeps ==
  ASSUME IInv, NEW cs \in SUBSET clients, NEW m \in Message, Enqueue(cs, m),
         \/ m.kind = "event" /\ m.n = published + 1 /\ published' = published + 1 /\ cs = clients
         \/ m.kind # "event" /\ published' = published,
         published' \in 0..MaxEvents,
         UNCHANGED <<clients, snap, hand, sender, alive, asked, got>>,
         missed' \in [Clients -> 0..Misses], stale' \subseteq Clients,
         \/ route' = route
         \/ \E c \in Clients : route[c] = "read" /\ route' = [route EXCEPT ![c] = "receiving"]
  PROVE  IInv'
PROOF
  <1>1. /\ queue' \in [Clients -> Seq(Message)]
        /\ \A c \in Clients : Len(queue'[c]) <= QueueSize
        /\ \A c \in Clients : c \notin clients => queue'[c] = <<>>
        /\ OrderInv'
        /\ NewestKept'
        /\ \A c \in clients \ lost' :
             Known(got[c], hand[c], queue[c]) \cup (published + 1)..published'
               \subseteq Known(got[c], hand[c], queue'[c])
    BY EnqueueKeeps
  <1>2. route' \in [Clients -> {"off", "connected", "read", "receiving", "left"}]
        /\ \A c \in Clients : /\ route'[c] = "off" => route[c] = "off"
                              /\ route'[c] \in {"read", "receiving"} => route[c] \in {"read", "receiving"}
    BY DEF IInv, TypeOK
  <1>3. TypeOK'
    BY <1>1, <1>2 DEF IInv, TypeOK, Enqueue
  <1>4. SessionInv'
    BY <1>1, <1>2 DEF IInv, SessionInv
  <1>5. GapInv'
    <2>1. SUFFICES ASSUME NEW c \in (clients \cap alive) \ lost',
                          route'[c] \in {"read", "receiving"}
                   PROVE  (snap[c] + 1)..published' \subseteq Known(got[c], hand[c], queue'[c])
      BY Primed
    <2>2. /\ c \notin lost /\ c \in Clients /\ published \in Nat /\ published' \in Nat
          /\ snap[c] \in Nat
      BY MaxEventsAssumption DEF IInv, TypeOK, Enqueue
    <2>3. (snap[c] + 1)..published \subseteq Known(got[c], hand[c], queue[c])
      BY <1>2, <2>1, <2>2 DEF IInv, GapInv
    <2>4. (snap[c] + 1)..published' \subseteq (snap[c] + 1)..published \cup (published + 1)..published'
      BY <2>2
    <2>5. QED
      BY <1>1, <2>1, <2>3, <2>4
  <1>6. QED
    BY <1>1, <1>3, <1>4, <1>5 DEF IInv

\* A step of c's sender, which leaves the stream g, h, q: in order, with the
\* newest events waiting, and complete if c still reads.
LEMMA SenderKeeps ==
  ASSUME IInv, NEW c \in sender,
         NEW g \in Seq(Message), NEW h \in Seq(Message), NEW q \in Seq(Message),
         got' = [got EXCEPT ![c] = g], hand' = [hand EXCEPT ![c] = h],
         queue' = [queue EXCEPT ![c] = q],
         Len(h) <= 1, Len(q) <= QueueSize,
         StreamOf(g, h, q, published),
         \A n \in EventsOf(q) : n..published \subseteq EventsOf(q),
         c \in alive => Known(got[c], hand[c], queue[c]) \subseteq Known(g, h, q),
         UNCHANGED <<published, clients, route, snap, missed, stale, alive, lost>>,
         sender' \in SUBSET sender, asked' \in SUBSET Clients
  PROVE  IInv'
PROOF
  <1>1. /\ c \in clients /\ c \in Clients /\ sender' \subseteq clients
        /\ got' \in [Clients -> Seq(Message)] /\ hand' \in [Clients -> Seq(Message)]
        /\ queue' \in [Clients -> Seq(Message)]
        /\ got'[c] = g /\ hand'[c] = h /\ queue'[c] = q
        /\ \A d \in Clients \ {c} :
             got'[d] = got[d] /\ hand'[d] = hand[d] /\ queue'[d] = queue[d]
    BY DEF IInv, TypeOK
  <1>2. \A d \in Clients : Len(queue'[d]) <= QueueSize /\ Len(hand'[d]) <= 1
    BY <1>1 DEF IInv, TypeOK
  <1>3. TypeOK'
    BY <1>1, <1>2 DEF IInv, TypeOK
  <1>4. SessionInv'
    BY <1>1 DEF IInv, SessionInv
  <1>5. OrderInv'
    BY <1>1, Primed DEF IInv, OrderInv
  <1>6. NewestKept'
    BY <1>1, <1>3, Primed DEF IInv, NewestKept, TypeOK
  <1>7. GapInv'
    <2>1. SUFFICES ASSUME NEW d \in (clients \cap alive) \ lost, route[d] \in {"read", "receiving"}
                   PROVE  (snap[d] + 1)..published \subseteq Known(got'[d], hand'[d], queue'[d])
      BY Primed
    <2>2. d \in Clients /\ (snap[d] + 1)..published \subseteq Known(got[d], hand[d], queue[d])
      BY <2>1 DEF IInv, TypeOK, GapInv
    <2>3. QED
      BY <1>1, <2>1, <2>2
  <1>8. QED
    BY <1>3, <1>4, <1>5, <1>6, <1>7 DEF IInv

LEMMA StreamFacts ==
  ASSUME IInv, NEW c \in sender
  PROVE  /\ c \in clients /\ c \in Clients
         /\ got[c] \in Seq(Message) /\ hand[c] \in Seq(Message) /\ queue[c] \in Seq(Message)
         /\ got = [got EXCEPT ![c] = got[c]] /\ queue = [queue EXCEPT ![c] = queue[c]]
         /\ Len(hand[c]) <= 1 /\ Len(queue[c]) <= QueueSize
         /\ StreamOf(got[c], hand[c], queue[c], published)
         /\ \A n \in EventsOf(queue[c]) : n..published \subseteq EventsOf(queue[c])
         /\ published \in Nat
PROOF
  BY MaxEventsAssumption DEF IInv, TypeOK, OrderInv, NewestKept

LEMMA TakeKeeps ==
  ASSUME IInv, NEW c \in Clients, Take(c)
  PROVE  IInv'
PROOF
  <1> DEFINE q == queue[c]
  <1> DEFINE h == <<Head(q)>>
  <1>1. c \in sender /\ hand[c] = <<>> /\ q # <<>>
    BY DEF Take
  <1>2. /\ got[c] \in Seq(Message) /\ q \in Seq(Message) /\ got = [got EXCEPT ![c] = got[c]]
        /\ Len(q) <= QueueSize /\ StreamOf(got[c], <<>>, q, published)
        /\ \A n \in EventsOf(q) : n..published \subseteq EventsOf(q)
        /\ published \in Nat
    BY <1>1, StreamFacts
  <1>3. /\ Tail(q) \in Seq(Message) /\ Head(q) \in Message /\ h \in Seq(Message)
        /\ Len(Tail(q)) = Len(q) - 1
        /\ Ordered(Tail(q)) /\ Precedes(h, Tail(q))
    BY <1>1, <1>2, OrderedTail DEF StreamOf
  <1>4. EventsOf(q) = EventsOf(Tail(q)) \cup EventsOf(h)
    <2>1. EventsOf(h) = IF Head(q).kind = "event" THEN {Head(q).n} ELSE {}
      BY DEF EventsOf, Elems
    <2>2. QED
      BY <1>1, <1>2, <2>1, EventsOfParts
  <1>5. StreamOf(got[c], h, Tail(q), published)
    BY <1>2, <1>3, <1>4 DEF StreamOf, Precedes, UpTo
  <1>6. ASSUME NEW n \in EventsOf(Tail(q)), NEW k \in n..published
        PROVE  k \in EventsOf(Tail(q))
    <2>1. k \in EventsOf(q) /\ n \in Nat /\ n <= k
      BY <1>2, <1>3, <1>4, <1>6, EventNumbers
    <2>2. k \in EventsOf(h) => k < n
      BY <1>3, <1>6 DEF Precedes
    <2>3. QED
      BY <1>4, <2>1, <2>2
  <1>7. Known(got[c], hand[c], q) \subseteq Known(got[c], h, Tail(q))
    BY <1>1, <1>4, EventsOfParts DEF Known
  <1>8. Len(Tail(q)) <= QueueSize /\ Len(h) <= 1
    BY <1>2, <1>3, QueueSizeAssumption
  <1>9. /\ got' = [got EXCEPT ![c] = got[c]] /\ hand' = [hand EXCEPT ![c] = h]
        /\ queue' = [queue EXCEPT ![c] = Tail(q)]
        /\ UNCHANGED <<published, clients, route, snap, missed, stale, alive, lost>>
        /\ sender' \in SUBSET sender /\ asked' \in SUBSET Clients
    BY <1>2 DEF Take, browser, IInv, TypeOK
  <1>10. QED
    BY <1>1, <1>2, <1>3, <1>5, <1>6, <1>7, <1>8, <1>9, SenderKeeps

LEMMA SendKeeps ==
  ASSUME IInv, NEW c \in Clients, Send(c)
  PROVE  IInv'
PROOF
  <1> DEFINE g == got[c]
             h == hand[c]
             q == queue[c]
  <1>1. c \in sender /\ h # <<>>
    BY DEF Send
  <1>2. /\ g \in Seq(Message) /\ h \in Seq(Message) /\ q \in Seq(Message)
        /\ got = [got EXCEPT ![c] = g] /\ queue = [queue EXCEPT ![c] = q]
        /\ Len(h) <= 1 /\ Len(q) <= QueueSize /\ StreamOf(g, h, q, published)
        /\ \A n \in EventsOf(q) : n..published \subseteq EventsOf(q)
    BY <1>1, StreamFacts
  <1>3. h = <<h[1]>> /\ h[1] \in Message /\ <<>> \in Seq(Message) /\ Len(<<>>) <= 1
    BY <1>1, <1>2
  <1>4. /\ UNCHANGED <<published, clients, route, snap, missed, stale, alive, lost>>
        /\ sender' \in SUBSET sender /\ asked' \in SUBSET Clients
        /\ hand' = [hand EXCEPT ![c] = <<>>] /\ queue' = [queue EXCEPT ![c] = q]
    BY <1>2 DEF Send, IInv, TypeOK
  <1>5. CASE h = <<Ping>> /\ got' = got
    <2>1. EventsOf(h) = {}
      BY <1>5 DEF EventsOf, Elems, Ping
    <2>2. StreamOf(g, <<>>, q, published)
      BY <1>2, EventsOfParts DEF StreamOf, Precedes, UpTo
    <2>3. Known(g, h, q) \subseteq Known(g, <<>>, q)
      BY <2>1 DEF Known
    <2>4. got' = [got EXCEPT ![c] = g]
      BY <1>2, <1>5
    <2>5. QED
      BY <1>1, <1>2, <1>3, <1>4, <2>2, <2>3, <2>4, SenderKeeps
  <1>6. CASE got' = [got EXCEPT ![c] = Append(g, h[1])]
    <2>1. EventsOf(g \o h) = EventsOf(g) \cup EventsOf(h)
      BY <1>2, EventsOfParts
    <2>2. g \o h \in Seq(Message) /\ Append(g, h[1]) = g \o h
      <3>1. \A s \in Seq(Message), m \in Message : Append(s, m) = s \o <<m>>
        OBVIOUS
      <3>2. Append(g, h[1]) = g \o <<h[1]>>
        BY <1>2, <1>3, <3>1
      <3>3. <<h[1]>> = h
        BY <1>3, Zenon
      <3>4. g \o h \in Seq(Message)
        BY <1>2
      <3>5. QED
        BY <3>2, <3>3, <3>4, Zenon
    <2>3. got' = [got EXCEPT ![c] = g \o h]
      BY <1>6, <2>2
    <2>4. Ordered(g \o h)
      BY <1>2, OrderedShort, OrderedParts DEF StreamOf
    <2>5. StreamOf(g \o h, <<>>, q, published)
      BY <1>2, <2>1, <2>4, EventsOfParts DEF StreamOf, Precedes, UpTo
    <2>6. Known(g, h, q) \subseteq Known(g \o h, <<>>, q)
      BY <2>1 DEF Known
    <2>7. QED
      BY <1>1, <1>2, <1>3, <1>4, <2>5, <2>6, <2>2, <2>3, SenderKeeps
  <1>7. QED
    BY <1>5, <1>6 DEF Send

LEMMA SendLostKeeps ==
  ASSUME IInv, NEW c \in Clients, SendLost(c)
  PROVE  IInv'
PROOF
  <1>1. c \in sender /\ c \notin alive
    BY DEF SendLost
  <1>2. /\ got[c] \in Seq(Message) /\ queue[c] \in Seq(Message)
        /\ got = [got EXCEPT ![c] = got[c]] /\ queue = [queue EXCEPT ![c] = queue[c]]
        /\ Len(queue[c]) <= QueueSize /\ StreamOf(got[c], hand[c], queue[c], published)
        /\ \A n \in EventsOf(queue[c]) : n..published \subseteq EventsOf(queue[c])
    BY <1>1, StreamFacts
  <1>3. StreamOf(got[c], <<>>, queue[c], published)
    BY <1>2, EventsOfParts DEF StreamOf, Precedes, UpTo
  <1>4. /\ got' = [got EXCEPT ![c] = got[c]] /\ hand' = [hand EXCEPT ![c] = <<>>]
        /\ queue' = [queue EXCEPT ![c] = queue[c]]
        /\ UNCHANGED <<published, clients, route, snap, missed, stale, alive, lost>>
        /\ sender' \in SUBSET sender /\ asked' \in SUBSET Clients
        /\ <<>> \in Seq(Message) /\ Len(<<>>) <= 1
    BY <1>2 DEF SendLost, browser, IInv, TypeOK
  <1>5. QED
    BY <1>1, <1>2, <1>3, <1>4, SenderKeeps

\* The actions that enqueue a message for some clients.
LEMMA EnqueuersKeep ==
  ASSUME IInv, Broadcast \/ Heartbeat \/ \E c \in Clients : SendInit(c)
  PROVE  IInv'
PROOF
  <1>1. CASE Broadcast
    <2>1. /\ published + 1 \in 1..MaxEvents
          /\ Event(published + 1).kind = "event" /\ Event(published + 1).n = published + 1
      BY <1>1, MaxEventsAssumption DEF Broadcast, IInv, TypeOK, Event
    <2>2. Event(published + 1) \in Message
      BY <2>1, Messages
    <2>3. /\ Enqueue(clients, Event(published + 1)) /\ published' = published + 1
          /\ published' \in 0..MaxEvents /\ clients \in SUBSET clients
          /\ UNCHANGED <<clients, snap, hand, sender, alive, asked, got>>
          /\ missed' \in [Clients -> 0..Misses] /\ stale' \subseteq Clients /\ route' = route
      BY <1>1, <2>1 DEF Broadcast, IInv, TypeOK
    <2>4. QED
      BY <2>1, <2>2, <2>3, MessageKeeps
  <1>2. CASE Heartbeat
    <2> DEFINE gone == {c \in clients : missed[c] = Misses}
    <2>1. /\ Enqueue(clients \ gone, Ping) /\ published' = published /\ route' = route
          /\ UNCHANGED <<clients, snap, hand, sender, alive, asked, got>>
          /\ missed' = [c \in Clients |-> IF c \in clients \ gone THEN missed[c] + 1 ELSE missed[c]]
          /\ stale' = gone
      BY <1>2 DEF Heartbeat
    <2>2. missed' \in [Clients -> 0..Misses] /\ stale' \subseteq Clients
      <3>1. \A c \in clients \ gone : missed[c] + 1 \in 0..Misses
        BY MissesAssumption DEF IInv, TypeOK
      <3>2. QED
        BY <2>1, <3>1 DEF IInv, TypeOK
    <2>3. Ping \in Message /\ Ping.kind # "event" /\ published' \in 0..MaxEvents
          /\ clients \ gone \in SUBSET clients
      BY <2>1, Messages DEF Ping, IInv, TypeOK
    <2>4. QED
      BY <2>1, <2>2, <2>3, MessageKeeps
  <1>3. ASSUME NEW c \in Clients, SendInit(c)
        PROVE  IInv'
    <2> DEFINE init == [kind |-> "init", n |-> snap[c]]
    <2>1. init \in Message /\ init.kind # "event" /\ {c} \cap clients \in SUBSET clients
      BY Messages DEF IInv, TypeOK
    <2>2. /\ Enqueue({c} \cap clients, init) /\ published' = published
          /\ published' \in 0..MaxEvents
          /\ UNCHANGED <<clients, snap, hand, sender, alive, asked, got>>
          /\ missed' \in [Clients -> 0..Misses] /\ stale' \subseteq Clients
          /\ route[c] = "read" /\ route' = [route EXCEPT ![c] = "receiving"]
      BY <1>3 DEF SendInit, IInv, TypeOK
    <2>3. QED
      BY <2>1, <2>2, MessageKeeps
  <1>4. QED
    BY <1>1, <1>2, <1>3

\* The actions that leave the streams as they are.
LEMMA OthersKeep ==
  ASSUME IInv, NEW c \in Clients, Connect(c) \/ ReadState(c) \/ Pong(c) \/ Vanish(c)
  PROVE  IInv'
PROOF
  <1>1. CASE Connect(c)
    <2>1. TypeOK'
      BY <1>1 DEF Connect, browser, IInv, TypeOK
    <2>2. SessionInv'
      BY <1>1 DEF Connect, browser, IInv, TypeOK, SessionInv
    <2>3. \A d \in clients' : d \notin clients => queue[d] = <<>>
      BY <1>1 DEF Connect, IInv, TypeOK, SessionInv
    <2>4. \A d \in clients' :
            \/ route'[d] \notin {"read", "receiving"}
            \/ route'[d] = route[d] /\ snap'[d] = snap[d] /\ d \in clients
      BY <1>1 DEF Connect, IInv, TypeOK
    <2>5. /\ UNCHANGED <<published, queue, hand, got, lost>>
          /\ clients \subseteq clients' /\ alive' \subseteq alive
      BY <1>1 DEF Connect, browser
    <2>6. QED
      BY <2>1, <2>2, <2>3, <2>4, <2>5, RestKeeps
  <1>2. CASE ReadState(c)
    <2>1. TypeOK'
      BY <1>2 DEF ReadState, session, browser, IInv, TypeOK
    <2>2. SessionInv'
      BY <1>2 DEF ReadState, session, browser, IInv, TypeOK, SessionInv
    <2>3. \A d \in clients :
            \/ route'[d] = route[d] /\ snap'[d] = snap[d]
            \/ snap'[d] = published
      BY <1>2 DEF ReadState, IInv, TypeOK
    <2>4. UNCHANGED <<published, clients, queue, hand, got, lost, alive>>
      BY <1>2 DEF ReadState, session, browser
    <2>5. QED
      BY <2>1, <2>2, <2>3, <2>4, RestKeeps
  <1>3. CASE Pong(c)
    <2>1. TypeOK'
      BY <1>3, MissesAssumption DEF Pong, session, IInv, TypeOK
    <2>2. UNCHANGED <<published, clients, route, snap, queue, hand, got, lost, alive>>
      BY <1>3 DEF Pong, session
    <2>3. SessionInv'
      BY <2>2 DEF IInv, SessionInv
    <2>4. QED
      BY <2>1, <2>2, <2>3, RestKeeps
  <1>4. CASE Vanish(c)
    <2>1. TypeOK'
      BY <1>4 DEF Vanish, session, IInv, TypeOK
    <2>2. UNCHANGED <<published, clients, route, snap, queue, hand, got, lost>>
          /\ alive' \subseteq alive
      BY <1>4 DEF Vanish, session
    <2>3. SessionInv'
      BY <2>2 DEF IInv, SessionInv
    <2>4. QED
      BY <2>1, <2>2, <2>3, RestKeeps
  <1>5. QED
    BY <1>1, <1>2, <1>3, <1>4

\* A session is ended by its endpoint or by the heartbeat.
LEMMA EndsKeep ==
  ASSUME IInv, NEW c \in Clients, Leave(c) \/ DropStale(c)
  PROVE  IInv'
PROOF
  <1>1. /\ Disconnect(c) /\ UNCHANGED <<published, snap, alive>>
        /\ \/ route' = route
           \/ route[c] # "off" /\ route' = [route EXCEPT ![c] = "left"]
        /\ stale' \in SUBSET stale
    BY DEF Leave, DropStale
  <1>2. QED
    BY <1>1, DisconnectKeeps

\* No step of the manager, an endpoint, a sender or a browser disturbs what the
\* properties rest on.
THEOREM Inductive == IInv /\ [Next]_vars => IInv'
PROOF
  <1> SUFFICES ASSUME IInv, [Next]_vars PROVE IInv'
    OBVIOUS
  <1>1. CASE UNCHANGED vars
    <2>1. UNCHANGED <<published, clients, route, snap, queue, hand, sender, missed, stale,
                      alive, asked, got, lost>>
      BY <1>1 DEF vars, session, browser
    <2>2. TypeOK'
      BY <2>1 DEF IInv, TypeOK
    <2>3. SessionInv'
      BY <2>1 DEF IInv, SessionInv
    <2>4. QED
      BY <2>1, <2>2, <2>3, RestKeeps
  <1>2. CASE Next
    BY <1>2, EnqueuersKeep, OthersKeep, EndsKeep, TakeKeeps, SendKeeps, SendLostKeeps
       DEF Next, Client, Sender
  <1>3. QED
    BY <1>1, <1>2

LEMMA Invariant == Spec => []IInv
PROOF
  BY InitHolds, Inductive, PTL DEF Spec

\* Queues never outgrow their bound, a sender holds one message at most, and
\* only registered clients have senders.
THEOREM TypeCorrect == Spec => []TypeOK
PROOF
  <1>1. IInv => TypeOK
    BY DEF IInv
  <1>2. QED
    BY <1>1, Invariant, PTL

\* Events reach every client once and in the order of their broadcasts.
THEOREM StreamsAreOrdered == Spec => []StreamInOrder
PROOF
  <1>1. ASSUME IInv PROVE StreamInOrder
    <2>1. SUFFICES ASSUME NEW c \in Clients PROVE Ordered(Stream(c))
      BY DEF StreamInOrder, Ordered
    <2>2. /\ got[c] \in Seq(Message) /\ hand[c] \in Seq(Message) /\ queue[c] \in Seq(Message)
          /\ Len(hand[c]) <= 1 /\ StreamOf(got[c], hand[c], queue[c], published)
      BY <1>1 DEF IInv, TypeOK, OrderInv
    <2>3. got[c] \o hand[c] \in Seq(Message)
          /\ EventsOf(got[c] \o hand[c]) = EventsOf(got[c]) \cup EventsOf(hand[c])
      BY <2>2, EventsOfParts
    <2>4. Ordered(got[c] \o hand[c])
      BY <2>2, OrderedShort, OrderedParts DEF StreamOf
    <2>5. Precedes(got[c] \o hand[c], queue[c])
      BY <2>2, <2>3 DEF StreamOf, Precedes
    <2>6. QED
      BY <2>2, <2>3, <2>4, <2>5, OrderedParts DEF StreamOf, Stream
  <1>2. QED
    BY <1>1, Invariant, PTL

\* Whatever backpressure drops is older than everything that waits.
THEOREM NewestAreKept == Spec => []NewestKept
PROOF
  <1>1. IInv => NewestKept
    BY DEF IInv
  <1>2. QED
    BY <1>1, Invariant, PTL

\* A client that keeps up misses no event after the state it was told.
THEOREM NoEventIsMissed == Spec => []NoGap
PROOF
  <1>1. ASSUME IInv PROVE NoGap
    <2>1. SUFFICES ASSUME NEW c \in (clients \cap alive) \ lost, route[c] = "receiving"
                   PROVE  (snap[c] + 1)..published \subseteq EventsOf(Stream(c))
      BY DEF NoGap
    <2>2. got[c] \in Seq(Message) /\ hand[c] \in Seq(Message) /\ queue[c] \in Seq(Message)
      BY <1>1, <2>1 DEF IInv, TypeOK
    <2>3. got[c] \o hand[c] \in Seq(Message)
      BY <2>2
    <2>4. EventsOf(Stream(c)) = Known(got[c], hand[c], queue[c])
      <3>1. EventsOf(got[c] \o hand[c]) = EventsOf(got[c]) \cup EventsOf(hand[c])
        BY <2>2, EventsOfParts
      <3>2. EventsOf(Stream(c)) = EventsOf(got[c] \o hand[c]) \cup EventsOf(queue[c])
        BY <2>2, <2>3, EventsOfParts DEF Stream
      <3>3. QED
        BY <3>1, <3>2 DEF Known
    <2>5. QED
      BY <1>1, <2>1, <2>4 DEF IInv, GapInv
  <1>2. QED
    BY <1>1, Invariant, PTL
=============================================================================
