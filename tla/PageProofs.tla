----------------------------- MODULE PageProofs -----------------------------
(***************************************************************************)
(* What EventFeed.tla and Page.tla promise, for every set of flows and     *)
(* every number of changes and calls.  The invariants say what the events  *)
(* under way will lead to: the last of them to name the queue or the       *)
(* configuration, on the server's line or on the page's wire.              *)
(***************************************************************************)
EXTENDS Page, OrderedMapsProofs

Captured == [kind: {"queue"}, queue: Seq(Flows), by: {"arrival", "clear"}]
Reading == [kind: {"queue"}, queue: Seq(Flows), by: {"removal"}]
FlowMessage == [kind: {"flow"}, flow: Flows, captured: SUBSET Captured, reread: BOOLEAN]
ConfigMessage == [kind: {"config"}, config: Config]
Event == Captured \cup Reading \cup FlowMessage \cup {Cleared} \cup ConfigMessage

InitMessage == [kind: {"init"}, queue: Seq(Flows), config: Config]
Message == Event \cup InitMessage

Call ==
  [kind: {"boot", "put", "reply"}, config: Config]
    \cup [kind: {"detail"}, flow: Flows, version: Nat]
    \cup [kind: {"queue"}, queue: Seq(Flows), next: {"selected", "decided", "reset"},
          flow: Flows \cup {NoFlow}]

Front ==
  [queue: Seq(Flows), sel: Flows \cup {NoFlow},
   detail: [flow: Flows \cup {NoFlow}, version: Nat],
   config: SUBSET Config, checked: BOOLEAN]

StoreType ==
  /\ queue \in Seq(Flows)
  /\ version \in [Flows -> Nat]
  /\ config \in Config
  /\ targeting \subseteq Config

LineType ==
  /\ line \in Seq(Event)
  /\ readers \in Nat
  /\ shown \in [reread: SUBSET Seq(Flows), silent: BOOLEAN]

PageType ==
  /\ page \in Front
  /\ conn \in {"off", "registered", "read", "on"}
  /\ wire \in Seq(Message)
  /\ initQueue \in Seq(Flows)
  /\ calls \subseteq Call
  /\ late \in BOOLEAN

TypeInv == StoreType /\ LineType /\ PageType
-----------------------------------------------------------------------------
\* The last message of s that is of one of the kinds K; there is none.
Last(s, K) ==
  {s[i] : i \in {k \in DOMAIN s :
                   s[k].kind \in K /\ \A j \in DOMAIN s : j > k => s[j].kind \notin K}}

Quiet(s, K) == \A m \in Elems(s) : m.kind \notin K

LEMMA QuietLast ==
  ASSUME NEW s, NEW K, Quiet(s, K)
  PROVE  Last(s, K) = {}
  BY DEF Quiet, Last, Elems

LEMMA EmptyQuiet == ASSUME NEW K PROVE Quiet(<<>>, K) /\ Last(<<>>, K) = {}
  BY DEF Quiet, Last, Elems

\* A message that joins the end is the last of its kind.
LEMMA LastOfAppend ==
  ASSUME NEW S, NEW s \in Seq(S), NEW m \in S, NEW K
  PROVE  /\ Elems(Append(s, m)) = Elems(s) \cup {m}
         /\ Quiet(Append(s, m), K) <=> Quiet(s, K) /\ m.kind \notin K
         /\ m.kind \in K => Last(Append(s, m), K) = {m}
         /\ m.kind \notin K => Last(Append(s, m), K) = Last(s, K)
<1> DEFINE t == Append(s, m)
<1>1. /\ DOMAIN s = 1..Len(s) /\ Len(s) \in Nat
      /\ DOMAIN t = 1..(Len(s) + 1)
      /\ t[Len(s) + 1] = m /\ \A i \in 1..Len(s) : t[i] = s[i]
  BY LenProperties, AppendProperties
<1> HIDE DEF t
<1>2. Elems(t) = Elems(s) \cup {m}
  BY AppendToQueue DEF t
<1>3. Quiet(t, K) <=> Quiet(s, K) /\ m.kind \notin K
  BY <1>2 DEF Quiet
<1>4. ASSUME m.kind \in K PROVE Last(t, K) = {m}
  BY <1>1, <1>4 DEF Last
<1>5. ASSUME m.kind \notin K PROVE Last(t, K) = Last(s, K)
  <2>1. \A k \in DOMAIN s :
           (\A j \in DOMAIN t : j > k => t[j].kind \notin K)
             <=> \A j \in DOMAIN s : j > k => s[j].kind \notin K
    BY <1>1, <1>5
  <2>2. {k \in DOMAIN t : t[k].kind \in K /\ \A j \in DOMAIN t : j > k => t[j].kind \notin K}
          = {k \in DOMAIN s : s[k].kind \in K /\ \A j \in DOMAIN s : j > k => s[j].kind \notin K}
    BY <1>1, <1>5, <2>1
  <2> QED BY <1>1, <2>2 DEF Last
<1> QED BY <1>2, <1>3, <1>4, <1>5 DEF t

\* When the first message leaves, the last of a kind is still the last, or it
\* was the only one.
LEMMA LastOfTail ==
  ASSUME NEW S, NEW s \in Seq(S), s # <<>>, NEW K
  PROVE  /\ Elems(Tail(s)) \subseteq Elems(s) /\ Head(s) \in Elems(s) /\ Head(s) \in S
         /\ Tail(s) \in Seq(S)
         /\ Last(Tail(s), K) \subseteq Last(s, K)
         /\ Quiet(s, K) <=> Quiet(Tail(s), K) /\ Head(s).kind \notin K
         /\ Quiet(Tail(s), K) /\ Head(s).kind \in K => Head(s) \in Last(s, K)
<1> DEFINE t == Tail(s)
<1>1. /\ DOMAIN s = 1..Len(s) /\ Len(s) \in Nat \ {0} /\ Head(s) = s[1]
      /\ DOMAIN t = 1..(Len(s) - 1) /\ t \in Seq(S) /\ Head(s) \in S
      /\ \A i \in DOMAIN t : t[i] = s[i + 1]
  BY LenProperties, EmptySeq, HeadTailProperties
<1>2. Elems(s) = Elems(t) \cup {Head(s)}
  BY TailProperties
<1> HIDE DEF t
<1>3. ASSUME NEW i \in DOMAIN t, t[i].kind \in K, \A j \in DOMAIN t : j > i => t[j].kind \notin K
      PROVE  t[i] \in Last(s, K)
  <2>1. ASSUME NEW j \in DOMAIN s, j > i + 1
        PROVE  s[j].kind \notin K
    <3>1. j - 1 \in DOMAIN t /\ j - 1 > i /\ t[j - 1] = s[j]
      BY <1>1, <2>1
    <3> QED BY <1>3, <3>1
  <2>2. i + 1 \in DOMAIN s /\ s[i + 1] = t[i]
    BY <1>1
  <2> QED BY <1>3, <2>1, <2>2 DEF Last
<1>4. Last(t, K) \subseteq Last(s, K)
  BY <1>3 DEF Last
<1>5. Quiet(s, K) <=> Quiet(t, K) /\ Head(s).kind \notin K
  BY <1>2 DEF Quiet
<1>6. ASSUME Quiet(t, K), Head(s).kind \in K PROVE Head(s) \in Last(s, K)
  <2>1. ASSUME NEW j \in DOMAIN s, j > 1
        PROVE  s[j].kind \notin K
    <3>1. j - 1 \in DOMAIN t /\ t[j - 1] = s[j]
      BY <1>1, <2>1
    <3> QED BY <1>6, <3>1 DEF Quiet, Elems
  <2>2. 1 \in DOMAIN s
    BY <1>1
  <2> QED BY <1>1, <1>6, <2>1, <2>2 DEF Last
<1> QED BY <1>1, <1>2, <1>4, <1>5, <1>6 DEF t
-----------------------------------------------------------------------------
\* Which events there are.
LEMMA Events ==
  /\ \A c \in Config : ConfigEvent(c) \in Event /\ ConfigEvent(c).kind = "config"
  /\ \A f \in Flows, q \in SUBSET Captured, b \in BOOLEAN :
       FlowEvent(f, q, b) \in Event /\ FlowEvent(f, q, b).kind = "flow"
  /\ \A q \in Seq(Flows) :
       /\ QueueEvent(q, "arrival") \in Captured /\ QueueEvent(q, "clear") \in Captured
       /\ QueueEvent(q, "removal") \in Reading
  /\ Captured \subseteq Event /\ Reading \subseteq Event /\ Event \subseteq Message
  /\ Cleared \in Event /\ Cleared.kind = "cleared" /\ Cleared.captured \subseteq Captured
  /\ Cleared.captured # {} /\ Cleared.reread = FALSE
<1>1. <<>> \in Seq(Flows)
  BY EmptySeq
<1>2. \A c \in Config : ConfigEvent(c) \in Event /\ ConfigEvent(c).kind = "config"
  BY DEF ConfigEvent, Event, ConfigMessage
<1>3. \A f \in Flows, q \in SUBSET Captured, b \in BOOLEAN :
        FlowEvent(f, q, b) \in Event /\ FlowEvent(f, q, b).kind = "flow"
  BY DEF FlowEvent, Event, FlowMessage
<1>4. \A q \in Seq(Flows) :
        /\ QueueEvent(q, "arrival") \in Captured /\ QueueEvent(q, "clear") \in Captured
        /\ QueueEvent(q, "removal") \in Reading
  BY DEF QueueEvent, Captured, Reading
<1>5. Captured \subseteq Event /\ Reading \subseteq Event /\ Event \subseteq Message
  BY DEF Event, Message
<1>6. /\ Cleared \in Event /\ Cleared.kind = "cleared" /\ Cleared.captured \subseteq Captured
      /\ Cleared.captured # {} /\ Cleared.reread = FALSE
  BY <1>1, <1>4 DEF Cleared, Event
<1> QED BY <1>2, <1>3, <1>4, <1>5, <1>6

LEMMA EventKinds ==
  ASSUME NEW m \in Event
  PROVE  /\ m.kind \in {"queue", "flow", "cleared", "config"}
         /\ m.kind = "queue" => m \in Captured \cup Reading
         /\ m.kind = "flow" => m \in FlowMessage
         /\ m.kind = "cleared" => m = Cleared
         /\ m.kind = "config" => m \in ConfigMessage
  BY DEF Event, Captured, Reading, FlowMessage, ConfigMessage, Cleared

LEMMA MessageKinds ==
  ASSUME NEW m \in Message
  PROVE  /\ m.kind = "init" => m \in InitMessage
         /\ m.kind # "init" => m \in Event
         /\ m \in Event => m.kind # "init"
  BY EventKinds DEF Message, InitMessage

LEMMA Calls ==
  /\ \A c \in Call :
       /\ c.kind \in {"boot", "put", "reply"} => c.config \in Config
       /\ c.kind = "detail" => c.flow \in Flows /\ c.version \in Nat
       /\ c.kind = "queue" => c.queue \in Seq(Flows) /\ c.flow \in Flows \cup {NoFlow}
  /\ \A c \in Config, k \in {"boot", "put", "reply"} : [kind |-> k, config |-> c] \in Call
  /\ \A f \in Flows, n \in Nat : [kind |-> "detail", flow |-> f, version |-> n] \in Call
  /\ \A q \in Seq(Flows), n \in {"selected", "decided", "reset"}, f \in Flows \cup {NoFlow} :
       [kind |-> "queue", queue |-> q, next |-> n, flow |-> f] \in Call
  BY DEF Call

LEMMA DetailsType ==
  ASSUME StoreType, NEW f \in Flows \cup {NoFlow}
  PROVE  Details(f) \subseteq Call /\ \A c \in Details(f) : c.kind = "detail"
  BY Calls DEF StoreType, Details

LEMMA Enabled == \A c \in Config, b \in BOOLEAN : [c EXCEPT !.enabled = b] \in Config
  BY DEF Config

\* The mail a page may get later, from the operation whose event is at the front.
LEMMA FollowUpMoves ==
  ASSUME LineType, line # <<>>, FollowUp(Head(line))
  PROVE  /\ Head(line) \in Event /\ Tail(line) \in Seq(Event) /\ LineType'
         /\ \/ line' = Tail(line)
            \/ /\ Head(line).kind # "queue"
               /\ \E q \in Captured : line' = Append(Tail(line), q)
<1> DEFINE m == Head(line)
<1>1. m \in Event /\ Tail(line) \in Seq(Event)
  BY HeadTailProperties DEF LineType
<1> HIDE DEF m
<1>2. \/ line' = Tail(line)
      \/ m.kind # "queue" /\ \E q \in Captured : line' = Append(Tail(line), q)
  <2>1. CASE m.kind \in {"flow", "cleared"} /\ m.captured # {}
    <3>1. m.captured \subseteq Captured
      BY <1>1, <2>1, EventKinds, Events DEF FlowMessage
    <3>2. (CHOOSE q \in m.captured : TRUE) \in Captured
      BY <2>1, <3>1
    <3> QED BY <2>1, <3>2 DEF FollowUp, m
  <2>2. CASE ~(m.kind \in {"flow", "cleared"} /\ m.captured # {})
    BY <2>2 DEF FollowUp, m
  <2> QED BY <2>1, <2>2
<1>3. line' \in Seq(Event)
  BY <1>1, <1>2, Events, AppendProperties
<1>4. readers' \in Nat
  BY DEF FollowUp, LineType
<1>5. shown' \in [reread: SUBSET Seq(Flows), silent: BOOLEAN]
  <2>1. CASE m.kind = "queue"
    <3>1. (IF m.by = "removal" THEN {m.queue} ELSE {}) \in SUBSET Seq(Flows)
      BY <1>1, <2>1, EventKinds DEF Captured, Reading
    <3> QED BY <2>1, <3>1 DEF FollowUp, LineType, m
  <2> QED BY <2>1 DEF FollowUp, LineType, m
<1> QED BY <1>1, <1>2, <1>3, <1>4, <1>5 DEF LineType, m
-----------------------------------------------------------------------------
\* m is followed by a queue event.
Pending(m) == m.kind \in {"flow", "cleared"} /\ (m.captured # {} \/ m.reread)

\* Every queue that will be published is on the line, and none changed silently.
Settled == readers = 0 /\ ~shown.silent /\ \A m \in Elems(line) : ~Pending(m)

\* Then the last of them, if it was read anew, is the queue.
RemovalInv ==
  Settled =>
    /\ \A m \in Last(line, {"queue"}) : m.by = "removal" => m.queue = queue
    /\ Quiet(line, {"queue"}) => shown.reread \subseteq {queue}

\* A silent change is noted; nothing is published.
LEMMA SilentType ==
  ASSUME LineType, Silently
  PROVE  /\ shown' \in [reread: SUBSET Seq(Flows), silent: BOOLEAN]
         /\ shown'.reread = shown.reread
         /\ shown'.silent = (shown.silent \/ queue' # queue)
<1>1. /\ shown' = [shown EXCEPT !.silent = shown.silent \/ queue' # queue]
      /\ shown.silent \in BOOLEAN /\ (queue' # queue) \in BOOLEAN
      /\ shown \in [reread: SUBSET Seq(Flows), silent: BOOLEAN]
  BY DEF LineType, Silently
<1>2. (shown.silent \/ queue' # queue) \in BOOLEAN
  OBVIOUS
<1> QED BY <1>1, <1>2

\* An event joins the line: it tells of the change of the queue, there is none,
\* or it is a silent one.
LEMMA Tells ==
  ASSUME LineType, RemovalInv, NEW m \in Event, Publish(m), m.kind # "queue",
         UNCHANGED readers,
         (UNCHANGED shown /\ (Pending(m) \/ UNCHANGED queue)) \/ Silently
  PROVE  LineType' /\ RemovalInv'
<1>1. line \in Seq(Event) /\ line' = Append(line, m)
  BY DEF LineType, Publish
<1>2. /\ line' \in Seq(Event) /\ Elems(line)' = Elems(line) \cup {m}
      /\ Quiet(line, {"queue"})' <=> Quiet(line, {"queue"})
      /\ Last(line, {"queue"})' = Last(line, {"queue"})
  <2>1. m.kind \notin {"queue"}
    OBVIOUS
  <2> QED BY <1>1, <2>1, LastOfAppend, AppendProperties DEF Elems, Quiet, Last
<1>3. LineType' /\ shown'.reread = shown.reread
  BY <1>2, SilentType DEF LineType
<1>4. CASE UNCHANGED shown /\ Pending(m)
  <2>1. ~Settled'
    BY <1>2, <1>4 DEF Settled, Pending
  <2> QED BY <1>3, <2>1 DEF RemovalInv
<1>5. CASE UNCHANGED shown /\ UNCHANGED queue
  <2>1. Settled' => Settled
    BY <1>2, <1>5 DEF Settled, Pending
  <2> QED BY <1>2, <1>3, <1>5, <2>1 DEF RemovalInv
<1>6. CASE Silently
  <2>1. Settled' => Settled /\ UNCHANGED queue
    BY <1>2, <1>6, SilentType DEF Settled, Pending
  <2> QED BY <1>2, <1>3, <2>1 DEF RemovalInv
<1> QED BY <1>4, <1>5, <1>6

\* An operation will read the queue it has changed.
LEMMA WillRead ==
  ASSUME LineType, readers' = readers + 1, UNCHANGED <<line, shown>>
  PROVE  LineType' /\ RemovalInv'
  BY DEF LineType, RemovalInv, Settled

\* Nothing is said of the queue, and it is not changed, or silently.
LEMMA SaysNothing ==
  ASSUME LineType, RemovalInv, UNCHANGED <<line, readers>>, UNCHANGED <<queue, shown>> \/ Silently
  PROVE  LineType' /\ RemovalInv'
<1>1. CASE UNCHANGED <<queue, shown>>
  BY <1>1 DEF LineType, RemovalInv, Settled
<1>2. CASE Silently
  BY <1>2, SilentType DEF LineType, RemovalInv, Settled
<1> QED BY <1>1, <1>2

\* The queue is read anew: what joins the line is the queue.
LEMMA RereadShows ==
  ASSUME StoreType, LineType, Reread
  PROVE  LineType' /\ RemovalInv'
<1> DEFINE m == QueueEvent(queue, "removal")
<1>1. m \in Event /\ m.kind = "queue" /\ m.queue = queue
  BY Events DEF StoreType, QueueEvent
<1>2. line \in Seq(Event) /\ line' = Append(line, m) /\ UNCHANGED queue
  BY DEF LineType, Reread, Publish, store
<1> HIDE DEF m
<1>3. line' \in Seq(Event) /\ Last(line, {"queue"})' = {m} /\ ~Quiet(line, {"queue"})'
  <2>1. m.kind \in {"queue"}
    BY <1>1
  <2> QED BY <1>1, <1>2, <2>1, LastOfAppend, AppendProperties DEF Last, Quiet, Elems
<1>4. LineType'
  <2>1. readers' \in Nat
    BY DEF LineType, Reread
  <2>2. shown' \in [reread: SUBSET Seq(Flows), silent: BOOLEAN]
    BY DEF LineType, Reread
  <2> QED BY <1>3, <2>1, <2>2 DEF LineType
<1> QED BY <1>1, <1>2, <1>3, <1>4 DEF RemovalInv

\* What was at the front is out, and what is to follow has joined the line.
LEMMA FollowUpShows ==
  ASSUME LineType, RemovalInv, line # <<>>, FollowUp(Head(line)), UNCHANGED queue
  PROVE  LineType' /\ RemovalInv'
<1> DEFINE m == Head(line)
           s == Tail(line)
           K == {"queue"}
<1>1. /\ m \in Event /\ s \in Seq(Event) /\ LineType'
      /\ \/ line' = s
         \/ m.kind # "queue" /\ \E q \in Captured : line' = Append(s, q)
  BY FollowUpMoves
<1>2. /\ Elems(s) \subseteq Elems(line) /\ m \in Elems(line)
      /\ Last(s, K) \subseteq Last(line, K)
      /\ Quiet(line, K) <=> Quiet(s, K) /\ m.kind \notin K
      /\ Quiet(s, K) /\ m.kind \in K => m \in Last(line, K)
  BY LastOfTail DEF LineType
<1>3. /\ shown' = IF m.kind = "queue"
                 THEN [shown EXCEPT !.reread = IF m.by = "removal" THEN {m.queue} ELSE {}]
                 ELSE shown
      /\ readers' = IF m.kind = "flow" /\ m.reread THEN readers + 1 ELSE readers
  BY DEF FollowUp
<1> HIDE DEF m, s
<1>4. CASE line' = s
  <2>1. SUFFICES ASSUME Settled'
                 PROVE  /\ \A e \in Last(s, K) : e.by = "removal" => e.queue = queue
                        /\ Quiet(s, K) => shown'.reread \subseteq {queue}
    BY <1>1, <1>4 DEF RemovalInv, Last, Quiet, Elems
  <2>2. ~shown.silent
    BY <1>3, <2>1 DEF Settled, LineType
  <2>3. ~Pending(m) /\ readers = 0
    <3>1. readers = 0 /\ ~(m.kind = "flow" /\ m.reread)
      BY <1>3, <2>1 DEF Settled, LineType
    <3>2. m.kind \in {"flow", "cleared"} => m.captured = {} /\ ~m.reread
      <4>1. m.kind \in {"flow", "cleared"} /\ m.captured # {} => line' # s
        <5>1. ASSUME m.kind \in {"flow", "cleared"}, m.captured # {}
              PROVE  line' = Append(s, CHOOSE q \in m.captured : TRUE)
          BY <5>1 DEF FollowUp, m, s
        <5>2. \A x \in Event : Append(s, x) # s
          BY <1>1, AppendProperties, LenProperties
        <5>3. ASSUME m.kind \in {"flow", "cleared"}, m.captured # {}
              PROVE  (CHOOSE q \in m.captured : TRUE) \in Event
          BY <1>1, <5>3, EventKinds, Events DEF FlowMessage
        <5> QED BY <5>1, <5>2, <5>3
      <4> QED BY <1>1, <1>4, <3>1, <4>1, EventKinds, Events
    <3> QED BY <3>1, <3>2 DEF Pending
  <2>4. Settled
    <3>1. \A e \in Elems(s) : ~Pending(e)
      BY <1>4, <2>1 DEF Settled
    <3>2. Elems(line) = Elems(s) \cup {m}
      BY TailProperties DEF LineType, m, s
    <3> QED BY <2>2, <2>3, <3>1, <3>2 DEF Settled
  <2>5. \A e \in Last(line, K) : e.by = "removal" => e.queue = queue
    BY <2>4 DEF RemovalInv
  <2>6. CASE m.kind = "queue"
    <3>1. shown'.reread = IF m.by = "removal" THEN {m.queue} ELSE {}
      BY <1>3, <2>6 DEF LineType
    <3> QED BY <1>2, <2>5, <2>6, <3>1
  <2>7. CASE m.kind # "queue"
    BY <1>2, <1>3, <2>4, <2>5, <2>7 DEF RemovalInv
  <2> QED BY <2>6, <2>7
<1>5. ASSUME NEW q \in Captured, line' = Append(s, q)
      PROVE  RemovalInv'
  <2>1. q \in Event /\ q.kind \in K /\ q.by # "removal"
    BY Events DEF Captured
  <2>2. Last(line, K)' = {q} /\ ~Quiet(line, K)'
    BY <1>1, <1>5, <2>1, LastOfAppend DEF Last, Quiet, Elems
  <2> QED BY <2>1, <2>2 DEF RemovalInv
<1> QED BY <1>1, <1>4, <1>5
-----------------------------------------------------------------------------
\* What the queue becomes.
LEMMA QueueTypes ==
  ASSUME queue \in Seq(Flows)
  PROVE  /\ \A f \in Flows : Append(queue, f) \in Seq(Flows)
         /\ \A f : Without(queue, f) \in Seq(Flows)
         /\ \A f : f \notin Elems(queue) => Without(queue, f) = queue
         /\ queue # <<>> => Tail(queue) \in Seq(Flows) /\ Head(queue) \in Flows
         /\ <<>> \in Seq(Flows)
<1>1. \A f \in Flows : Append(queue, f) \in Seq(Flows)
  BY AppendProperties
<1>2. \A f : Without(queue, f) \in Seq(Flows)
  BY WithoutProperties
<1>3. \A f : f \notin Elems(queue) => Without(queue, f) = queue
  BY WithoutAbsent
<1>4. queue # <<>> => Tail(queue) \in Seq(Flows) /\ Head(queue) \in Flows
  BY HeadTailProperties
<1> QED BY <1>1, <1>2, <1>3, <1>4, EmptySeq

\* An eviction leaves a queue of flows.
LEMMA CacheTypes ==
  ASSUME NEW q \in Seq(Flows), NEW f, NEW r \in AfterSetCache(q, f)
  PROVE  r \in Seq(Flows)
  BY KeepInProperties DEF AfterSetCache

FeedInv == StoreType /\ LineType /\ RemovalInv

LEMMA UpsertFeeds ==
  ASSUME FeedInv, NEW f \in Flows, UpsertRequest(f)
  PROVE  FeedInv' /\ \E m \in Event : m.kind = "flow" /\ Publish(m)
<1>1. StoreType'
  <2>1. queue' \in Seq(Flows)
    BY QueueTypes, CacheTypes DEF FeedInv, StoreType, UpsertRequest
  <2> QED BY <2>1 DEF FeedInv, StoreType, UpsertRequest, Written
<1>2. PICK c \in SUBSET Captured :
        /\ Publish(FlowEvent(f, c, FALSE))
        /\ (UNCHANGED shown /\ c # {}) \/ Silently
  <2>1. QueueEvent(queue', "arrival") \in Captured
    BY <1>1, Events DEF StoreType
  <2>2. CASE f \in Elems(queue)
    <3>1. Publish(FlowEvent(f, {}, FALSE)) /\ Silently
      BY <2>2 DEF UpsertRequest
    <3>2. {} \in SUBSET Captured
      OBVIOUS
    <3> QED BY <3>1, <3>2
  <2>3. CASE f \notin Elems(queue)
    BY <2>1, <2>3 DEF UpsertRequest
  <2> QED BY <2>2, <2>3
<1> DEFINE m == FlowEvent(f, c, FALSE)
<1>3. m \in Event /\ m.kind = "flow" /\ Publish(m)
  BY <1>2, Events
<1>4. (UNCHANGED shown /\ Pending(m)) \/ Silently
  BY <1>2 DEF Pending, FlowEvent
<1>5. UNCHANGED readers
  BY DEF UpsertRequest
<1> HIDE DEF m
<1>6. LineType' /\ RemovalInv'
  BY <1>3, <1>4, <1>5, Tells DEF FeedInv
<1> QED BY <1>1, <1>3, <1>6 DEF FeedInv

\* A flow event with which a changed queue is read anew, or changed silently.
LEMMA FlowFeeds ==
  ASSUME FeedInv, StoreType', NEW f \in Flows, NEW b \in BOOLEAN,
         Publish(FlowEvent(f, {}, b)), UNCHANGED readers,
         (UNCHANGED shown /\ b) \/ Silently
  PROVE  FeedInv' /\ \E m \in Event : m.kind = "flow" /\ Publish(m)
<1> DEFINE m == FlowEvent(f, {}, b)
<1>1. m \in Event /\ m.kind = "flow" /\ Publish(m)
  BY Events
<1>2. (UNCHANGED shown /\ Pending(m)) \/ Silently
  BY DEF Pending, FlowEvent
<1> HIDE DEF m
<1>3. LineType' /\ RemovalInv'
  BY <1>1, <1>2, Tells DEF FeedInv
<1> QED BY <1>1, <1>3 DEF FeedInv

LEMMA StatusFeeds ==
  ASSUME FeedInv, NEW f \in Flows, SetFinalStatus(f) \/ AttachResponse(f)
  PROVE  FeedInv' /\ \E m \in Event : m.kind = "flow" /\ Publish(m)
<1>1. version' \in [Flows -> Nat]
  <2>1. version' = [version EXCEPT ![f] = @ + 1] /\ version \in [Flows -> Nat]
    BY DEF FeedInv, StoreType, SetFinalStatus, AttachResponse, Written
  <2> QED BY <2>1
<1>2. CASE SetFinalStatus(f)
  <2>1. PICK q \in AfterSetCache(queue, f) :
          /\ queue' = Without(q, f)
          /\ Publish(FlowEvent(f, {}, f \in Elems(q)))
          /\ IF f \in Elems(q) THEN UNCHANGED shown ELSE Silently
    BY <1>2 DEF SetFinalStatus
  <2>2. queue' \in Seq(Flows)
    BY <2>1, CacheTypes, WithoutProperties DEF FeedInv, StoreType
  <2>3. StoreType'
    BY <1>1, <1>2, <2>2 DEF FeedInv, StoreType, SetFinalStatus
  <2>4. UNCHANGED readers
    BY <1>2 DEF SetFinalStatus
  <2>5. CASE f \in Elems(q)
    <3>1. Publish(FlowEvent(f, {}, TRUE)) /\ UNCHANGED shown
      <4>1. (f \in Elems(q)) = TRUE
        BY <2>5
      <4> QED BY <2>1, <2>5, <4>1
    <3> QED BY <2>3, <2>4, <3>1, FlowFeeds
  <2>6. CASE f \notin Elems(q)
    <3>1. Publish(FlowEvent(f, {}, FALSE)) /\ Silently
      <4>1. (f \in Elems(q)) = FALSE
        BY <2>6
      <4> QED BY <2>1, <2>6, <4>1
    <3> QED BY <2>3, <2>4, <3>1, FlowFeeds
  <2> QED BY <2>5, <2>6
<1>3. CASE AttachResponse(f)
  <2>1. StoreType'
    BY <1>1, <1>3, CacheTypes DEF FeedInv, StoreType, AttachResponse
  <2> QED BY <1>3, <2>1, FlowFeeds DEF AttachResponse
<1> QED BY <1>2, <1>3

LEMMA TakeFeeds ==
  ASSUME FeedInv, TakeRequestDecision
  PROVE  FeedInv'
<1>1. StoreType'
  BY QueueTypes DEF FeedInv, StoreType, TakeRequestDecision
<1> QED BY <1>1, WillRead DEF FeedInv, TakeRequestDecision

LEMMA CleanupFeeds ==
  ASSUME FeedInv, Cleanup
  PROVE  FeedInv'
<1>1. PICK listed \in SUBSET Flows, again \in SUBSET Flows :
        \E pending \in Orders(again) : queue' = KeepIn(queue, listed) \o pending
  BY DEF Cleanup
<1>1a. PICK pending \in Orders(again) : queue' = KeepIn(queue, listed) \o pending
  BY <1>1
<1>2. pending \in Seq(Flows)
  <2>1. IsFiniteSet(again)
    BY FlowsAssumption, FS_Subset
  <2>2. Cardinality(again) \in Nat
    BY <2>1, FS_CardinalityType
  <2>3. pending \in [1..Cardinality(again) -> again]
    BY DEF Orders
  <2>4. pending \in Seq(again)
    BY <2>2, <2>3, SeqDef
  <2> QED BY <2>2, <2>3, SeqDef
<1>3. queue' \in Seq(Flows)
  <2>1. KeepIn(queue, listed) \in Seq(Flows)
    BY KeepInProperties DEF FeedInv, StoreType
  <2> QED BY <1>1a, <1>2, <2>1, ConcatProperties
<1>4. version' \in [Flows -> Nat]
  BY DEF Cleanup, FeedInv, StoreType
<1>5. StoreType'
  BY <1>3, <1>4 DEF FeedInv, StoreType, Cleanup
<1> QED BY <1>5, SaysNothing DEF FeedInv, Cleanup

\* An answered GET of a flow: an eviction at most.
LEMMA GetFeeds ==
  ASSUME FeedInv, NEW f, GetFlow(f)
  PROVE  FeedInv'
<1>1. StoreType'
  BY CacheTypes DEF FeedInv, StoreType, GetFlow
<1> QED BY <1>1, SaysNothing DEF FeedInv, GetFlow

LEMMA DropFeeds ==
  ASSUME FeedInv, DropHead
  PROVE  FeedInv' /\ \E m \in Event : m.kind = "flow" /\ Publish(m)
<1> DEFINE f == Head(queue)
<1>1. f \in Flows /\ version' \in [Flows -> Nat]
  BY QueueTypes DEF FeedInv, StoreType, DropHead, Written
<1>2. PICK q \in AfterSetCache(queue, f) :
        /\ queue' = IF q = <<>> THEN <<>> ELSE Tail(q)
        /\ Publish(FlowEvent(f, {}, q # <<>>))
        /\ IF q # <<>> THEN UNCHANGED shown ELSE Silently
  BY DEF DropHead
<1> HIDE DEF f
<1>3. queue' \in Seq(Flows)
  <2>1. q \in Seq(Flows)
    BY CacheTypes DEF FeedInv, StoreType
  <2> QED BY <1>2, <2>1, EmptySeq, HeadTailProperties
<1>4. StoreType' /\ UNCHANGED readers
  BY <1>1, <1>3 DEF FeedInv, StoreType, DropHead
<1>5. CASE q # <<>>
  <2>1. Publish(FlowEvent(f, {}, TRUE)) /\ UNCHANGED shown
    <3>1. (q # <<>>) = TRUE
      BY <1>5
    <3> QED BY <1>2, <1>5, <3>1
  <2> QED BY <1>1, <1>4, <2>1, FlowFeeds
<1>6. CASE q = <<>>
  <2>1. Publish(FlowEvent(f, {}, FALSE)) /\ Silently
    <3>1. (q # <<>>) = FALSE
      BY <1>6
    <3> QED BY <1>2, <1>6, <3>1
  <2> QED BY <1>1, <1>4, <2>1, FlowFeeds
<1> QED BY <1>5, <1>6

LEMMA ClearFeeds ==
  ASSUME FeedInv, ClearHistory
  PROVE  FeedInv'
<1>1. StoreType'
  BY QueueTypes DEF FeedInv, StoreType, ClearHistory
<1>2. Cleared \in Event /\ Cleared.kind # "queue" /\ Pending(Cleared)
  BY Events DEF Pending
<1> QED BY <1>1, <1>2, Tells DEF FeedInv, ClearHistory

LEMMA ConfigFeeds ==
  ASSUME FeedInv, NEW c \in Config, UpdateConfig(c), targeting' \subseteq Config
  PROVE  FeedInv'
<1>1. StoreType'
  BY DEF FeedInv, StoreType, UpdateConfig
<1>2. ConfigEvent(c) \in Event /\ ConfigEvent(c).kind # "queue"
  BY Events
<1> QED BY <1>1, <1>2, Tells DEF FeedInv, UpdateConfig

LEMMA TargetsFeed ==
  ASSUME FeedInv, ReadTargets \/ WriteTargets
  PROVE  FeedInv'
<1>1. CASE ReadTargets
  <2>1. StoreType'
    BY <1>1 DEF FeedInv, StoreType, ReadTargets, store
  <2> QED BY <1>1, <2>1, SaysNothing DEF FeedInv, ReadTargets, store
<1>2. CASE WriteTargets
  <2>1. PICK c \in targeting : UpdateConfig(c) /\ targeting' = targeting \ {c}
    BY <1>2 DEF WriteTargets
  <2>2. c \in Config /\ targeting' \subseteq Config
    BY <2>1 DEF FeedInv, StoreType
  <2> QED BY <2>1, <2>2, ConfigFeeds
<1> QED BY <1>1, <1>2

LEMMA LineFeeds ==
  ASSUME FeedInv, Reread \/ (line # <<>> /\ FollowUp(Head(line)))
  PROVE  FeedInv'
<1>1. StoreType'
  BY DEF FeedInv, StoreType, Reread, FollowUp, store
<1>2. CASE Reread
  BY <1>1, <1>2, RereadShows DEF FeedInv
<1>3. CASE line # <<>> /\ FollowUp(Head(line))
  BY <1>1, <1>3, FollowUpShows DEF FeedInv, FollowUp, store
<1> QED BY <1>2, <1>3

\* Whoever takes the step, the queue will be shown as it is.
LEMMA StillFeeds ==
  ASSUME FeedInv, UNCHANGED <<store, feed>>
  PROVE  FeedInv'
  BY SaysNothing DEF FeedInv, StoreType, store, feed

LEMMA ServerFeeds == FeedInv /\ Server => FeedInv'
  BY UpsertFeeds, StatusFeeds, TakeFeeds, CleanupFeeds, TargetsFeed, LineFeeds DEF Server
-----------------------------------------------------------------------------
\* The page, its wire and its calls stay well typed.
LEMMA CallsType ==
  ASSUME StoreType, NEW f \in Flows \cup {NoFlow}, NEW n \in {"selected", "decided", "reset"},
         NEW q \in Seq(Flows)
  PROVE  /\ QueueCall(n, f) \in Call /\ QueueCall(n, f).kind = "queue"
         /\ [QueueCall(n, f) EXCEPT !.queue = q] \in Call
         /\ [QueueCall(n, f) EXCEPT !.queue = q].kind = "queue"
<1>1. [QueueCall(n, f) EXCEPT !.queue = q] = [kind |-> "queue", queue |-> q, next |-> n, flow |-> f]
  BY DEF QueueCall
<1> QED BY <1>1, Calls DEF QueueCall, StoreType

LEMMA FrontTypes ==
  ASSUME NEW p \in Front
  PROVE  /\ \A q \in Seq(Flows) :
              /\ [p EXCEPT !.queue = q] \in Front
              /\ [p EXCEPT !.queue = q, !.sel = NoFlow, !.detail = Nothing] \in Front
              /\ \A c \in Config :
                   [p EXCEPT !.queue = q, !.config = {c}, !.checked = c.enabled] \in Front
         /\ \A c \in Config :
              /\ [p EXCEPT !.config = {c}] \in Front
              /\ [p EXCEPT !.config = {c}, !.checked = c.enabled] \in Front
         /\ \A f \in Flows : [p EXCEPT !.sel = f] \in Front
         /\ \A f \in Flows, n \in Nat : [p EXCEPT !.detail = [flow |-> f, version |-> n]] \in Front
<1>1. \A c \in Config : c.enabled \in BOOLEAN /\ {c} \in SUBSET Config
  BY DEF Config
<1>2. Nothing \in [flow: Flows \cup {NoFlow}, version: Nat]
  BY DEF Nothing
<1>3. \A q \in Seq(Flows) :
        /\ [p EXCEPT !.queue = q] \in Front
        /\ [p EXCEPT !.queue = q, !.sel = NoFlow, !.detail = Nothing] \in Front
  BY <1>2 DEF Front
<1>4. \A q \in Seq(Flows), c \in Config :
        [p EXCEPT !.queue = q, !.config = {c}, !.checked = c.enabled] \in Front
  BY <1>1 DEF Front
<1>5. \A c \in Config :
        /\ [p EXCEPT !.config = {c}] \in Front
        /\ [p EXCEPT !.config = {c}, !.checked = c.enabled] \in Front
  BY <1>1 DEF Front
<1>6. /\ \A f \in Flows : [p EXCEPT !.sel = f] \in Front
      /\ \A f \in Flows, n \in Nat : [p EXCEPT !.detail = [flow |-> f, version |-> n]] \in Front
  BY DEF Front
<1> QED BY <1>3, <1>4, <1>5, <1>6

LEMMA AnswerTypes ==
  ASSUME TypeInv, AnswerQueue \/ AnswerDetail \/ AnswerBoot \/ AnswerPut
  PROVE  PageType'
<1>1. PICK c \in calls :
        /\ calls' = (calls \ {c}) \cup (IF c.kind = "queue" THEN Details(AfterQueue(c)) ELSE {})
        /\ \/ AnswerQueue /\ c.kind = "queue"
              /\ page' = IF c.next = "reset"
                         THEN [page EXCEPT !.queue = c.queue, !.sel = NoFlow, !.detail = Nothing]
                         ELSE [page EXCEPT !.queue = c.queue]
           \/ AnswerDetail /\ c.kind = "detail"
              /\ page' = [page EXCEPT !.detail = [flow |-> c.flow, version |-> c.version]]
           \/ AnswerBoot /\ c.kind = "boot"
              /\ page' = [page EXCEPT !.config = {c.config}, !.checked = c.config.enabled]
           \/ AnswerPut /\ c.kind = "reply" /\ page' = [page EXCEPT !.config = {c.config}]
  BY DEF AnswerQueue, AnswerDetail, AnswerBoot, AnswerPut
<1>2. c \in Call /\ page \in Front /\ page.sel \in Flows \cup {NoFlow}
  BY DEF TypeInv, PageType, Front
<1>3. c.kind = "queue" => Details(AfterQueue(c)) \subseteq Call
  <2>1. c.kind = "queue" => AfterQueue(c) \in Flows \cup {NoFlow}
    BY <1>2, Calls DEF AfterQueue
  <2> QED BY <2>1, DetailsType DEF TypeInv
<1>4. calls' \subseteq Call
  BY <1>1, <1>3 DEF TypeInv, PageType
<1>5. page' \in Front
  <2>1. CASE c.kind = "queue"
    <3>1. c.queue \in Seq(Flows)
      BY <1>2, <2>1, Calls
    <3>2. \/ page' = [page EXCEPT !.queue = c.queue, !.sel = NoFlow, !.detail = Nothing]
          \/ page' = [page EXCEPT !.queue = c.queue]
      BY <1>1, <2>1
    <3> QED BY <1>2, <3>1, <3>2, FrontTypes
  <2>2. CASE c.kind = "detail"
    BY <1>1, <1>2, <2>2, Calls DEF Front
  <2>3. CASE c.kind \in {"boot", "reply"}
    <3>1. c.config \in Config
      BY <1>2, <2>3, Calls
    <3>2. \/ page' = [page EXCEPT !.config = {c.config}, !.checked = c.config.enabled]
          \/ page' = [page EXCEPT !.config = {c.config}]
      BY <1>1, <2>3
    <3> QED BY <1>2, <3>1, <3>2, FrontTypes
  <2> QED BY <1>1, <2>1, <2>2, <2>3
<1>6. UNCHANGED <<conn, wire, initQueue>> /\ late' \in BOOLEAN
  BY DEF AnswerQueue, AnswerDetail, AnswerBoot, AnswerPut, TypeInv, PageType
<1> QED BY <1>4, <1>5, <1>6 DEF TypeInv, PageType

LEMMA UserTypes ==
  ASSUME TypeInv, FeedInv', User
  PROVE  PageType'
<1>1. CASE Click
  <2>1. PICK f \in Flows : page' = [page EXCEPT !.sel = f] /\ calls' = calls \cup Details(f)
    BY <1>1 DEF Click
  <2>2. Details(f) \subseteq Call
    BY DetailsType DEF TypeInv
  <2> QED BY <1>1, <2>1, <2>2 DEF Click, TypeInv, PageType, Front
<1>2. CASE Toggle
  <2>1. calls' = calls \cup {[kind |-> "put", config |-> [c EXCEPT !.enabled = ~page.checked]]
                              : c \in page.config}
    BY <1>2 DEF Toggle
  <2>2. page.config \subseteq Config /\ (~page.checked) \in BOOLEAN
    BY DEF TypeInv, PageType, Front
  <2>3. \A c \in page.config :
           [kind |-> "put", config |-> [c EXCEPT !.enabled = ~page.checked]] \in Call
    BY <2>2, Enabled, Calls
  <2>4. page' \in Front
    BY <1>2 DEF Toggle, TypeInv, PageType, Front
  <2>5. calls' \subseteq Call
    BY <2>1, <2>3 DEF TypeInv, PageType
  <2> QED BY <1>2, <2>4, <2>5 DEF Toggle, TypeInv, PageType
<1>3. CASE Drop
  <2>1. queue' \in Seq(Flows) /\ page.detail.flow \in Flows \cup {NoFlow}
    BY DEF FeedInv, StoreType, TypeInv, PageType, Front
  <2>2. calls' \subseteq Call
    BY <1>3, <2>1, CallsType DEF Drop, TypeInv, PageType
  <2> QED BY <1>3, <2>2 DEF Drop, TypeInv, PageType
<1>4. CASE Clear
  <2>1. calls' \subseteq Call
    <3>1. <<>> \in Seq(Flows) /\ NoFlow \in Flows \cup {NoFlow}
      BY EmptySeq
    <3>2. [QueueCall("reset", NoFlow) EXCEPT !.queue = <<>>] \in Call
      BY <3>1, CallsType DEF TypeInv
    <3> QED BY <1>4, <3>2 DEF Clear, TypeInv, PageType
  <2> QED BY <1>4, <2>1 DEF Clear, TypeInv, PageType
<1> QED BY <1>1, <1>2, <1>3, <1>4 DEF User

LEMMA ReceiveTypes ==
  ASSUME TypeInv, Receive
  PROVE  PageType'
<1> DEFINE m == Head(wire)
<1>1. m \in Message /\ wire' \in Seq(Message)
  BY HeadTailProperties DEF Receive, TypeInv, PageType
<1>2. UNCHANGED <<conn, initQueue>> /\ late' \in BOOLEAN
  BY DEF Receive, TypeInv, PageType
<1>3. page \in Front /\ page.sel \in Flows \cup {NoFlow} /\ calls \subseteq Call
  BY DEF TypeInv, PageType, Front
<1>4. page' \in Front /\ calls' \subseteq Call
  <2>1. CASE m.kind \in {"init", "config"}
    <3>1. m.config \in Config
      BY <1>1, <2>1, MessageKinds, EventKinds DEF InitMessage, ConfigMessage
    <3>2. m.kind = "init" => m.queue \in Seq(Flows)
      BY <1>1, MessageKinds DEF InitMessage
    <3>3. /\ UNCHANGED calls
          /\ \/ m.kind = "init" /\ page' = [page EXCEPT !.queue = m.queue, !.config = {m.config},
                                                       !.checked = m.config.enabled]
             \/ page' = [page EXCEPT !.config = {m.config}, !.checked = m.config.enabled]
      BY <2>1 DEF Receive
    <3>4. CASE m.kind = "init" /\ page' = [page EXCEPT !.queue = m.queue, !.config = {m.config},
                                                     !.checked = m.config.enabled]
      BY <1>3, <3>1, <3>2, <3>3, <3>4, FrontTypes
    <3>5. CASE page' = [page EXCEPT !.config = {m.config}, !.checked = m.config.enabled]
      BY <1>3, <3>1, <3>3, <3>5, FrontTypes
    <3> QED BY <3>3, <3>4, <3>5
  <2>2. CASE m.kind = "flow"
    <3>1. m.flow \in Flows
      BY <1>1, <2>2, MessageKinds, EventKinds DEF FlowMessage
    <3>2. Details(m.flow) \subseteq Call
      BY <3>1, DetailsType DEF TypeInv
    <3>3. UNCHANGED page /\ (calls' = calls \/ calls' = calls \cup Details(m.flow))
      BY <2>2 DEF Receive
    <3> QED BY <1>3, <3>2, <3>3
  <2>3. CASE m.kind = "queue"
    <3>1. m.queue \in Seq(Flows)
      BY <1>1, <2>3, MessageKinds, EventKinds DEF Captured, Reading
    <3>2. UNCHANGED calls /\ page' = [page EXCEPT !.queue = m.queue]
      BY <2>3 DEF Receive
    <3> QED BY <1>3, <3>1, <3>2, FrontTypes
  <2>4. CASE m.kind = "cleared"
    <3>1. /\ UNCHANGED calls
          /\ page' = [page EXCEPT !.queue = <<>>, !.sel = NoFlow, !.detail = Nothing]
      BY <2>4 DEF Receive
    <3>2. <<>> \in Seq(Flows)
      BY EmptySeq
    <3> QED BY <1>3, <3>1, <3>2, FrontTypes
  <2> QED BY <1>1, <2>1, <2>2, <2>3, <2>4, MessageKinds, EventKinds
<1> QED BY <1>1, <1>2, <1>4 DEF PageType, TypeInv

LEMMA WireTypes ==
  ASSUME TypeInv, \/ Broadcast \/ Connect \/ ReadQueue \/ SendInit \/ Disconnect
                  \/ Poll \/ ServePut
  PROVE  PageType'
<1>1. CASE Broadcast
  <2>1. Head(line) \in Message
    BY <1>1, HeadTailProperties, Events DEF Broadcast, TypeInv, LineType
  <2> QED BY <1>1, <2>1, AppendProperties DEF Broadcast, TypeInv, PageType
<1>2. CASE SendInit
  <2>1. [kind |-> "init", queue |-> initQueue, config |-> config] \in Message
    BY DEF TypeInv, PageType, StoreType, Message, InitMessage
  <2> QED BY <1>2, <2>1, AppendProperties, EmptySeq DEF SendInit, TypeInv, PageType
<1>3. CASE Connect \/ ReadQueue \/ Disconnect
  BY <1>3, EmptySeq DEF Connect, ReadQueue, Disconnect, TypeInv, PageType, StoreType
<1>4. CASE Poll
  BY <1>4, CallsType DEF Poll, TypeInv, PageType, StoreType
<1>5. CASE ServePut
  <2>1. PICK c \in calls :
          c.kind = "put" /\ calls' = (calls \ {c}) \cup {[kind |-> "reply", config |-> c.config]}
    BY <1>5 DEF ServePut
  <2>2. c \in Call /\ c.config \in Config
    BY <2>1, Calls DEF TypeInv, PageType
  <2>3. calls' \subseteq Call
    BY <2>1, <2>2, Calls DEF TypeInv, PageType
  <2> QED BY <1>5, <2>3 DEF ServePut, TypeInv, PageType
<1> QED BY <1>1, <1>2, <1>3, <1>4, <1>5
-----------------------------------------------------------------------------
Told == {"init", "config"}
Putting == \E c \in calls : c.kind = "put"

\* The last configuration on the line is the one in force.
AnnouncedInv == \A m \in Last(line, {"config"}) : m.config = config

\* If none is on the line, so is the last on the wire.
SentInv == Quiet(line, {"config"}) => \A m \in Last(wire, Told) : m.config = config

\* A page that has had INIT knows a configuration: a boot answer is late then.
KnownInv == conn = "on" /\ Quiet(wire, {"init"}) => page.config # {}

\* If none is on the wire either, the page shows the one in force.
CheckedInv ==
  conn = "on" /\ Quiet(line, {"config"}) /\ Quiet(wire, Told) /\ ~late /\ ~Putting
    => page.checked = config.enabled

OffInv == conn = "off" => wire = <<>>

PromiseInv == AnnouncedInv /\ SentInv /\ KnownInv /\ CheckedInv /\ OffInv

IInv == FeedInv /\ PageType /\ PromiseInv

\* An event joins the line that is no configuration, or is the new one.
Announces ==
  \/ UNCHANGED <<config, line>>
  \/ UNCHANGED config /\ \E m \in Event : m.kind # "config" /\ Publish(m)
  \/ \E c \in Config : config' = c /\ Publish(ConfigEvent(c))

LEMMA AnnouncesKeeps ==
  ASSUME LineType, AnnouncedInv, Announces
  PROVE  /\ AnnouncedInv'
         /\ Quiet(line, {"config"})' => Quiet(line, {"config"}) /\ UNCHANGED config
<1>1. CASE UNCHANGED <<config, line>>
  BY <1>1 DEF AnnouncedInv, Last, Quiet, Elems
<1>2. ASSUME UNCHANGED config, NEW m \in Event, m.kind # "config", Publish(m)
      PROVE  /\ AnnouncedInv'
             /\ Quiet(line, {"config"})' => Quiet(line, {"config"}) /\ UNCHANGED config
  <2>1. m.kind \notin {"config"} /\ line \in Seq(Event) /\ line' = Append(line, m)
    BY <1>2 DEF Publish, LineType
  <2>2. /\ Last(line', {"config"}) = Last(line, {"config"})
        /\ Quiet(line', {"config"}) => Quiet(line, {"config"})
    BY <1>2, <2>1, LastOfAppend
  <2> QED BY <1>2, <2>2 DEF AnnouncedInv, Last, Quiet, Elems
<1>3. ASSUME NEW c \in Config, config' = c, Publish(ConfigEvent(c))
      PROVE  AnnouncedInv' /\ ~Quiet(line, {"config"})'
  <2> DEFINE m == ConfigEvent(c)
  <2>1. m \in Event /\ m.kind \in {"config"} /\ m.config = c
    BY Events DEF ConfigEvent
  <2>2. line \in Seq(Event) /\ line' = Append(line, m)
    BY <1>3 DEF Publish, LineType
  <2> HIDE DEF m
  <2>3. Last(line', {"config"}) = {m} /\ ~Quiet(line', {"config"})
    BY <2>1, <2>2, LastOfAppend
  <2> QED BY <1>3, <2>1, <2>3 DEF AnnouncedInv, Last, Quiet, Elems
<1> QED BY <1>1, <1>2, <1>3 DEF Announces

\* A step that neither sends nor receives, and does not touch what is checked.
LEMMA WireSame ==
  ASSUME IInv, Announces, UNCHANGED wire,
         \/ UNCHANGED conn
         \/ conn # "off" /\ conn' # "off" /\ conn' # "on"
         \/ conn = "off" /\ conn' = "registered",
         page'.config # {} \/ page'.config = page.config,
         \/ Putting'
         \/ ~Quiet(line, {"config"})'
         \/ conn' = "on" /\ page.config # {} => late'
         \/ page'.checked = page.checked /\ UNCHANGED late /\ (Putting => Putting')
  PROVE  PromiseInv'
<1>1. /\ AnnouncedInv'
      /\ Quiet(line, {"config"})' => Quiet(line, {"config"}) /\ UNCHANGED config
  BY AnnouncesKeeps DEF IInv, FeedInv, PromiseInv
<1>2. \A K : Quiet(wire, K)' <=> Quiet(wire, K)
  BY DEF Quiet, Elems
<1>3. Last(wire, Told)' = Last(wire, Told)
  BY DEF Last, Told
<1>4. SentInv' /\ OffInv'
  BY <1>1, <1>3 DEF IInv, PromiseInv, SentInv, OffInv
<1>5. KnownInv'
  BY <1>2 DEF IInv, PromiseInv, KnownInv
<1>6. CheckedInv'
  <2>1. SUFFICES ASSUME conn' = "on", Quiet(line, {"config"})', Quiet(wire, Told)', ~late', ~Putting'
                 PROVE  page'.checked = config'.enabled
    BY DEF CheckedInv
  <2>2. conn = "on" /\ Quiet(line, {"config"}) /\ Quiet(wire, Told) /\ UNCHANGED config
    BY <1>1, <1>2, <2>1
  <2>3. page.config # {}
    BY <2>2 DEF IInv, PromiseInv, KnownInv, Quiet, Told
  <2> QED BY <2>1, <2>2, <2>3 DEF IInv, PromiseInv, CheckedInv
<1> QED BY <1>1, <1>4, <1>5, <1>6 DEF PromiseInv

LEMMA StoreAnnounces ==
  ASSUME IInv, \/ \E f \in Flows : UpsertRequest(f) \/ AttachResponse(f) \/ SetFinalStatus(f)
               \/ TakeRequestDecision \/ Cleanup \/ ReadTargets \/ WriteTargets \/ Reread
               \/ DropHead \/ ClearHistory
  PROVE  Announces
<1>1. StoreType /\ targeting \subseteq Config
  BY DEF IInv, FeedInv, StoreType
<1>2. ASSUME NEW f \in Flows, UpsertRequest(f) \/ AttachResponse(f) \/ SetFinalStatus(f)
      PROVE  Announces
  <2>1. \E m \in Event : m.kind = "flow" /\ Publish(m)
    BY <1>2, UpsertFeeds, StatusFeeds DEF IInv
  <2>2. UNCHANGED config
    BY <1>2 DEF UpsertRequest, AttachResponse, SetFinalStatus
  <2> QED BY <2>1, <2>2 DEF Announces
<1>5. CASE TakeRequestDecision \/ Cleanup \/ ReadTargets
  BY <1>5 DEF TakeRequestDecision, Cleanup, ReadTargets, store, Announces
<1>6. CASE WriteTargets
  BY <1>1, <1>6 DEF WriteTargets, UpdateConfig, Announces
<1>7. CASE Reread
  <2>1. QueueEvent(queue, "removal") \in Event /\ QueueEvent(queue, "removal").kind # "config"
    BY <1>1, Events DEF StoreType, QueueEvent
  <2> QED BY <1>7, <2>1 DEF Reread, store, Announces
<1>8. CASE DropHead
  <2>1. \E m \in Event : m.kind = "flow" /\ Publish(m)
    BY <1>8, DropFeeds DEF IInv
  <2> QED BY <1>8, <2>1 DEF DropHead, Announces
<1>9. CASE ClearHistory
  BY <1>9, Events DEF ClearHistory, Announces
<1> QED BY <1>2, <1>5, <1>6, <1>7, <1>8, <1>9

LEMMA PutType ==
  ASSUME IInv, ServePut
  PROVE  \E c \in Config : UpdateConfig(c) /\ UNCHANGED <<targeting, page, conn, wire, late>>
  BY Calls DEF ServePut, IInv, PageType

LEMMA FeedsPromise ==
  ASSUME IInv, Server \/ Drop \/ Clear \/ ServePut
  PROVE  PromiseInv'
<1>1. CASE Server
  <2>1. Announces /\ UNCHANGED front
    BY <1>1, StoreAnnounces DEF Server
  <2> QED BY <2>1, WireSame DEF front, Putting
<1>2. CASE Drop \/ Clear
  <2>1. Announces
    BY <1>2, StoreAnnounces DEF Drop, Clear
  <2>2. UNCHANGED <<page, conn, wire, late>> /\ (Putting => Putting')
    BY <1>2 DEF Drop, Clear, Putting
  <2> QED BY <2>1, <2>2, WireSame
<1>3. CASE ServePut
  <2>1. PICK c \in Config : UpdateConfig(c) /\ UNCHANGED <<targeting, page, conn, wire, late>>
    BY <1>3, PutType
  <2>2. config' = c /\ Publish(ConfigEvent(c))
    BY <2>1 DEF UpdateConfig
  <2>3. Announces
    BY <2>2 DEF Announces
  <2>4. ~Quiet(line, {"config"})'
    <3>1. ConfigEvent(c) \in Event /\ ConfigEvent(c).kind = "config"
      BY Events
    <3>2. ConfigEvent(c) \in Elems(line)'
      BY <2>2, <3>1, LastOfAppend DEF Publish, Elems, IInv, FeedInv, LineType
    <3> QED BY <3>1, <3>2 DEF Quiet
  <2> QED BY <2>1, <2>3, <2>4, WireSame
<1> QED BY <1>1, <1>2, <1>3

\* What the page does leaves the store alone, or reads a flow from it.
LEMMA Serves ==
  ASSUME Click \/ AnswerQueue \/ Receive
  PROVE  /\ UNCHANGED <<store, feed>> \/ \E f : GetFlow(f)
         /\ UNCHANGED <<config, line>>
<1>1. UNCHANGED <<store, feed>> \/ \E f : GetFlow(f)
  BY DEF Click, AnswerQueue, Serve, Receive
<1> QED BY <1>1 DEF GetFlow, store, feed

LEMMA PagePromise ==
  ASSUME IInv, \/ Click \/ Toggle \/ Poll \/ Connect \/ ReadQueue
               \/ AnswerQueue \/ AnswerDetail \/ AnswerBoot \/ AnswerPut
  PROVE  PromiseInv'
<1>1. Announces /\ UNCHANGED wire
  <2>1. UNCHANGED <<config, line>>
    BY Serves DEF Toggle, Poll, Connect, ReadQueue, AnswerDetail, AnswerBoot, AnswerPut, store, feed
  <2> QED BY <2>1 DEF Click, Toggle, Poll, Connect, ReadQueue, AnswerQueue, AnswerDetail,
                      AnswerBoot, AnswerPut, Announces
<1>2. page \in Front
  BY DEF IInv, PageType
<1>3. CASE Click \/ Poll
  BY <1>1, <1>2, <1>3, WireSame DEF Click, Poll, Front, Putting
<1>4. CASE Toggle
  <2>1. page'.config = page.config /\ UNCHANGED <<conn, late>> /\ (Putting => Putting')
    BY <1>2, <1>4 DEF Toggle, Front, Putting
  <2>2. CASE page.config = {}
    BY <1>1, <2>1, <2>2, WireSame
  <2>3. CASE page.config # {}
    <3>1. PICK c \in page.config : TRUE
      BY <2>3
    <3> DEFINE e == [kind |-> "put", config |-> [c EXCEPT !.enabled = ~page.checked]]
    <3>2. e \in calls' /\ e.kind = "put"
      BY <1>4, <3>1 DEF Toggle
    <3>3. Putting'
      BY <3>2 DEF Putting
    <3> QED BY <1>1, <2>1, <3>3, WireSame
  <2> QED BY <2>2, <2>3
<1>5. CASE Connect \/ ReadQueue
  BY <1>1, <1>5, WireSame DEF Connect, ReadQueue, Putting
<1>6. CASE AnswerQueue \/ AnswerDetail \/ AnswerPut
  <2>1. /\ page'.checked = page.checked /\ UNCHANGED <<conn, late>>
        /\ page'.config # {} \/ page'.config = page.config
    <3>1. CASE AnswerQueue
      <4>1. PICK c \in calls :
              \/ page' = [page EXCEPT !.queue = c.queue, !.sel = NoFlow, !.detail = Nothing]
              \/ page' = [page EXCEPT !.queue = c.queue]
        BY <3>1 DEF AnswerQueue
      <4> QED BY <1>2, <3>1, <4>1 DEF AnswerQueue, Front
    <3>2. CASE AnswerDetail
      <4>1. PICK c \in calls : page' = [page EXCEPT !.detail = [flow |-> c.flow, version |-> c.version]]
        BY <3>2 DEF AnswerDetail
      <4> QED BY <1>2, <3>2, <4>1 DEF AnswerDetail, Front
    <3>3. CASE AnswerPut
      <4>1. PICK c \in calls : page' = [page EXCEPT !.config = {c.config}]
        BY <3>3 DEF AnswerPut
      <4> QED BY <1>2, <3>3, <4>1 DEF AnswerPut, Front
    <3> QED BY <1>6, <3>1, <3>2, <3>3
  <2>2. PICK c \in calls : c.kind # "put" /\ calls \ {c} \subseteq calls'
    BY <1>6 DEF AnswerQueue, AnswerDetail, AnswerPut
  <2>3. Putting => Putting'
    BY <2>2 DEF Putting
  <2> QED BY <1>1, <2>1, <2>3, WireSame
<1>7. CASE AnswerBoot
  <2>1. page'.config # {} /\ UNCHANGED conn /\ (page.config # {} => late')
    <3>1. PICK c \in calls :
            /\ page' = [page EXCEPT !.config = {c.config}, !.checked = c.config.enabled]
            /\ late' = (page.config # {}) /\ UNCHANGED conn
      BY <1>7 DEF AnswerBoot
    <3> QED BY <1>2, <3>1 DEF Front
  <2> QED BY <1>1, <2>1, WireSame
<1> QED BY <1>3, <1>4, <1>5, <1>6, <1>7
-----------------------------------------------------------------------------
\* What is sent when there is a connection.
LEMMA SendPromise ==
  ASSUME IInv, SendInit \/ Disconnect
  PROVE  PromiseInv'
<1>1. UNCHANGED <<config, line, page, late>> /\ wire \in Seq(Message)
  BY DEF SendInit, Disconnect, store, feed, IInv, PageType
<1>2. AnnouncedInv'
  BY <1>1 DEF IInv, PromiseInv, AnnouncedInv, Last
<1>3. CASE SendInit
  <2> DEFINE m == [kind |-> "init", queue |-> initQueue, config |-> config]
  <2>1. m \in Message /\ m.kind \in Told /\ m.kind \in {"init"} /\ m.config = config
    BY DEF IInv, FeedInv, PageType, StoreType, Message, InitMessage, Told
  <2>2. wire' = Append(wire, m)
    BY <1>3 DEF SendInit
  <2> HIDE DEF m
  <2>3. Last(wire', Told) = {m} /\ ~Quiet(wire', Told) /\ ~Quiet(wire', {"init"})
    BY <1>1, <2>1, <2>2, LastOfAppend
  <2>4. SentInv'
    BY <1>1, <2>1, <2>3 DEF SentInv, Last, Told
  <2>5. KnownInv' /\ CheckedInv'
    BY <2>3 DEF KnownInv, CheckedInv, Quiet, Elems, Told
  <2>6. OffInv'
    BY <1>3 DEF SendInit, OffInv
  <2> QED BY <1>2, <2>4, <2>5, <2>6 DEF PromiseInv
<1>4. CASE Disconnect
  <2>1. wire' = <<>> /\ conn' = "off"
    BY <1>4 DEF Disconnect
  <2>2. Last(wire', Told) = {}
    BY <2>1, EmptyQuiet
  <2>3. SentInv' /\ KnownInv' /\ CheckedInv' /\ OffInv'
    BY <2>1, <2>2 DEF SentInv, KnownInv, CheckedInv, OffInv, Last, Told
  <2> QED BY <1>2, <2>3 DEF PromiseInv
<1> QED BY <1>3, <1>4

\* The line moves on: the wire gets what leaves it.
LEMMA BroadcastPromise ==
  ASSUME IInv, Broadcast
  PROVE  PromiseInv'
<1> DEFINE m == Head(line)
           s == Tail(line)
           C == {"config"}
<1>1. /\ line # <<>> /\ line \in Seq(Event) /\ wire \in Seq(Message)
      /\ UNCHANGED <<config, page, conn, calls, late>>
      /\ wire' = IF conn = "off" THEN wire ELSE Append(wire, m)
  BY DEF Broadcast, FollowUp, store, IInv, FeedInv, LineType, PageType
<1>2. /\ m \in Event /\ s \in Seq(Event)
      /\ line' = s \/ \E q \in Captured : line' = Append(s, q)
  BY <1>1, FollowUpMoves DEF Broadcast, IInv, FeedInv
<1>3. m \in Message /\ m.kind # "init"
  BY <1>2, Events, MessageKinds
<1>4. /\ Last(s, C) \subseteq Last(line, C)
      /\ Quiet(line, C) <=> Quiet(s, C) /\ m.kind \notin C
      /\ Quiet(s, C) /\ m.kind \in C => m \in Last(line, C)
  BY <1>1, LastOfTail
<1> HIDE DEF m, s
<1>5. Last(line', C) = Last(s, C) /\ (Quiet(line', C) <=> Quiet(s, C))
  <2>1. ASSUME NEW q \in Captured, line' = Append(s, q)
        PROVE  Last(line', C) = Last(s, C) /\ (Quiet(line', C) <=> Quiet(s, C))
    <3>1. q \in Event /\ q.kind \notin C
      BY Events DEF Captured
    <3> QED BY <1>2, <2>1, <3>1, LastOfAppend
  <2> QED BY <1>2, <2>1
<1>6. AnnouncedInv'
  BY <1>1, <1>4, <1>5 DEF IInv, PromiseInv, AnnouncedInv, Last
<1>7. ASSUME NEW K, conn # "off"
      PROVE  /\ Quiet(wire', K) <=> Quiet(wire, K) /\ m.kind \notin K
             /\ m.kind \in K => Last(wire', K) = {m}
             /\ m.kind \notin K => Last(wire', K) = Last(wire, K)
  BY <1>1, <1>3, <1>7, LastOfAppend
<1>8. SentInv'
  <2>1. SUFFICES ASSUME Quiet(s, C), NEW e \in Last(wire', Told)
                 PROVE  e.config = config
    BY <1>1, <1>5 DEF SentInv, Last, Quiet, Elems, Told
  <2>2. CASE conn = "off"
    BY <1>1, <2>1, <2>2, EmptyQuiet DEF IInv, PromiseInv, OffInv
  <2>3. CASE conn # "off" /\ m.kind \in C
    <3>1. e = m
      BY <1>7, <2>1, <2>3 DEF Told
    <3> QED BY <1>4, <2>1, <2>3, <3>1 DEF IInv, PromiseInv, AnnouncedInv
  <2>4. CASE conn # "off" /\ m.kind \notin C
    <3>1. m.kind \notin Told
      BY <1>3, <2>4 DEF Told
    <3>2. e \in Last(wire, Told)
      BY <1>7, <2>1, <2>4, <3>1
    <3> QED BY <1>4, <2>1, <2>4, <3>2 DEF IInv, PromiseInv, SentInv
  <2> QED BY <2>2, <2>3, <2>4
<1>9. KnownInv'
  <2>1. SUFFICES ASSUME conn = "on", Quiet(wire', {"init"})
                 PROVE  page.config # {}
    BY <1>1 DEF KnownInv, Quiet, Elems
  <2>2. Quiet(wire, {"init"})
    BY <1>7, <2>1
  <2> QED BY <2>1, <2>2 DEF IInv, PromiseInv, KnownInv
<1>10. CheckedInv'
  <2>1. SUFFICES ASSUME conn = "on", Quiet(s, C), Quiet(wire', Told), ~late, ~Putting
                 PROVE  page.checked = config.enabled
    BY <1>1, <1>5 DEF CheckedInv, Quiet, Elems, Told, Putting
  <2>2. Quiet(wire, Told) /\ m.kind \notin Told
    BY <1>7, <2>1
  <2>3. Quiet(line, C)
    BY <1>4, <2>1, <2>2 DEF Told
  <2> QED BY <2>1, <2>2, <2>3 DEF IInv, PromiseInv, CheckedInv
<1>11. OffInv'
  BY <1>1 DEF IInv, PromiseInv, OffInv
<1> QED BY <1>6, <1>8, <1>9, <1>10, <1>11 DEF PromiseInv

\* What the page receives is the newest it will know, unless more is under way.
LEMMA ReceivePromise ==
  ASSUME IInv, Receive
  PROVE  PromiseInv'
<1> DEFINE m == Head(wire)
           s == Tail(wire)
<1>1. /\ wire # <<>> /\ wire \in Seq(Message) /\ wire' = s /\ page \in Front
      /\ UNCHANGED <<config, line, conn>> /\ (Putting => Putting')
  <2>1. UNCHANGED <<config, line>>
    BY Serves
  <2>2. calls \subseteq calls'
    BY DEF Receive
  <2> QED BY <2>1, <2>2 DEF Receive, IInv, PageType, Putting
<1>2. \A K : /\ m \in Message /\ Last(s, K) \subseteq Last(wire, K)
             /\ Quiet(wire, K) <=> Quiet(s, K) /\ m.kind \notin K
             /\ Quiet(s, K) /\ m.kind \in K => m \in Last(wire, K)
  BY <1>1, LastOfTail
<1>3. /\ m.kind \in Told => page'.config # {} /\ page'.checked = m.config.enabled
      /\ m.kind \notin Told => page'.config = page.config /\ page'.checked = page.checked
                               /\ UNCHANGED late
  <2>1. CASE m.kind \in Told
    <3>1. \/ page' = [page EXCEPT !.queue = m.queue, !.config = {m.config},
                                  !.checked = m.config.enabled]
          \/ page' = [page EXCEPT !.config = {m.config}, !.checked = m.config.enabled]
      BY <2>1 DEF Receive, Told
    <3> QED BY <1>1, <2>1, <3>1 DEF Front
  <2>2. CASE m.kind \notin Told
    <3>1. /\ UNCHANGED late
          /\ \/ UNCHANGED page
             \/ page' = [page EXCEPT !.queue = m.queue]
             \/ page' = [page EXCEPT !.queue = <<>>, !.sel = NoFlow, !.detail = Nothing]
      BY <2>2 DEF Receive, Told
    <3> QED BY <1>1, <2>2, <3>1 DEF Front
  <2> QED BY <2>1, <2>2
<1> HIDE DEF m, s
<1>4. AnnouncedInv' /\ OffInv'
  <2>1. AnnouncedInv'
    BY <1>1 DEF IInv, PromiseInv, AnnouncedInv, Last
  <2>2. conn # "off"
    BY <1>1 DEF IInv, PromiseInv, OffInv
  <2> QED BY <1>1, <2>1, <2>2 DEF OffInv
<1>5. SentInv'
  <2>1. SUFFICES ASSUME Quiet(line, {"config"}), NEW e \in Last(s, Told)
                 PROVE  e.config = config
    BY <1>1 DEF SentInv, Last, Quiet, Elems, Told
  <2>2. e \in Last(wire, Told)
    BY <1>2, <2>1
  <2> QED BY <2>1, <2>2 DEF IInv, PromiseInv, SentInv
<1>6. KnownInv'
  <2>1. SUFFICES ASSUME conn = "on", Quiet(s, {"init"})
                 PROVE  page'.config # {}
    BY <1>1 DEF KnownInv, Quiet, Elems
  <2>2. CASE m.kind \in Told
    BY <1>3, <2>2
  <2>3. CASE m.kind \notin Told
    <3>1. Quiet(wire, {"init"})
      BY <1>2, <2>1, <2>3 DEF Told
    <3> QED BY <1>3, <2>1, <2>3, <3>1 DEF IInv, PromiseInv, KnownInv
  <2> QED BY <2>2, <2>3
<1>7. CheckedInv'
  <2>1. SUFFICES ASSUME conn = "on", Quiet(line, {"config"}), Quiet(s, Told), ~late', ~Putting'
                 PROVE  page'.checked = config.enabled
    BY <1>1 DEF CheckedInv, Quiet, Elems, Told
  <2>2. CASE m.kind \in Told
    <3>1. m.config = config
      BY <1>2, <2>1, <2>2 DEF IInv, PromiseInv, SentInv
    <3> QED BY <1>3, <2>2, <3>1
  <2>3. CASE m.kind \notin Told
    <3>1. Quiet(wire, Told) /\ ~Putting /\ ~late
      BY <1>1, <1>2, <1>3, <2>1, <2>3
    <3> QED BY <1>3, <2>1, <2>3, <3>1 DEF IInv, PromiseInv, CheckedInv
  <2> QED BY <2>2, <2>3
<1> QED BY <1>4, <1>5, <1>6, <1>7 DEF PromiseInv
-----------------------------------------------------------------------------
LEMMA InitHolds == Init => IInv
<1> SUFFICES ASSUME Init PROVE IInv
  OBVIOUS
<1>1. <<>> \in Seq(Flows) /\ <<>> \in Seq(Event) /\ <<>> \in Seq(Message)
  BY EmptySeq
<1>2. queue \in Seq(Flows)
  <2>1. Cardinality(Flows) \in Nat
    BY FlowsAssumption, FS_CardinalityType
  <2>2. queue = <<>> \/ queue \in [1..Cardinality(Flows) -> Flows]
    BY DEF Init, FeedInit, Orders
  <2>3. CASE queue \in [1..Cardinality(Flows) -> Flows]
    BY <2>1, <2>3, SeqDef
  <2> QED BY <1>1, <2>2, <2>3
<1>3. StoreType
  <2>1. config \in Config
    BY DEF Init, FeedInit, Config
  <2> QED BY <1>2, <2>1 DEF Init, FeedInit, StoreType
<1>4. LineType
  BY <1>1, <1>2 DEF Init, FeedInit, LineType
<1>5. PageType
  <2>1. page \in Front
    BY <1>1 DEF Init, Front, Nothing
  <2>2. calls \subseteq Call
    BY <1>3, Calls DEF Init, StoreType
  <2> QED BY <1>1, <2>1, <2>2 DEF Init, PageType
<1>6. RemovalInv
  BY EmptyQuiet DEF Init, FeedInit, RemovalInv
<1>7. PromiseInv
  BY EmptyQuiet DEF Init, FeedInit, PromiseInv, AnnouncedInv, SentInv, KnownInv, CheckedInv, OffInv
<1> QED BY <1>3, <1>4, <1>5, <1>6, <1>7 DEF IInv, FeedInv

LEMMA NextFeeds ==
  ASSUME IInv, Next
  PROVE  FeedInv'
<1>1. CASE Server
  BY <1>1, ServerFeeds DEF IInv
<1>2. CASE Drop \/ Clear
  BY <1>2, DropFeeds, ClearFeeds DEF Drop, Clear, IInv
<1>3. CASE ServePut
  <2>1. PICK c \in Config : UpdateConfig(c) /\ UNCHANGED <<targeting, page, conn, wire, late>>
    BY <1>3, PutType
  <2>2. targeting' \subseteq Config
    BY <2>1 DEF IInv, FeedInv, StoreType
  <2> QED BY <2>1, <2>2, ConfigFeeds DEF IInv
<1>4. CASE Broadcast
  BY <1>4, LineFeeds DEF Broadcast, IInv
<1>5. CASE \/ Toggle \/ Connect \/ ReadQueue \/ SendInit \/ Disconnect
           \/ Poll \/ AnswerDetail \/ AnswerBoot \/ AnswerPut
  <2>1. UNCHANGED <<store, feed>>
    BY <1>5 DEF Toggle, Connect, ReadQueue, SendInit, Disconnect, Poll,
                AnswerDetail, AnswerBoot, AnswerPut
  <2> QED BY <2>1, StillFeeds DEF IInv
<1>6. CASE Click \/ AnswerQueue \/ Receive
  BY <1>6, Serves, StillFeeds, GetFeeds DEF IInv
<1> QED BY <1>1, <1>2, <1>3, <1>4, <1>5, <1>6 DEF Next, User

LEMMA NextTypes ==
  ASSUME IInv, Next
  PROVE  PageType'
<1>1. TypeInv /\ FeedInv'
  BY NextFeeds DEF IInv, FeedInv, TypeInv
<1>2. CASE Server
  BY <1>1, <1>2 DEF Server, front, TypeInv, PageType
<1> QED BY <1>1, <1>2, UserTypes, ReceiveTypes, WireTypes, AnswerTypes DEF Next

LEMMA NextPromise ==
  ASSUME IInv, Next
  PROVE  PromiseInv'
  BY FeedsPromise, PagePromise, SendPromise, BroadcastPromise, ReceivePromise DEF Next, User

LEMMA Stutter == IInv /\ UNCHANGED vars => IInv'
<1> SUFFICES ASSUME IInv, UNCHANGED vars PROVE IInv'
  OBVIOUS
<1>1. FeedInv'
  BY StillFeeds DEF vars, IInv
<1>2. PageType'
  BY DEF vars, front, IInv, PageType
<1>3. Announces /\ UNCHANGED front
  BY DEF vars, store, feed, Announces
<1>4. PromiseInv'
  BY <1>3, WireSame DEF front, Putting
<1> QED BY <1>1, <1>2, <1>4 DEF IInv

\* What is on the line, on the wire and under way will lead the page to what
\* the server holds: kept by every step of the operations, the configuration
\* routes, the connection, the calls and the user.
THEOREM Inductive == Spec => []IInv
<1>1. IInv /\ [Next]_vars => IInv'
  BY NextFeeds, NextTypes, NextPromise, Stutter DEF IInv
<1> QED BY <1>1, InitHolds, PTL DEF Spec

\* The last queue published by an operation that took a flow off the queue is
\* the queue, although it is read and published after the lock is released, unless
\* an eviction or a cleanup has changed the queue silently since.
THEOREM RemovalsAreShown == Spec => []RemovalShown
<1>1. IInv => RemovalShown
  <2>1. SUFFICES ASSUME IInv, line = <<>>, readers = 0, ~shown.silent
                 PROVE  shown.reread \subseteq {queue}
    BY DEF RemovalShown
  <2>2. Settled /\ Quiet(line, {"queue"})
    BY <2>1, EmptyQuiet DEF Settled, Elems
  <2> QED BY <2>1, <2>2 DEF IInv, FeedInv, RemovalInv
<1> QED BY <1>1, Inductive, PTL

\* A connected page with nothing under way shows what is in force, whatever was
\* clicked, lost with a connection, or overlapped with INIT.
THEOREM CheckboxIsTrue == Spec => []CheckboxShown
<1>1. IInv => CheckboxShown
  <2>1. SUFFICES ASSUME IInv, conn = "on", wire = <<>>, line = <<>>, ~late,
                        \A c \in calls : c.kind # "put"
                 PROVE  page.checked = config.enabled
    BY DEF CheckboxShown
  <2>2. Quiet(line, {"config"}) /\ Quiet(wire, Told) /\ ~Putting
    BY <2>1, EmptyQuiet DEF Putting
  <2> QED BY <2>1, <2>2 DEF IInv, PromiseInv, CheckedInv
<1> QED BY <1>1, Inductive, PTL
=============================================================================
