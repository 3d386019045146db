------------------------ MODULE StoreServiceProofs ------------------------
(***************************************************************************)
(* The store, await by await, implements the flow service, one step per    *)
(* operation, for every set of flows and tasks, while the cache and the    *)
(* list that start() reads have room for every flow and no operation reads *)
(* rows outside the lock.  Needs IInv (StoreProofs), AgreeInv              *)
(* (StoreRowsProofs), and ServeInv, which says that memory then knows      *)
(* every row and that a row read for want of a cached record is not there. *)
(***************************************************************************)
EXTENDS StoreService, StoreRowsProofs

\* No flow has to be evicted.
AllFit ==
  /\ IsFiniteSet(Flows) /\ Cardinality(Flows) <= MaxMem /\ Cardinality(Flows) <= ListCap
  /\ "update_config" \notin Ops

ServeInv ==
  /\ limit = MaxMem
  /\ Clearing \/ Ids(rows) \subseteq Ids(cache)
  /\ \A t \in Tasks :
       /\ task[t].pc \in {"upsert_read", "attach_read", "final_read"} => Flow(t) \notin Ids(cache)
       /\ task[t].pc \in Writing => Flow(t) \in Ids(cache)

SInv == AllFit /\ NoLateReads /\ IInv /\ LimitInv /\ AgreeInv /\ ServeInv

\* What the service's variables stand for.
Statuses == [f \in Flows |-> StatusOf(f)]
Waiting == KeepIn(queue, Flows \ Ending)
Standing == IF Clearing THEN {} ELSE decisions
Seen == <<Statuses, Waiting, Standing>>

\* A step of the store that keeps the invariant is one of the service.
Serves == ServeInv' /\ (Service!ServiceNext \/ UNCHANGED Seen)
-----------------------------------------------------------------------------
LEMMA QueueType ==
  ASSUME IInv
  PROVE  /\ queue \in Seq(Flows) /\ NoDuplicates(queue) /\ Elems(queue) \subseteq Flows
         /\ cache \in Seq(Record) /\ UniqueIds(cache) /\ Elems(queue) \subseteq Ids(cache)
  BY LenProperties, ElementOfSeq DEF IInv, MemoryInv, Elems

\* The records of a map, and the flows it has records of.
LEMMA MapIds ==
  ASSUME NEW s \in Seq(Record)
  PROVE  /\ Ids(s) \subseteq Flows
         /\ Elems(s) \subseteq Record
         /\ \A f : f \in Ids(s) <=> Entry(s, f) # {}
<1>1. \A i \in DOMAIN s : s[i] \in Record
  BY LenProperties, ElementOfSeq
<1> QED BY <1>1, RecordIds DEF Ids, Elems, Entry

\* Nothing is evicted.
LEMMA SetCacheFits ==
  ASSUME AllFit, IInv, ServeInv, NEW r \in Record, NEW q \in Seq(Flows), SetCache(r, q)
  PROVE  cache' = Put(cache, r) /\ queue' = q /\ Ids(cache') = Ids(cache) \cup {r.id}
<1> DEFINE p == Put(cache, r)
<1>1. p \in Seq(Record) /\ UniqueIds(p) /\ Ids(p) = Ids(cache) \cup {r.id}
  BY PutProperties, QueueType
<1>2. SetCache(r, q) <=>
        /\ cache' = Newest(p, limit)
        /\ queue' = KeepIn(q, Elems(q) \ (Ids(p) \ Ids(Newest(p, limit))))
  BY DEF SetCache
<1> HIDE DEF p
<1>3. Len(p) <= Cardinality(Flows)
  BY <1>1, MapIds, UniqueBound DEF AllFit
<1>4. Len(p) \in Nat /\ Cardinality(Flows) \in Nat
  BY <1>1, LenProperties, FS_CardinalityType DEF AllFit
<1>5. Newest(p, limit) = p
  BY <1>3, <1>4, MaxMemAssumption DEF Newest, AllFit, ServeInv
<1>6. KeepIn(q, Elems(q)) = q
  BY KeepAll
<1>7. Elems(q) \ (Ids(p) \ Ids(p)) = Elems(q)
  OBVIOUS
<1> QED BY <1>1, <1>2, <1>5, <1>6, <1>7 DEF p

\* The status of the flow whose record is written changes, and no other.
LEMMA StatusWritten ==
  ASSUME IInv, NEW r \in Record, cache' = Put(cache, r)
  PROVE  Statuses' = [Statuses EXCEPT ![r.id] = r.status]
<1>1. /\ Ids(cache') = Ids(cache) \cup {r.id}
      /\ Elems(cache') = {e \in Elems(cache) : e.id # r.id} \cup {r}
  BY PutProperties, QueueType
<1>2. SUFFICES ASSUME NEW f \in Flows
               PROVE  StatusOf(f)' = IF f = r.id THEN r.status ELSE StatusOf(f)
  BY RecordIds DEF Statuses
<1>3. CASE f = r.id
  <2>1. Entry(cache', f) = {r} /\ f \in Ids(cache')
    BY <1>1, <1>3 DEF Entry
  <2>2. (CHOOSE e \in Entry(cache', f) : TRUE) = r
    BY <2>1
  <2> QED BY <1>3, <2>1, <2>2 DEF StatusOf
<1>4. CASE f # r.id
  <2>1. Entry(cache', f) = Entry(cache, f) /\ (f \in Ids(cache') <=> f \in Ids(cache))
    BY <1>1, <1>4 DEF Entry
  <2> QED BY <1>4, <2>1 DEF StatusOf
<1> QED BY <1>3, <1>4

LEMMA StatusKnown ==
  ASSUME IInv, NEW f \in Ids(cache)
  PROVE  f \in Flows /\ Statuses[f] # "unknown"
<1>1. f \in Flows /\ Entry(cache, f) # {}
  BY QueueType, MapIds
<1>2. (CHOOSE e \in Entry(cache, f) : TRUE) \in Record
  <2>1. (CHOOSE e \in Entry(cache, f) : TRUE) \in Entry(cache, f)
    BY <1>1
  <2> QED BY <2>1, CacheEntry
<1>3. StatusOf(f) \in Status
  BY <1>2 DEF StatusOf, Record
<1> QED BY <1>1, <1>3 DEF Statuses, Status, Final

LEMMA StatusUnknown ==
  ASSUME NEW f \in Flows, f \notin Ids(cache)
  PROVE  Statuses[f] = "unknown"
  BY DEF Statuses, StatusOf
-----------------------------------------------------------------------------
\* Who is ending a flow and who is clearing, when only t may hold the lock.
LEMMA OnlyOne ==
  ASSUME IInv, NEW t \in Tasks, \A u \in Tasks : u # t => task[u].pc \notin Holder,
         \A u \in Tasks : u # t => task'[u] = task[u]
  PROVE  /\ Ending = IF task[t].pc \in EndingPCs THEN {Flow(t)} ELSE {}
         /\ Ending' = IF task'[t].pc \in EndingPCs THEN {Flow(t)'} ELSE {}
         /\ Clearing <=> task[t].pc = "clear_wipe"
         /\ Clearing' <=> task'[t].pc = "clear_wipe"
<1>1. EndingPCs \cup {"clear_wipe"} \subseteq Holder
  BY DEF EndingPCs, Holder
<1>2. \A u \in Tasks : u # t => task'[u].pc \notin Holder
  OBVIOUS
<1>3. /\ Clearing <=> task[t].pc = "clear_wipe"
      /\ Clearing' <=> task'[t].pc = "clear_wipe"
  BY <1>1, <1>2 DEF Clearing, At
<1>4. /\ {u \in Tasks : task[u].pc \in EndingPCs} = IF task[t].pc \in EndingPCs THEN {t} ELSE {}
      /\ {u \in Tasks : task'[u].pc \in EndingPCs} = IF task'[t].pc \in EndingPCs THEN {t} ELSE {}
  BY <1>1, <1>2
<1>5. /\ Ending = {Flow(v) : v \in {u \in Tasks : task[u].pc \in EndingPCs}}
      /\ Ending' = {Flow(v)' : v \in {u \in Tasks : task'[u].pc \in EndingPCs}}
  BY DEF Ending, EndingPCs, Flow
<1> QED BY <1>3, <1>4, <1>5

\* A step outside the lock changes neither.
LEMMA Outside ==
  ASSUME NEW t \in Tasks, task[t].pc \notin Holder, task'[t].pc \notin Holder,
         \A u \in Tasks : u # t => task'[u] = task[u]
  PROVE  Ending' = Ending /\ (Clearing' <=> Clearing)
<1>1. EndingPCs \cup {"clear_wipe"} \subseteq Holder
  BY DEF EndingPCs, Holder
<1>2. Clearing' <=> Clearing
  BY <1>1 DEF Clearing, At
<1>3. {u \in Tasks : task'[u].pc \in EndingPCs} = {u \in Tasks : task[u].pc \in EndingPCs}
  BY <1>1
<1>4. \A u \in Tasks : task[u].pc \in EndingPCs => Flow(u)' = Flow(u)
  BY <1>1 DEF Flow
<1>5. /\ Ending = {Flow(v) : v \in {u \in Tasks : task[u].pc \in EndingPCs}}
      /\ Ending' = {Flow(v)' : v \in {u \in Tasks : task'[u].pc \in EndingPCs}}
  BY DEF Ending, EndingPCs, Flow
<1> QED BY <1>2, <1>3, <1>4, <1>5

\* The service's queue is the store's, but for the flow that is ending.
LEMMA WaitingIs ==
  ASSUME NEW q \in Seq(Flows), NEW E
  PROVE  /\ E = {} => KeepIn(q, Flows \ E) = q
         /\ \A f : E = {f} => KeepIn(q, Flows \ E) = Without(q, f)
<1>1. Elems(q) \subseteq Flows
  BY LenProperties, ElementOfSeq DEF Elems
<1>2. KeepIn(q, Flows) = q /\ \A f : KeepIn(q, Flows \ {f}) = Without(q, f)
  BY <1>1, KeepAll, KeepAllBut
<1>3. Flows \ {} = Flows
  OBVIOUS
<1> QED BY <1>2, <1>3
-----------------------------------------------------------------------------
(***************************************************************************)
(* The steps of the service, over what its variables stand for.            *)
(***************************************************************************)
LEMMA SeenSame ==
  ASSUME UNCHANGED <<Statuses, Waiting, Standing>>
  PROVE  UNCHANGED Seen
  BY DEF Seen

\* The service's copies of the operators on sequences are those of the store.
LEMMA SameOperators ==
  /\ \A q : Service!Elems(q) = Elems(q)
  /\ \A q, f : Service!Without(q, f) = Without(q, f)
<1>1. \A q : Service!Elems(q) = Elems(q)
  BY DEF Service!Elems, Elems
<1>2. \A I : Service!Cardinality(I) = Cardinality(I)
  BY DEF Service!Cardinality, Cardinality
<1>3. \A I, k : Service!Nth(I, k) = Nth(I, k)
  BY <1>2 DEF Service!Nth, Nth
<1>4. \A q, I : Service!Sub(q, I) = Sub(q, I)
  BY <1>2, <1>3 DEF Service!Sub, Sub
<1>5. \A q, f : Service!Without(q, f) = Without(q, f)
  BY <1>4 DEF Service!Without, Without
<1> QED BY <1>1, <1>5

LEMMA ServeUpsert ==
  ASSUME NEW f \in Flows,
         Statuses' = [Statuses EXCEPT ![f] = "pending_request"],
         Waiting' = IF f \in Elems(Waiting) THEN Waiting ELSE Append(Waiting, f),
         Standing' = Standing
  PROVE  Service!ServiceNext
<1>1. Service!UpsertRequest(f)
  BY SameOperators DEF Service!UpsertRequest, Statuses, Waiting, Standing
<1> QED BY <1>1 DEF Service!ServiceNext

LEMMA ServeAttach ==
  ASSUME NEW f \in Flows,
         Statuses' = [Statuses EXCEPT ![f] = "pending_response"],
         Waiting' = Waiting, Standing' = Standing
  PROVE  Service!ServiceNext
<1>1. Service!AttachResponse(f)
  BY DEF Service!AttachResponse, Statuses, Waiting, Standing
<1> QED BY <1>1 DEF Service!ServiceNext

LEMMA ServeFinal ==
  ASSUME NEW f \in Flows, NEW s \in Final, Statuses[f] # "unknown",
         Statuses' = [Statuses EXCEPT ![f] = s],
         Waiting' = Without(Waiting, f), Standing' = Standing
  PROVE  Service!ServiceNext
<1>1. Service!SetFinalStatus(f, s)
  BY SameOperators DEF Service!SetFinalStatus, Statuses, Waiting, Standing
<1> QED BY <1>1 DEF Service!ServiceNext, Service!Final, Final

\* A decision replaces that for its flow and stage.
LEMMA Replaces ==
  ASSUME NEW f, NEW g, NEW v, SetDecision(f, g, v), ~Clearing, ~Clearing'
  PROVE  LET d == [flow |-> f, stage |-> g, verdict |-> v]
         IN  Standing' = (Standing \ {e \in Standing : e.flow = d.flow /\ e.stage = d.stage}) \cup {d}
  BY DEF SetDecision, Standing

LEMMA ServeDecide ==
  ASSUME NEW f \in Flows, NEW v \in Verdicts, Waiting # <<>>, Head(Waiting) = f,
         SetDecision(f, "request", v), ~Clearing, ~Clearing',
         \/ /\ v = "drop"
            /\ Statuses' = [Statuses EXCEPT ![f] = "dropped"]
            /\ Waiting' = Tail(Waiting)
         \/ v # "drop" /\ Statuses' = Statuses /\ Waiting' = Waiting
  PROVE  Service!ServiceNext
<1> DEFINE d == [flow |-> f, stage |-> "request", verdict |-> v]
<1>1. Standing' = (Standing \ {e \in Standing : e.flow = d.flow /\ e.stage = d.stage}) \cup {d}
  BY Replaces
<1>2. d \in Service!Decision /\ d.flow = f /\ d.stage = "request" /\ d.verdict = v
  BY DEF Service!Decision, Service!Verdicts, Verdicts
<1> HIDE DEF d
<1>3. Standing' = Service!Replacing(d)
  BY <1>1 DEF Service!Replacing, Service!Stored, Standing
<1>4. Service!IsHead(d.flow)
  BY <1>2 DEF Service!IsHead, Waiting
<1>5. Service!SetRequestDecision(d)
  BY <1>2, <1>3, <1>4 DEF Service!SetRequestDecision, Statuses, Waiting, Standing
<1> QED BY <1>2, <1>5 DEF Service!ServiceNext

LEMMA ServeRespond ==
  ASSUME NEW f \in Flows, NEW v \in Verdicts,
         SetDecision(f, "response", v), ~Clearing, ~Clearing',
         Statuses' = Statuses, Waiting' = Waiting
  PROVE  Service!ServiceNext
<1> DEFINE d == [flow |-> f, stage |-> "response", verdict |-> v]
<1>1. Standing' = (Standing \ {e \in Standing : e.flow = d.flow /\ e.stage = d.stage}) \cup {d}
  BY Replaces
<1>2. d \in Service!Decision /\ d.stage = "response"
  BY DEF Service!Decision, Service!Verdicts, Verdicts
<1> HIDE DEF d
<1>3. Standing' = Service!Replacing(d)
  BY <1>1 DEF Service!Replacing, Service!Stored, Standing
<1>4. Service!SetResponseDecision(d)
  BY <1>3 DEF Service!SetResponseDecision, Statuses, Waiting, Standing
<1> QED BY <1>2, <1>4 DEF Service!ServiceNext

LEMMA ServeTake ==
  ASSUME NEW d \in Decision, Standing' = Standing \ {d},
         Statuses' = Statuses, Waiting' = Waiting
  PROVE  Service!ServiceNext
<1>1. d \in Service!Decision
  BY DEF Decision, Stages, Verdicts, Service!Decision, Service!Verdicts
<1>2. Service!TakeDecision(d)
  BY DEF Service!TakeDecision, Statuses, Waiting, Standing
<1> QED BY <1>1, <1>2 DEF Service!ServiceNext

LEMMA ServePop ==
  ASSUME NEW f \in Flows, Statuses' = Statuses, Standing' = Standing,
         Waiting' = IF Waiting # <<>> /\ Head(Waiting) = f THEN Tail(Waiting) ELSE Waiting
  PROVE  Service!ServiceNext
<1>1. Service!PopHead(f)
  BY DEF Service!PopHead, Service!IsHead, Statuses, Waiting, Standing
<1> QED BY <1>1 DEF Service!ServiceNext

LEMMA ServeClear ==
  ASSUME Statuses' = [f \in Flows |-> "unknown"], Waiting' = <<>>, Standing' = {}
  PROVE  Service!ServiceNext
<1>1. Service!ClearHistory
  BY DEF Service!ClearHistory, Statuses, Waiting, Standing
<1> QED BY <1>1 DEF Service!ServiceNext
-----------------------------------------------------------------------------
(***************************************************************************)
(* What the steps of the store do to the invariant and to what is seen.    *)
(***************************************************************************)
\* The cache and the rows stay.
LEMMA ServeKept ==
  ASSUME ServeInv, NEW t \in Tasks, UNCHANGED <<rows, cache, limit>>,
         task[t].pc # "clear_wipe", task'[t].pc \notin Writing,
         task'[t].pc \in {"upsert_read", "attach_read", "final_read"} => Flow(t)' \notin Ids(cache),
         \A u \in Tasks : u # t => task'[u] = task[u]
  PROVE  ServeInv'
<1>1. \A u \in Tasks : u # t => Flow(u)' = Flow(u)
  BY DEF Flow
<1>2. Clearing => Clearing'
  BY DEF Clearing, At
<1>3. Ids(rows') = Ids(rows) /\ Ids(cache') = Ids(cache)
  OBVIOUS
<1> QED BY <1>1, <1>2, <1>3 DEF ServeInv, Writing

\* A record enters the cache, and its row is to be written next.
LEMMA FillServes ==
  ASSUME SInv, IInv', NEW t \in Tasks, NEW r \in Record, NEW q \in Seq(Flows),
         Elems(q) \subseteq Ids(cache) \cup {r.id}, NEW pc \in Writing, NEW a,
         \A u \in Tasks : u # t => task[u].pc \notin Holder,
         task[t].pc \notin Writing \cup {"clear_wipe"},
         SetCache(r, q), Suspend(t, pc, r.id, a, <<r>>), UNCHANGED <<rows, limit>>
  PROVE  /\ ServeInv' /\ ~Clearing /\ ~Clearing'
         /\ Statuses' = [Statuses EXCEPT ![r.id] = r.status]
         /\ Waiting = queue
         /\ Waiting' = IF pc = "save" THEN q ELSE Without(q, r.id)
<1>1. cache' = Put(cache, r) /\ queue' = q /\ Ids(cache') = Ids(cache) \cup {r.id}
  BY SetCacheFits DEF SInv
<1>2. /\ task'[t].pc = pc /\ Flow(t)' = r.id
      /\ \A u \in Tasks : u # t => task'[u] = task[u]
  BY Suspended DEF SInv
<1>3. pc # "clear_wipe" /\ (pc \in EndingPCs <=> pc # "save")
      /\ pc \notin {"upsert_read", "attach_read", "final_read"} /\ task[t].pc \notin EndingPCs
  BY DEF Writing, EndingPCs
<1>4. /\ Ending = {} /\ Ending' = (IF pc = "save" THEN {} ELSE {r.id})
      /\ ~Clearing /\ ~Clearing'
  BY <1>2, <1>3, OnlyOne DEF SInv
<1>5. queue \in Seq(Flows)
  BY QueueType DEF SInv
<1>6. Waiting = queue /\ Waiting' = IF pc = "save" THEN q ELSE Without(q, r.id)
  BY <1>1, <1>4, <1>5, WaitingIs DEF Waiting
<1>7. Statuses' = [Statuses EXCEPT ![r.id] = r.status]
  BY <1>1, StatusWritten DEF SInv
<1>8. ServeInv'
  <2>1. Ids(rows') \subseteq Ids(cache') /\ limit' = MaxMem
    BY <1>1, <1>4 DEF SInv, ServeInv
  <2>2. \A u \in Tasks : u # t => task'[u].pc \notin Holder
    BY <1>2
  <2>3. Writing \cup {"upsert_read", "attach_read", "final_read"} \subseteq Holder
    BY DEF Writing, Holder
  <2>4. \A u \in Tasks :
           /\ task'[u].pc \in {"upsert_read", "attach_read", "final_read"} => Flow(u)' \notin Ids(cache')
           /\ task'[u].pc \in Writing => Flow(u)' \in Ids(cache')
    <3>1. SUFFICES ASSUME NEW u \in Tasks, task'[u].pc \in Holder
                   PROVE  /\ task'[u].pc \notin {"upsert_read", "attach_read", "final_read"}
                          /\ Flow(u)' \in Ids(cache')
      BY <2>3
    <3>2. u = t
      BY <2>2, <3>1
    <3> QED BY <1>1, <1>2, <1>3, <3>2
  <2> QED BY <2>1, <2>4 DEF ServeInv, Writing
<1> QED BY <1>4, <1>6, <1>7, <1>8

\* A step of the only task inside the lock, or that finds it free, neither
\* writes nor begins to.
LEMMA LockedServes ==
  ASSUME SInv, IInv', NEW t \in Tasks, UNCHANGED <<rows, cache, limit>>,
         \A u \in Tasks : u # t => task[u].pc \notin Holder,
         task[t].pc \notin Writing \cup {"clear_wipe"},
         task'[t].pc \notin Writing \cup {"clear_wipe"},
         task'[t].pc \in {"upsert_read", "attach_read", "final_read"} => Flow(t)' \notin Ids(cache),
         \A u \in Tasks : u # t => task'[u] = task[u]
  PROVE  /\ ServeInv' /\ ~Clearing /\ ~Clearing' /\ Statuses' = Statuses
         /\ Waiting = queue /\ Waiting' = queue'
<1>1. ServeInv'
  BY ServeKept DEF SInv
<1>2. Ending = {} /\ Ending' = {} /\ ~Clearing /\ ~Clearing'
  BY OnlyOne DEF SInv, Writing, EndingPCs
<1>3. queue \in Seq(Flows) /\ queue' \in Seq(Flows)
  BY DEF SInv, IInv, MemoryInv
<1>4. Waiting = queue /\ Waiting' = queue'
  BY <1>2, <1>3, WaitingIs DEF Waiting
<1> QED BY <1>1, <1>2, <1>4 DEF Statuses, StatusOf

\* A step outside the lock.
LEMMA OutsideServes ==
  ASSUME SInv, NEW t \in Tasks, UNCHANGED <<rows, cache, queue, limit>>,
         task[t].pc \notin Holder, task'[t].pc \notin Holder,
         \A u \in Tasks : u # t => task'[u] = task[u]
  PROVE  ServeInv' /\ (Clearing' <=> Clearing) /\ Statuses' = Statuses /\ Waiting' = Waiting
<1>1. "clear_wipe" \in Holder /\ Writing \subseteq Holder
      /\ {"upsert_read", "attach_read", "final_read"} \subseteq Holder
  BY DEF Holder, Writing
<1>2. ServeInv'
  BY <1>1, ServeKept DEF SInv
<1>3. Ending' = Ending /\ (Clearing' <=> Clearing)
  BY Outside
<1> QED BY <1>2, <1>3 DEF Statuses, StatusOf, Waiting

\* The row is written, and the call returns: nothing is seen of it.
LEMMA WriteServes ==
  ASSUME SInv, IInv', NEW t \in Tasks, task[t].pc \in Writing,
         rows' = Put(rows, Rec(t)), UNCHANGED <<cache, decisions, limit>>, Return(t),
         queue' = IF task[t].pc = "save" THEN queue ELSE Without(queue, Flow(t))
  PROVE  Serves
<1>1. Rec(t) \in Record /\ Rec(t).id = Flow(t)
  BY CallFacts DEF SInv, IInv, AgreeInv, AwaitInv, Writing, WithRecord
<1>2. Ids(rows') = Ids(rows) \cup {Flow(t)}
  BY <1>1, PutProperties DEF SInv, IInv, TableInv
<1>3. task'[t].pc = "idle" /\ \A u \in Tasks : u # t => task'[u] = task[u]
  BY Returned DEF SInv
<1>4. \A u \in Tasks : u # t => task[u].pc \notin Holder
  BY Alone, Holders DEF SInv
<1>5. \A u \in Tasks : task'[u].pc \notin Holder
  BY <1>3, <1>4, Holders
<1>6. task[t].pc # "clear_wipe" /\ (task[t].pc \in EndingPCs <=> task[t].pc # "save")
      /\ "idle" \notin EndingPCs
  BY DEF Writing, EndingPCs
<1>7. /\ Ending = (IF task[t].pc = "save" THEN {} ELSE {Flow(t)}) /\ Ending' = {}
      /\ ~Clearing /\ ~Clearing'
  BY <1>3, <1>4, <1>6, OnlyOne DEF SInv
<1>8. queue \in Seq(Flows) /\ queue' \in Seq(Flows)
  BY DEF SInv, IInv, MemoryInv
<1>9. Waiting' = Waiting
  <2>1. Waiting' = queue'
    BY <1>7, <1>8, WaitingIs DEF Waiting
  <2>2. CASE task[t].pc = "save"
    BY <1>7, <1>8, <2>1, <2>2, WaitingIs DEF Waiting
  <2>3. CASE task[t].pc # "save"
    <3>1. Ending = {Flow(t)}
      BY <1>7, <2>3
    <3>2. KeepIn(queue, Flows \ Ending) = Without(queue, Flow(t))
      BY <1>8, <3>1, WaitingIs
    <3> QED BY <2>1, <2>3, <3>2 DEF Waiting
  <2> QED BY <2>2, <2>3
<1>10. ServeInv'
  <2>1. Ids(rows') \subseteq Ids(cache') /\ limit' = MaxMem
    BY <1>2, <1>7 DEF SInv, ServeInv
  <2>2. Writing \cup {"upsert_read", "attach_read", "final_read"} \subseteq Holder
    BY DEF Writing, Holder
  <2> QED BY <1>5, <2>1, <2>2 DEF ServeInv, Writing
<1>11. Statuses' = Statuses /\ Standing' = Standing
  BY <1>7 DEF Statuses, StatusOf, Standing
<1> QED BY <1>9, <1>10, <1>11, SeenSame DEF Serves
-----------------------------------------------------------------------------
(***************************************************************************)
(* One lemma per operation of the store.                                   *)
(***************************************************************************)
\* The flow is not cached, so its row is to be read next: nothing is seen.
LEMMA ReadSuspended ==
  ASSUME SInv, IInv', NEW t \in Tasks, \A u \in Tasks : u # t => task[u].pc \notin Holder,
         task[t].pc \notin Writing \cup {"clear_wipe"}, UNCHANGED limit,
         NEW pc \in {"upsert_read", "attach_read", "final_read"},
         NEW f, f \notin Ids(cache), NEW a, Suspend(t, pc, f, a, <<>>), UNCHANGED <<stored, memory>>
  PROVE  Serves
<1>1. /\ task'[t].pc = pc /\ Flow(t)' = f
      /\ \A u \in Tasks : u # t => task'[u] = task[u]
      /\ UNCHANGED <<rows, decisions, cache, queue>>
  BY Suspended DEF SInv, stored, memory
<1>2. ServeInv' /\ ~Clearing /\ ~Clearing' /\ Statuses' = Statuses /\ Waiting' = Waiting
  BY <1>1, LockedServes DEF Writing
<1> QED BY <1>1, <1>2, SeenSame DEF Serves, Standing

LEMMA ApplyUpsertServes ==
  ASSUME SInv, IInv', NEW t \in Tasks, NEW f \in Flows, NEW found,
         \A u \in Tasks : u # t => task[u].pc \notin Holder,
         task[t].pc \notin Writing \cup {"clear_wipe"},
         ApplyUpsert(t, f, found), UNCHANGED limit
  PROVE  Serves
<1> DEFINE r == Reopened(f, found)
           q == IF f \in Elems(queue) THEN queue ELSE Append(queue, f)
<1>1. r \in Record /\ r.id = f /\ r.status = "pending_request"
  BY DEF Reopened, Record, Status
<1>2. q \in Seq(Flows) /\ Elems(q) \subseteq Ids(cache) \cup {f}
  BY QueueType, AppendToQueue DEF SInv
<1>3. SetCache(r, q) /\ Suspend(t, "save", f, "none", <<r>>) /\ UNCHANGED <<rows, decisions>>
  BY DEF ApplyUpsert, stored
<1>4. q = IF f \in Elems(queue) THEN queue ELSE Append(queue, f)
  OBVIOUS
<1> HIDE DEF r, q
<1>5. /\ ServeInv' /\ ~Clearing /\ ~Clearing'
      /\ Statuses' = [Statuses EXCEPT ![f] = "pending_request"]
      /\ Waiting = queue /\ Waiting' = q
  BY <1>1, <1>2, <1>3, FillServes DEF Writing
<1>6. Standing' = Standing
  BY <1>3, <1>5 DEF Standing
<1> QED BY <1>4, <1>5, <1>6, ServeUpsert DEF Serves

LEMMA UpsertServes ==
  ASSUME SInv, IInv', NEW t \in Tasks, Upsert(t) \/ UpsertRead(t), UNCHANGED limit
  PROVE  Serves
<1>1. CASE Upsert(t)
  <2>1. PICK f \in Flows :
          /\ Acquire(t) /\ task[t].pc = "idle"
          /\ \/ ApplyUpsert(t, f, Entry(cache, f))
             \/ /\ f \notin Ids(cache)
                /\ Suspend(t, "upsert_read", f, "none", <<>>) /\ UNCHANGED <<stored, memory>>
    BY <1>1 DEF Upsert, Begins, At
  <2>2. \A u \in Tasks : task[u].pc \notin Holder
    BY <2>1, Alone DEF SInv
  <2>3. CASE ApplyUpsert(t, f, Entry(cache, f))
    BY <2>1, <2>2, <2>3, ApplyUpsertServes DEF Writing
  <2>4. CASE f \notin Ids(cache) /\ Suspend(t, "upsert_read", f, "none", <<>>) /\ UNCHANGED <<stored, memory>>
    BY <2>1, <2>2, <2>4, ReadSuspended DEF Writing
  <2> QED BY <2>1, <2>3, <2>4
<1>2. CASE UpsertRead(t)
  <2>1. ApplyUpsert(t, Flow(t), Entry(rows, Flow(t))) /\ task[t].pc = "upsert_read"
    BY <1>2 DEF UpsertRead, At
  <2>2. Flow(t) \in Flows /\ \A u \in Tasks : u # t => task[u].pc \notin Holder
    BY <2>1, Alone, CallFacts, PCTypes DEF SInv, IInv
  <2> QED BY <2>1, <2>2, ApplyUpsertServes DEF Writing
<1> QED BY <1>1, <1>2

LEMMA ApplyAttachServes ==
  ASSUME SInv, IInv', NEW t \in Tasks, NEW f \in Flows,
         \A u \in Tasks : u # t => task[u].pc \notin Holder,
         task[t].pc \notin Writing \cup {"clear_wipe"},
         ApplyAttach(t, f), UNCHANGED limit
  PROVE  Serves
<1> DEFINE r == [id |-> f, status |-> "pending_response", response |-> "captured"]
<1>1. r \in Record /\ r.id = f /\ r.status = "pending_response"
  BY DEF Record, Status
<1>2. queue \in Seq(Flows) /\ Elems(queue) \subseteq Ids(cache) \cup {f}
  BY QueueType DEF SInv
<1>3. SetCache(r, queue) /\ Suspend(t, "save", f, "none", <<r>>) /\ UNCHANGED <<rows, decisions>>
  BY DEF ApplyAttach, stored
<1> HIDE DEF r
<1>4. /\ ServeInv' /\ ~Clearing /\ ~Clearing'
      /\ Statuses' = [Statuses EXCEPT ![f] = "pending_response"]
      /\ Waiting' = Waiting
  BY <1>1, <1>2, <1>3, FillServes DEF Writing
<1>5. Standing' = Standing
  BY <1>3, <1>4 DEF Standing
<1> QED BY <1>4, <1>5, ServeAttach DEF Serves

LEMMA AttachServes ==
  ASSUME SInv, IInv', NEW t \in Tasks, Attach(t) \/ AttachRead(t), UNCHANGED limit
  PROVE  Serves
<1>1. CASE Attach(t)
  <2>1. PICK f \in Flows :
          /\ Acquire(t) /\ task[t].pc = "idle"
          /\ \/ ApplyAttach(t, f)
             \/ /\ f \notin Ids(cache)
                /\ Suspend(t, "attach_read", f, "none", <<>>) /\ UNCHANGED <<stored, memory>>
    BY <1>1 DEF Attach, Begins, At
  <2>2. \A u \in Tasks : task[u].pc \notin Holder
    BY <2>1, Alone DEF SInv
  <2>3. CASE ApplyAttach(t, f)
    BY <2>1, <2>2, <2>3, ApplyAttachServes DEF Writing
  <2>4. CASE f \notin Ids(cache) /\ Suspend(t, "attach_read", f, "none", <<>>) /\ UNCHANGED <<stored, memory>>
    BY <2>1, <2>2, <2>4, ReadSuspended DEF Writing
  <2> QED BY <2>1, <2>3, <2>4
<1>2. CASE AttachRead(t)
  <2>1. ApplyAttach(t, Flow(t)) /\ task[t].pc = "attach_read"
    BY <1>2 DEF AttachRead, At
  <2>2. Flow(t) \in Flows /\ \A u \in Tasks : u # t => task[u].pc \notin Holder
    BY <2>1, Alone, CallFacts, PCTypes DEF SInv, IInv
  <2> QED BY <2>1, <2>2, ApplyAttachServes DEF Writing
<1> QED BY <1>1, <1>2

LEMMA SetFinalStatusServes ==
  ASSUME SInv, IInv', NEW t \in Tasks, NEW f, NEW v,
         task[t].pc \notin Writing \cup {"clear_wipe"}, SetFinalStatus(t, f, v), UNCHANGED limit
  PROVE  Serves
<1>1. \A u \in Tasks : task[u].pc \notin Holder
  BY Alone DEF SInv, SetFinalStatus
<1>2. CASE \E r \in Entry(cache, f) : ApplyFinal(t, r, v)
  <2>1. PICK r \in Entry(cache, f) : ApplyFinal(t, r, v)
    BY <1>2
  <2> DEFINE new == [r EXCEPT !.status = FinalOf(v)]
  <2>2. r \in Record /\ r.id = f
    BY <2>1, CacheEntry DEF SInv
  <2>3. new \in Record /\ new.id = f /\ new.status = FinalOf(v) /\ FinalOf(v) \in Final
    BY <2>2 DEF Record, Status, Final, FinalOf
  <2>4. queue \in Seq(Flows) /\ Elems(queue) \subseteq Ids(cache) \cup {f}
    BY QueueType DEF SInv
  <2>5. SetCache(new, queue) /\ Suspend(t, "final_save", f, v, <<new>>) /\ UNCHANGED <<rows, decisions>>
    BY <2>1, <2>2 DEF ApplyFinal, stored
  <2> HIDE DEF new
  <2>6. /\ ServeInv' /\ ~Clearing /\ ~Clearing'
        /\ Statuses' = [Statuses EXCEPT ![f] = FinalOf(v)]
        /\ Waiting' = Without(Waiting, f)
    BY <1>1, <2>3, <2>4, <2>5, FillServes DEF Writing
  <2>7. f \in Flows /\ Statuses[f] # "unknown"
    <3>1. f \in Ids(cache)
      BY <2>1, <2>2 DEF Entry, Elems, Ids
    <3> QED BY <3>1, StatusKnown DEF SInv
  <2>8. Standing' = Standing
    BY <2>5, <2>6 DEF Standing
  <2> QED BY <2>3, <2>6, <2>7, <2>8, ServeFinal DEF Serves
<1>3. CASE f \notin Ids(cache) /\ Suspend(t, "final_read", f, v, <<>>) /\ UNCHANGED <<stored, memory>>
  BY <1>1, <1>3, ReadSuspended
<1> QED BY <1>2, <1>3 DEF SetFinalStatus

LEMMA MarkServes ==
  ASSUME SInv, IInv', NEW t \in Tasks, UNCHANGED limit,
         MarkCompleted(t) \/ MarkDropped(t) \/ RespondMark(t) \/ FinalRead(t) \/ FinalSave(t)
  PROVE  Serves
<1>1. CASE MarkCompleted(t) \/ MarkDropped(t) \/ RespondMark(t)
  <2>1. task[t].pc \notin Writing \cup {"clear_wipe"} /\ \E f, v : SetFinalStatus(t, f, v)
    BY <1>1 DEF MarkCompleted, MarkDropped, RespondMark, Begins, At, Writing
  <2> QED BY <2>1, SetFinalStatusServes
<1>2. CASE FinalRead(t)
  <2>1. task[t].pc = "final_read" /\ Flow(t) \notin Ids(cache)
    BY <1>2 DEF FinalRead, At, SInv, ServeInv
  <2>2. \A u \in Tasks : u # t => task[u].pc \notin Holder
    BY <2>1, Alone, PCTypes DEF SInv
  <2>3. ~Clearing
    BY <2>1, <2>2, Holders DEF Clearing, At
  <2>4. Flow(t) \notin Ids(rows)
    BY <2>1, <2>3 DEF SInv, ServeInv
  <2>5. Entry(rows, Flow(t)) = {}
    BY <2>4 DEF Entry, Elems, Ids
  <2>6. Return(t) /\ UNCHANGED <<rows, decisions, cache, queue>>
    BY <1>2, <2>5 DEF FinalRead, stored, memory
  <2>7. task'[t].pc = "idle" /\ \A u \in Tasks : u # t => task'[u] = task[u]
    BY <2>6, Returned DEF SInv
  <2>8. ServeInv' /\ ~Clearing /\ ~Clearing' /\ Statuses' = Statuses /\ Waiting' = Waiting
    BY <2>1, <2>2, <2>6, <2>7, LockedServes DEF Writing
  <2> QED BY <2>6, <2>8, SeenSame DEF Serves, Standing
<1>3. CASE FinalSave(t)
  BY <1>3, WriteServes DEF FinalSave, At, Writing
<1> QED BY <1>1, <1>2, <1>3

LEMMA SaveServes ==
  ASSUME SInv, IInv', NEW t \in Tasks, UNCHANGED limit, Save(t)
  PROVE  Serves
  BY WriteServes DEF Save, At, Writing, memory

LEMMA DecideServes ==
  ASSUME SInv, IInv', NEW t \in Tasks, UNCHANGED limit,
         Decide(t) \/ DecideForward(t) \/ DecideDrop(t) \/ DecideSave(t)
  PROVE  Serves
<1> DEFINE f == Flow(t)
<1>1. CASE Decide(t)
  <2>1. PICK g, v : Suspend(t, "decide_put", g, v, <<>>)
    BY <1>1 DEF Decide
  <2>2. task[t].pc = "idle" /\ Acquire(t) /\ UNCHANGED <<rows, decisions, cache, queue>>
    BY <1>1 DEF Decide, Begins, At, memory, stored
  <2>3. task'[t].pc = "decide_put" /\ \A u \in Tasks : u # t => task'[u] = task[u]
    BY <2>1, Suspended DEF SInv
  <2>4. \A u \in Tasks : u # t => task[u].pc \notin Holder
    BY <2>2, Alone DEF SInv
  <2>5. ServeInv' /\ ~Clearing /\ ~Clearing' /\ Statuses' = Statuses /\ Waiting' = Waiting
    BY <2>2, <2>3, <2>4, LockedServes DEF Writing
  <2> QED BY <2>2, <2>5, SeenSame DEF Serves, Standing
<1>2. ASSUME task[t].pc = "decide_put"
      PROVE  /\ f \in Flows /\ queue # <<>> /\ Head(queue) = f
             /\ \A u \in Tasks : u # t => task[u].pc \notin Holder
  <2>1. IsHead(f) /\ f \in Flows
    BY <1>2, CallFacts DEF SInv, IInv, DecideInv, Flow, WithFlow, PCs, Holder
  <2>2. \A u \in Tasks : u # t => task[u].pc \notin Holder
    BY <1>2, Alone, PCTypes DEF SInv
  <2> QED BY <2>1, <2>2 DEF IsHead
<1>3. CASE DecideForward(t)
  <2>1. /\ task[t].pc = "decide_put" /\ UNCHANGED <<rows, cache, queue>> /\ Return(t)
        /\ SetDecision(f, "request", "forward")
    BY <1>3 DEF DecideForward, At, memory
  <2>2. task'[t].pc = "idle" /\ \A u \in Tasks : u # t => task'[u] = task[u]
    BY <2>1, Returned DEF SInv
  <2>3. /\ ServeInv' /\ ~Clearing /\ ~Clearing' /\ Statuses' = Statuses
        /\ Waiting = queue /\ Waiting' = queue'
    BY <1>2, <2>1, <2>2, LockedServes DEF Writing
  <2>4. "forward" \in Verdicts /\ Waiting # <<>> /\ Head(Waiting) = f /\ Waiting' = Waiting
    BY <1>2, <2>1, <2>3 DEF Verdicts
  <2> HIDE DEF f
  <2> QED BY <1>2, <2>1, <2>3, <2>4, ServeDecide DEF Serves
<1>4. CASE DecideDrop(t)
  <2>1. task[t].pc = "decide_put" /\ SetDecision(f, "request", "drop") /\ UNCHANGED rows
    BY <1>4 DEF DecideDrop, At
  <2>2. PICK r \in Entry(cache, f) :
          LET new == [r EXCEPT !.status = "dropped"]
          IN  SetCache(new, queue) /\ Suspend(t, "decide_save", f, "drop", <<new>>)
    BY <1>4 DEF DecideDrop
  <2> DEFINE new == [r EXCEPT !.status = "dropped"]
  <2>3. r \in Record /\ r.id = f
    BY <2>2, CacheEntry DEF SInv
  <2>4. new \in Record /\ new.id = f /\ new.status = "dropped"
    BY <2>3 DEF Record, Status, Final
  <2>5. SetCache(new, queue) /\ Suspend(t, "decide_save", f, "drop", <<new>>)
    BY <2>2
  <2>6. /\ queue \in Seq(Flows) /\ NoDuplicates(queue)
        /\ Elems(queue) \subseteq Ids(cache) \cup {f}
    BY QueueType DEF SInv
  <2> HIDE DEF new, f
  <2>7. /\ ServeInv' /\ ~Clearing /\ ~Clearing'
        /\ Statuses' = [Statuses EXCEPT ![f] = "dropped"]
        /\ Waiting = queue /\ Waiting' = Without(queue, f)
    BY <1>2, <2>1, <2>4, <2>5, <2>6, FillServes DEF Writing
  <2>8. "drop" \in Verdicts /\ Waiting # <<>> /\ Head(Waiting) = f /\ Waiting' = Tail(Waiting)
    BY <1>2, <2>1, <2>6, <2>7, WithoutHead DEF Verdicts
  <2> QED BY <1>2, <2>1, <2>7, <2>8, ServeDecide DEF Serves
<1>5. CASE DecideSave(t)
  <2>1. /\ task[t].pc = "decide_save" /\ rows' = Put(rows, Rec(t)) /\ Return(t)
        /\ UNCHANGED <<cache, decisions>>
        /\ queue' = IF IsHead(f) THEN Tail(queue) ELSE queue
    BY <1>5 DEF DecideSave, At
  <2>2. queue \in Seq(Flows) /\ NoDuplicates(queue)
    BY QueueType DEF SInv
  <2>3. IsHead(f) \/ f \notin Elems(queue)
    BY <2>1 DEF SInv, AgreeInv, AwaitInv
  <2>4. queue' = Without(queue, f)
    BY <2>1, <2>2, <2>3, WithoutHead, WithoutAbsent DEF IsHead
  <2> QED BY <2>1, <2>4, WriteServes DEF Writing
<1> QED BY <1>1, <1>3, <1>4, <1>5

LEMMA TakeServes ==
  ASSUME SInv, IInv', NEW t \in Tasks, UNCHANGED limit,
         TakeDecision(t) \/ TakePop(t) \/ TakeResponse(t) \/ RespondPut(t)
  PROVE  Serves
<1>1. CASE TakeDecision(t) \/ TakeResponse(t)
  <2>1. PICK d \in decisions : decisions' = decisions \ {d}
    BY <1>1 DEF TakeDecision, TakeResponse
  <2>2. task[t].pc = "idle" /\ UNCHANGED <<rows, cache, queue>>
    BY <1>1 DEF TakeDecision, TakeResponse, Begins, At, memory
  <2>3. task'[t].pc \in {"idle", "take_pop"} /\ \A u \in Tasks : u # t => task'[u] = task[u]
    <3>1. CASE TakeDecision(t)
      BY <3>1, Suspended DEF TakeDecision, SInv
    <3>2. CASE TakeResponse(t)
      BY <2>2, <3>2 DEF TakeResponse
    <3> QED BY <1>1, <3>1, <3>2
  <2>4. ServeInv' /\ (Clearing' <=> Clearing) /\ Statuses' = Statuses /\ Waiting' = Waiting
    BY <2>2, <2>3, OutsideServes, Holders, PCTypes
  <2>5. d \in Decision
    BY DEF SInv, IInv, TableInv
  <2>6. Standing' = Standing \ {d}
    BY <2>1, <2>4 DEF Standing
  <2> QED BY <2>4, <2>5, <2>6, ServeTake DEF Serves
<1>2. CASE TakePop(t)
  <2>1. /\ task[t].pc = "take_pop" /\ PassThrough /\ UNCHANGED <<rows, decisions, cache>> /\ Return(t)
        /\ queue' = IF IsHead(Flow(t)) THEN Tail(queue) ELSE queue
    BY <1>2 DEF TakePop, At, stored
  <2>2. Flow(t) \in Flows
    BY <2>1, CallFacts DEF SInv, IInv, WithFlow, PCs
  <2>3. task'[t].pc = "idle" /\ \A u \in Tasks : u # t => task'[u] = task[u]
    BY <2>1, Returned DEF SInv
  <2>4. /\ ServeInv' /\ ~Clearing /\ ~Clearing' /\ Statuses' = Statuses
        /\ Waiting = queue /\ Waiting' = queue'
    BY <2>1, <2>3, Alone, LockedServes DEF SInv, Writing
  <2>5. Standing' = Standing
    BY <2>1, <2>4 DEF Standing
  <2> QED BY <2>1, <2>2, <2>4, <2>5, ServePop DEF Serves, IsHead
<1>3. CASE RespondPut(t)
  <2>1. PICK f \in Flows, v \in Verdicts :
          SetDecision(f, "response", v) /\ Suspend(t, "respond_mark", f, v, <<>>)
    BY <1>3 DEF RespondPut
  <2>2. task[t].pc = "idle" /\ UNCHANGED <<rows, cache, queue>>
    BY <1>3 DEF RespondPut, Begins, At, memory
  <2>3. task'[t].pc = "respond_mark" /\ \A u \in Tasks : u # t => task'[u] = task[u]
    BY <2>1, Suspended DEF SInv
  <2>4. ServeInv' /\ (Clearing' <=> Clearing) /\ Statuses' = Statuses /\ Waiting' = Waiting
    BY <2>2, <2>3, OutsideServes, Holders, PCTypes
  <2>5. CASE Clearing
    BY <2>4, <2>5, SeenSame DEF Serves, Standing
  <2>6. CASE ~Clearing
    BY <2>1, <2>4, <2>6, ServeRespond DEF Serves
  <2> QED BY <2>5, <2>6
<1> QED BY <1>1, <1>2, <1>3

\* History is cleared, as far as can be seen, when memory is emptied.
LEMMA ClearServes ==
  ASSUME SInv, IInv', NEW t \in Tasks, UNCHANGED limit, Clear(t) \/ ClearWipe(t)
  PROVE  Serves
<1>1. Writing \cup {"upsert_read", "attach_read", "final_read"} \subseteq Holder
      /\ "clear_wipe" \notin Writing \cup {"upsert_read", "attach_read", "final_read"}
      /\ "clear_wipe" \notin EndingPCs /\ "idle" \notin EndingPCs
  BY DEF Writing, Holder, EndingPCs
<1>2. <<>> \in Seq(Flows) /\ Elems(<<>>) = {} /\ Ids(<<>>) = {}
  BY DEF Elems, Ids
<1>3. CASE Clear(t)
  <2>1. /\ Acquire(t) /\ cache' = <<>> /\ queue' = <<>> /\ UNCHANGED rows
        /\ task[t].pc = "idle" /\ Suspend(t, "clear_wipe", NoFlow, "none", <<>>)
    BY <1>3 DEF Clear, Begins, At, stored
  <2>2. task'[t].pc = "clear_wipe" /\ \A u \in Tasks : u # t => task'[u] = task[u]
    BY <2>1, Suspended DEF SInv
  <2>3. \A u \in Tasks : task[u].pc \notin Holder
    BY <2>1, Alone DEF SInv
  <2>4. Ending' = {} /\ Clearing'
    BY <1>1, <2>2, <2>3, OnlyOne DEF SInv
  <2>5. Waiting' = <<>>
    BY <1>2, <2>1, <2>4, WaitingIs DEF Waiting
  <2>6. Statuses' = [g \in Flows |-> "unknown"]
    BY <1>2, <2>1 DEF Statuses, StatusOf
  <2>7. Standing' = {}
    BY <2>4 DEF Standing
  <2>8. \A u \in Tasks : task'[u].pc \notin Writing \cup {"upsert_read", "attach_read", "final_read"}
    BY <1>1, <2>2, <2>3
  <2>9. ServeInv'
    BY <2>4, <2>8 DEF SInv, ServeInv, Writing
  <2> QED BY <2>5, <2>6, <2>7, <2>9, ServeClear DEF Serves
<1>4. CASE ClearWipe(t)
  <2>1. /\ task[t].pc = "clear_wipe" /\ rows' = <<>> /\ decisions' = {} /\ Return(t)
        /\ UNCHANGED <<cache, queue>>
    BY <1>4 DEF ClearWipe, At, memory
  <2>2. task'[t].pc = "idle" /\ \A u \in Tasks : u # t => task'[u] = task[u]
    BY <2>1, Returned DEF SInv
  <2>3. \A u \in Tasks : u # t => task[u].pc \notin Holder
    BY <2>1, Alone, Holders DEF SInv
  <2>4. Ending = {} /\ Ending' = {} /\ Clearing
    BY <1>1, <2>1, <2>2, <2>3, OnlyOne DEF SInv
  <2>5. Waiting' = Waiting /\ Statuses' = Statuses
    BY <2>1, <2>4 DEF Waiting, Statuses, StatusOf
  <2>6. Standing = {} /\ Standing' = {}
    BY <2>1, <2>4 DEF Standing
  <2>7. \A u \in Tasks : task'[u].pc \notin Writing \cup {"upsert_read", "attach_read", "final_read"}
    BY <1>1, <2>2, <2>3, Holders
  <2>8. ServeInv'
    <3>1. Ids(rows') \subseteq Ids(cache')
      BY <1>2, <2>1
    <3> QED BY <2>7, <3>1 DEF SInv, ServeInv, Writing
  <2> QED BY <2>5, <2>6, <2>8, SeenSame DEF Serves
<1> QED BY <1>3, <1>4

\* A restart reads every row.
LEMMA RestartServes ==
  ASSUME SInv, CrashRestart
  PROVE  ServeInv'
<1>1. rows \in Seq(Record) /\ UniqueIds(rows)
  BY DEF SInv, IInv, TableInv
<1>2. Len(rows) <= Cardinality(Flows) /\ Len(rows) \in Nat /\ Cardinality(Flows) \in Nat
  BY <1>1, MapIds, UniqueBound, LenProperties, FS_CardinalityType DEF SInv, AllFit
<1>3. Len(rows) <= RowLimit(MaxMem) /\ RowLimit(MaxMem) \in Nat
  BY <1>2, MaxMemAssumption, ListCapAssumption DEF SInv, AllFit, RowLimit
<1>4. Recent(MaxMem) = rows
  BY <1>2, <1>3 DEF Recent, Newest
<1>5. cache' = rows /\ rows' = rows /\ limit' = MaxMem /\ task' = [t \in Tasks |-> Idle]
  BY <1>4 DEF CrashRestart, stored
<1>6. Ids(rows') \subseteq Ids(cache')
  BY <1>5
<1> QED BY <1>5, <1>6 DEF ServeInv, Idle, Writing
-----------------------------------------------------------------------------
LEMMA InitServes ==
  ASSUME Init
  PROVE  ServeInv /\ Service!ServiceInit
<1>1. \A t \in Tasks : task[t].pc = "idle"
  BY DEF Init, Idle
<1>2. Ids(rows) = {} /\ Ids(cache) = {}
  BY DEF Init, Ids
<1>3. Ending = {} /\ ~Clearing
  BY <1>1 DEF Ending, Clearing, At
<1>4. ServeInv
  BY <1>1, <1>2 DEF ServeInv, Init, Writing
<1>5. KeepIn(queue, Flows \ Ending) = <<>>
  <2>1. queue = <<>> /\ <<>> \in Seq(Flows)
    BY DEF Init
  <2> QED BY <1>3, <2>1, WaitingIs
<1>6. [f \in Flows |-> StatusOf(f)] = [f \in Flows |-> "unknown"]
  BY <1>2 DEF StatusOf
<1>7. (IF Clearing THEN {} ELSE decisions) = {}
  BY <1>3 DEF Init
<1> QED BY <1>4, <1>5, <1>6, <1>7 DEF Service!ServiceInit

LEMMA StepServes ==
  ASSUME SInv, IInv', NEW t \in Tasks, UNCHANGED limit, Step(t)
  PROVE  Serves
<1>1. CASE Begin(t)
  BY <1>1, UpsertServes, AttachServes, MarkServes, DecideServes, TakeServes, ClearServes,
     NoReaderSteps DEF Begin, SInv
<1>2. CASE Lock(t)
  BY <1>2, TakeServes, MarkServes, NoReaderSteps DEF Lock, SInv
<1>3. CASE Run(t)
  BY <1>3, UpsertServes, AttachServes, SaveServes, MarkServes, DecideServes, ClearServes,
     NoReaderSteps DEF Run, SInv
<1> QED BY <1>1, <1>2, <1>3 DEF Step

LEMMA NextServes ==
  ASSUME SInv, IInv', [Next]_vars
  PROVE  ServeInv' /\ (CrashRestart \/ Service!ServiceNext \/ UNCHANGED Seen)
<1>1. CASE CrashRestart
  BY <1>1, RestartServes
<1>2. CASE UpdateConfig
  BY <1>2 DEF UpdateConfig, SInv, AllFit
<1>3. CASE UNCHANGED limit /\ \E t \in Tasks : Step(t)
  BY <1>3, StepServes DEF Serves
<1>4. CASE UNCHANGED vars
  <2>1. UNCHANGED <<rows, decisions, cache, queue, limit, task>>
    BY <1>4 DEF vars
  <2>2. ServeInv'
    BY <2>1 DEF SInv, ServeInv, Clearing, At, Flow
  <2>3. UNCHANGED <<Statuses, Waiting, Standing>>
    BY <2>1 DEF Statuses, StatusOf, Waiting, Ending, Standing, Clearing, At, Flow
  <2> QED BY <2>2, <2>3, SeenSame
<1> QED BY <1>1, <1>2, <1>3, <1>4 DEF Next

\* What the routes can tell from statuses, queue and decisions, however the
\* operations interleave at their awaits, a store of atomic operations could
\* have shown; nothing but a restart is visible besides.
THEOREM StoreServesAtomically ==
  ASSUME AllFit, NoLateReads
  PROVE  Spec => ImplementsService
<1>1. Init => ServeInv /\ Service!ServiceInit
  BY InitServes
<1>2. IInv /\ LimitInv /\ AgreeInv /\ ServeInv /\ IInv' /\ [Next]_vars => ServeInv'
  BY NextServes DEF SInv
<1>3. IInv /\ LimitInv /\ AgreeInv /\ ServeInv /\ IInv' /\ [Next]_vars
        => [CrashRestart \/ Service!ServiceNext]_(Service!service)
  <2>1. UNCHANGED Seen => UNCHANGED Service!service
    BY DEF Seen, Service!service, Statuses, Waiting, Standing
  <2> QED BY <2>1, NextServes DEF SInv
<1>4. Spec => [](IInv /\ LimitInv) /\ [](IInv /\ AgreeInv)
  BY Inductive, AgreementKept, PTL
<1> QED BY <1>1, <1>2, <1>3, <1>4, PTL DEF Spec, ImplementsService
=============================================================================
