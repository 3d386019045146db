-------------------------- MODULE StoreRowsProofs --------------------------
(***************************************************************************)
(* Cache, queue and rows of Store agree whenever nobody holds the lock, as *)
(* long as no operation reads rows outside the lock (get_flow and cleanup  *)
(* do).  Proved for every set of flows and tasks and every limit, with     *)
(* StoreProofs' IInv and the invariant AgreeInv below, which says what     *)
(* holds in the middle of a write.  The last section, on what leaves the   *)
(* queue, holds whatever the operations are.                               *)
(***************************************************************************)
EXTENDS StoreProofs

\* A record is in the cache and not yet in its row; a row was read, and is
\* not yet in the cache.
Writing == {"save", "final_save", "decide_save"}
Reading == {"get_fetch", "get_store", "cleanup_list", "cleanup_rebuild"}

\* No operation reads rows outside the lock.
NoLateReads == Ops \cap {"get_flow", "cleanup"} = {}

\* What a call leaves in memory at each of its awaits.
AwaitInv ==
  \A t \in Tasks :
    /\ task[t].pc \notin Reading
    /\ task[t].pc \in Writing =>
         /\ Rec(t).id = Flow(t)
         /\ \A r \in Elems(cache) : r.id = Flow(t) => r = Rec(t)
    /\ task[t].pc = "save" => Rec(t).status \notin Final
    /\ task[t].pc = "decide_save" => IsHead(Flow(t)) \/ Flow(t) \notin Elems(queue)
    /\ task[t].pc = "clear_wipe" => cache = <<>>

\* A cached record is its row, or is about to be written.
CachedInv ==
  \A r \in Elems(cache) :
    r \in Elems(rows) \/ \E t \in Tasks : task[t].pc \in Writing /\ Flow(t) = r.id

\* A queued flow is not final, or is about to be reopened.
QueuedInv ==
  \A r \in Elems(rows) :
    r.status \in Final /\ r.id \in Elems(queue) =>
      \E t \in Tasks : task[t].pc = "save" /\ Flow(t) = r.id

AgreeInv == AwaitInv /\ CachedInv /\ QueuedInv
-----------------------------------------------------------------------------
\* Whoever takes the lock, finds it free or owns it works alone.
LEMMA Alone ==
  ASSUME IInv, NEW t \in Tasks
  PROVE  /\ Acquire(t) \/ PassThrough => \A u \in Tasks : task[u].pc \notin Holder
         /\ task[t].pc \in Holder => \A u \in Tasks : u # t => task[u].pc \notin Holder
  BY UnlockedAssumption DEF IInv, LockInv, Acquire, PassThrough

LEMMA Holders ==
  /\ Writing \subseteq Holder /\ "clear_wipe" \in Holder /\ "clear_wipe" \notin Writing
  /\ Reading \cap Holder = {} /\ "idle" \notin Holder \cup Reading
  BY DEF Writing, Reading, Holder

LEMMA Suspended ==
  ASSUME IInv, NEW t \in Tasks, NEW pc, NEW f, NEW a, NEW s, Suspend(t, pc, f, a, s)
  PROVE  /\ task'[t].pc = pc /\ Flow(t)' = f /\ task'[t].snap = s
         /\ \A u \in Tasks : u # t => task'[u] = task[u]
  BY DEF IInv, CallInv, Suspend, Flow

LEMMA Returned ==
  ASSUME IInv, NEW t \in Tasks, Return(t)
  PROVE  task'[t].pc = "idle" /\ \A u \in Tasks : u # t => task'[u] = task[u]
  BY DEF IInv, CallInv, Return, Idle

\* What _set_cache leaves in the cache and in the queue.
LEMMA SetCacheLeaves ==
  ASSUME IInv, LimitInv, NEW r \in Record, NEW q \in Seq(Flows), SetCache(r, q)
  PROVE  /\ Elems(cache') \subseteq {e \in Elems(cache) : e.id # r.id} \cup {r}
         /\ Elems(queue') \subseteq Elems(q)
<1> DEFINE p == Put(cache, r)
<1>1. p \in Seq(Record) /\ Elems(p) = {e \in Elems(cache) : e.id # r.id} \cup {r}
  BY PutProperties DEF IInv, MemoryInv
<1>2. cache' = Newest(p, limit)
  BY DEF SetCache
<1>3. Elems(cache') \subseteq Elems(p)
  <2> HIDE DEF p
  <2> QED BY <1>1, <1>2, NewestProperties, MaxMemAssumption DEF LimitInv
<1>4. Elems(queue') \subseteq Elems(q)
  BY SetCacheOrders
<1> QED BY <1>1, <1>3, <1>4

\* A record enters the cache, and its row is to be written next.
LEMMA WriteBegins ==
  ASSUME IInv, LimitInv, AgreeInv, NEW t \in Tasks, NEW r \in Record, NEW q \in Seq(Flows),
         NEW pc \in Writing, NEW a,
         \A u \in Tasks : u # t => task[u].pc \notin Holder, task[t].pc \notin Writing,
         SetCache(r, q), Suspend(t, pc, r.id, a, <<r>>), UNCHANGED rows,
         pc = "save" => r.status \notin Final,
         \A x \in Elems(q) : x \in Elems(queue) \/ (pc = "save" /\ x = r.id),
         pc = "decide_save" => IsHead(r.id)' \/ r.id \notin Elems(queue')
  PROVE  AgreeInv'
<1>1. /\ Elems(cache') \subseteq {e \in Elems(cache) : e.id # r.id} \cup {r}
      /\ Elems(queue') \subseteq Elems(q)
  BY SetCacheLeaves
<1>2. /\ task'[t].pc = pc /\ Flow(t)' = r.id /\ task'[t].snap = <<r>>
      /\ \A u \in Tasks : u # t => task'[u] = task[u]
  BY Suspended
<1>3. Rec(t)' = r
  BY <1>2 DEF Rec
<1>4. \A u \in Tasks : u # t => task'[u].pc \notin Holder \cup Reading
  BY <1>2 DEF AgreeInv, AwaitInv
<1>5. \A u \in Tasks : task[u].pc \notin Writing
  BY Holders
<1>6. AwaitInv'
  <2>1. SUFFICES ASSUME NEW u \in Tasks
                 PROVE  /\ task'[u].pc \notin Reading
                        /\ task'[u].pc \in Writing =>
                             /\ Rec(u)'.id = Flow(u)'
                             /\ \A e \in Elems(cache') : e.id = Flow(u)' => e = Rec(u)'
                        /\ task'[u].pc = "save" => Rec(u)'.status \notin Final
                        /\ task'[u].pc = "decide_save" =>
                             IsHead(Flow(u))' \/ Flow(u)' \notin Elems(queue')
                        /\ task'[u].pc = "clear_wipe" => cache' = <<>>
    BY DEF AwaitInv, Elems, Final
  <2>2. CASE u = t
    <3>1. \A e \in Elems(cache') : e.id = r.id => e = r
      BY <1>1
    <3>2. pc \notin Reading /\ pc # "clear_wipe"
      BY Holders
    <3>3. pc = "decide_save" => IsHead(Flow(t))' \/ Flow(t)' \notin Elems(queue')
      BY <1>2 DEF IsHead
    <3> QED BY <1>2, <1>3, <2>2, <3>1, <3>2, <3>3
  <2>3. CASE u # t
    BY <1>4, <2>3, Holders DEF Writing
  <2> QED BY <2>2, <2>3
<1>7. CachedInv'
  <2>1. SUFFICES ASSUME NEW e \in Elems(cache')
                 PROVE  e \in Elems(rows') \/ \E u \in Tasks : task'[u].pc \in Writing /\ Flow(u)' = e.id
    BY DEF CachedInv, Elems, Writing
  <2>2. e = r \/ e \in Elems(cache)
    BY <1>1
  <2> QED BY <1>2, <1>5, <2>2 DEF AgreeInv, CachedInv
<1>8. QueuedInv'
  <2>1. SUFFICES ASSUME NEW e \in Elems(rows'), e.status \in Final, e.id \in Elems(queue')
                 PROVE  \E u \in Tasks : task'[u].pc = "save" /\ Flow(u)' = e.id
    BY DEF QueuedInv, Elems, Final
  <2>2. e \in Elems(rows)
    OBVIOUS
  <2>3. e.id \in Elems(queue) \/ (pc = "save" /\ e.id = r.id)
    BY <1>1, <2>1
  <2>4. e.id \notin Elems(queue)
    BY <1>5, <2>1, <2>2 DEF AgreeInv, QueuedInv, Writing
  <2> QED BY <1>2, <2>3, <2>4
<1> QED BY <1>6, <1>7, <1>8 DEF AgreeInv

\* The row is written, and the call returns.
LEMMA WriteEnds ==
  ASSUME IInv, AgreeInv, NEW t \in Tasks, task[t].pc \in Writing,
         rows' = Put(rows, Rec(t)), UNCHANGED cache, Return(t),
         Elems(queue') \subseteq Elems(queue),
         task[t].pc = "save" \/ Flow(t) \notin Elems(queue')
  PROVE  AgreeInv'
<1>1. Rec(t) \in Record /\ Rec(t).id = Flow(t)
  BY CallFacts DEF IInv, AgreeInv, AwaitInv, Writing, WithRecord
<1>2. Elems(rows') = {e \in Elems(rows) : e.id # Flow(t)} \cup {Rec(t)}
  BY <1>1, PutProperties DEF IInv, TableInv
<1>3. task'[t].pc = "idle" /\ \A u \in Tasks : u # t => task'[u] = task[u]
  BY Returned
<1>4. \A u \in Tasks : u # t => task[u].pc \notin Holder
  BY Alone, Holders
<1>5. \A u \in Tasks : task'[u].pc \notin Holder \cup Reading
  BY <1>3, <1>4, Holders DEF AgreeInv, AwaitInv
<1>6. AwaitInv'
  BY <1>5, Holders DEF AwaitInv, Writing, Elems
<1>7. CachedInv'
  <2>1. SUFFICES ASSUME NEW e \in Elems(cache) PROVE e \in Elems(rows')
    BY DEF CachedInv, Elems
  <2>2. e \in Elems(rows) \/ e.id = Flow(t)
    BY <1>4, <2>1, Holders DEF AgreeInv, CachedInv
  <2>3. e.id = Flow(t) => e = Rec(t)
    BY <2>1 DEF AgreeInv, AwaitInv
  <2> QED BY <1>2, <2>2, <2>3
<1>8. QueuedInv'
  <2>1. SUFFICES ASSUME NEW e \in Elems(rows'), e.status \in Final, e.id \in Elems(queue')
                 PROVE  FALSE
    BY DEF QueuedInv, Elems, Final
  <2>2. CASE e = Rec(t)
    BY <1>1, <2>1, <2>2 DEF AgreeInv, AwaitInv
  <2>3. CASE e \in Elems(rows) /\ e.id # Flow(t)
    <3>1. PICK u \in Tasks : task[u].pc = "save" /\ Flow(u) = e.id
      BY <2>1, <2>3 DEF AgreeInv, QueuedInv
    <3> QED BY <1>4, <2>3, <3>1, Holders DEF Writing
  <2> QED BY <1>2, <2>2, <2>3
<1> QED BY <1>6, <1>7, <1>8 DEF AgreeInv

\* A step that writes nothing to the cache or the rows; where others may be
\* writing, it leaves the queue alone.
LEMMA QuietKeeps ==
  ASSUME IInv, AgreeInv, NEW t \in Tasks, task[t].pc \notin Writing,
         UNCHANGED <<rows, cache>>, Elems(queue') \subseteq Elems(queue),
         \/ UNCHANGED queue
         \/ \A u \in Tasks : u # t => task[u].pc \notin Holder,
         task'[t].pc \notin Writing \cup Reading \cup {"clear_wipe"},
         \A u \in Tasks : u # t => task'[u] = task[u]
  PROVE  AgreeInv'
<1>1. AwaitInv'
  <2>1. SUFFICES ASSUME NEW u \in Tasks
                 PROVE  /\ task'[u].pc \notin Reading
                        /\ task'[u].pc \in Writing =>
                             /\ Rec(u)'.id = Flow(u)'
                             /\ \A e \in Elems(cache) : e.id = Flow(u)' => e = Rec(u)'
                        /\ task'[u].pc = "save" => Rec(u)'.status \notin Final
                        /\ task'[u].pc = "decide_save" =>
                             IsHead(Flow(u))' \/ Flow(u)' \notin Elems(queue')
                        /\ task'[u].pc = "clear_wipe" => cache = <<>>
    BY DEF AwaitInv, Elems, Final
  <2>2. CASE u = t
    BY <2>2 DEF Writing
  <2>3. CASE u # t /\ task[u].pc \in Holder
    <3>1. task'[u] = task[u] /\ UNCHANGED queue
      BY <2>3
    <3>2. Rec(u)' = Rec(u) /\ Flow(u)' = Flow(u) /\ (IsHead(Flow(u)) => IsHead(Flow(u))')
      BY <3>1 DEF Rec, Flow, IsHead
    <3> QED BY <3>1, <3>2 DEF AgreeInv, AwaitInv
  <2>4. CASE u # t /\ task[u].pc \notin Holder
    BY <2>4, Holders DEF AgreeInv, AwaitInv, Writing
  <2> QED BY <2>2, <2>3, <2>4
<1>2. CachedInv'
  <2>1. SUFFICES ASSUME NEW e \in Elems(cache)
                 PROVE  e \in Elems(rows) \/ \E u \in Tasks : task'[u].pc \in Writing /\ Flow(u)' = e.id
    BY DEF CachedInv, Elems, Writing
  <2>2. CASE \E u \in Tasks : task[u].pc \in Writing /\ Flow(u) = e.id
    BY <2>2 DEF Flow
  <2> QED BY <2>2 DEF AgreeInv, CachedInv
<1>3. QueuedInv'
  <2>1. SUFFICES ASSUME NEW e \in Elems(rows), e.status \in Final, e.id \in Elems(queue')
                 PROVE  \E u \in Tasks : task'[u].pc = "save" /\ Flow(u)' = e.id
    BY DEF QueuedInv, Elems, Final
  <2>2. PICK u \in Tasks : task[u].pc = "save" /\ Flow(u) = e.id
    BY <2>1 DEF AgreeInv, QueuedInv
  <2> QED BY <2>2 DEF Flow, Writing
<1> QED BY <1>1, <1>2, <1>3 DEF AgreeInv

\* The head stays the head, or leaves, when _set_cache trims the queue.
LEMMA HeadSurvives ==
  ASSUME IInv, LimitInv, NEW r \in Record, IsHead(r.id), SetCache(r, queue)
  PROVE  IsHead(r.id)' \/ r.id \notin Elems(queue')
<1>1. SUFFICES ASSUME r.id \in Elems(queue') PROVE IsHead(r.id)'
  OBVIOUS
<1>2. queue \in Seq(Flows) /\ NoDuplicates(queue) /\ Elems(queue) \subseteq Ids(cache)
  BY DEF IInv, MemoryInv
<1>3. queue' \in Seq(Flows) /\ NoDuplicates(queue')
  <2>1. MemoryInv'
    BY <1>2, SetCacheKeeps DEF IInv
  <2> QED BY <2>1 DEF MemoryInv
<1>4. /\ \A f, g \in Elems(queue') : Before(queue, f, g) => Before(queue', f, g)
      /\ Elems(queue') \subseteq Elems(queue)
  BY <1>2, SetCacheOrders
<1>5. queue' # <<>> /\ queue'[1] \in Elems(queue') /\ DOMAIN queue' = 1..Len(queue')
  BY <1>1, <1>3, LenProperties DEF Elems
<1>6. Before(queue, r.id, queue'[1]) \/ queue'[1] = r.id
  <2>1. queue # <<>> /\ queue[1] = r.id /\ DOMAIN queue = 1..Len(queue) /\ Len(queue) \in Nat
    BY <1>2, LenProperties DEF IsHead
  <2>2. PICK i \in DOMAIN queue : queue[i] = queue'[1]
    BY <1>4, <1>5 DEF Elems
  <2>3. i = 1 \/ 1 < i
    BY <2>1
  <2>4. 1 \in DOMAIN queue
    BY <2>1, <2>2
  <2> QED BY <2>1, <2>2, <2>3, <2>4 DEF Before
<1>7. ~Before(queue', r.id, queue'[1])
  <2>1. SUFFICES ASSUME Before(queue', r.id, queue'[1]) PROVE FALSE
    OBVIOUS
  <2>2. PICK i, j \in DOMAIN queue' : i < j /\ queue'[j] = queue'[1]
    BY <2>1 DEF Before
  <2>3. 1 \in DOMAIN queue'
    BY <1>3, <1>5, <2>2, LenProperties
  <2>4. j = 1
    BY <1>3, <2>2, <2>3 DEF NoDuplicates
  <2>5. i \in Nat \ {0}
    BY <1>5, <2>2
  <2> QED BY <2>2, <2>4, <2>5
<1>8. queue'[1] = r.id
  BY <1>1, <1>4, <1>5, <1>6, <1>7
<1> QED BY <1>3, <1>5, <1>8 DEF IsHead
-----------------------------------------------------------------------------
\* One lemma per operation: each of its steps keeps AgreeInv.
LEMMA ApplyUpsertAgrees ==
  ASSUME IInv, LimitInv, AgreeInv, NEW t \in Tasks, NEW f \in Flows, NEW found,
         \A u \in Tasks : u # t => task[u].pc \notin Holder, task[t].pc \notin Writing,
         ApplyUpsert(t, f, found)
  PROVE  AgreeInv'
<1> DEFINE r == Reopened(f, found)
           q == IF f \in Elems(queue) THEN queue ELSE Append(queue, f)
<1>1. r \in Record /\ r.id = f /\ r.status \notin Final
  BY DEF Reopened, Record, Status, Final
<1>2. q \in Seq(Flows) /\ \A x \in Elems(q) : x \in Elems(queue) \/ x = f
  BY AppendToQueue DEF IInv, MemoryInv
<1>3. SetCache(r, q) /\ Suspend(t, "save", f, "none", <<r>>) /\ UNCHANGED rows
  BY DEF ApplyUpsert, stored
<1> HIDE DEF r, q
<1> QED BY <1>1, <1>2, <1>3, WriteBegins DEF Writing

LEMMA UpsertAgrees ==
  ASSUME IInv, LimitInv, AgreeInv, NEW t \in Tasks, Upsert(t) \/ UpsertRead(t)
  PROVE  AgreeInv'
<1>1. CASE Upsert(t)
  <2>1. PICK f \in Flows :
          /\ Acquire(t) /\ task[t].pc = "idle"
          /\ \/ ApplyUpsert(t, f, Entry(cache, f))
             \/ Suspend(t, "upsert_read", f, "none", <<>>) /\ UNCHANGED <<stored, memory>>
    BY <1>1 DEF Upsert, Begins, At
  <2>2. \A u \in Tasks : task[u].pc \notin Holder
    BY <2>1, Alone
  <2>3. CASE ApplyUpsert(t, f, Entry(cache, f))
    BY <2>1, <2>2, <2>3, ApplyUpsertAgrees DEF Writing
  <2>4. CASE Suspend(t, "upsert_read", f, "none", <<>>) /\ UNCHANGED <<stored, memory>>
    BY <2>1, <2>4, Suspended, QuietKeeps DEF Writing, Reading, stored, memory
  <2> QED BY <2>1, <2>3, <2>4
<1>2. CASE UpsertRead(t)
  <2>1. ApplyUpsert(t, Flow(t), Entry(rows, Flow(t))) /\ task[t].pc = "upsert_read"
    BY <1>2 DEF UpsertRead, At
  <2>2. Flow(t) \in Flows /\ \A u \in Tasks : u # t => task[u].pc \notin Holder
    BY <2>1, Alone, CallFacts, PCTypes DEF IInv
  <2> QED BY <2>1, <2>2, ApplyUpsertAgrees DEF Writing
<1> QED BY <1>1, <1>2

LEMMA ApplyAttachAgrees ==
  ASSUME IInv, LimitInv, AgreeInv, NEW t \in Tasks, NEW f \in Flows,
         \A u \in Tasks : u # t => task[u].pc \notin Holder, task[t].pc \notin Writing,
         ApplyAttach(t, f)
  PROVE  AgreeInv'
<1> DEFINE r == [id |-> f, status |-> "pending_response", response |-> "captured"]
<1>1. r \in Record /\ r.id = f /\ r.status \notin Final
  BY DEF Record, Status, Final
<1>2. queue \in Seq(Flows)
  BY DEF IInv, MemoryInv
<1>3. SetCache(r, queue) /\ Suspend(t, "save", f, "none", <<r>>) /\ UNCHANGED rows
  BY DEF ApplyAttach, stored
<1> HIDE DEF r
<1> QED BY <1>1, <1>2, <1>3, WriteBegins DEF Writing

LEMMA AttachAgrees ==
  ASSUME IInv, LimitInv, AgreeInv, NEW t \in Tasks, Attach(t) \/ AttachRead(t)
  PROVE  AgreeInv'
<1>1. CASE Attach(t)
  <2>1. PICK f \in Flows :
          /\ Acquire(t) /\ task[t].pc = "idle"
          /\ \/ ApplyAttach(t, f)
             \/ Suspend(t, "attach_read", f, "none", <<>>) /\ UNCHANGED <<stored, memory>>
    BY <1>1 DEF Attach, Begins, At
  <2>2. \A u \in Tasks : task[u].pc \notin Holder
    BY <2>1, Alone
  <2>3. CASE ApplyAttach(t, f)
    BY <2>1, <2>2, <2>3, ApplyAttachAgrees DEF Writing
  <2>4. CASE Suspend(t, "attach_read", f, "none", <<>>) /\ UNCHANGED <<stored, memory>>
    BY <2>1, <2>4, Suspended, QuietKeeps DEF Writing, Reading, stored, memory
  <2> QED BY <2>1, <2>3, <2>4
<1>2. CASE AttachRead(t)
  <2>1. ApplyAttach(t, Flow(t)) /\ task[t].pc = "attach_read"
    BY <1>2 DEF AttachRead, At
  <2>2. Flow(t) \in Flows /\ \A u \in Tasks : u # t => task[u].pc \notin Holder
    BY <2>1, Alone, CallFacts, PCTypes DEF IInv
  <2> QED BY <2>1, <2>2, ApplyAttachAgrees DEF Writing
<1> QED BY <1>1, <1>2

LEMMA ApplyFinalAgrees ==
  ASSUME IInv, LimitInv, AgreeInv, NEW t \in Tasks, NEW r \in Record, NEW a,
         \A u \in Tasks : u # t => task[u].pc \notin Holder, task[t].pc \notin Writing,
         ApplyFinal(t, r, a)
  PROVE  AgreeInv'
<1> DEFINE new == [r EXCEPT !.status = FinalOf(a)]
<1>1. new \in Record /\ new.id = r.id
  BY DEF Record, Status, Final, FinalOf
<1>2. queue \in Seq(Flows)
  BY DEF IInv, MemoryInv
<1>3. SetCache(new, queue) /\ Suspend(t, "final_save", new.id, a, <<new>>) /\ UNCHANGED rows
  BY <1>1 DEF ApplyFinal, stored
<1> HIDE DEF new
<1> QED BY <1>1, <1>2, <1>3, WriteBegins DEF Writing

LEMMA SetFinalStatusAgrees ==
  ASSUME IInv, LimitInv, AgreeInv, NEW t \in Tasks, NEW f, NEW a,
         task[t].pc \notin Writing, SetFinalStatus(t, f, a)
  PROVE  AgreeInv'
<1>1. \A u \in Tasks : task[u].pc \notin Holder
  BY Alone DEF SetFinalStatus
<1>2. CASE \E r \in Entry(cache, f) : ApplyFinal(t, r, a)
  BY <1>1, <1>2, CacheEntry, ApplyFinalAgrees
<1>3. CASE Suspend(t, "final_read", f, a, <<>>) /\ UNCHANGED <<stored, memory>>
  BY <1>3, Suspended, QuietKeeps DEF Writing, Reading, stored, memory
<1> QED BY <1>2, <1>3 DEF SetFinalStatus

LEMMA MarkAgrees ==
  ASSUME IInv, LimitInv, AgreeInv, NEW t \in Tasks,
         \/ MarkCompleted(t) \/ MarkDropped(t) \/ RespondPut(t) \/ RespondMark(t)
         \/ FinalRead(t) \/ FinalSave(t)
  PROVE  AgreeInv'
<1>1. CASE MarkCompleted(t) \/ MarkDropped(t) \/ RespondMark(t)
  <2>1. task[t].pc \notin Writing /\ \E f, a : SetFinalStatus(t, f, a)
    BY <1>1 DEF MarkCompleted, MarkDropped, RespondMark, Begins, At, Writing
  <2> QED BY <2>1, SetFinalStatusAgrees
<1>2. CASE RespondPut(t)
  <2>1. PICK f, a : Suspend(t, "respond_mark", f, a, <<>>)
    BY <1>2 DEF RespondPut
  <2>2. task[t].pc = "idle" /\ UNCHANGED <<rows, cache, queue>>
    BY <1>2 DEF RespondPut, Begins, At, memory
  <2> QED BY <2>1, <2>2, Suspended, QuietKeeps DEF Writing, Reading
<1>3. CASE FinalRead(t)
  <2>1. task[t].pc = "final_read"
    BY <1>3 DEF FinalRead, At
  <2>2. \A u \in Tasks : u # t => task[u].pc \notin Holder
    BY <2>1, Alone, PCTypes
  <2>3. CASE \E r \in Entry(rows, Flow(t)) : ApplyFinal(t, r, Arg(t))
    BY <2>1, <2>2, <2>3, RowEntry, ApplyFinalAgrees DEF Writing
  <2>4. CASE Return(t) /\ UNCHANGED <<stored, memory>>
    BY <2>1, <2>4, Returned, QuietKeeps DEF Writing, Reading, stored, memory
  <2> QED BY <1>3, <2>3, <2>4 DEF FinalRead
<1>4. CASE FinalSave(t)
  <2>1. /\ task[t].pc = "final_save" /\ rows' = Put(rows, Rec(t))
        /\ queue' = Without(queue, Flow(t)) /\ Return(t) /\ UNCHANGED cache
    BY <1>4 DEF FinalSave, At
  <2>2. Elems(queue') = Elems(queue) \ {Flow(t)}
    BY <2>1, WithoutProperties DEF IInv, MemoryInv
  <2> QED BY <2>1, <2>2, WriteEnds DEF Writing
<1> QED BY <1>1, <1>2, <1>3, <1>4

LEMMA SaveAgrees ==
  ASSUME IInv, LimitInv, AgreeInv, NEW t \in Tasks, Save(t)
  PROVE  AgreeInv'
  BY WriteEnds DEF Save, At, Writing, memory

\* What is popped from the queue.
LEMMA PopLeaves ==
  ASSUME IInv, NEW f, queue' = IF IsHead(f) THEN Tail(queue) ELSE queue
  PROVE  /\ Elems(queue') \subseteq Elems(queue)
         /\ IsHead(f) => f \notin Elems(queue')
<1>1. CASE IsHead(f)
  BY <1>1, TailProperties DEF IInv, MemoryInv, IsHead
<1>2. CASE ~IsHead(f)
  BY <1>2
<1> QED BY <1>1, <1>2

LEMMA DecideAgrees ==
  ASSUME IInv, LimitInv, AgreeInv, NEW t \in Tasks,
         \/ Decide(t) \/ DecideForward(t) \/ DecideDrop(t) \/ DecideSave(t)
         \/ TakeDecision(t) \/ TakePop(t) \/ TakeResponse(t)
  PROVE  AgreeInv'
<1>1. CASE Decide(t)
  <2>1. PICK f, a : Suspend(t, "decide_put", f, a, <<>>)
    BY <1>1 DEF Decide
  <2>2. task[t].pc = "idle" /\ UNCHANGED <<rows, cache, queue>>
    BY <1>1 DEF Decide, Begins, At, memory, stored
  <2> QED BY <2>1, <2>2, Suspended, QuietKeeps DEF Writing, Reading
<1>2. CASE DecideForward(t)
  <2>1. task[t].pc = "decide_put" /\ UNCHANGED <<rows, cache, queue>> /\ Return(t)
    BY <1>2 DEF DecideForward, At, memory
  <2> QED BY <2>1, Returned, QuietKeeps DEF Writing, Reading
<1>3. CASE DecideDrop(t)
  <2>1. task[t].pc = "decide_put" /\ UNCHANGED rows
    BY <1>3 DEF DecideDrop, At
  <2>2. PICK r \in Entry(cache, Flow(t)) :
          LET new == [r EXCEPT !.status = "dropped"]
          IN  SetCache(new, queue) /\ Suspend(t, "decide_save", Flow(t), "drop", <<new>>)
    BY <1>3 DEF DecideDrop
  <2> DEFINE new == [r EXCEPT !.status = "dropped"]
  <2>3. r \in Record /\ r.id = Flow(t)
    BY CacheEntry
  <2>4. new \in Record /\ new.id = Flow(t)
    BY <2>3 DEF Record, Status, Final
  <2>5. SetCache(new, queue) /\ Suspend(t, "decide_save", new.id, "drop", <<new>>)
    BY <2>2, <2>4
  <2> HIDE DEF new
  <2>6. IsHead(new.id)
    BY <2>1, <2>4 DEF IInv, DecideInv, Flow
  <2>7. IsHead(new.id)' \/ new.id \notin Elems(queue')
    BY <2>4, <2>5, <2>6, HeadSurvives
  <2>8. queue \in Seq(Flows) /\ \A u \in Tasks : u # t => task[u].pc \notin Holder
    BY <2>1, Alone, PCTypes DEF IInv, MemoryInv
  <2> QED BY <2>1, <2>4, <2>5, <2>7, <2>8, WriteBegins DEF Writing
<1>4. CASE DecideSave(t)
  <2>1. /\ task[t].pc = "decide_save" /\ rows' = Put(rows, Rec(t)) /\ UNCHANGED cache
        /\ queue' = (IF IsHead(Flow(t)) THEN Tail(queue) ELSE queue) /\ Return(t)
    BY <1>4 DEF DecideSave, At
  <2>2. Elems(queue') \subseteq Elems(queue) /\ Flow(t) \notin Elems(queue')
    BY <2>1, PopLeaves DEF AgreeInv, AwaitInv
  <2> QED BY <2>1, <2>2, WriteEnds DEF Writing
<1>5. CASE TakeDecision(t)
  <2>1. PICK f : Suspend(t, "take_pop", f, "none", <<>>)
    BY <1>5 DEF TakeDecision
  <2>2. task[t].pc = "idle" /\ UNCHANGED <<rows, cache, queue>>
    BY <1>5 DEF TakeDecision, Begins, At, memory
  <2> QED BY <2>1, <2>2, Suspended, QuietKeeps DEF Writing, Reading
<1>6. CASE TakePop(t)
  <2>1. /\ task[t].pc = "take_pop" /\ PassThrough /\ UNCHANGED <<rows, cache>> /\ Return(t)
        /\ queue' = IF IsHead(Flow(t)) THEN Tail(queue) ELSE queue
    BY <1>6 DEF TakePop, At, stored
  <2> QED BY <2>1, Alone, PopLeaves, Returned, QuietKeeps DEF Writing, Reading
<1>7. CASE TakeResponse(t)
  <2>1. task[t].pc = "idle" /\ UNCHANGED <<rows, cache, queue, task>>
    BY <1>7 DEF TakeResponse, Begins, At, memory
  <2> QED BY <2>1, QuietKeeps DEF Writing, Reading
<1> QED BY <1>1, <1>2, <1>3, <1>4, <1>5, <1>6, <1>7

LEMMA ClearAgrees ==
  ASSUME IInv, AgreeInv, NEW t \in Tasks, Clear(t) \/ ClearWipe(t)
  PROVE  AgreeInv'
<1>1. CASE Clear(t)
  <2>1. /\ \A u \in Tasks : task[u].pc \notin Holder
        /\ cache' = <<>> /\ queue' = <<>> /\ UNCHANGED rows
        /\ Suspend(t, "clear_wipe", NoFlow, "none", <<>>)
    BY <1>1, Alone DEF Clear, stored
  <2>2. /\ task'[t].pc = "clear_wipe"
        /\ \A u \in Tasks : u # t => task'[u].pc \notin Holder \cup Reading
    BY <2>1, Suspended DEF AgreeInv, AwaitInv
  <2>3. Elems(cache') = {} /\ Elems(queue') = {}
    BY <2>1 DEF Elems
  <2>4. \A u \in Tasks : /\ task'[u].pc \notin Writing \cup Reading
                         /\ task'[u].pc = "clear_wipe" => cache' = <<>>
    BY <2>1, <2>2, Holders
  <2>5. AwaitInv'
    BY <2>4 DEF AwaitInv, Writing
  <2> QED BY <2>3, <2>5 DEF AgreeInv, CachedInv, QueuedInv, Elems
<1>2. CASE ClearWipe(t)
  <2>1. task[t].pc = "clear_wipe" /\ rows' = <<>> /\ Return(t) /\ UNCHANGED cache
    BY <1>2 DEF ClearWipe, At, memory
  <2>2. cache' = <<>>
    BY <2>1 DEF AgreeInv, AwaitInv
  <2>3. \A u \in Tasks : task'[u].pc \notin Holder \cup Reading
    BY <2>1, Alone, Returned, Holders DEF AgreeInv, AwaitInv
  <2>4. Elems(cache') = {} /\ Elems(rows') = {}
    BY <2>1, <2>2 DEF Elems
  <2>5. AwaitInv'
    BY <2>3, Holders DEF AwaitInv, Writing
  <2> QED BY <2>4, <2>5 DEF AgreeInv, CachedInv, QueuedInv, Elems
<1> QED BY <1>1, <1>2

\* The operations that read rows outside the lock are the only ones that could
\* break the agreement, and none of their steps is taken.
LEMMA NoReaderSteps ==
  ASSUME NoLateReads, AgreeInv, NEW t \in Tasks
  PROVE  /\ ~GetMiss(t) /\ ~GetFetch(t) /\ ~GetStore(t)
         /\ ~CleanupDelete(t) /\ ~CleanupList(t) /\ ~CleanupRebuild(t)
  BY DEF NoLateReads, AgreeInv, AwaitInv, Reading, GetMiss, GetFetch, GetStore,
     CleanupDelete, CleanupList, CleanupRebuild, Begins, At

\* What start() queues are the flows whose rows are pending requests.
LEMMA PendingStatus ==
  ASSUME NEW s \in Seq(Record), NEW x \in Elems(PendingIds(s))
  PROVE  \E r \in Elems(s) : r.id = x /\ r.status = "pending_request"
<1> DEFINE I == {i \in DOMAIN s : s[i].status = "pending_request"}
           u == Sub(s, I)
<1>1. DOMAIN s = 1..Len(s) /\ I \in SUBSET (1..Len(s))
  BY LenProperties
<1>2. u \in Seq(Record) /\ Ids(u) = {s[i].id : i \in I}
  BY <1>1, SubProperties, SubElems
<1>3. Elems(PendingIds(s)) = Ids(u)
  <2>1. PendingIds(s) = IdsInOrder(u)
    BY DEF PendingIds
  <2> HIDE DEF u
  <2> QED BY <1>2, <2>1, IdsInOrderProperties, RecordIds
<1>4. PICK i \in I : s[i].id = x
  BY <1>2, <1>3
<1> QED BY <1>4 DEF Elems

LEMMA RestartAgrees ==
  ASSUME IInv, AgreeInv, CrashRestart
  PROVE  AgreeInv'
<1> DEFINE recent == Recent(MaxMem)
<1>1. /\ cache' = recent /\ queue' = PendingIds(recent) /\ UNCHANGED rows
      /\ task' = [t \in Tasks |-> Idle]
  BY DEF CrashRestart, stored
<1>2. recent \in Seq(Record) /\ Elems(recent) \subseteq Elems(rows)
  <2>1. RowLimit(MaxMem) \in Nat
    BY RowLimitType, MaxMemAssumption
  <2> QED BY <2>1, NewestProperties DEF Recent, IInv, TableInv
<1> HIDE DEF recent
<1>3. \A t \in Tasks : task'[t].pc = "idle"
  BY <1>1 DEF Idle
<1>4. AwaitInv'
  BY <1>3, Holders DEF AwaitInv, Writing
<1>5. CachedInv'
  BY <1>1, <1>2 DEF CachedInv, Elems
<1>6. QueuedInv'
  <2>1. SUFFICES ASSUME NEW e \in Elems(rows), e.status \in Final, e.id \in Elems(queue')
                 PROVE  FALSE
    BY <1>1 DEF QueuedInv, Elems, Final
  <2>2. PICK r \in Elems(recent) : r.id = e.id /\ r.status = "pending_request"
    BY <1>1, <1>2, <2>1, PendingStatus
  <2>3. r \in Elems(rows)
    BY <1>2
  <2>4. r = e
    BY <2>1, <2>2, <2>3 DEF Elems, UniqueIds, IInv, TableInv
  <2> QED BY <2>1, <2>2, <2>4 DEF Final
<1> QED BY <1>4, <1>5, <1>6 DEF AgreeInv
-----------------------------------------------------------------------------
LEMMA InitAgrees == Init => AgreeInv
<1>1. SUFFICES ASSUME Init PROVE AgreeInv
  OBVIOUS
<1>2. \A t \in Tasks : task[t].pc = "idle"
  BY <1>1 DEF Init, Idle
<1>3. Elems(cache) = {} /\ Elems(rows) = {}
  BY <1>1 DEF Init, Elems
<1>4. AwaitInv
  BY <1>2, Holders DEF AwaitInv, Writing
<1> QED BY <1>3, <1>4 DEF AgreeInv, CachedInv, QueuedInv

\* Every step keeps AgreeInv.
LEMMA NextAgrees ==
  ASSUME NoLateReads, IInv, LimitInv, AgreeInv, [Next]_vars
  PROVE  AgreeInv'
<1>1. CASE UpdateConfig \/ UNCHANGED vars
  <2>1. UNCHANGED <<rows, cache, queue, task>>
    BY <1>1 DEF UpdateConfig, vars, stored, memory
  <2> QED BY <2>1 DEF AgreeInv, AwaitInv, CachedInv, QueuedInv, Elems, IsHead, Rec, Flow
<1>2. CASE CrashRestart
  BY <1>2, RestartAgrees
<1>3. CASE \E t \in Tasks : Step(t)
  <2>1. PICK t \in Tasks : Step(t)
    BY <1>3
  <2>2. CASE Begin(t)
    BY <2>2, UpsertAgrees, AttachAgrees, MarkAgrees, DecideAgrees, ClearAgrees,
       NoReaderSteps DEF Begin
  <2>3. CASE Lock(t)
    BY <2>3, DecideAgrees, MarkAgrees, NoReaderSteps DEF Lock
  <2>4. CASE Run(t)
    BY <2>4, UpsertAgrees, AttachAgrees, SaveAgrees, MarkAgrees, DecideAgrees,
       ClearAgrees, NoReaderSteps DEF Run
  <2> QED BY <2>1, <2>2, <2>3, <2>4 DEF Step
<1> QED BY <1>1, <1>2, <1>3 DEF Next

\* Memory and tables stay in agreement through every await and every restart.
THEOREM AgreementKept == ASSUME NoLateReads PROVE Spec => [](IInv /\ AgreeInv)
<1>1. Init => AgreeInv
  BY InitAgrees
<1>2. IInv /\ LimitInv /\ AgreeInv /\ [Next]_vars => AgreeInv'
  BY NextAgrees
<1> QED BY <1>1, <1>2, Inductive, PTL DEF Spec

\* With the lock free, what get_flow and the page's list are answered from the
\* cache is what the table holds, and would be answered after a restart.
THEOREM CacheStaysTrue == ASSUME NoLateReads PROVE Spec => []CacheMatchesRows
<1>1. IInv /\ AgreeInv => CacheMatchesRows
  <2>1. SUFFICES ASSUME IInv, AgreeInv, lock = Unlocked, NEW r \in Elems(cache)
                 PROVE  r \in Elems(rows)
    BY DEF CacheMatchesRows
  <2>2. \A t \in Tasks : task[t].pc \notin Writing
    BY <2>1, Holders, UnlockedAssumption DEF IInv, LockInv
  <2> QED BY <2>1, <2>2 DEF AgreeInv, CachedInv
<1> QED BY <1>1, AgreementKept, PTL

\* A flow that has ended never blocks the queue: whatever ends it, and whoever
\* dropped, completed or requested it again meanwhile.
THEOREM FinalLeavesQueue == ASSUME NoLateReads PROVE Spec => []FinalNotQueued
<1>1. IInv /\ AgreeInv => FinalNotQueued
  <2>1. SUFFICES ASSUME IInv, AgreeInv, lock = Unlocked, NEW r \in Elems(rows),
                        r.status \in Final, r.id \in Elems(queue)
                 PROVE  FALSE
    BY DEF FinalNotQueued
  <2>2. \A t \in Tasks : task[t].pc # "save"
    BY <2>1, Holders, UnlockedAssumption DEF IInv, LockInv, Writing
  <2> QED BY <2>1, <2>2 DEF AgreeInv, QueuedInv
<1> QED BY <1>1, AgreementKept, PTL
-----------------------------------------------------------------------------
\* What is about to be written keeps the response of the row, unless it
\* reopens a flow that has ended.
Keeps(r) ==
  \A e \in Elems(rows) :
    e.id = r.id /\ e.response = "captured" /\ r.response = "none"
      => e.status \in Final /\ r.status = "pending_request"

KeepInv == \A t \in Tasks : task[t].pc \in Writing => Keeps(Rec(t))

LEMMA KeepsFrame ==
  ASSUME KeepInv, NEW t \in Tasks, task'[t].pc \notin Writing,
         \A u \in Tasks : u # t => task'[u] = task[u],
         UNCHANGED rows \/ \A u \in Tasks : u # t => task[u].pc \notin Holder
  PROVE  KeepInv'
<1>1. SUFFICES ASSUME NEW u \in Tasks, task'[u].pc \in Writing
               PROVE  Keeps(Rec(u))'
  BY DEF KeepInv, Writing
<1>2. u # t /\ task'[u] = task[u]
  BY <1>1
<1>3. UNCHANGED rows /\ Keeps(Rec(u)) /\ Rec(u)' = Rec(u)
  BY <1>1, <1>2, Holders DEF KeepInv, Rec
<1> QED BY <1>3 DEF Keeps, Elems, Final

LEMMA KeepsEnter ==
  ASSUME IInv, NEW t \in Tasks, NEW r \in Record, Keeps(r), UNCHANGED rows,
         \A u \in Tasks : u # t => task[u].pc \notin Holder,
         NEW pc, NEW f, NEW a, Suspend(t, pc, f, a, <<r>>)
  PROVE  KeepInv'
<1>1. task'[t].snap = <<r>> /\ \A u \in Tasks : u # t => task'[u] = task[u]
  BY Suspended
<1>2. Rec(t)' = r
  BY <1>1 DEF Rec
<1>3. SUFFICES ASSUME NEW u \in Tasks, task'[u].pc \in Writing
               PROVE  Keeps(Rec(u))'
  BY DEF KeepInv, Writing
<1>4. u = t
  BY <1>1, <1>3, Holders
<1> QED BY <1>2, <1>4 DEF Keeps, Elems, Final

\* Where nobody writes, a record found in the cache or in the table is the row.
LEMMA FoundIsRow ==
  ASSUME IInv, AgreeInv, \A u \in Tasks : task[u].pc \notin Writing,
         NEW f, NEW r \in Entry(cache, f) \cup Entry(rows, f),
         NEW e \in Elems(rows), e.id = f
  PROVE  r = e
<1>1. r \in Elems(rows) /\ r.id = f
  BY DEF AgreeInv, CachedInv, Entry
<1> QED BY <1>1 DEF Elems, UniqueIds, IInv, TableInv

LEMMA UpsertKeepsResponse ==
  ASSUME IInv, AgreeInv, KeepInv, NEW t \in Tasks, Upsert(t) \/ UpsertRead(t)
  PROVE  KeepInv'
<1>1. PICK f \in Flows :
        /\ \A u \in Tasks : u # t => task[u].pc \notin Holder
        /\ task[t].pc \notin Writing
        /\ \/ ApplyUpsert(t, f, Entry(cache, f)) /\ f \in Ids(cache)
           \/ ApplyUpsert(t, f, Entry(rows, f))
           \/ Suspend(t, "upsert_read", f, "none", <<>>) /\ UNCHANGED <<stored, memory>>
  <2>1. CASE Upsert(t)
    BY <2>1, Alone DEF Upsert, Begins, At, Writing
  <2>2. CASE UpsertRead(t)
    <3>1. Flow(t) \in Flows
      BY <2>2, CallFacts, PCTypes DEF UpsertRead, At, IInv
    <3> QED BY <2>2, <3>1, Alone, PCTypes DEF UpsertRead, At, Writing
  <2> QED BY <2>1, <2>2
<1>2. CASE \/ ApplyUpsert(t, f, Entry(cache, f)) /\ f \in Ids(cache)
           \/ ApplyUpsert(t, f, Entry(rows, f))
  <2>0. PICK found : /\ ApplyUpsert(t, f, found)
                     /\ \/ found = Entry(cache, f) /\ f \in Ids(cache)
                        \/ found = Entry(rows, f)
    BY <1>2
  <2> DEFINE r == Reopened(f, found)
  <2>1. r \in Record /\ r.id = f /\ r.status = "pending_request"
    BY DEF Reopened, Record, Status
  <2>2. Keeps(r)
    <3>1. SUFFICES ASSUME NEW e \in Elems(rows), e.id = f, e.response = "captured", r.response = "none"
                   PROVE  e.status \in Final
      BY <2>1 DEF Keeps
    <3>2. e \in found
      <4>1. CASE found = Entry(rows, f)
        BY <3>1, <4>1 DEF Entry
      <4>2. CASE found = Entry(cache, f) /\ f \in Ids(cache)
        <5>1. PICK c \in Entry(cache, f) : TRUE
          BY <4>2 DEF Entry, Ids, Elems
        <5>2. \A u \in Tasks : task[u].pc \notin Writing
          BY <1>1, Holders
        <5>3. c = e
          BY <3>1, <5>1, <5>2, FoundIsRow
        <5> QED BY <4>2, <5>1, <5>3
      <4> QED BY <2>0, <4>1, <4>2
    <3> QED BY <3>1, <3>2 DEF Reopened
  <2>3. Suspend(t, "save", f, "none", <<r>>) /\ UNCHANGED rows
    BY <2>0 DEF ApplyUpsert, stored
  <2> HIDE DEF r
  <2> QED BY <1>1, <2>1, <2>2, <2>3, KeepsEnter
<1>3. CASE Suspend(t, "upsert_read", f, "none", <<>>) /\ UNCHANGED <<stored, memory>>
  BY <1>3, Suspended, KeepsFrame DEF Writing, stored
<1> QED BY <1>1, <1>2, <1>3

LEMMA AttachKeepsResponse ==
  ASSUME IInv, AgreeInv, KeepInv, NEW t \in Tasks, Attach(t) \/ AttachRead(t)
  PROVE  KeepInv'
<1>1. PICK f \in Flows :
        /\ \A u \in Tasks : u # t => task[u].pc \notin Holder
        /\ \/ ApplyAttach(t, f)
           \/ Suspend(t, "attach_read", f, "none", <<>>) /\ UNCHANGED <<stored, memory>>
  <2>1. CASE Attach(t)
    BY <2>1, Alone DEF Attach
  <2>2. CASE AttachRead(t)
    <3>1. Flow(t) \in Flows
      BY <2>2, CallFacts, PCTypes DEF AttachRead, At, IInv
    <3> QED BY <2>2, <3>1, Alone, PCTypes DEF AttachRead, At
  <2> QED BY <2>1, <2>2
<1>2. CASE ApplyAttach(t, f)
  <2> DEFINE r == [id |-> f, status |-> "pending_response", response |-> "captured"]
  <2>1. r \in Record /\ Keeps(r)
    BY DEF Record, Status, Keeps
  <2>2. Suspend(t, "save", f, "none", <<r>>) /\ UNCHANGED rows
    BY <1>2 DEF ApplyAttach, stored
  <2> HIDE DEF r
  <2> QED BY <1>1, <2>1, <2>2, KeepsEnter
<1>3. CASE Suspend(t, "attach_read", f, "none", <<>>) /\ UNCHANGED <<stored, memory>>
  BY <1>3, Suspended, KeepsFrame DEF Writing, stored
<1> QED BY <1>1, <1>2, <1>3

\* A final status, or a drop, is recorded on the row's own record.
LEMMA StatusKeepsResponse ==
  ASSUME IInv, AgreeInv, KeepInv, NEW t \in Tasks,
         \A u \in Tasks : u # t => task[u].pc \notin Holder, task[t].pc \notin Writing,
         NEW f, NEW r \in Entry(cache, f) \cup Entry(rows, f), NEW v \in Status,
         NEW pc, NEW g, NEW a, Suspend(t, pc, g, a, <<[r EXCEPT !.status = v]>>), UNCHANGED rows
  PROVE  KeepInv'
<1> DEFINE new == [r EXCEPT !.status = v]
<1>1. r \in Record /\ r.id = f
  BY CacheEntry, RowEntry
<1>2. new \in Record /\ new.id = f /\ new.response = r.response
  BY <1>1 DEF Record
<1>3. \A u \in Tasks : task[u].pc \notin Writing
  BY Holders
<1>4. Keeps(new)
  <2>1. SUFFICES ASSUME NEW e \in Elems(rows), e.id = f, e.response = "captured", r.response = "none"
                 PROVE  FALSE
    BY <1>2 DEF Keeps
  <2>2. r = e
    BY <1>3, <2>1, FoundIsRow
  <2> QED BY <2>1, <2>2
<1> HIDE DEF new
<1>5. Suspend(t, pc, g, a, <<new>>)
  BY DEF new
<1> QED BY <1>2, <1>4, <1>5, KeepsEnter

LEMMA SetFinalStatusKeepsResponse ==
  ASSUME IInv, AgreeInv, KeepInv, NEW t \in Tasks, NEW f, NEW a,
         task[t].pc \notin Writing, SetFinalStatus(t, f, a) \/ (FinalRead(t) /\ f = Flow(t) /\ a = Arg(t))
  PROVE  KeepInv'
<1>1. \A u \in Tasks : u # t => task[u].pc \notin Holder
  BY Alone, PCTypes DEF SetFinalStatus, FinalRead, At
<1>2. CASE \E r \in Entry(cache, f) \cup Entry(rows, f) : ApplyFinal(t, r, a)
  <2>1. PICK r \in Entry(cache, f) \cup Entry(rows, f) : ApplyFinal(t, r, a)
    BY <1>2
  <2>2. Suspend(t, "final_save", r.id, a, <<[r EXCEPT !.status = FinalOf(a)]>>) /\ UNCHANGED rows
    BY <2>1 DEF ApplyFinal, stored
  <2>3. FinalOf(a) \in Status
    BY DEF FinalOf, Status, Final
  <2> QED BY <1>1, <2>2, <2>3, StatusKeepsResponse
<1>3. CASE Suspend(t, "final_read", f, a, <<>>) /\ UNCHANGED <<stored, memory>>
  BY <1>3, Suspended, KeepsFrame DEF Writing, stored
<1>4. CASE Return(t) /\ UNCHANGED <<stored, memory>>
  BY <1>4, Returned, KeepsFrame DEF Writing, stored
<1> QED BY <1>2, <1>3, <1>4 DEF SetFinalStatus, FinalRead

LEMMA DropKeepsResponse ==
  ASSUME IInv, AgreeInv, KeepInv, NEW t \in Tasks, DecideDrop(t)
  PROVE  KeepInv'
<1>1. task[t].pc = "decide_put" /\ UNCHANGED rows
  BY DEF DecideDrop, At
<1>2. PICK r \in Entry(cache, Flow(t)) :
        Suspend(t, "decide_save", Flow(t), "drop", <<[r EXCEPT !.status = "dropped"]>>)
  BY DEF DecideDrop
<1>3. /\ \A u \in Tasks : u # t => task[u].pc \notin Holder
      /\ "dropped" \in Status /\ task[t].pc \notin Writing
  BY <1>1, Alone, PCTypes DEF Status, Final, Writing
<1> QED BY <1>1, <1>2, <1>3, StatusKeepsResponse

\* The steps that begin no write.
LEMMA OthersKeepResponse ==
  ASSUME NoLateReads, IInv, AgreeInv, KeepInv, NEW t \in Tasks,
         \/ Save(t) \/ FinalSave(t) \/ DecideSave(t) \/ RespondPut(t)
         \/ Decide(t) \/ DecideForward(t) \/ TakeDecision(t) \/ TakePop(t)
         \/ TakeResponse(t) \/ Clear(t) \/ ClearWipe(t)
  PROVE  KeepInv'
<1>1. CASE Save(t) \/ FinalSave(t) \/ DecideSave(t) \/ ClearWipe(t)
  <2>1. task[t].pc \in Holder /\ Return(t)
    BY <1>1 DEF Save, FinalSave, DecideSave, ClearWipe, At, Holder
  <2> QED BY <2>1, Alone, Returned, KeepsFrame DEF Writing
<1>2. CASE RespondPut(t) \/ Decide(t) \/ TakeDecision(t) \/ Clear(t)
  <2>1. /\ UNCHANGED rows
        /\ \E pc, f, a, s : pc \notin Writing /\ Suspend(t, pc, f, a, s)
    BY <1>2 DEF RespondPut, Decide, TakeDecision, Clear, Writing, stored
  <2> QED BY <2>1, Suspended, KeepsFrame
<1>3. CASE DecideForward(t) \/ TakePop(t)
  <2>1. UNCHANGED rows /\ Return(t)
    BY <1>3 DEF DecideForward, TakePop, stored
  <2> QED BY <2>1, Returned, KeepsFrame DEF Writing
<1>4. CASE TakeResponse(t)
  <2>1. UNCHANGED <<rows, task>> /\ task[t].pc = "idle"
    BY <1>4 DEF TakeResponse, Begins, At
  <2> QED BY <2>1, KeepsFrame DEF Writing
<1> QED BY <1>1, <1>2, <1>3, <1>4

LEMMA NextKeepsResponse ==
  ASSUME NoLateReads, IInv, AgreeInv, KeepInv, [Next]_vars
  PROVE  KeepInv'
<1>1. CASE UpdateConfig \/ UNCHANGED vars
  <2>1. UNCHANGED <<rows, task>>
    BY <1>1 DEF UpdateConfig, vars, stored
  <2> QED BY <2>1 DEF KeepInv, Keeps, Elems, Rec, Writing, Final
<1>2. CASE CrashRestart
  BY <1>2 DEF CrashRestart, KeepInv, Idle, Writing
<1>3. CASE \E t \in Tasks : Step(t)
  <2>1. PICK t \in Tasks : Step(t)
    BY <1>3
  <2>2. CASE MarkCompleted(t) \/ MarkDropped(t) \/ RespondMark(t) \/ FinalRead(t)
    <3>1. /\ task[t].pc \notin Writing
          /\ \E f, a : SetFinalStatus(t, f, a) \/ (FinalRead(t) /\ f = Flow(t) /\ a = Arg(t))
      BY <2>2 DEF MarkCompleted, MarkDropped, RespondMark, FinalRead, Begins, At, Writing
    <3> QED BY <3>1, SetFinalStatusKeepsResponse
  <2> QED BY <2>1, <2>2, UpsertKeepsResponse, AttachKeepsResponse, DropKeepsResponse,
             OthersKeepResponse, NoReaderSteps DEF Step, Begin, Lock, Run
<1> QED BY <1>1, <1>2, <1>3 DEF Next

\* How a step changes the rows.
LEMMA RowSteps ==
  ASSUME NoLateReads, AgreeInv, [Next]_vars
  PROVE  \/ UNCHANGED rows
         \/ rows' = <<>>
         \/ \E t \in Tasks : task[t].pc \in Writing /\ rows' = Put(rows, Rec(t))
<1>1. CASE UpdateConfig \/ CrashRestart \/ UNCHANGED vars
  BY <1>1 DEF UpdateConfig, CrashRestart, vars, stored
<1>2. CASE \E t \in Tasks : Step(t)
  <2>1. PICK t \in Tasks : Step(t)
    BY <1>2
  <2>2. CASE Save(t) \/ FinalSave(t) \/ DecideSave(t) \/ ClearWipe(t)
    BY <2>2 DEF Save, FinalSave, DecideSave, ClearWipe, At, Writing
  <2>3. CASE \/ Upsert(t) \/ UpsertRead(t) \/ Attach(t) \/ AttachRead(t)
             \/ MarkCompleted(t) \/ MarkDropped(t) \/ RespondMark(t) \/ FinalRead(t)
    BY <2>3 DEF Upsert, UpsertRead, ApplyUpsert, Attach, AttachRead, ApplyAttach,
       MarkCompleted, MarkDropped, RespondMark, SetFinalStatus, FinalRead, ApplyFinal, stored
  <2>4. CASE \/ Decide(t) \/ DecideForward(t) \/ DecideDrop(t) \/ TakeDecision(t) \/ TakePop(t)
             \/ RespondPut(t) \/ TakeResponse(t) \/ Clear(t)
    BY <2>4 DEF Decide, DecideForward, DecideDrop, TakeDecision, TakePop, RespondPut,
       TakeResponse, Clear, stored
  <2> QED BY <2>1, <2>2, <2>3, <2>4, NoReaderSteps DEF Step, Begin, Lock, Run
<1> QED BY <1>1, <1>2 DEF Next

\* A captured response is lost only with the history or when a flow that has
\* ended is requested again, although every operation writes whole rows.
THEOREM ResponseStaysKept == ASSUME NoLateReads PROVE Spec => ResponseKept
<1>1. Init => KeepInv
  BY DEF Init, KeepInv, Idle, Writing
<1>2. IInv /\ AgreeInv /\ KeepInv /\ [Next]_vars => KeepInv'
  BY NextKeepsResponse
<1>3. IInv /\ AgreeInv /\ KeepInv /\ [Next]_vars =>
        [\A r \in Elems(rows), s \in Elems(rows') :
           (r.id = s.id /\ r.response = "captured" /\ s.response = "none")
             => r.status \in Final /\ s.status = "pending_request"]_vars
  <2>1. SUFFICES ASSUME IInv, AgreeInv, KeepInv, [Next]_vars,
                        NEW r \in Elems(rows), NEW s \in Elems(rows'), r.id = s.id,
                        r.response = "captured", s.response = "none"
                 PROVE  r.status \in Final /\ s.status = "pending_request"
    OBVIOUS
  <2>2. s \notin Elems(rows)
    BY <2>1 DEF IInv, TableInv, UniqueIds, Elems
  <2>3. rows' # <<>>
    BY <2>1 DEF Elems
  <2>4. PICK t \in Tasks : task[t].pc \in Writing /\ rows' = Put(rows, Rec(t))
    BY <2>1, <2>2, <2>3, RowSteps
  <2>5. s = Rec(t)
    <3>1. Rec(t) \in Record
      BY <2>1, <2>4, CallFacts DEF IInv, Writing, WithRecord
    <3>2. Elems(rows') = {e \in Elems(rows) : e.id # Rec(t).id} \cup {Rec(t)}
      BY <2>1, <2>4, <3>1, PutProperties DEF IInv, TableInv
    <3> QED BY <2>1, <2>2, <3>2
  <2> QED BY <2>1, <2>4, <2>5 DEF KeepInv, Keeps
<1> QED BY <1>1, <1>2, <1>3, AgreementKept, PTL DEF Spec, ResponseKept
-----------------------------------------------------------------------------
(***************************************************************************)
(* What leaves the queue, whatever operations there are.                   *)
(***************************************************************************)
EndingPCs == {"final_save", "decide_save"}

\* What is about to be written as the end of a flow is its end.
EndInv ==
  \A t \in Tasks : task[t].pc \in EndingPCs => Rec(t).id = Flow(t) /\ Rec(t).status \in Final

LEMMA EndFrame ==
  ASSUME EndInv, NEW t \in Tasks, task'[t].pc \notin EndingPCs,
         \A u \in Tasks : u # t => task'[u] = task[u]
  PROVE  EndInv'
<1>1. SUFFICES ASSUME NEW u \in Tasks, task'[u].pc \in EndingPCs
               PROVE  Rec(u)'.id = Flow(u)' /\ Rec(u)'.status \in Final
  BY DEF EndInv, EndingPCs, Final
<1>2. task'[u] = task[u]
  BY <1>1
<1>3. Rec(u)' = Rec(u) /\ Flow(u)' = Flow(u)
  BY <1>2 DEF Rec, Flow
<1> QED BY <1>1, <1>2, <1>3 DEF EndInv

LEMMA EndEnters ==
  ASSUME IInv, EndInv, NEW t \in Tasks, NEW r \in Record, NEW v \in Final, NEW pc, NEW a,
         Suspend(t, pc, r.id, a, <<[r EXCEPT !.status = v]>>)
  PROVE  EndInv'
<1> DEFINE new == [r EXCEPT !.status = v]
<1>1. new.id = r.id /\ new.status = v
  BY DEF Record
<1> HIDE DEF new
<1>2. /\ Flow(t)' = r.id /\ task'[t].snap = <<new>>
      /\ \A u \in Tasks : u # t => task'[u] = task[u]
  BY Suspended DEF new
<1>3. Rec(t)' = new
  BY <1>2 DEF Rec
<1>4. SUFFICES ASSUME NEW u \in Tasks, task'[u].pc \in EndingPCs
               PROVE  Rec(u)'.id = Flow(u)' /\ Rec(u)'.status \in Final
  BY DEF EndInv, EndingPCs, Final
<1>5. CASE u = t
  BY <1>1, <1>2, <1>3, <1>5
<1>6. CASE u # t
  <2>1. Rec(u)' = Rec(u) /\ Flow(u)' = Flow(u) /\ task'[u] = task[u]
    BY <1>2, <1>6 DEF Rec, Flow
  <2> QED BY <1>4, <2>1 DEF EndInv
<1> QED BY <1>5, <1>6

LEMMA SetFinalStatusEnds ==
  ASSUME IInv, EndInv, NEW t \in Tasks, NEW f, NEW a, SetFinalStatus(t, f, a) \/ FinalRead(t)
  PROVE  EndInv'
<1>1. CASE \E g : \E r \in Entry(cache, g) \cup Entry(rows, g) : \E b : ApplyFinal(t, r, b)
  <2>0. PICK r \in Record : \E b : ApplyFinal(t, r, b)
    BY <1>1, CacheEntry, RowEntry
  <2>1. PICK b : ApplyFinal(t, r, b)
    BY <2>0
  <2>2. FinalOf(b) \in Final
    BY DEF FinalOf, Final
  <2> QED BY <2>1, <2>2, EndEnters DEF ApplyFinal
<1>2. CASE Suspend(t, "final_read", f, a, <<>>)
  BY <1>2, Suspended, EndFrame DEF EndingPCs
<1>3. CASE Return(t)
  BY <1>3, Returned, EndFrame DEF EndingPCs
<1> QED BY <1>1, <1>2, <1>3 DEF SetFinalStatus, FinalRead

LEMMA NextEnds ==
  ASSUME IInv, EndInv, [Next]_vars
  PROVE  EndInv'
<1>1. CASE UpdateConfig \/ UNCHANGED vars
  BY <1>1 DEF UpdateConfig, vars, EndInv, Rec, Flow, EndingPCs, Final
<1>2. CASE CrashRestart
  BY <1>2 DEF CrashRestart, EndInv, Idle, EndingPCs
<1>3. CASE \E t \in Tasks : Step(t)
  <2>1. PICK t \in Tasks : Step(t)
    BY <1>3
  <2>2. CASE MarkCompleted(t) \/ MarkDropped(t) \/ RespondMark(t) \/ FinalRead(t)
    BY <2>2, SetFinalStatusEnds DEF MarkCompleted, MarkDropped, RespondMark
  <2>3. CASE DecideDrop(t)
    <3>1. PICK r \in Entry(cache, Flow(t)) :
            Suspend(t, "decide_save", Flow(t), "drop", <<[r EXCEPT !.status = "dropped"]>>)
      BY <2>3 DEF DecideDrop
    <3>2. r \in Record /\ r.id = Flow(t) /\ "dropped" \in Final
      BY CacheEntry DEF Final
    <3> QED BY <3>1, <3>2, EndEnters
  <2>4. CASE \/ Upsert(t) \/ UpsertRead(t) \/ Attach(t) \/ AttachRead(t)
             \/ GetMiss(t) \/ Decide(t) \/ TakeDecision(t) \/ RespondPut(t) \/ Clear(t)
             \/ CleanupList(t)
    <3>1. \E pc, f, a, s : pc \notin EndingPCs /\ Suspend(t, pc, f, a, s)
      BY <2>4 DEF Upsert, UpsertRead, ApplyUpsert, Attach, AttachRead, ApplyAttach, GetMiss,
         Decide, TakeDecision, RespondPut, Clear, CleanupList, EndingPCs
    <3> QED BY <3>1, Suspended, EndFrame
  <2>5. CASE \/ Save(t) \/ FinalSave(t) \/ DecideForward(t) \/ DecideSave(t)
             \/ GetStore(t) \/ TakePop(t) \/ ClearWipe(t) \/ CleanupRebuild(t)
    <3>1. Return(t)
      BY <2>5 DEF Save, FinalSave, DecideForward, DecideSave, GetStore, TakePop, ClearWipe,
         CleanupRebuild
    <3> QED BY <3>1, Returned, EndFrame DEF EndingPCs
  <2>6. CASE GetFetch(t)
    BY <2>6, Suspended, Returned, EndFrame DEF GetFetch, EndingPCs
  <2>7. CASE TakeResponse(t) \/ CleanupDelete(t)
    <3>1. CASE UNCHANGED task
      BY <3>1 DEF EndInv, Rec, Flow, EndingPCs, Final
    <3>2. CASE Suspend(t, "cleanup_list", NoFlow, "none", <<>>)
      BY <3>2, Suspended, EndFrame DEF EndingPCs
    <3> QED BY <2>7, <3>1, <3>2 DEF TakeResponse, CleanupDelete
  <2> QED BY <2>1, <2>2, <2>3, <2>4, <2>5, <2>6, <2>7 DEF Step, Begin, Lock, Run
<1> QED BY <1>1, <1>2, <1>3 DEF Next

\* What _set_cache takes from the queue is no longer cached.
LEMMA EvictedLeaves ==
  ASSUME IInv, NEW r, NEW q \in Seq(Flows), Elems(queue) \subseteq Elems(q), SetCache(r, q),
         NEW f \in Elems(queue) \ Elems(queue')
  PROVE  f \notin Ids(cache')
<1> DEFINE gone == Ids(Put(cache, r)) \ Ids(Newest(Put(cache, r), limit))
<1>1. cache' = Newest(Put(cache, r), limit) /\ queue' = KeepIn(q, Elems(q) \ gone)
  BY DEF SetCache
<1>2. f \in gone
  <2> HIDE DEF gone
  <2>1. Elems(queue') = Elems(q) \cap (Elems(q) \ gone)
    BY <1>1, KeepInProperties
  <2> QED BY <2>1
<1> QED BY <1>1, <1>2

\* The end of a flow is in its row when it leaves the queue for it.
LEMMA EndWritten ==
  ASSUME IInv, EndInv, NEW t \in Tasks, task[t].pc \in EndingPCs, rows' = Put(rows, Rec(t))
  PROVE  \E r \in Entry(rows', Flow(t)) : r.status \in Final
<1>1. Rec(t) \in Record
  BY CallFacts DEF IInv, EndingPCs, WithRecord
<1>2. Rec(t) \in Elems(rows')
  BY <1>1, PutProperties DEF IInv, TableInv
<1> QED BY <1>2 DEF EndInv, Entry

\* The reasons for which a flow may leave the queue.
MayLeave(f) ==
  \/ f \notin Ids(cache')
  \/ \E r \in Entry(rows', f) : r.status \in Final
  \/ \E t \in Tasks : At(t, "take_pop") /\ Flow(t) = f /\ task'[t] = Idle

LEMMA SetCacheExit ==
  ASSUME IInv, NEW t \in Tasks, NEW f \in Elems(queue) \ Elems(queue'),
         \/ Upsert(t) \/ UpsertRead(t) \/ Attach(t) \/ AttachRead(t) \/ MarkCompleted(t)
         \/ MarkDropped(t) \/ RespondMark(t) \/ FinalRead(t) \/ GetStore(t) \/ DecideDrop(t)
  PROVE  f \notin Ids(cache')
<1>1. queue \in Seq(Flows)
  BY DEF IInv, MemoryInv
<1>2. CASE \E r : SetCache(r, queue)
  BY <1>1, <1>2, EvictedLeaves
<1>3. CASE Upsert(t) \/ UpsertRead(t)
  <2>1. PICK g \in Flows : \E found : ApplyUpsert(t, g, found)
    <3>1. ~UNCHANGED memory
      BY DEF memory
    <3>2. UpsertRead(t) => Flow(t) \in Flows
      BY CallFacts, PCTypes DEF UpsertRead, At, IInv
    <3> QED BY <1>3, <3>1, <3>2 DEF Upsert, UpsertRead
  <2>2. PICK found : ApplyUpsert(t, g, found)
    BY <2>1
  <2> DEFINE q == IF g \in Elems(queue) THEN queue ELSE Append(queue, g)
  <2>3. q \in Seq(Flows) /\ Elems(queue) \subseteq Elems(q)
    BY <1>1, AppendToQueue
  <2>4. SetCache(Reopened(g, found), q)
    BY <2>2 DEF ApplyUpsert
  <2> HIDE DEF q
  <2> QED BY <2>3, <2>4, EvictedLeaves
<1>4. CASE \/ Attach(t) \/ AttachRead(t) \/ MarkCompleted(t) \/ MarkDropped(t)
           \/ RespondMark(t) \/ FinalRead(t) \/ GetStore(t) \/ DecideDrop(t)
  <2>1. ~UNCHANGED memory
    BY DEF memory
  <2>2. \E r : SetCache(r, queue)
    <3>1. CASE DecideDrop(t)
      <4>1. PICK r \in Entry(cache, Flow(t)) : SetCache([r EXCEPT !.status = "dropped"], queue)
        BY <3>1 DEF DecideDrop
      <4> QED BY <4>1
    <3>2. CASE GetStore(t) \/ Attach(t) \/ AttachRead(t)
      BY <2>1, <3>2 DEF GetStore, Attach, AttachRead, ApplyAttach
    <3>3. CASE MarkCompleted(t) \/ MarkDropped(t) \/ RespondMark(t) \/ FinalRead(t)
      <4>1. PICK r, a : ApplyFinal(t, r, a)
        BY <2>1, <3>3 DEF MarkCompleted, MarkDropped, RespondMark, SetFinalStatus, FinalRead
      <4> QED BY <4>1 DEF ApplyFinal
    <3> QED BY <1>4, <3>1, <3>2, <3>3
  <2> QED BY <1>2, <2>2
<1> QED BY <1>3, <1>4

\* A flow leaves the queue only with its cached record, with its end, or with
\* the decision the proxy took: whatever the order in which calls resume.
THEOREM QueueLeftWithReason == Spec => QueueExit
<1>1. Init => EndInv
  BY DEF Init, EndInv, Idle, EndingPCs
<1>2. IInv /\ EndInv /\ [Next]_vars => EndInv'
  BY NextEnds
<1>3. IInv /\ EndInv /\ [Next]_vars =>
        [CrashRestart \/ \A f \in Elems(queue) \ Elems(queue') : MayLeave(f)]_vars
  <2>1. SUFFICES ASSUME IInv, EndInv, Next, ~CrashRestart, NEW f \in Elems(queue) \ Elems(queue')
                 PROVE  MayLeave(f)
    OBVIOUS
  <2>2. ~UNCHANGED memory
    BY DEF memory
  <2>3. PICK t \in Tasks : Step(t)
    BY <2>1, <2>2 DEF Next, UpdateConfig
  <2>4. CASE \/ Upsert(t) \/ UpsertRead(t) \/ Attach(t) \/ AttachRead(t) \/ MarkCompleted(t)
             \/ MarkDropped(t) \/ RespondMark(t) \/ FinalRead(t) \/ GetStore(t) \/ DecideDrop(t)
    BY <2>1, <2>4, SetCacheExit DEF MayLeave
  <2>5. CASE FinalSave(t)
    <3>1. /\ task[t].pc \in EndingPCs /\ rows' = Put(rows, Rec(t))
          /\ queue' = Without(queue, Flow(t))
      BY <2>5 DEF FinalSave, At, EndingPCs
    <3>2. f = Flow(t)
      BY <2>1, <3>1, WithoutProperties DEF IInv, MemoryInv
    <3> QED BY <2>1, <3>1, <3>2, EndWritten DEF MayLeave
  <2>6. CASE DecideSave(t) \/ TakePop(t)
    <3>1. queue' = IF IsHead(Flow(t)) THEN Tail(queue) ELSE queue
      BY <2>6 DEF DecideSave, TakePop
    <3>2. f = Flow(t)
      BY <2>1, <3>1, TailProperties DEF IInv, MemoryInv, IsHead
    <3>3. CASE DecideSave(t)
      BY <2>1, <3>2, <3>3, EndWritten DEF DecideSave, At, EndingPCs, MayLeave
    <3>4. CASE TakePop(t)
      <4>1. At(t, "take_pop") /\ task'[t] = Idle
        BY <2>1, <3>4 DEF TakePop, Return, IInv, CallInv
      <4> QED BY <3>2, <4>1 DEF MayLeave
    <3> QED BY <2>6, <3>3, <3>4
  <2>7. CASE Clear(t)
    BY <2>7 DEF Clear, MayLeave, Ids
  <2>8. CASE CleanupRebuild(t)
    <3> DEFINE listed == task[t].snap
               preserved == KeepIn(queue, Ids(listed))
               pending == PendingIds(listed)
               added == KeepIn(pending, Elems(pending) \ Elems(preserved))
    <3>1. cache' = listed /\ queue' = preserved \o added
      BY <2>8 DEF CleanupRebuild
    <3>2. listed \in Seq(Record) /\ UniqueIds(listed)
      BY <2>1, CallFacts DEF IInv
    <3>3. preserved \in Seq(Flows) /\ Elems(preserved) = Elems(queue) \cap Ids(listed)
      BY <2>1, KeepInProperties DEF IInv, MemoryInv
    <3>4. pending \in Seq(Flows)
      BY <3>2, PendingProperties
    <3> HIDE DEF listed, preserved, pending
    <3>5. added \in Seq(Flows)
      BY <3>4, KeepInProperties
    <3> HIDE DEF added
    <3>6. Elems(preserved) \subseteq Elems(queue')
      BY <3>1, <3>3, <3>5, ConcatQueues
    <3> QED BY <2>1, <3>1, <3>3, <3>6 DEF MayLeave
  <2>9. CASE \/ Save(t) \/ GetMiss(t) \/ GetFetch(t) \/ Decide(t) \/ DecideForward(t)
             \/ TakeDecision(t) \/ RespondPut(t) \/ TakeResponse(t) \/ ClearWipe(t)
             \/ CleanupDelete(t) \/ CleanupList(t)
    BY <2>2, <2>9 DEF Save, GetMiss, GetFetch, Decide, DecideForward, TakeDecision,
       RespondPut, TakeResponse, ClearWipe, CleanupDelete, CleanupList
  <2> QED BY <2>3, <2>4, <2>5, <2>6, <2>7, <2>8, <2>9 DEF Step, Begin, Lock, Run
<1>4. QueueExit <=> [][CrashRestart \/ \A f \in Elems(queue) \ Elems(queue') : MayLeave(f)]_vars
  BY PTL DEF QueueExit, MayLeave
<1> QED BY <1>1, <1>2, <1>3, <1>4, Inductive, PTL DEF Spec
=============================================================================
