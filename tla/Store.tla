------------------------------- MODULE Store -------------------------------
(***************************************************************************)
(* InterceptionStore (app/state/store.py) over the SQLite tables of        *)
(* app/state/repository.py, at the granularity of its awaits.              *)
(*                                                                         *)
(* The store is asyncio code: a task runs alone until it awaits the store  *)
(* lock or a repository method.  A step of a task is therefore one         *)
(* repository method with the synchronous code up to the next await.  The  *)
(* repository serialises its methods under a lock of its own, and the      *)
(* code that follows a repository method touches only the cache and the    *)
(* queue, which no other task touches without the store lock, so the       *)
(* method and that code can be taken together.                             *)
(*                                                                         *)
(* Left out: request and response bodies, timestamps (the order of rows    *)
(* stands for updated_at), the edits of a decision, and the events         *)
(* published after the lock is released (EventFeed.tla).                   *)
(***************************************************************************)
EXTENDS OrderedMaps

CONSTANTS
  Flows,      \* flow ids
  Tasks,      \* the asyncio tasks that may be inside the store
  MaxMem,     \* max_flows_memory of the settings, and the largest a PUT sets
  ListCap,    \* the largest LIMIT repository.list_flows uses
  Ops,        \* the operations this instance calls
  NoFlow,     \* the flow argument of a task that has none
  Unlocked    \* the owner of a free lock

AllOps == {"upsert_request", "attach_response", "mark_completed",
           "mark_dropped", "get_flow", "set_request_decision",
           "take_request_decision", "set_response_decision",
           "take_response_decision", "clear_history", "cleanup",
           "update_config", "crash"}

ASSUME MaxMemAssumption == MaxMem \in Nat
ASSUME ListCapAssumption == ListCap \in Nat \ {0}
ASSUME OpsAssumption == Ops \subseteq AllOps
ASSUME NoFlowAssumption == NoFlow \notin Flows
ASSUME UnlockedAssumption == Unlocked \notin Tasks

VARIABLES
  rows,       \* table flows, oldest updated_at first
  decisions,  \* table decisions
  cache,      \* _flows, oldest first
  queue,      \* _queue
  limit,      \* _config.max_flows_memory
  lock,       \* the owner of _lock
  task        \* each task's program counter, arguments and local records

stored == <<rows, decisions>>
memory == <<cache, queue>>
vars == <<rows, decisions, cache, queue, limit, lock, task>>
-----------------------------------------------------------------------------
Final == {"completed", "dropped"}
Status == {"pending_request", "pending_response"} \cup Final
Stages == {"request", "response"}
Record == [id: Flows, status: Status, response: {"none", "captured"}]

\* What a decision asks for, and the final status an operation records.
Verdicts == {"forward", "drop"}
Decision == [flow: Flows, stage: Stages, verdict: Verdicts]

\* Mutant: the verdict itself is recorded as the status of a forwarded flow.
FinalOfMutant(verdict) == IF verdict = "drop" THEN "dropped" ELSE verdict

FinalOf(verdict) == IF verdict = "drop" THEN "dropped" ELSE "completed"

\* safe_limit of list_flows(limit=n).
RowLimit(n) == IF n = 0 THEN 1 ELSE IF n < ListCap THEN n ELSE ListCap

Recent(n) == Newest(rows, RowLimit(n))

\* set_decision: the decision for a flow and stage is replaced.
SetDecision(f, stage, v) ==
  decisions' = {d \in decisions : d.flow # f \/ d.stage # stage}
                 \cup {[flow |-> f, stage |-> stage, verdict |-> v]}

\* The ids of the records in s that still wait for a request decision.
PendingIds(s) == IdsInOrder(Sub(s, {i \in DOMAIN s : s[i].status = "pending_request"}))

IsHead(f) == queue # <<>> /\ Head(queue) = f
-----------------------------------------------------------------------------
\* seen is the limit a running cleanup has passed to list_flows.
Idle == [pc |-> "idle", flow |-> NoFlow, arg |-> "none", snap |-> <<>>, seen |-> 0]

At(t, pc) == task[t].pc = pc
Flow(t) == task[t].flow
Arg(t) == task[t].arg
Rec(t) == task[t].snap[1]

\* A call that waits for the lock has done nothing yet, nor has one that waits
\* for its first repository method, so a call begins with its first step.
Begins(t, op) == op \in Ops /\ At(t, "idle")

Suspend(t, pc, f, arg, s) ==
  task' = [task EXCEPT ![t] = [pc |-> pc, flow |-> f, arg |-> arg, snap |-> s,
                               seen |-> IF pc = "cleanup_list" THEN limit ELSE 0]]
Return(t) == task' = [task EXCEPT ![t] = Idle]

\* async with self._lock
Acquire(t) == lock = Unlocked /\ lock' = t
Release(t) == lock = t /\ lock' = Unlocked
PassThrough == lock = Unlocked /\ UNCHANGED lock

Init ==
  /\ rows = <<>>
  /\ decisions = {}
  /\ cache = <<>>
  /\ queue = <<>>
  /\ limit = MaxMem
  /\ lock = Unlocked
  /\ task = [t \in Tasks |-> Idle]

\* Mutant: eviction forgets the queue.
SetCacheForgetsQueue(r, q) ==
  cache' = Newest(Put(cache, r), limit) /\ queue' = q

\* Mutant: one record makes room for one; a limit that was lowered is ignored.
SetCacheEvictsOne(r, q) ==
  LET size == IF Len(cache) > limit THEN Len(cache) ELSE limit
  IN  /\ cache' = Newest(Put(cache, r), size)
      /\ queue' = KeepIn(q, Ids(Newest(Put(cache, r), size)))

\* _set_cache: the record becomes the newest of the cache, and what is evicted
\* to make room for it also leaves the queue q.
SetCache(r, q) ==
  /\ cache' = Newest(Put(cache, r), limit)
  /\ queue' = KeepIn(q, Elems(q) \ (Ids(Put(cache, r)) \ Ids(Newest(Put(cache, r), limit))))
-----------------------------------------------------------------------------
\* Mutant: every new request of a flow discards its response.
ReopenedAfresh(f, found) ==
  [id |-> f, status |-> "pending_request", response |-> "none"]

\* upsert_request: found holds the record to reopen, or nothing.
Reopened(f, found) ==
  [id |-> f,
   status |-> "pending_request",
   response |-> IF \E r \in found : r.status \notin Final /\ r.response = "captured"
                THEN "captured" ELSE "none"]

\* Mutant: a flow requested again goes to the back of the queue.
ApplyUpsertRequeues(t, f, found) ==
  LET r == Reopened(f, found)
  IN  /\ SetCache(r, Append(Without(queue, f), f))
      /\ Suspend(t, "save", f, "none", <<r>>)
      /\ UNCHANGED stored

ApplyUpsert(t, f, found) ==
  LET r == Reopened(f, found)
  IN  /\ SetCache(r, IF f \in Elems(queue) THEN queue ELSE Append(queue, f))
      /\ Suspend(t, "save", f, "none", <<r>>)
      /\ UNCHANGED stored

Upsert(t) ==
  \E f \in Flows :
    /\ Begins(t, "upsert_request")
    /\ Acquire(t)
    /\ \/ /\ f \in Ids(cache)
          /\ ApplyUpsert(t, f, Entry(cache, f))
       \/ /\ f \notin Ids(cache)
          /\ Suspend(t, "upsert_read", f, "none", <<>>)
          /\ UNCHANGED <<stored, memory>>

UpsertRead(t) ==
  /\ At(t, "upsert_read")
  /\ ApplyUpsert(t, Flow(t), Entry(rows, Flow(t)))
  /\ UNCHANGED lock

\* The write that ends upsert_request and attach_response.
Save(t) ==
  /\ At(t, "save")
  /\ rows' = Put(rows, Rec(t))
  /\ Release(t)
  /\ Return(t)
  /\ UNCHANGED <<decisions, memory>>
-----------------------------------------------------------------------------
\* attach_response: an unknown flow gets a record with a placeholder request.
ApplyAttach(t, f) ==
  LET r == [id |-> f, status |-> "pending_response", response |-> "captured"]
  IN  /\ SetCache(r, queue)
      /\ Suspend(t, "save", f, "none", <<r>>)
      /\ UNCHANGED stored

Attach(t) ==
  \E f \in Flows :
    /\ Begins(t, "attach_response")
    /\ Acquire(t)
    /\ \/ /\ f \in Ids(cache)
          /\ ApplyAttach(t, f)
       \/ /\ f \notin Ids(cache)
          /\ Suspend(t, "attach_read", f, "none", <<>>)
          /\ UNCHANGED <<stored, memory>>

AttachRead(t) ==
  /\ At(t, "attach_read")
  /\ ApplyAttach(t, Flow(t))
  /\ UNCHANGED lock
-----------------------------------------------------------------------------
\* mark_completed and mark_dropped: _set_final_status.
ApplyFinal(t, r, verdict) ==
  LET new == [r EXCEPT !.status = FinalOf(verdict)]
  IN  /\ SetCache(new, queue)
      /\ Suspend(t, "final_save", r.id, verdict, <<new>>)
      /\ UNCHANGED stored

SetFinalStatus(t, f, verdict) ==
  /\ Acquire(t)
  /\ \/ \E r \in Entry(cache, f) : ApplyFinal(t, r, verdict)
     \/ /\ f \notin Ids(cache)
        /\ Suspend(t, "final_read", f, verdict, <<>>)
        /\ UNCHANGED <<stored, memory>>

MarkCompleted(t) ==
  Begins(t, "mark_completed") /\ \E f \in Flows : SetFinalStatus(t, f, "forward")

MarkDropped(t) ==
  Begins(t, "mark_dropped") /\ \E f \in Flows : SetFinalStatus(t, f, "drop")

\* Mutant: the early return for an unknown flow keeps the lock.
FinalReadKeepsLock(t) ==
  /\ At(t, "final_read")
  /\ \/ \E r \in Entry(rows, Flow(t)) : ApplyFinal(t, r, Arg(t))
     \/ Flow(t) \notin Ids(rows) /\ Return(t) /\ UNCHANGED <<stored, memory>>
  /\ UNCHANGED lock

FinalRead(t) ==
  /\ At(t, "final_read")
  /\ \/ /\ \E r \in Entry(rows, Flow(t)) : ApplyFinal(t, r, Arg(t))
        /\ UNCHANGED lock
     \/ /\ Flow(t) \notin Ids(rows)
        /\ Release(t)
        /\ Return(t)
        /\ UNCHANGED <<stored, memory>>

\* Mutant: a final flow is unqueued only from the head.
FinalSaveHeadOnly(t) ==
  /\ At(t, "final_save")
  /\ rows' = Put(rows, Rec(t))
  /\ queue' = IF IsHead(Flow(t)) THEN Tail(queue) ELSE queue
  /\ Release(t)
  /\ Return(t)
  /\ UNCHANGED <<decisions, cache>>

FinalSave(t) ==
  /\ At(t, "final_save")
  /\ rows' = Put(rows, Rec(t))
  /\ queue' = Without(queue, Flow(t))
  /\ Release(t)
  /\ Return(t)
  /\ UNCHANGED <<decisions, cache>>
-----------------------------------------------------------------------------
\* get_flow: a cached record is returned; otherwise the row is read after the
\* lock is released, and put into the cache after it is taken again.
GetMiss(t) ==
  \E f \in Flows :
    /\ Begins(t, "get_flow")
    /\ PassThrough
    /\ f \notin Ids(cache)
    /\ Suspend(t, "get_fetch", f, "none", <<>>)
    /\ UNCHANGED <<stored, memory>>

GetFetch(t) ==
  /\ At(t, "get_fetch")
  /\ \/ \E r \in Entry(rows, Flow(t)) : Suspend(t, "get_store", Flow(t), "none", <<r>>)
     \/ Flow(t) \notin Ids(rows) /\ Return(t)
  /\ UNCHANGED <<stored, memory, lock>>

GetStore(t) ==
  /\ At(t, "get_store")
  /\ PassThrough
  /\ SetCache(Rec(t), queue)
  /\ Return(t)
  /\ UNCHANGED stored
-----------------------------------------------------------------------------
\* Mutant: any queued flow may be decided.
DecideQueued(t) ==
  \E f \in Flows, verdict \in Verdicts :
    /\ Begins(t, "set_request_decision")
    /\ Acquire(t)
    /\ f \in Elems(queue)
    /\ Suspend(t, "decide_put", f, verdict, <<>>)
    /\ UNCHANGED <<stored, memory>>

\* set_request_decision: only the head of the queue is decided, any other flow
\* is refused; a dropped flow is recorded and leaves the queue at once, a
\* forwarded one stays queued until the proxy takes the decision.
Decide(t) ==
  \E f \in Flows, verdict \in Verdicts :
    /\ Begins(t, "set_request_decision")
    /\ Acquire(t)
    /\ IsHead(f)
    /\ Suspend(t, "decide_put", f, verdict, <<>>)
    /\ UNCHANGED <<stored, memory>>

DecideForward(t) ==
  /\ At(t, "decide_put")
  /\ Arg(t) = "forward"
  /\ SetDecision(Flow(t), "request", "forward")
  /\ Release(t)
  /\ Return(t)
  /\ UNCHANGED <<rows, memory>>

\* _resolve_flow finds the head in the cache (QueueSafety), so the row is not
\* read and the path on which there is no record is never taken.
DecideDrop(t) ==
  /\ At(t, "decide_put")
  /\ Arg(t) = "drop"
  /\ SetDecision(Flow(t), "request", "drop")
  /\ \E r \in Entry(cache, Flow(t)) :
       LET new == [r EXCEPT !.status = "dropped"]
       IN  SetCache(new, queue) /\ Suspend(t, "decide_save", Flow(t), "drop", <<new>>)
  /\ UNCHANGED <<rows, lock>>

DecideSave(t) ==
  /\ At(t, "decide_save")
  /\ rows' = Put(rows, Rec(t))
  /\ queue' = IF IsHead(Flow(t)) THEN Tail(queue) ELSE queue
  /\ Release(t)
  /\ Return(t)
  /\ UNCHANGED <<decisions, cache>>
-----------------------------------------------------------------------------
\* take_request_decision: the decision is deleted outside the lock, the queue
\* is popped under it.  A poll that finds no decision changes nothing.
TakeDecision(t) ==
  \E d \in decisions :
    /\ Begins(t, "take_request_decision")
    /\ d.stage = "request"
    /\ decisions' = decisions \ {d}
    /\ Suspend(t, "take_pop", d.flow, "none", <<>>)
    /\ UNCHANGED <<rows, memory, lock>>

\* Mutant: the queue is popped whatever its head is.
TakePopAny(t) ==
  /\ At(t, "take_pop")
  /\ PassThrough
  /\ queue' = IF queue = <<>> THEN queue ELSE Tail(queue)
  /\ Return(t)
  /\ UNCHANGED <<stored, cache>>

TakePop(t) ==
  /\ At(t, "take_pop")
  /\ PassThrough
  /\ queue' = IF IsHead(Flow(t)) THEN Tail(queue) ELSE queue
  /\ Return(t)
  /\ UNCHANGED <<stored, cache>>

\* set_response_decision: stored without the lock and without any check, then
\* the flow is marked final.
RespondPut(t) ==
  \E f \in Flows, verdict \in Verdicts :
    /\ Begins(t, "set_response_decision")
    /\ SetDecision(f, "response", verdict)
    /\ Suspend(t, "respond_mark", f, verdict, <<>>)
    /\ UNCHANGED <<rows, memory, lock>>

RespondMark(t) ==
  /\ At(t, "respond_mark")
  /\ SetFinalStatus(t, Flow(t), Arg(t))

TakeResponse(t) ==
  \E d \in decisions :
    /\ Begins(t, "take_response_decision")
    /\ d.stage = "response"
    /\ decisions' = decisions \ {d}
    /\ UNCHANGED <<rows, memory, lock, task>>
-----------------------------------------------------------------------------
\* Mutant: clear_history forgets the cache.
ClearKeepsCache(t) ==
  /\ Begins(t, "clear_history")
  /\ Acquire(t)
  /\ queue' = <<>>
  /\ Suspend(t, "clear_wipe", NoFlow, "none", <<>>)
  /\ UNCHANGED <<stored, cache>>

\* clear_history: memory is emptied, then the tables, both under the lock.
Clear(t) ==
  /\ Begins(t, "clear_history")
  /\ Acquire(t)
  /\ cache' = <<>>
  /\ queue' = <<>>
  /\ Suspend(t, "clear_wipe", NoFlow, "none", <<>>)
  /\ UNCHANGED stored

\* Mutant: clear_all leaves the decisions.
ClearWipeRows(t) ==
  /\ At(t, "clear_wipe")
  /\ rows' = <<>>
  /\ Release(t)
  /\ Return(t)
  /\ UNCHANGED <<decisions, memory>>

ClearWipe(t) ==
  /\ At(t, "clear_wipe")
  /\ rows' = <<>>
  /\ decisions' = {}
  /\ Release(t)
  /\ Return(t)
  /\ UNCHANGED memory
-----------------------------------------------------------------------------
\* cleanup: one background task runs it.  The oldest rows go, and decisions
\* for flows without a row; if a row went, the newest rows are read without the
\* lock, and memory is rebuilt from that reading.
Cleaning == \E t \in Tasks : task[t].pc \in {"cleanup_list", "cleanup_rebuild"}

CleanupDelete(t) ==
  /\ Begins(t, "cleanup")
  /\ ~Cleaning
  /\ \E n \in 0..Len(rows) :
       /\ rows' = SubSeq(rows, n + 1, Len(rows))
       /\ decisions' = {d \in decisions : d.flow \in Ids(SubSeq(rows, n + 1, Len(rows)))}
       /\ IF n = 0 THEN UNCHANGED task
                   ELSE Suspend(t, "cleanup_list", NoFlow, "none", <<>>)
  /\ UNCHANGED <<memory, lock>>

CleanupList(t) ==
  /\ At(t, "cleanup_list")
  /\ Suspend(t, "cleanup_rebuild", NoFlow, "none", Recent(task[t].seen))
  /\ UNCHANGED <<stored, memory, lock>>

CleanupRebuild(t) ==
  LET listed == task[t].snap
      preserved == KeepIn(queue, Ids(listed))
      pending == PendingIds(listed)
  IN  /\ At(t, "cleanup_rebuild")
      /\ PassThrough
      /\ cache' = listed
      /\ queue' = preserved \o KeepIn(pending, Elems(pending) \ Elems(preserved))
      /\ Return(t)
      /\ UNCHANGED stored
-----------------------------------------------------------------------------
\* The process dies and start() loads the newest rows: memory, the lock and
\* the calls under way are lost, the tables are not.
CrashRestart ==
  /\ "crash" \in Ops
  /\ cache' = Recent(MaxMem)
  /\ queue' = PendingIds(Recent(MaxMem))
  /\ limit' = MaxMem
  /\ lock' = Unlocked
  /\ task' = [t \in Tasks |-> Idle]
  /\ UNCHANGED stored

\* update_config: a new max_flows_memory, which nothing validates.  What it
\* no longer admits is evicted by the next record that enters the cache.
UpdateConfig ==
  /\ "update_config" \in Ops
  /\ lock = Unlocked
  /\ limit' \in 0..MaxMem
  /\ UNCHANGED <<stored, memory, lock, task>>

\* The first steps of calls; the steps that wait for the store lock in the
\* middle of a call; the steps that end with a repository method.
Begin(t) ==
  \/ Upsert(t) \/ Attach(t) \/ MarkCompleted(t) \/ MarkDropped(t)
  \/ GetMiss(t) \/ Decide(t) \/ TakeDecision(t) \/ RespondPut(t)
  \/ TakeResponse(t) \/ Clear(t) \/ CleanupDelete(t)

Lock(t) == GetStore(t) \/ TakePop(t) \/ RespondMark(t) \/ CleanupRebuild(t)

Run(t) ==
  \/ UpsertRead(t) \/ AttachRead(t) \/ Save(t)
  \/ FinalRead(t) \/ FinalSave(t) \/ GetFetch(t)
  \/ DecideForward(t) \/ DecideDrop(t) \/ DecideSave(t)
  \/ ClearWipe(t) \/ CleanupList(t)

Step(t) == Begin(t) \/ Lock(t) \/ Run(t)

Next ==
  \/ CrashRestart \/ UpdateConfig
  \/ UNCHANGED limit /\ \E t \in Tasks : Step(t)

Spec == Init /\ [][Next]_vars

\* Repository calls return, and asyncio.Lock wakes its waiters in the order
\* in which they came.
FairSpec ==
  /\ Spec
  /\ \A t \in Tasks : WF_vars(UNCHANGED limit /\ Run(t)) /\ SF_vars(UNCHANGED limit /\ Lock(t))
-----------------------------------------------------------------------------
(***************************************************************************)
(* Properties of every interleaving of every operation.                    *)
(***************************************************************************)
Holder == {"upsert_read", "attach_read", "save", "final_read", "final_save",
           "decide_put", "decide_save", "clear_wipe"}
PCs == Holder \cup {"idle", "get_fetch", "get_store", "take_pop",
                    "respond_mark", "cleanup_list", "cleanup_rebuild"}

TypeOK ==
  /\ rows \in Seq(Record)
  /\ decisions \subseteq Decision
  /\ cache \in Seq(Record)
  /\ queue \in Seq(Flows)
  /\ limit \in 0..MaxMem
  /\ lock \in Tasks \cup {Unlocked}
  /\ task \in [Tasks -> [pc: PCs, flow: Flows \cup {NoFlow},
                         arg: {"none"} \cup Verdicts, snap: Seq(Record),
                         seen: 0..MaxMem]]

\* Every flow in the queue is in the cache, and is queued once: eviction,
\* cleanup, clear, restart, a smaller limit and the operations that queue a
\* flow all keep the two in step, so the head can be resolved and decided.
QueueSafety == NoDuplicates(queue) /\ Elems(queue) \subseteq Ids(cache)

\* Whatever enters the cache leaves no more in it than the limit in force,
\* although PUT /api/config may lower the limit under a full cache or between
\* two awaits of a write.  Only a rebuild goes by the limit its listing was
\* made with, and a listing has room for one row even if the limit is 0.
CacheWithinLimit ==
  [][cache' # cache =>
       \/ Len(cache') <= limit'
       \/ CrashRestart /\ Len(cache') <= RowLimit(limit')
       \/ \E t \in Tasks : CleanupRebuild(t) /\ Len(cache') <= RowLimit(MaxMem)]_vars

\* A request decision is stored only while its flow still is the head of the
\* queue, although the head was checked before an await.
HeadOnly ==
  [][\A d \in decisions' \ decisions : d.stage = "request" => IsHead(d.flow)]_vars

\* No operation reorders the flows that keep waiting.
QueueOrderKept ==
  [][CrashRestart \/
     \A f, g \in Elems(queue) \cap Elems(queue') :
       Before(queue, f, g) => Before(queue', f, g)]_vars

\* A flow leaves the queue only with a reason: it leaves the cache (evicted,
\* cleared or cleaned up), its row is final, or the proxy took its decision.
QueueExit ==
  [][CrashRestart \/
     \A f \in Elems(queue) \ Elems(queue') :
       \/ f \notin Ids(cache')
       \/ \E r \in Entry(rows', f) : r.status \in Final
       \/ \E t \in Tasks : At(t, "take_pop") /\ Flow(t) = f /\ task'[t] = Idle]_vars

(***************************************************************************)
(* Properties of the operations other than get_flow and cleanup, which     *)
(* read rows without the lock and store what they read later.              *)
(***************************************************************************)
\* Whenever nobody holds the lock, a cached record is the row of its flow.
CacheMatchesRows == lock = Unlocked => Elems(cache) \subseteq Elems(rows)

\* Whenever nobody holds the lock, a flow whose row is final does not wait.
FinalNotQueued ==
  lock = Unlocked =>
    \A r \in Elems(rows) : r.status \in Final => r.id \notin Elems(queue)

\* A captured response stays in its row until the flow is requested again
\* after it ended, or history is cleared.
ResponseKept ==
  [][\A r \in Elems(rows), s \in Elems(rows') :
       (r.id = s.id /\ r.response = "captured" /\ s.response = "none")
         => r.status \in Final /\ s.status = "pending_request"]_vars

(***************************************************************************)
(* What the code's own texts promise and get_flow and cleanup break:       *)
(* ResponseKept above, and                                                 *)
(***************************************************************************)
\* Cleanup takes from the queue only flows whose rows are gone or too old to
\* be listed ("Cleanup removed stale flows", store.py:243).
CleanupRemovesOnlyStale ==
  [][\A t \in Tasks :
       CleanupRebuild(t) => Elems(queue) \cap Ids(Recent(limit)) \subseteq Elems(queue')]_vars

(***************************************************************************)
(* Liveness, under FairSpec.                                               *)
(***************************************************************************)
\* Every call returns, so no path keeps the lock or waits for it for ever.
CallsReturn == \A t \in Tasks : ~At(t, "idle") ~> At(t, "idle")
=============================================================================
