---------------------------- MODULE StoreProofs ----------------------------
(***************************************************************************)
(* Store keeps its queue and its cache in step, decides only the head, and *)
(* keeps its calls well typed, for every set of flows and tasks, every     *)
(* limit and every choice of operations.                                   *)
(*                                                                         *)
(* The inductive invariant IInv adds to QueueSafety what makes it hold     *)
(* across awaits: a call is inside a critical section exactly when it owns *)
(* the lock, the records a call carries have the shape its program counter *)
(* promises, no map holds an id twice, and the flow being decided is the   *)
(* head for as long as its decision is being stored.                       *)
(***************************************************************************)
EXTENDS Store, OrderedMapsProofs

CacheLimit == IF MaxMem = 0 THEN 1 ELSE MaxMem

LimitInv == limit \in 0..MaxMem

CallType == [pc: PCs, flow: Flows \cup {NoFlow},
             arg: {"none"} \cup Verdicts, snap: Seq(Record), seen: 0..MaxMem]

WithFlow == PCs \ {"idle", "clear_wipe", "cleanup_list", "cleanup_rebuild"}
WithRecord == {"save", "final_save", "decide_save", "get_store"}

\* What a call carries at each program counter.
CallOK(c) ==
  /\ UniqueIds(c.snap)
  /\ c.pc \in WithFlow => c.flow \in Flows
  /\ c.pc \in WithRecord => c.snap # <<>>
  /\ c.pc = "cleanup_rebuild" => Len(c.snap) <= RowLimit(MaxMem)

Calls == {c \in CallType : CallOK(c)}

CallInv == task \in [Tasks -> Calls]

TableInv ==
  /\ rows \in Seq(Record) /\ UniqueIds(rows)
  /\ decisions \subseteq Decision

MemoryInv ==
  /\ cache \in Seq(Record) /\ UniqueIds(cache) /\ Len(cache) <= CacheLimit
  /\ queue \in Seq(Flows) /\ NoDuplicates(queue) /\ Elems(queue) \subseteq Ids(cache)

LockInv ==
  /\ lock \in Tasks \cup {Unlocked}
  /\ \A t \in Tasks : task[t].pc \in Holder <=> lock = t

DecideInv == \A t \in Tasks : task[t].pc = "decide_put" => IsHead(task[t].flow)

IInv == CallInv /\ TableInv /\ MemoryInv /\ LockInv /\ DecideInv

\* t moves to a program counter in P with a well-formed call.
Moves(t, P) == \E c \in Calls : c.pc \in P /\ task' = [task EXCEPT ![t] = c]
-----------------------------------------------------------------------------
LEMMA RecordIds == \A r \in Record : r.id \in Flows
  BY DEF Record

LEMMA RowLimitType ==
  ASSUME NEW n \in 0..MaxMem
  PROVE  /\ RowLimit(n) \in Nat /\ RowLimit(n) <= CacheLimit /\ n \in Nat /\ n <= CacheLimit
         /\ RowLimit(MaxMem) \in Nat /\ RowLimit(n) <= RowLimit(MaxMem)
  BY MaxMemAssumption, ListCapAssumption DEF RowLimit, CacheLimit

\* _set_cache keeps the cache a bounded map, and what it leaves in the queue cached.
LEMMA CacheFill ==
  ASSUME LimitInv, NEW c \in Seq(Record), UniqueIds(c), NEW r \in Record,
         NEW q \in Seq(Flows), NoDuplicates(q), Elems(q) \subseteq Ids(c) \cup {r.id}
  PROVE  LET n == Newest(Put(c, r), limit)
             k == KeepIn(q, Elems(q) \ (Ids(Put(c, r)) \ Ids(n)))
         IN  /\ n \in Seq(Record) /\ UniqueIds(n) /\ Len(n) <= CacheLimit
             /\ k \in Seq(Flows) /\ NoDuplicates(k) /\ Elems(k) \subseteq Ids(n)
<1> DEFINE p == Put(c, r)
           n == Newest(p, limit)
           keep == Elems(q) \ (Ids(p) \ Ids(n))
           k == KeepIn(q, keep)
<1>1. p \in Seq(Record) /\ UniqueIds(p) /\ Ids(p) = Ids(c) \cup {r.id}
  BY PutProperties
<1>2. n \in Seq(Record) /\ UniqueIds(n) /\ Len(n) <= limit
  <2> HIDE DEF p
  <2> QED BY <1>1, MaxMemAssumption, NewestProperties DEF LimitInv
<1>3. Len(n) <= CacheLimit
  <2> HIDE DEF n
  <2>1. Len(n) \in Nat
    BY <1>2, LenProperties
  <2> QED BY <1>2, <2>1, MaxMemAssumption DEF CacheLimit, LimitInv
<1>4. k \in Seq(Flows) /\ NoDuplicates(k) /\ Elems(k) = Elems(q) \cap keep
  <2> HIDE DEF keep
  <2> QED BY KeepInProperties
<1>5. Elems(k) \subseteq Ids(n)
  <2> HIDE DEF p, n, k
  <2> QED BY <1>1, <1>4
<1> QED BY <1>2, <1>3, <1>4, <1>5

\* The same, of the action.
LEMMA SetCacheKeeps ==
  ASSUME LimitInv, MemoryInv, NEW r \in Record, NEW q \in Seq(Flows), NoDuplicates(q),
         Elems(q) \subseteq Ids(cache) \cup {r.id}, SetCache(r, q)
  PROVE  MemoryInv'
<1> DEFINE n == Newest(Put(cache, r), limit)
           k == KeepIn(q, Elems(q) \ (Ids(Put(cache, r)) \ Ids(n)))
<1>1. cache' = n /\ queue' = k
  BY DEF SetCache
<1>2. /\ n \in Seq(Record) /\ UniqueIds(n) /\ Len(n) <= CacheLimit
      /\ k \in Seq(Flows) /\ NoDuplicates(k) /\ Elems(k) \subseteq Ids(n)
  BY CacheFill DEF MemoryInv
<1> HIDE DEF n, k
<1> QED BY <1>1, <1>2 DEF MemoryInv

\* Writing a row.
LEMMA PutRowKeeps ==
  ASSUME TableInv, NEW r \in Record, rows' = Put(rows, r), UNCHANGED decisions
  PROVE  TableInv'
<1>1. Put(rows, r) \in Seq(Record) /\ UniqueIds(Put(rows, r))
  BY PutProperties DEF TableInv
<1> QED BY <1>1 DEF TableInv

\* Storing a decision.
LEMMA DecisionKeeps ==
  ASSUME TableInv, NEW f \in Flows, NEW s \in Stages, NEW v \in Verdicts,
         SetDecision(f, s, v), UNCHANGED rows
  PROVE  TableInv'
  BY DEF TableInv, SetDecision, Decision
-----------------------------------------------------------------------------
\* How a step of a task changes its call.
LEMMA SuspendMoves ==
  ASSUME LimitInv, NEW t \in Tasks, NEW pc \in PCs, NEW f \in Flows \cup {NoFlow},
         NEW a \in {"none"} \cup Verdicts, NEW s \in Seq(Record), UniqueIds(s),
         pc \in WithFlow => f \in Flows, pc \in WithRecord => s # <<>>,
         pc = "cleanup_rebuild" => Len(s) <= RowLimit(MaxMem),
         Suspend(t, pc, f, a, s)
  PROVE  Moves(t, {pc})
<1> DEFINE c == [pc |-> pc, flow |-> f, arg |-> a, snap |-> s,
                  seen |-> IF pc = "cleanup_list" THEN limit ELSE 0]
<1>1. c \in CallType
  BY MaxMemAssumption DEF CallType, LimitInv
<1>2. CallOK(c)
  BY DEF CallOK
<1> QED BY <1>1, <1>2 DEF Moves, Calls, Suspend

LEMMA NoRecords == <<>> \in Seq(Record) /\ UniqueIds(<<>>) /\ Len(<<>>) = 0
  BY DEF UniqueIds

LEMMA OneRecord ==
  ASSUME NEW r \in Record
  PROVE  <<r>> \in Seq(Record) /\ UniqueIds(<<r>>) /\ <<r>> # <<>>
  BY DEF UniqueIds

LEMMA IdleCall == Idle \in Calls
<1>1. Idle \in CallType
  BY NoRecords, MaxMemAssumption DEF Idle, CallType, PCs
<1>2. CallOK(Idle)
  BY NoRecords DEF Idle, CallOK, WithFlow, WithRecord
<1> QED BY <1>1, <1>2 DEF Calls

LEMMA ReturnMoves == ASSUME NEW t \in Tasks, Return(t) PROVE Moves(t, {"idle"})
  BY IdleCall DEF Return, Moves, Idle

LEMMA MovesKeepsCalls ==
  ASSUME CallInv, NEW t \in Tasks, NEW P, Moves(t, P)
  PROVE  CallInv'
  BY DEF CallInv, Moves

\* What is known of the call of a task.
LEMMA CallFacts ==
  ASSUME CallInv, NEW t \in Tasks
  PROVE  /\ task[t] \in CallType /\ CallOK(task[t])
         /\ task[t].pc \in PCs /\ Arg(t) \in {"none"} \cup Verdicts
         /\ task[t].snap \in Seq(Record) /\ UniqueIds(task[t].snap)
         /\ task[t].pc \in WithFlow => Flow(t) \in Flows
         /\ task[t].pc \in WithRecord => Rec(t) \in Record
<1>1. task[t] \in CallType /\ CallOK(task[t])
  BY DEF CallInv, Calls
<1>2. task[t].snap \in Seq(Record)
  BY <1>1 DEF CallType
<1>3. task[t].snap # <<>> => Rec(t) \in Record
  BY <1>2 DEF Rec
<1> QED BY <1>1, <1>2, <1>3 DEF CallType, CallOK, Flow, Arg
-----------------------------------------------------------------------------
\* The five things a step may do with the lock, each of which keeps the lock
\* discipline and the head that is being decided.
LEMMA AcquireKeeps ==
  ASSUME CallInv, LockInv, NEW t \in Tasks, NEW P, P \subseteq Holder,
         Acquire(t), Moves(t, P), "decide_put" \notin P
  PROVE  LockInv' /\ DecideInv'
<1>1. PICK c \in Calls : c.pc \in P /\ task' = [task EXCEPT ![t] = c]
  BY DEF Moves
<1>2. \A u \in Tasks : u # t => task'[u].pc \notin Holder
  BY <1>1, UnlockedAssumption DEF CallInv, LockInv, Acquire
<1>3. task'[t].pc \in Holder /\ task'[t].pc # "decide_put"
  BY <1>1 DEF CallInv
<1>4. DecideInv'
  BY <1>2, <1>3 DEF DecideInv, Holder
<1>5. LockInv'
  BY <1>2, <1>3 DEF LockInv, Acquire
<1> QED BY <1>4, <1>5

LEMMA HoldKeeps ==
  ASSUME CallInv, LockInv, NEW t \in Tasks, NEW P, P \subseteq Holder,
         task[t].pc \in Holder, UNCHANGED lock, Moves(t, P), "decide_put" \notin P
  PROVE  LockInv' /\ DecideInv'
<1>1. PICK c \in Calls : c.pc \in P /\ task' = [task EXCEPT ![t] = c]
  BY DEF Moves
<1>2. \A u \in Tasks : u # t => task'[u].pc \notin Holder
  BY <1>1 DEF CallInv, LockInv
<1>3. task'[t].pc \in Holder /\ task'[t].pc # "decide_put" /\ lock' = t
  BY <1>1 DEF CallInv, LockInv
<1>4. DecideInv'
  BY <1>2, <1>3 DEF DecideInv, Holder
<1>5. LockInv'
  BY <1>2, <1>3 DEF LockInv
<1> QED BY <1>4, <1>5

LEMMA ReleaseKeeps ==
  ASSUME CallInv, LockInv, NEW t \in Tasks, Release(t), Moves(t, {"idle"})
  PROVE  LockInv' /\ DecideInv'
<1>1. PICK c \in Calls : c.pc = "idle" /\ task' = [task EXCEPT ![t] = c]
  BY DEF Moves
<1>2. \A u \in Tasks : task'[u].pc \notin Holder
  BY <1>1 DEF CallInv, LockInv, Release, Holder
<1>3. \A u \in Tasks : lock' # u /\ task'[u].pc # "decide_put"
  BY <1>2, UnlockedAssumption DEF Release, Holder
<1> QED BY <1>2, <1>3 DEF LockInv, DecideInv, Release

LEMMA PassThroughKeeps ==
  ASSUME CallInv, LockInv, NEW t \in Tasks, NEW P, P \cap Holder = {},
         PassThrough, Moves(t, P)
  PROVE  LockInv' /\ DecideInv'
<1>1. PICK c \in Calls : c.pc \in P /\ task' = [task EXCEPT ![t] = c]
  BY DEF Moves
<1>2. \A u \in Tasks : lock # u /\ task[u].pc \notin Holder
  BY UnlockedAssumption DEF LockInv, PassThrough
<1>3. \A u \in Tasks : task'[u].pc \notin Holder
  BY <1>1, <1>2 DEF CallInv
<1>4. \A u \in Tasks : lock' # u /\ task'[u].pc # "decide_put"
  BY <1>2, <1>3 DEF PassThrough, Holder
<1> QED BY <1>3, <1>4 DEF LockInv, DecideInv, PassThrough

LEMMA OutsideKeeps ==
  ASSUME CallInv, LockInv, DecideInv, NEW t \in Tasks, NEW P, P \cap Holder = {},
         task[t].pc \notin Holder, UNCHANGED <<lock, queue>>, Moves(t, P)
  PROVE  LockInv' /\ DecideInv'
<1>1. PICK c \in Calls : c.pc \in P /\ task' = [task EXCEPT ![t] = c]
  BY DEF Moves
<1>2. \A u \in Tasks : u # t => task'[u] = task[u]
  BY <1>1 DEF CallInv
<1>3. task'[t].pc \notin Holder
  BY <1>1 DEF CallInv
<1>4. LockInv'
  BY <1>2, <1>3 DEF LockInv
<1>5. DecideInv'
  BY <1>2, <1>3 DEF DecideInv, IsHead, Holder
<1> QED BY <1>4, <1>5
-----------------------------------------------------------------------------
\* The synchronous parts shared by several actions.
LEMMA ApplyUpsertKeeps ==
  ASSUME LimitInv, MemoryInv, NEW t \in Tasks, NEW f \in Flows, NEW found, ApplyUpsert(t, f, found)
  PROVE  MemoryInv' /\ UNCHANGED stored /\ Moves(t, {"save"})
<1> DEFINE r == Reopened(f, found)
           q == IF f \in Elems(queue) THEN queue ELSE Append(queue, f)
<1>1. r \in Record /\ r.id = f
  BY DEF Reopened, Record, Status
<1>2. q \in Seq(Flows) /\ NoDuplicates(q) /\ Elems(q) \subseteq Ids(cache) \cup {f}
  BY AppendToQueue DEF MemoryInv
<1>3. SetCache(r, q) /\ Suspend(t, "save", f, "none", <<r>>) /\ UNCHANGED stored
  BY DEF ApplyUpsert
<1> HIDE DEF r, q
<1>4. MemoryInv'
  BY <1>1, <1>2, <1>3, SetCacheKeeps
<1>5. "save" \in PCs /\ "save" # "cleanup_rebuild" /\ "none" \in {"none"} \cup Verdicts
  BY DEF PCs, Holder
<1>6. Moves(t, {"save"})
  BY <1>1, <1>3, <1>5, OneRecord, SuspendMoves
<1> QED BY <1>3, <1>4, <1>6

LEMMA ApplyAttachKeeps ==
  ASSUME LimitInv, MemoryInv, NEW t \in Tasks, NEW f \in Flows, ApplyAttach(t, f)
  PROVE  MemoryInv' /\ UNCHANGED stored /\ Moves(t, {"save"})
<1> DEFINE r == [id |-> f, status |-> "pending_response", response |-> "captured"]
<1>1. r \in Record /\ r.id = f
  BY DEF Record, Status
<1>2. SetCache(r, queue) /\ Suspend(t, "save", f, "none", <<r>>) /\ UNCHANGED stored
  BY DEF ApplyAttach
<1> HIDE DEF r
<1>3. MemoryInv'
  <2>1. queue \in Seq(Flows) /\ NoDuplicates(queue) /\ Elems(queue) \subseteq Ids(cache) \cup {r.id}
    BY DEF MemoryInv
  <2> QED BY <1>1, <1>2, <2>1, SetCacheKeeps
<1>4. "save" \in PCs /\ "save" # "cleanup_rebuild" /\ "none" \in {"none"} \cup Verdicts
  BY DEF PCs, Holder
<1>5. Moves(t, {"save"})
  BY <1>1, <1>2, <1>4, OneRecord, SuspendMoves
<1> QED BY <1>2, <1>3, <1>5

LEMMA ApplyFinalKeeps ==
  ASSUME LimitInv, MemoryInv, NEW t \in Tasks, NEW r \in Record,
         NEW a \in {"none"} \cup Verdicts, ApplyFinal(t, r, a)
  PROVE  MemoryInv' /\ UNCHANGED stored /\ Moves(t, {"final_save"})
<1> DEFINE new == [r EXCEPT !.status = FinalOf(a)]
<1>1. new \in Record /\ r.id \in Flows
  BY DEF Record, Status, Final, FinalOf
<1>2. SetCache(new, queue) /\ Suspend(t, "final_save", r.id, a, <<new>>) /\ UNCHANGED stored
  BY DEF ApplyFinal
<1> HIDE DEF new
<1>3. MemoryInv'
  <2>1. queue \in Seq(Flows) /\ NoDuplicates(queue) /\ Elems(queue) \subseteq Ids(cache) \cup {new.id}
    BY DEF MemoryInv
  <2> QED BY <1>1, <1>2, <2>1, SetCacheKeeps
<1>4. "final_save" \in PCs /\ "final_save" # "cleanup_rebuild"
  BY DEF PCs, Holder
<1>5. Moves(t, {"final_save"})
  BY <1>1, <1>2, <1>4, OneRecord, SuspendMoves
<1> QED BY <1>2, <1>3, <1>5

LEMMA SetFinalStatusKeeps ==
  ASSUME LimitInv, IInv, NEW t \in Tasks, NEW f \in Flows,
         NEW a \in {"none"} \cup Verdicts, SetFinalStatus(t, f, a)
  PROVE  IInv'
<1>1. Acquire(t)
  BY DEF SetFinalStatus
<1>2. MemoryInv' /\ UNCHANGED stored /\ Moves(t, {"final_save", "final_read"})
  <2>1. CASE \E r \in Entry(cache, f) : ApplyFinal(t, r, a)
    <3>1. PICK r \in Entry(cache, f) : ApplyFinal(t, r, a)
      BY <2>1
    <3>2. r \in Record
      BY LenProperties, ElementOfSeq DEF Entry, Elems, IInv, MemoryInv
    <3> QED BY <3>1, <3>2, ApplyFinalKeeps DEF IInv, Moves
  <2>2. CASE Suspend(t, "final_read", f, a, <<>>) /\ UNCHANGED <<stored, memory>>
    <3>1. MemoryInv'
      BY <2>2 DEF IInv, MemoryInv, memory, CacheLimit
    <3>2. "final_read" \in PCs /\ "final_read" \notin WithRecord /\ "final_read" # "cleanup_rebuild"
      BY DEF PCs, Holder, WithRecord
    <3>3. Moves(t, {"final_read"})
      BY <2>2, <3>2, NoRecords, SuspendMoves
    <3> QED BY <2>2, <3>1, <3>3 DEF Moves
  <2> QED BY <2>1, <2>2 DEF SetFinalStatus
<1>3. CallInv'
  BY <1>2, MovesKeepsCalls DEF IInv
<1>4. LockInv' /\ DecideInv'
  BY <1>1, <1>2, AcquireKeeps DEF IInv, Holder
<1>5. TableInv'
  BY <1>2 DEF IInv, TableInv, stored
<1> QED BY <1>2, <1>3, <1>4, <1>5 DEF IInv

LEMMA CacheEntry ==
  ASSUME IInv, NEW f, NEW r \in Entry(cache, f)
  PROVE  r \in Record /\ r.id = f
  BY LenProperties, ElementOfSeq DEF Entry, Elems, IInv, MemoryInv

LEMMA RowEntry ==
  ASSUME IInv, NEW f, NEW r \in Entry(rows, f)
  PROVE  r \in Record /\ r.id = f
  BY LenProperties, ElementOfSeq DEF Entry, Elems, IInv, TableInv

\* Popping the head, where it is popped, keeps the memory.
LEMMA PopKeeps ==
  ASSUME MemoryInv, NEW f, UNCHANGED cache,
         queue' = IF IsHead(f) THEN Tail(queue) ELSE queue
  PROVE  MemoryInv'
<1>1. CASE IsHead(f)
  <2>1. queue # <<>> /\ queue' = Tail(queue)
    BY <1>1 DEF IsHead
  <2>2. /\ Tail(queue) \in Seq(Flows) /\ NoDuplicates(Tail(queue))
        /\ Elems(Tail(queue)) \subseteq Elems(queue)
    BY <2>1, TailProperties DEF MemoryInv
  <2> QED BY <2>1, <2>2 DEF MemoryInv, CacheLimit
<1>2. CASE ~IsHead(f)
  BY <1>2 DEF MemoryInv, CacheLimit
<1> QED BY <1>1, <1>2

LEMMA MemoryUnchanged ==
  ASSUME MemoryInv, UNCHANGED memory
  PROVE  MemoryInv'
  BY DEF MemoryInv, memory, CacheLimit

LEMMA TablesUnchanged ==
  ASSUME TableInv, UNCHANGED stored
  PROVE  TableInv'
  BY DEF TableInv, stored

\* The program counters an action moves to are those of the type.
LEMMA PCTypes ==
  /\ {"save", "upsert_read", "attach_read", "decide_put", "decide_save"} \subseteq Holder
  /\ {"final_read", "final_save", "clear_wipe"} \subseteq Holder
  /\ Holder \subseteq PCs
  /\ {"get_fetch", "get_store", "take_pop", "respond_mark"} \subseteq PCs \ Holder
  /\ {"idle", "cleanup_list", "cleanup_rebuild"} \subseteq PCs \ Holder
  /\ "none" \in {"none"} \cup Verdicts
  /\ {"upsert_read", "attach_read", "final_read", "decide_put", "get_fetch",
      "take_pop", "respond_mark"} \cap (WithRecord \cup {"cleanup_rebuild"}) = {}
  /\ {"clear_wipe", "cleanup_list"} \cap (WithFlow \cup WithRecord \cup {"cleanup_rebuild"}) = {}
  /\ WithRecord \cup {"upsert_read", "attach_read", "final_read", "decide_put",
      "get_fetch", "take_pop", "respond_mark"} \subseteq WithFlow
  /\ "cleanup_rebuild" \notin WithFlow \cup WithRecord
  BY DEF PCs, Holder, WithFlow, WithRecord

\* Suspending a call that carries a flow and no record.
LEMMA SuspendFlowMoves ==
  ASSUME LimitInv, NEW t \in Tasks, NEW f \in Flows, NEW a \in {"none"} \cup Verdicts,
         NEW pc \in {"upsert_read", "attach_read", "final_read", "decide_put",
                     "get_fetch", "take_pop", "respond_mark"},
         Suspend(t, pc, f, a, <<>>)
  PROVE  Moves(t, {pc})
<1>1. pc \in PCs /\ pc \notin WithRecord /\ pc # "cleanup_rebuild"
  BY PCTypes
<1> QED BY <1>1, NoRecords, SuspendMoves

-----------------------------------------------------------------------------
\* One lemma per operation: each of its steps keeps IInv.
LEMMA UpsertKeeps ==
  ASSUME LimitInv, IInv, NEW t \in Tasks, Upsert(t) \/ UpsertRead(t)
  PROVE  IInv'
<1>1. CASE Upsert(t)
  <2>1. PICK f \in Flows :
          /\ Acquire(t)
          /\ \/ ApplyUpsert(t, f, Entry(cache, f))
             \/ Suspend(t, "upsert_read", f, "none", <<>>) /\ UNCHANGED <<stored, memory>>
    BY <1>1 DEF Upsert
  <2>2. MemoryInv' /\ UNCHANGED stored /\ Moves(t, {"save", "upsert_read"})
    <3>1. CASE ApplyUpsert(t, f, Entry(cache, f))
      BY <3>1, ApplyUpsertKeeps DEF IInv, Moves
    <3>2. CASE Suspend(t, "upsert_read", f, "none", <<>>) /\ UNCHANGED <<stored, memory>>
      <4>1. Moves(t, {"upsert_read"})
        BY <3>2, SuspendFlowMoves
      <4> QED BY <3>2, <4>1, MemoryUnchanged DEF IInv, Moves
    <3> QED BY <2>1, <3>1, <3>2
  <2>3. CallInv'
    BY <2>2, MovesKeepsCalls DEF IInv
  <2>4. LockInv' /\ DecideInv'
    <3>1. {"save", "upsert_read"} \subseteq Holder /\ "decide_put" \notin {"save", "upsert_read"}
      BY PCTypes
    <3> QED BY <2>1, <2>2, <3>1, AcquireKeeps DEF IInv
  <2> QED BY <2>2, <2>3, <2>4, TablesUnchanged DEF IInv
<1>2. CASE UpsertRead(t)
  <2>1. /\ ApplyUpsert(t, Flow(t), Entry(rows, Flow(t)))
        /\ task[t].pc = "upsert_read" /\ UNCHANGED lock
    BY <1>2 DEF UpsertRead, At
  <2>2. Flow(t) \in Flows
    BY <2>1, CallFacts, PCTypes DEF IInv
  <2>3. MemoryInv' /\ UNCHANGED stored /\ Moves(t, {"save"})
    BY <2>1, <2>2, ApplyUpsertKeeps DEF IInv
  <2>4. CallInv'
    BY <2>3, MovesKeepsCalls DEF IInv
  <2>5. LockInv' /\ DecideInv'
    BY <2>1, <2>3, HoldKeeps, PCTypes DEF IInv
  <2> QED BY <2>3, <2>4, <2>5, TablesUnchanged DEF IInv
<1> QED BY <1>1, <1>2

LEMMA AttachKeeps ==
  ASSUME LimitInv, IInv, NEW t \in Tasks, Attach(t) \/ AttachRead(t)
  PROVE  IInv'
<1>1. CASE Attach(t)
  <2>1. PICK f \in Flows :
          /\ Acquire(t)
          /\ \/ ApplyAttach(t, f)
             \/ Suspend(t, "attach_read", f, "none", <<>>) /\ UNCHANGED <<stored, memory>>
    BY <1>1 DEF Attach
  <2>2. MemoryInv' /\ UNCHANGED stored /\ Moves(t, {"save", "attach_read"})
    <3>1. CASE ApplyAttach(t, f)
      BY <3>1, ApplyAttachKeeps DEF IInv, Moves
    <3>2. CASE Suspend(t, "attach_read", f, "none", <<>>) /\ UNCHANGED <<stored, memory>>
      <4>1. Moves(t, {"attach_read"})
        BY <3>2, SuspendFlowMoves
      <4> QED BY <3>2, <4>1, MemoryUnchanged DEF IInv, Moves
    <3> QED BY <2>1, <3>1, <3>2
  <2>3. CallInv'
    BY <2>2, MovesKeepsCalls DEF IInv
  <2>4. LockInv' /\ DecideInv'
    <3>1. {"save", "attach_read"} \subseteq Holder /\ "decide_put" \notin {"save", "attach_read"}
      BY PCTypes
    <3> QED BY <2>1, <2>2, <3>1, AcquireKeeps DEF IInv
  <2> QED BY <2>2, <2>3, <2>4, TablesUnchanged DEF IInv
<1>2. CASE AttachRead(t)
  <2>1. ApplyAttach(t, Flow(t)) /\ task[t].pc = "attach_read" /\ UNCHANGED lock
    BY <1>2 DEF AttachRead, At
  <2>2. Flow(t) \in Flows
    BY <2>1, CallFacts, PCTypes DEF IInv
  <2>3. MemoryInv' /\ UNCHANGED stored /\ Moves(t, {"save"})
    BY <2>1, <2>2, ApplyAttachKeeps DEF IInv
  <2>4. CallInv'
    BY <2>3, MovesKeepsCalls DEF IInv
  <2>5. LockInv' /\ DecideInv'
    BY <2>1, <2>3, HoldKeeps, PCTypes DEF IInv
  <2> QED BY <2>3, <2>4, <2>5, TablesUnchanged DEF IInv
<1> QED BY <1>1, <1>2

LEMMA SaveKeeps ==
  ASSUME IInv, NEW t \in Tasks, Save(t)
  PROVE  IInv'
<1>1. /\ task[t].pc = "save" /\ rows' = Put(rows, Rec(t)) /\ Release(t) /\ Return(t)
      /\ UNCHANGED <<decisions, memory>>
  BY DEF Save, At
<1>2. Rec(t) \in Record
  BY <1>1, CallFacts DEF IInv, WithRecord
<1>3. Moves(t, {"idle"})
  BY <1>1, ReturnMoves
<1>4. CallInv' /\ LockInv' /\ DecideInv'
  BY <1>1, <1>3, MovesKeepsCalls, ReleaseKeeps DEF IInv
<1>5. TableInv' /\ MemoryInv'
  BY <1>1, <1>2, PutRowKeeps, MemoryUnchanged DEF IInv
<1> QED BY <1>4, <1>5 DEF IInv

LEMMA MarkKeeps ==
  ASSUME LimitInv, IInv, NEW t \in Tasks,
         MarkCompleted(t) \/ MarkDropped(t) \/ RespondMark(t) \/ FinalRead(t) \/ FinalSave(t)
  PROVE  IInv'
<1>1. CASE MarkCompleted(t) \/ MarkDropped(t)
  <2>1. PICK f \in Flows, a \in Verdicts : SetFinalStatus(t, f, a)
    BY <1>1 DEF MarkCompleted, MarkDropped, Verdicts
  <2> QED BY <2>1, SetFinalStatusKeeps
<1>2. CASE RespondMark(t)
  <2>1. task[t].pc = "respond_mark" /\ SetFinalStatus(t, Flow(t), Arg(t))
    BY <1>2 DEF RespondMark, At
  <2>2. Flow(t) \in Flows /\ Arg(t) \in {"none"} \cup Verdicts
    BY <2>1, CallFacts, PCTypes DEF IInv
  <2> QED BY <2>1, <2>2, SetFinalStatusKeeps
<1>3. CASE FinalRead(t)
  <2>1. task[t].pc = "final_read"
    BY <1>3 DEF FinalRead, At
  <2>2. CASE (\E r \in Entry(rows, Flow(t)) : ApplyFinal(t, r, Arg(t))) /\ UNCHANGED lock
    <3>1. PICK r \in Entry(rows, Flow(t)) : ApplyFinal(t, r, Arg(t))
      BY <2>2
    <3>2. r \in Record /\ Arg(t) \in {"none"} \cup Verdicts
      BY <3>1, RowEntry, CallFacts DEF IInv
    <3>3. MemoryInv' /\ UNCHANGED stored /\ Moves(t, {"final_save"})
      BY <3>1, <3>2, ApplyFinalKeeps DEF IInv
    <3>4. CallInv'
      BY <3>3, MovesKeepsCalls DEF IInv
    <3>5. LockInv' /\ DecideInv'
      BY <2>1, <2>2, <3>3, HoldKeeps, PCTypes DEF IInv
    <3> QED BY <3>3, <3>4, <3>5, TablesUnchanged DEF IInv
  <2>3. CASE Release(t) /\ Return(t) /\ UNCHANGED <<stored, memory>>
    <3>1. Moves(t, {"idle"})
      BY <2>3, ReturnMoves
    <3>2. CallInv' /\ LockInv' /\ DecideInv'
      BY <2>3, <3>1, MovesKeepsCalls, ReleaseKeeps DEF IInv
    <3> QED BY <2>3, <3>2, TablesUnchanged, MemoryUnchanged DEF IInv
  <2> QED BY <1>3, <2>2, <2>3 DEF FinalRead
<1>4. CASE FinalSave(t)
  <2>1. /\ task[t].pc = "final_save" /\ rows' = Put(rows, Rec(t))
        /\ queue' = Without(queue, Flow(t)) /\ Release(t) /\ Return(t)
        /\ UNCHANGED <<decisions, cache>>
    BY <1>4 DEF FinalSave, At
  <2>2. Rec(t) \in Record
    BY <2>1, CallFacts DEF IInv, WithRecord
  <2>3. Moves(t, {"idle"})
    BY <2>1, ReturnMoves
  <2>4. CallInv' /\ LockInv' /\ DecideInv'
    BY <2>1, <2>3, MovesKeepsCalls, ReleaseKeeps DEF IInv
  <2>5. TableInv'
    BY <2>1, <2>2, PutRowKeeps DEF IInv
  <2>6. MemoryInv'
    <3>1. /\ queue' \in Seq(Flows) /\ NoDuplicates(queue')
          /\ Elems(queue') \subseteq Elems(queue)
      BY <2>1, WithoutProperties DEF IInv, MemoryInv
    <3> QED BY <2>1, <3>1 DEF IInv, MemoryInv, CacheLimit
  <2> QED BY <2>4, <2>5, <2>6 DEF IInv
<1> QED BY <1>1, <1>2, <1>3, <1>4

LEMMA GetKeeps ==
  ASSUME LimitInv, IInv, NEW t \in Tasks, GetMiss(t) \/ GetFetch(t) \/ GetStore(t)
  PROVE  IInv'
<1>1. CASE GetMiss(t)
  <2>1. PICK f \in Flows : Suspend(t, "get_fetch", f, "none", <<>>)
    BY <1>1 DEF GetMiss
  <2>2. PassThrough /\ UNCHANGED <<stored, memory>>
    BY <1>1 DEF GetMiss
  <2>3. Moves(t, {"get_fetch"})
    BY <2>1, SuspendFlowMoves
  <2>4. CallInv' /\ LockInv' /\ DecideInv'
    BY <2>2, <2>3, MovesKeepsCalls, PassThroughKeeps, PCTypes DEF IInv
  <2> QED BY <2>2, <2>4, TablesUnchanged, MemoryUnchanged DEF IInv
<1>2. CASE GetFetch(t)
  <2>1. task[t].pc = "get_fetch" /\ UNCHANGED <<stored, memory, lock>>
    BY <1>2 DEF GetFetch, At
  <2>2. Flow(t) \in Flows
    BY <2>1, CallFacts, PCTypes DEF IInv
  <2>3. Moves(t, {"get_store", "idle"})
    <3>1. CASE \E r \in Entry(rows, Flow(t)) : Suspend(t, "get_store", Flow(t), "none", <<r>>)
      <4>1. PICK r \in Entry(rows, Flow(t)) : Suspend(t, "get_store", Flow(t), "none", <<r>>)
        BY <3>1
      <4>2. r \in Record
        BY <4>1, RowEntry
      <4>3. "get_store" \in PCs /\ "get_store" # "cleanup_rebuild"
        BY PCTypes
      <4>4. Moves(t, {"get_store"})
        BY <2>2, <4>1, <4>2, <4>3, OneRecord, SuspendMoves
      <4> QED BY <4>4 DEF Moves
    <3>2. CASE Return(t)
      BY <3>2, ReturnMoves DEF Moves
    <3> QED BY <1>2, <3>1, <3>2 DEF GetFetch
  <2>4. CallInv'
    BY <2>3, MovesKeepsCalls DEF IInv
  <2>5. LockInv' /\ DecideInv'
    <3>1. {"get_store", "idle"} \cap Holder = {} /\ task[t].pc \notin Holder
      BY <2>1, PCTypes
    <3>2. UNCHANGED <<lock, queue>>
      BY <2>1 DEF memory
    <3> QED BY <2>3, <3>1, <3>2, OutsideKeeps DEF IInv
  <2> QED BY <2>1, <2>4, <2>5, TablesUnchanged, MemoryUnchanged DEF IInv
<1>3. CASE GetStore(t)
  <2>1. /\ task[t].pc = "get_store" /\ PassThrough /\ SetCache(Rec(t), queue)
        /\ Return(t) /\ UNCHANGED stored
    BY <1>3 DEF GetStore, At
  <2>2. Rec(t) \in Record
    BY <2>1, CallFacts DEF IInv, WithRecord
  <2>3. MemoryInv'
    <3>1. /\ queue \in Seq(Flows) /\ NoDuplicates(queue)
          /\ Elems(queue) \subseteq Ids(cache) \cup {Rec(t).id}
      BY DEF IInv, MemoryInv
    <3> QED BY <2>1, <2>2, <3>1, SetCacheKeeps DEF IInv
  <2>4. Moves(t, {"idle"})
    BY <2>1, ReturnMoves
  <2>5. CallInv' /\ LockInv' /\ DecideInv'
    BY <2>1, <2>4, MovesKeepsCalls, PassThroughKeeps, PCTypes DEF IInv
  <2> QED BY <2>1, <2>3, <2>5, TablesUnchanged DEF IInv
<1> QED BY <1>1, <1>2, <1>3

\* The head that is checked is the head that is decided: DecideInv starts here.
LEMMA DecideKeeps ==
  ASSUME LimitInv, IInv, NEW t \in Tasks,
         Decide(t) \/ DecideForward(t) \/ DecideDrop(t) \/ DecideSave(t)
  PROVE  IInv'
<1>1. CASE Decide(t)
  <2>1. PICK f \in Flows, a \in Verdicts :
          Acquire(t) /\ IsHead(f) /\ Suspend(t, "decide_put", f, a, <<>>)
    BY <1>1 DEF Decide
  <2>2. UNCHANGED <<stored, memory>>
    BY <1>1 DEF Decide
  <2>3. Moves(t, {"decide_put"})
    BY <2>1, SuspendFlowMoves
  <2>4. CallInv'
    BY <2>3, MovesKeepsCalls DEF IInv
  <2>5. task'[t].pc = "decide_put" /\ task'[t].flow = f
    BY <2>1 DEF Suspend, IInv, CallInv
  <2>6. \A u \in Tasks : u # t => task'[u].pc \notin Holder
    BY <2>1, UnlockedAssumption DEF Suspend, IInv, CallInv, LockInv, Acquire
  <2>7. LockInv'
    BY <2>1, <2>5, <2>6, PCTypes DEF LockInv, Acquire
  <2>8. DecideInv'
    <3>1. IsHead(f)'
      BY <2>1, <2>2 DEF IsHead, memory
    <3> QED BY <2>5, <2>6, <3>1, PCTypes DEF DecideInv, IsHead
  <2> QED BY <2>2, <2>4, <2>7, <2>8, TablesUnchanged, MemoryUnchanged DEF IInv
<1>2. CASE DecideForward(t)
  <2>1. /\ task[t].pc = "decide_put" /\ SetDecision(Flow(t), "request", "forward")
        /\ Release(t) /\ Return(t) /\ UNCHANGED <<rows, memory>>
    BY <1>2 DEF DecideForward, At
  <2>2. Flow(t) \in Flows
    BY <2>1, CallFacts, PCTypes DEF IInv
  <2>3. Moves(t, {"idle"})
    BY <2>1, ReturnMoves
  <2>4. CallInv' /\ LockInv' /\ DecideInv'
    BY <2>1, <2>3, MovesKeepsCalls, ReleaseKeeps DEF IInv
  <2>5. TableInv'
    BY <2>1, <2>2, DecisionKeeps DEF IInv, Stages, Verdicts
  <2> QED BY <2>1, <2>4, <2>5, MemoryUnchanged DEF IInv
<1>3. CASE DecideDrop(t)
  <2>1. /\ task[t].pc = "decide_put" /\ SetDecision(Flow(t), "request", "drop")
        /\ UNCHANGED <<rows, lock>>
    BY <1>3 DEF DecideDrop, At
  <2>2. PICK r \in Entry(cache, Flow(t)) :
          /\ SetCache([r EXCEPT !.status = "dropped"], queue)
          /\ Suspend(t, "decide_save", Flow(t), "drop", <<[r EXCEPT !.status = "dropped"]>>)
    BY <1>3 DEF DecideDrop
  <2>3. Flow(t) \in Flows
    BY <2>1, CallFacts, PCTypes DEF IInv
  <2> DEFINE new == [r EXCEPT !.status = "dropped"]
  <2>4. new \in Record
    <3>1. r \in Record
      BY <2>2, CacheEntry
    <3> QED BY <3>1 DEF Record, Status, Final
  <2>5. SetCache(new, queue) /\ Suspend(t, "decide_save", Flow(t), "drop", <<new>>)
    BY <2>2
  <2> HIDE DEF new
  <2>6. MemoryInv'
    <3>1. /\ queue \in Seq(Flows) /\ NoDuplicates(queue)
          /\ Elems(queue) \subseteq Ids(cache) \cup {new.id}
      BY DEF IInv, MemoryInv
    <3> QED BY <2>4, <2>5, <3>1, SetCacheKeeps DEF IInv
  <2>7. Moves(t, {"decide_save"})
    <3>1. /\ "decide_save" \in PCs /\ "decide_save" # "cleanup_rebuild"
          /\ "drop" \in {"none"} \cup Verdicts
      BY DEF PCs, Holder, Verdicts
    <3> QED BY <2>3, <2>4, <2>5, <3>1, OneRecord, SuspendMoves
  <2>8. CallInv'
    BY <2>7, MovesKeepsCalls DEF IInv
  <2>9. LockInv' /\ DecideInv'
    BY <2>1, <2>7, HoldKeeps, PCTypes DEF IInv
  <2>10. TableInv'
    BY <2>1, <2>3, DecisionKeeps DEF IInv, Stages, Verdicts
  <2> QED BY <2>6, <2>8, <2>9, <2>10 DEF IInv
<1>4. CASE DecideSave(t)
  <2>1. /\ task[t].pc = "decide_save" /\ rows' = Put(rows, Rec(t))
        /\ queue' = IF IsHead(Flow(t)) THEN Tail(queue) ELSE queue
        /\ Release(t) /\ Return(t) /\ UNCHANGED <<decisions, cache>>
    BY <1>4 DEF DecideSave, At
  <2>2. Rec(t) \in Record
    BY <2>1, CallFacts DEF IInv, WithRecord
  <2>3. Moves(t, {"idle"})
    BY <2>1, ReturnMoves
  <2>4. CallInv' /\ LockInv' /\ DecideInv'
    BY <2>1, <2>3, MovesKeepsCalls, ReleaseKeeps DEF IInv
  <2>5. TableInv' /\ MemoryInv'
    BY <2>1, <2>2, PutRowKeeps, PopKeeps DEF IInv
  <2> QED BY <2>4, <2>5 DEF IInv
<1> QED BY <1>1, <1>2, <1>3, <1>4

LEMMA TakeKeeps ==
  ASSUME LimitInv, IInv, NEW t \in Tasks,
         TakeDecision(t) \/ TakePop(t) \/ RespondPut(t) \/ TakeResponse(t)
  PROVE  IInv'
<1>1. CASE TakeDecision(t)
  <2>1. PICK d \in decisions : /\ task[t].pc = "idle" /\ decisions' = decisions \ {d}
                               /\ Suspend(t, "take_pop", d.flow, "none", <<>>)
    BY <1>1 DEF TakeDecision, Begins, At
  <2>2. UNCHANGED <<rows, memory, lock>>
    BY <1>1 DEF TakeDecision
  <2>3. Moves(t, {"take_pop"})
    <3>1. d.flow \in Flows
      BY DEF IInv, TableInv, Decision
    <3> QED BY <2>1, <3>1, SuspendFlowMoves, PCTypes
  <2>4. CallInv' /\ LockInv' /\ DecideInv'
    BY <2>1, <2>2, <2>3, MovesKeepsCalls, OutsideKeeps, PCTypes DEF IInv, memory
  <2>5. TableInv'
    BY <2>1, <2>2 DEF IInv, TableInv
  <2> QED BY <2>2, <2>4, <2>5, MemoryUnchanged DEF IInv
<1>2. CASE TakePop(t)
  <2>1. /\ PassThrough /\ queue' = IF IsHead(Flow(t)) THEN Tail(queue) ELSE queue
        /\ Return(t) /\ UNCHANGED <<stored, cache>>
    BY <1>2 DEF TakePop
  <2>2. Moves(t, {"idle"})
    BY <2>1, ReturnMoves
  <2>3. CallInv' /\ LockInv' /\ DecideInv'
    BY <2>1, <2>2, MovesKeepsCalls, PassThroughKeeps, PCTypes DEF IInv
  <2>4. MemoryInv' /\ TableInv'
    BY <2>1, PopKeeps, TablesUnchanged DEF IInv
  <2> QED BY <2>3, <2>4 DEF IInv
<1>3. CASE RespondPut(t)
  <2>1. PICK f \in Flows, a \in Verdicts :
          /\ task[t].pc = "idle" /\ SetDecision(f, "response", a)
          /\ Suspend(t, "respond_mark", f, a, <<>>)
    BY <1>3 DEF RespondPut, Begins, At
  <2>2. UNCHANGED <<rows, memory, lock>>
    BY <1>3 DEF RespondPut
  <2>3. Moves(t, {"respond_mark"})
    BY <2>1, SuspendFlowMoves
  <2>4. CallInv' /\ LockInv' /\ DecideInv'
    BY <2>1, <2>2, <2>3, MovesKeepsCalls, OutsideKeeps, PCTypes DEF IInv, memory
  <2>5. TableInv'
    BY <2>1, <2>2, DecisionKeeps DEF IInv, Stages
  <2> QED BY <2>2, <2>4, <2>5, MemoryUnchanged DEF IInv
<1>4. CASE TakeResponse(t)
  <2>1. UNCHANGED <<rows, memory, lock, task>> /\ decisions' \subseteq decisions
    BY <1>4 DEF TakeResponse
  <2>2. CallInv' /\ LockInv' /\ DecideInv'
    BY <2>1 DEF IInv, CallInv, LockInv, DecideInv, IsHead, memory
  <2>3. TableInv'
    BY <2>1 DEF IInv, TableInv
  <2> QED BY <2>1, <2>2, <2>3, MemoryUnchanged DEF IInv
<1> QED BY <1>1, <1>2, <1>3, <1>4

LEMMA ClearKeeps ==
  ASSUME LimitInv, IInv, NEW t \in Tasks, Clear(t) \/ ClearWipe(t)
  PROVE  IInv'
<1>1. CASE Clear(t)
  <2>1. /\ Acquire(t) /\ cache' = <<>> /\ queue' = <<>>
        /\ Suspend(t, "clear_wipe", NoFlow, "none", <<>>) /\ UNCHANGED stored
    BY <1>1 DEF Clear
  <2>2. Moves(t, {"clear_wipe"})
    <3>1. "clear_wipe" \in PCs /\ "clear_wipe" \notin WithFlow \cup WithRecord \cup {"cleanup_rebuild"}
      BY PCTypes
    <3> QED BY <2>1, <3>1, NoRecords, SuspendMoves
  <2>3. CallInv' /\ LockInv' /\ DecideInv'
    BY <2>1, <2>2, MovesKeepsCalls, AcquireKeeps, PCTypes DEF IInv
  <2>4. MemoryInv'
    <3>1. /\ <<>> \in Seq(Flows) /\ NoDuplicates(<<>>) /\ Elems(<<>>) = {}
          /\ 0 <= CacheLimit
      BY MaxMemAssumption DEF NoDuplicates, Elems, CacheLimit
    <3> QED BY <2>1, <3>1, NoRecords DEF MemoryInv, CacheLimit
  <2> QED BY <2>1, <2>3, <2>4, TablesUnchanged DEF IInv
<1>2. CASE ClearWipe(t)
  <2>1. /\ rows' = <<>> /\ decisions' = {} /\ Release(t) /\ Return(t) /\ UNCHANGED memory
    BY <1>2 DEF ClearWipe
  <2>2. Moves(t, {"idle"})
    BY <2>1, ReturnMoves
  <2>3. CallInv' /\ LockInv' /\ DecideInv'
    BY <2>1, <2>2, MovesKeepsCalls, ReleaseKeeps DEF IInv
  <2>4. TableInv'
    BY <2>1, NoRecords DEF TableInv
  <2> QED BY <2>1, <2>3, <2>4, MemoryUnchanged DEF IInv
<1> QED BY <1>1, <1>2

\* The rows that are listed are a bounded map.
LEMMA RecentProperties ==
  ASSUME TableInv, NEW n \in 0..MaxMem
  PROVE  /\ Recent(n) \in Seq(Record) /\ UniqueIds(Recent(n)) /\ Len(Recent(n)) <= CacheLimit
         /\ Len(Recent(n)) <= RowLimit(MaxMem)
<1>1. /\ Recent(n) \in Seq(Record) /\ UniqueIds(Recent(n))
      /\ Len(Recent(n)) <= RowLimit(n)
  BY RowLimitType, NewestProperties DEF TableInv, Recent
<1>2. Len(Recent(n)) \in Nat /\ CacheLimit \in Nat
  BY <1>1, LenProperties, MaxMemAssumption DEF CacheLimit
<1> QED BY <1>1, <1>2, RowLimitType

\* The flows that wait, among listed records.
LEMMA PendingProperties ==
  ASSUME NEW s \in Seq(Record), UniqueIds(s)
  PROVE  /\ PendingIds(s) \in Seq(Flows) /\ NoDuplicates(PendingIds(s))
         /\ Elems(PendingIds(s)) \subseteq Ids(s)
<1> DEFINE I == {i \in DOMAIN s : s[i].status = "pending_request"}
           u == Sub(s, I)
<1>1. I \in SUBSET (1..Len(s)) /\ DOMAIN s = 1..Len(s)
  BY LenProperties
<1>2. u \in Seq(Record) /\ UniqueIds(u)
  BY <1>1, SubProperties, SubUnique
<1>3. Ids(u) \subseteq Ids(s)
  <2>1. Ids(u) = {s[i].id : i \in I}
    BY <1>1, SubElems
  <2> QED BY <2>1 DEF Ids
<1>4. PendingIds(s) = IdsInOrder(u)
  BY DEF PendingIds
<1> HIDE DEF u
<1>5. /\ IdsInOrder(u) \in Seq(Flows)
      /\ Elems(IdsInOrder(u)) = Ids(u)
      /\ NoDuplicates(IdsInOrder(u))
  BY <1>2, RecordIds, IdsInOrderProperties
<1> QED BY <1>3, <1>4, <1>5

LEMMA CleanupKeeps ==
  ASSUME LimitInv, IInv, NEW t \in Tasks, CleanupDelete(t) \/ CleanupList(t) \/ CleanupRebuild(t)
  PROVE  IInv'
<1>1. CASE CleanupDelete(t)
  <2>1. PICK n \in 0..Len(rows) : /\ rows' = SubSeq(rows, n + 1, Len(rows))
                                  /\ decisions' \subseteq decisions
    BY <1>1 DEF CleanupDelete
  <2>2. /\ task[t].pc = "idle" /\ UNCHANGED <<memory, lock>>
        /\ UNCHANGED task \/ Suspend(t, "cleanup_list", NoFlow, "none", <<>>)
    BY <1>1 DEF CleanupDelete, Begins, At
  <2>3. ASSUME Suspend(t, "cleanup_list", NoFlow, "none", <<>>)
        PROVE  CallInv' /\ LockInv' /\ DecideInv'
    <3>1. "cleanup_list" \in PCs /\ "cleanup_list" \notin WithFlow \cup WithRecord \cup {"cleanup_rebuild"}
      BY PCTypes
    <3>2. Moves(t, {"cleanup_list"})
      BY <2>3, <3>1, NoRecords, SuspendMoves
    <3> QED BY <2>2, <3>2, MovesKeepsCalls, OutsideKeeps, PCTypes DEF IInv, memory
  <2>4. CallInv' /\ LockInv' /\ DecideInv'
    BY <2>2, <2>3 DEF IInv, CallInv, LockInv, DecideInv, IsHead, memory
  <2>5. TableInv'
    <3>1. rows \in Seq(Record) /\ UniqueIds(rows) /\ n \in Nat /\ n <= Len(rows)
      BY LenProperties DEF IInv, TableInv
    <3>2. rows' \in Seq(Record) /\ UniqueIds(rows')
      BY <2>1, <3>1, StretchProperties
    <3> QED BY <2>1, <3>2 DEF IInv, TableInv
  <2> QED BY <2>2, <2>4, <2>5, MemoryUnchanged DEF IInv
<1>2. CASE CleanupList(t)
  <2>1. /\ task[t].pc = "cleanup_list" /\ Suspend(t, "cleanup_rebuild", NoFlow, "none", Recent(task[t].seen))
        /\ UNCHANGED <<stored, memory, lock>>
    BY <1>2 DEF CleanupList, At
  <2>2. Moves(t, {"cleanup_rebuild"})
    <3>1. "cleanup_rebuild" \in PCs /\ "cleanup_rebuild" \notin WithFlow \cup WithRecord
      BY PCTypes
    <3>2. task[t].seen \in 0..MaxMem
      BY CallFacts DEF IInv, CallType
    <3> QED BY <2>1, <3>1, <3>2, RecentProperties, SuspendMoves, PCTypes DEF IInv
  <2>3. CallInv' /\ LockInv' /\ DecideInv'
    BY <2>1, <2>2, MovesKeepsCalls, OutsideKeeps, PCTypes DEF IInv, memory
  <2> QED BY <2>1, <2>3, TablesUnchanged, MemoryUnchanged DEF IInv
<1>3. CASE CleanupRebuild(t)
  <2> DEFINE listed == task[t].snap
             preserved == KeepIn(queue, Ids(listed))
             pending == PendingIds(listed)
             added == KeepIn(pending, Elems(pending) \ Elems(preserved))
  <2>1. /\ task[t].pc = "cleanup_rebuild" /\ PassThrough /\ cache' = listed
        /\ queue' = preserved \o added /\ Return(t) /\ UNCHANGED stored
    BY <1>3 DEF CleanupRebuild, At
  <2>2. listed \in Seq(Record) /\ UniqueIds(listed) /\ Len(listed) <= CacheLimit
    <3>1. listed \in Seq(Record) /\ UniqueIds(listed) /\ Len(listed) <= RowLimit(MaxMem)
      BY <2>1, CallFacts DEF IInv, CallOK
    <3>2. Len(listed) \in Nat /\ RowLimit(MaxMem) <= CacheLimit /\ RowLimit(MaxMem) \in Nat /\ CacheLimit \in Nat
      BY <3>1, LenProperties, RowLimitType, MaxMemAssumption DEF CacheLimit
    <3> HIDE DEF listed
    <3> QED BY <3>1, <3>2
  <2>3. Moves(t, {"idle"})
    BY <2>1, ReturnMoves
  <2>4. CallInv' /\ LockInv' /\ DecideInv'
    BY <2>1, <2>3, MovesKeepsCalls, PassThroughKeeps, PCTypes DEF IInv
  <2>5. MemoryInv'
    <3>1. /\ preserved \in Seq(Flows) /\ NoDuplicates(preserved)
          /\ Elems(preserved) = Elems(queue) \cap Ids(listed)
      BY KeepInProperties DEF IInv, MemoryInv
    <3>2. /\ pending \in Seq(Flows) /\ NoDuplicates(pending)
          /\ Elems(pending) \subseteq Ids(listed)
      BY <2>2, PendingProperties
    <3> HIDE DEF listed, preserved, pending
    <3>3. /\ added \in Seq(Flows) /\ NoDuplicates(added)
          /\ Elems(added) = Elems(pending) \cap (Elems(pending) \ Elems(preserved))
      BY <3>2, KeepInProperties
    <3> HIDE DEF added
    <3>4. /\ queue' \in Seq(Flows) /\ NoDuplicates(queue')
          /\ Elems(queue') = Elems(preserved) \cup Elems(added)
      BY <2>1, <3>1, <3>3, ConcatQueues
    <3>5. Elems(queue') \subseteq Ids(cache')
      BY <2>1, <3>1, <3>2, <3>3, <3>4
    <3> QED BY <2>1, <2>2, <3>4, <3>5 DEF MemoryInv, CacheLimit
  <2> QED BY <2>1, <2>4, <2>5, TablesUnchanged DEF IInv
<1> QED BY <1>1, <1>2, <1>3

\* start() rebuilds memory from the rows alone.
LEMMA RestartKeeps ==
  ASSUME IInv, CrashRestart
  PROVE  IInv'
<1> DEFINE recent == Recent(MaxMem)
<1>1. /\ cache' = recent /\ queue' = PendingIds(recent) /\ lock' = Unlocked
      /\ task' = [t \in Tasks |-> Idle] /\ UNCHANGED stored
  BY DEF CrashRestart
<1>2. recent \in Seq(Record) /\ UniqueIds(recent) /\ Len(recent) <= CacheLimit
  BY RecentProperties, MaxMemAssumption DEF IInv
<1> HIDE DEF recent
<1>3. MemoryInv'
  <2>1. /\ PendingIds(recent) \in Seq(Flows) /\ NoDuplicates(PendingIds(recent))
        /\ Elems(PendingIds(recent)) \subseteq Ids(recent)
    BY <1>2, PendingProperties
  <2> QED BY <1>1, <1>2, <2>1 DEF MemoryInv, CacheLimit
<1>4. CallInv'
  BY <1>1, IdleCall DEF CallInv
<1>5. \A t \in Tasks : task'[t].pc = "idle" /\ lock' # t
  BY <1>1, UnlockedAssumption DEF Idle
<1>6. LockInv' /\ DecideInv'
  BY <1>1, <1>5, PCTypes DEF LockInv, DecideInv
<1> QED BY <1>1, <1>3, <1>4, <1>6, TablesUnchanged DEF IInv
-----------------------------------------------------------------------------
\* The initial state satisfies IInv.
LEMMA InitIInv == Init => IInv /\ LimitInv
<1>1. SUFFICES ASSUME Init PROVE IInv /\ LimitInv
  OBVIOUS
<1>2. CallInv
  BY <1>1, IdleCall DEF Init, CallInv
<1>3. TableInv
  BY <1>1, NoRecords DEF Init, TableInv
<1>4. MemoryInv
  <2>1. /\ <<>> \in Seq(Flows) /\ NoDuplicates(<<>>) /\ Elems(<<>>) = {}
        /\ 0 <= CacheLimit
    BY MaxMemAssumption DEF NoDuplicates, Elems, CacheLimit
  <2> QED BY <1>1, <2>1, NoRecords DEF Init, MemoryInv
<1>5. \A t \in Tasks : task[t].pc = "idle" /\ lock # t
  BY <1>1, UnlockedAssumption DEF Init, Idle
<1>6. LockInv /\ DecideInv
  BY <1>1, <1>5, PCTypes DEF Init, LockInv, DecideInv
<1>7. LimitInv
  BY <1>1, MaxMemAssumption DEF Init, LimitInv
<1> QED BY <1>2, <1>3, <1>4, <1>6, <1>7 DEF IInv

\* Every step keeps the limit in its range.
LEMMA NextLimit == LimitInv /\ [Next]_vars => LimitInv'
  BY MaxMemAssumption DEF LimitInv, Next, CrashRestart, UpdateConfig, vars

\* Every step keeps IInv.
LEMMA NextIInv == LimitInv /\ IInv /\ [Next]_vars => IInv'
<1>1. SUFFICES ASSUME LimitInv, IInv, [Next]_vars PROVE IInv'
  OBVIOUS
<1>2. CASE UpdateConfig \/ UNCHANGED vars
  <2>1. UNCHANGED stored /\ UNCHANGED memory /\ UNCHANGED <<lock, task, queue>>
    BY <1>2 DEF UpdateConfig, vars, stored, memory
  <2>2. CallInv' /\ LockInv' /\ DecideInv'
    BY <1>1, <2>1 DEF IInv, CallInv, LockInv, DecideInv, IsHead
  <2> QED BY <1>1, <2>1, <2>2, TablesUnchanged, MemoryUnchanged DEF IInv
<1>3. CASE CrashRestart
  BY <1>1, <1>3, RestartKeeps
<1>4. CASE \E t \in Tasks : Step(t)
  <2>1. PICK t \in Tasks : Step(t)
    BY <1>4
  <2>2. CASE Begin(t)
    BY <1>1, <2>2, UpsertKeeps, AttachKeeps, MarkKeeps, GetKeeps, DecideKeeps,
       TakeKeeps, ClearKeeps, CleanupKeeps DEF Begin
  <2>3. CASE Lock(t)
    BY <1>1, <2>3, GetKeeps, TakeKeeps, MarkKeeps, CleanupKeeps DEF Lock
  <2>4. CASE Run(t)
    BY <1>1, <2>4, UpsertKeeps, AttachKeeps, SaveKeeps, MarkKeeps, GetKeeps,
       DecideKeeps, ClearKeeps, CleanupKeeps DEF Run
  <2> QED BY <2>1, <2>2, <2>3, <2>4 DEF Step
<1> QED BY <1>1, <1>2, <1>3, <1>4 DEF Next

THEOREM Inductive == Spec => [](IInv /\ LimitInv)
  BY InitIInv, NextIInv, NextLimit, PTL DEF Spec
-----------------------------------------------------------------------------
\* Every variable of the store keeps its type (store.py, every operation).
THEOREM TypeCorrect == Spec => []TypeOK
<1>1. IInv /\ LimitInv => TypeOK
  <2>1. SUFFICES ASSUME IInv, LimitInv PROVE TypeOK
    OBVIOUS
  <2>2. task \in [Tasks -> CallType]
    BY <2>1 DEF IInv, CallInv, Calls
  <2> QED BY <2>1, <2>2 DEF IInv, TableInv, MemoryInv, LockInv, LimitInv, TypeOK, CallType
<1> QED BY <1>1, Inductive, PTL

\* Every queued flow is cached and queued once, whatever is evicted, cleared,
\* cleaned up, restarted or requested again, and in whatever order.
THEOREM QueueStaysSafe == Spec => []QueueSafety
<1>1. IInv => QueueSafety
  BY DEF IInv, MemoryInv, QueueSafety
<1> QED BY <1>1, Inductive, PTL

\* _set_cache leaves no more than the limit in force, whatever it found.
LEMMA SetCacheTrims ==
  ASSUME LimitInv, MemoryInv, NEW r, NEW q, SetCache(r, q), limit' = limit
  PROVE  Len(cache') <= limit'
<1> DEFINE S == Record \cup {r}
           p == Put(cache, r)
<1>1. cache \in Seq(S) /\ r \in S
  BY DEF MemoryInv
<1>2. p \in Seq(S)
  <2> HIDE DEF S
  <2> QED BY <1>1, PutProperties
<1>3. Len(Newest(p, limit)) <= limit
  <2> HIDE DEF p, S
  <2> QED BY <1>2, MaxMemAssumption, NewestProperties DEF LimitInv
<1> QED BY <1>3 DEF SetCache

\* Whatever enters the cache leaves no more in it than max_flows_memory, at the
\* value it has at that moment, whenever it was changed; only a restart and a
\* cleanup load what a listing holds.
THEOREM CacheStaysWithinLimit == Spec => CacheWithinLimit
<1>1. IInv /\ LimitInv /\ [Next]_vars =>
        [cache' # cache =>
           \/ Len(cache') <= limit'
           \/ CrashRestart /\ Len(cache') <= RowLimit(limit')
           \/ \E t \in Tasks : CleanupRebuild(t) /\ Len(cache') <= RowLimit(MaxMem)]_vars
  <2>1. SUFFICES ASSUME IInv, LimitInv, Next, cache' # cache
                 PROVE  \/ Len(cache') <= limit'
                        \/ CrashRestart /\ Len(cache') <= RowLimit(limit')
                        \/ \E t \in Tasks : CleanupRebuild(t) /\ Len(cache') <= RowLimit(MaxMem)
    OBVIOUS
  <2>2. CASE CrashRestart
    <3>1. Len(Recent(MaxMem)) <= RowLimit(MaxMem)
      BY <2>1, RowLimitType, MaxMemAssumption, NewestProperties DEF IInv, TableInv, Recent
    <3> QED BY <2>2, <3>1 DEF CrashRestart
  <2>3. ~UpdateConfig
    BY <2>1 DEF UpdateConfig, memory
  <2>4. CASE limit' = limit /\ \E t \in Tasks : Step(t)
    <3>1. PICK t \in Tasks : Step(t)
      BY <2>4
    <3>2. CASE \E r, q : SetCache(r, q)
      BY <2>1, <2>4, <3>2, SetCacheTrims DEF IInv
    <3>3. CASE \/ Upsert(t) \/ UpsertRead(t) \/ Attach(t) \/ AttachRead(t)
      BY <2>1, <3>2, <3>3 DEF Upsert, UpsertRead, ApplyUpsert, Attach, AttachRead, ApplyAttach,
         memory
    <3>4. CASE \/ MarkCompleted(t) \/ MarkDropped(t) \/ RespondMark(t) \/ FinalRead(t)
      BY <2>1, <3>2, <3>4 DEF MarkCompleted, MarkDropped, RespondMark, SetFinalStatus,
         FinalRead, ApplyFinal, memory
    <3>5. CASE GetStore(t) \/ DecideDrop(t)
      BY <3>2, <3>5 DEF GetStore, DecideDrop
    <3>6. CASE Clear(t)
      BY <2>1, <2>4, <3>6, MaxMemAssumption DEF Clear, LimitInv
    <3>7. CASE CleanupRebuild(t)
      <4>1. Len(task[t].snap) <= RowLimit(MaxMem)
        BY <2>1, <3>7, CallFacts DEF CleanupRebuild, At, IInv, CallOK
      <4> QED BY <3>7, <4>1 DEF CleanupRebuild
    <3>8. CASE \/ Save(t) \/ FinalSave(t) \/ GetMiss(t) \/ GetFetch(t) \/ Decide(t)
               \/ DecideForward(t) \/ DecideSave(t) \/ TakeDecision(t) \/ TakePop(t)
               \/ RespondPut(t) \/ TakeResponse(t) \/ ClearWipe(t)
               \/ CleanupDelete(t) \/ CleanupList(t)
      BY <2>1, <3>8 DEF Save, FinalSave, GetMiss, GetFetch, Decide, DecideForward, DecideSave,
         TakeDecision, TakePop, RespondPut, TakeResponse, ClearWipe, CleanupDelete,
         CleanupList, memory
    <3> QED BY <3>1, <3>3, <3>4, <3>5, <3>6, <3>7, <3>8 DEF Step, Begin, Lock, Run
  <2> QED BY <2>1, <2>2, <2>3, <2>4 DEF Next
<1> QED BY <1>1, Inductive, PTL DEF Spec, CacheWithinLimit

\* A request decision reaches the table only while its flow is the head, at
\* the moment of the write and not only of the check before the await.
THEOREM HeadOnlyDecided == Spec => HeadOnly
<1>1. IInv /\ [Next]_vars =>
        [\A d \in decisions' \ decisions : d.stage = "request" => IsHead(d.flow)]_vars
  <2>1. SUFFICES ASSUME IInv, Next, NEW d \in decisions' \ decisions, d.stage = "request"
                 PROVE  IsHead(d.flow)
    OBVIOUS
  <2>2. ~CrashRestart /\ ~UpdateConfig
    BY <2>1 DEF CrashRestart, UpdateConfig, stored
  <2>3. PICK t \in Tasks : Step(t)
    BY <2>1, <2>2 DEF Next
  <2>4. CASE DecideForward(t) \/ DecideDrop(t)
    <3>1. task[t].pc = "decide_put" /\ \E v : SetDecision(Flow(t), "request", v)
      BY <2>4 DEF DecideForward, DecideDrop, At
    <3>2. d.flow = Flow(t)
      BY <2>1, <3>1 DEF SetDecision
    <3> QED BY <2>1, <3>1, <3>2 DEF IInv, DecideInv, Flow
  <2>5. CASE RespondPut(t)
    <3>1. d.stage = "response"
      BY <2>1, <2>5 DEF RespondPut, SetDecision
    <3> QED BY <2>1, <3>1
  <2>6. CASE \/ TakeDecision(t) \/ TakeResponse(t) \/ CleanupDelete(t) \/ ClearWipe(t)
             \/ Save(t) \/ FinalSave(t) \/ DecideSave(t)
    <3>1. decisions' \subseteq decisions
      BY <2>6 DEF TakeDecision, TakeResponse, CleanupDelete, ClearWipe, Save,
         FinalSave, DecideSave
    <3> QED BY <2>1, <3>1
  <2>7. CASE \/ Upsert(t) \/ UpsertRead(t) \/ Attach(t) \/ AttachRead(t)
             \/ MarkCompleted(t) \/ MarkDropped(t) \/ RespondMark(t) \/ FinalRead(t)
    <3>1. UNCHANGED stored
      BY <2>7 DEF Upsert, UpsertRead, ApplyUpsert, Attach, AttachRead, ApplyAttach,
         MarkCompleted, MarkDropped, RespondMark, SetFinalStatus, FinalRead, ApplyFinal
    <3> QED BY <2>1, <3>1 DEF stored
  <2>8. CASE \/ GetMiss(t) \/ GetFetch(t) \/ GetStore(t) \/ Decide(t)
             \/ TakePop(t) \/ Clear(t) \/ CleanupList(t) \/ CleanupRebuild(t)
    <3>1. UNCHANGED stored
      BY <2>8 DEF GetMiss, GetFetch, GetStore, Decide, TakePop, Clear, CleanupList,
         CleanupRebuild
    <3> QED BY <2>1, <3>1 DEF stored
  <2> QED BY <2>3, <2>4, <2>5, <2>6, <2>7, <2>8 DEF Step, Begin, Lock, Run
<1> QED BY <1>1, Inductive, PTL DEF Spec, HeadOnly
-----------------------------------------------------------------------------
\* What stands in both queues stands in the same order in both.
Ordered(p, q) ==
  \A f, g \in Elems(p) \cap Elems(q) : Before(p, f, g) => Before(q, f, g)

\* _set_cache removes flows from a queue, and moves none.
LEMMA SetCacheOrders ==
  ASSUME NEW r, NEW q \in Seq(Flows), SetCache(r, q)
  PROVE  /\ \A f, g \in Elems(queue') : Before(q, f, g) => Before(queue', f, g)
         /\ Elems(queue') \subseteq Elems(q)
<1> DEFINE keep == Elems(q) \ (Ids(Put(cache, r)) \ Ids(Newest(Put(cache, r), limit)))
<1>1. queue' = KeepIn(q, keep)
  BY DEF SetCache
<1> HIDE DEF keep
<1>2. Elems(queue') = Elems(q) \cap keep
  BY <1>1, KeepInProperties
<1>3. \A f, g \in keep : Before(q, f, g) => Before(queue', f, g)
  BY <1>1, KeepInProperties
<1> QED BY <1>2, <1>3

LEMMA PopOrders ==
  ASSUME MemoryInv, NEW f, queue' = IF IsHead(f) THEN Tail(queue) ELSE queue
  PROVE  Ordered(queue, queue')
<1>1. CASE IsHead(f)
  <2>1. queue # <<>> /\ queue' = Tail(queue)
    BY <1>1 DEF IsHead
  <2>2. /\ Head(queue) \notin Elems(Tail(queue))
        /\ \A a, b : a # Head(queue) /\ b # Head(queue) /\ Before(queue, a, b)
             => Before(Tail(queue), a, b)
    BY <2>1, TailProperties DEF MemoryInv
  <2> QED BY <2>1, <2>2 DEF Ordered
<1>2. CASE ~IsHead(f)
  BY <1>2 DEF Ordered
<1> QED BY <1>1, <1>2

\* A rebuild keeps the queued flows it lists before the ones it adds.
LEMMA RebuildOrders ==
  ASSUME IInv, NEW t \in Tasks, CleanupRebuild(t)
  PROVE  Ordered(queue, queue')
<1> DEFINE listed == task[t].snap
           preserved == KeepIn(queue, Ids(listed))
           pending == PendingIds(listed)
           added == KeepIn(pending, Elems(pending) \ Elems(preserved))
<1>1. queue' = preserved \o added
  BY DEF CleanupRebuild
<1>2. listed \in Seq(Record) /\ UniqueIds(listed)
  BY CallFacts DEF IInv
<1>3. /\ preserved \in Seq(Flows)
      /\ Elems(preserved) = Elems(queue) \cap Ids(listed)
      /\ \A f, g \in Ids(listed) : Before(queue, f, g) => Before(preserved, f, g)
  BY KeepInProperties DEF IInv, MemoryInv
<1>4. pending \in Seq(Flows) /\ Elems(pending) \subseteq Ids(listed)
  BY <1>2, PendingProperties
<1> HIDE DEF listed, preserved, pending
<1>5. added \in Seq(Flows) /\ Elems(added) \subseteq Elems(pending)
  BY <1>4, KeepInProperties
<1> HIDE DEF added
<1>6. /\ Elems(queue') = Elems(preserved) \cup Elems(added)
      /\ \A f, g : Before(preserved, f, g) => Before(queue', f, g)
  BY <1>1, <1>3, <1>5, ConcatQueues
<1>7. \A f \in Elems(queue') : f \in Ids(listed)
  BY <1>3, <1>4, <1>5, <1>6
<1> QED BY <1>3, <1>6, <1>7 DEF Ordered

\* No step but a restart reorders the flows that keep waiting.
THEOREM QueueStaysOrdered == Spec => QueueOrderKept
<1>1. IInv /\ [Next]_vars => [CrashRestart \/ Ordered(queue, queue')]_vars
  <2>0. UpdateConfig => Ordered(queue, queue')
    BY DEF UpdateConfig, memory, Ordered
  <2>1. SUFFICES ASSUME IInv, NEW t \in Tasks, Step(t)
                 PROVE  Ordered(queue, queue')
    BY <2>0 DEF Next
  <2>2. MemoryInv /\ queue \in Seq(Flows)
    BY <2>1 DEF IInv, MemoryInv
  <2>3. CASE UNCHANGED queue
    BY <2>3 DEF Ordered
  <2>4. CASE queue' = <<>>
    BY <2>4 DEF Ordered, Elems
  <2>5. CASE \E r : SetCache(r, queue)
    BY <2>2, <2>5, SetCacheOrders DEF Ordered
  <2>6. CASE \E f \in Flows : \E r : SetCache(r, Append(queue, f))
    <3>1. PICK f \in Flows : \E r : SetCache(r, Append(queue, f))
      BY <2>6
    <3> DEFINE q == Append(queue, f)
    <3>2. q \in Seq(Flows) /\ \A a, b : Before(queue, a, b) => Before(q, a, b)
      BY <2>2, AppendToQueue
    <3> HIDE DEF q
    <3>3. \A a, b \in Elems(queue') : Before(q, a, b) => Before(queue', a, b)
      BY <3>1, <3>2, SetCacheOrders DEF q
    <3> QED BY <3>2, <3>3 DEF Ordered
  <2>7. CASE queue' = Without(queue, Flow(t))
    <3>1. /\ Elems(queue') = Elems(queue) \ {Flow(t)}
          /\ \A a, b : a # Flow(t) /\ b # Flow(t) /\ Before(queue, a, b) => Before(queue', a, b)
      BY <2>2, <2>7, WithoutProperties
    <3> QED BY <3>1 DEF Ordered
  <2>8. CASE queue' = IF IsHead(Flow(t)) THEN Tail(queue) ELSE queue
    BY <2>2, <2>8, PopOrders
  <2>9. CASE Upsert(t) \/ UpsertRead(t)
    <3>1. PICK f \in Flows : (\E found : ApplyUpsert(t, f, found)) \/ UNCHANGED memory
      <4>1. CASE Upsert(t)
        BY <4>1 DEF Upsert
      <4>2. CASE UpsertRead(t)
        <5>1. Flow(t) \in Flows
          BY <2>1, <4>2, CallFacts, PCTypes DEF UpsertRead, At, IInv
        <5> QED BY <4>2, <5>1 DEF UpsertRead
      <4> QED BY <2>9, <4>1, <4>2
    <3>2. CASE \E found : ApplyUpsert(t, f, found)
      <4> PICK found : ApplyUpsert(t, f, found)
        BY <3>2
      <4>1. SetCache(Reopened(f, found), IF f \in Elems(queue) THEN queue ELSE Append(queue, f))
        BY DEF ApplyUpsert
      <4>2. CASE f \in Elems(queue)
        <5>1. SetCache(Reopened(f, found), queue)
          BY <4>1, <4>2
        <5> QED BY <2>5, <5>1
      <4>3. CASE f \notin Elems(queue)
        <5>1. SetCache(Reopened(f, found), Append(queue, f))
          BY <4>1, <4>3
        <5> QED BY <2>6, <5>1
      <4> QED BY <4>2, <4>3
    <3> QED BY <2>3, <3>1, <3>2 DEF memory
  <2>10. CASE Attach(t) \/ AttachRead(t)
    <3>1. (\E f : ApplyAttach(t, f)) \/ UNCHANGED memory
      BY <2>10 DEF Attach, AttachRead
    <3> QED BY <2>3, <2>5, <3>1 DEF ApplyAttach, memory
  <2>11. CASE MarkCompleted(t) \/ MarkDropped(t) \/ RespondMark(t) \/ FinalRead(t)
    <3>1. (\E r, a : ApplyFinal(t, r, a)) \/ UNCHANGED memory
      BY <2>11 DEF MarkCompleted, MarkDropped, RespondMark, SetFinalStatus, FinalRead
    <3> QED BY <2>3, <2>5, <3>1 DEF ApplyFinal, memory
  <2>12. CASE GetStore(t) \/ DecideDrop(t)
    <3>1. CASE GetStore(t)
      BY <2>5, <3>1 DEF GetStore
    <3>2. CASE DecideDrop(t)
      <4>1. PICK r \in Entry(cache, Flow(t)) : SetCache([r EXCEPT !.status = "dropped"], queue)
        BY <3>2 DEF DecideDrop
      <4> QED BY <2>5, <4>1
    <3> QED BY <2>12, <3>1, <3>2
  <2>13. CASE FinalSave(t)
    BY <2>7, <2>13 DEF FinalSave
  <2>14. CASE DecideSave(t) \/ TakePop(t)
    BY <2>8, <2>14 DEF DecideSave, TakePop
  <2>15. CASE Clear(t)
    BY <2>4, <2>15 DEF Clear
  <2>16. CASE CleanupRebuild(t)
    BY <2>1, <2>16, RebuildOrders
  <2>17. CASE \/ Save(t) \/ GetMiss(t) \/ GetFetch(t) \/ Decide(t) \/ DecideForward(t)
              \/ TakeDecision(t) \/ RespondPut(t) \/ TakeResponse(t) \/ ClearWipe(t)
              \/ CleanupDelete(t) \/ CleanupList(t)
    <3>1. UNCHANGED memory
      BY <2>17 DEF Save, GetMiss, GetFetch, Decide, DecideForward, TakeDecision,
         RespondPut, TakeResponse, ClearWipe, CleanupDelete, CleanupList
    <3> QED BY <2>3, <3>1 DEF memory
  <2> QED BY <2>1, <2>9, <2>10, <2>11, <2>12, <2>13, <2>14, <2>15, <2>16, <2>17
          DEF Step, Begin, Lock, Run
<1>2. QueueOrderKept <=> [][CrashRestart \/ Ordered(queue, queue')]_vars
  BY PTL DEF QueueOrderKept, Ordered
<1> QED BY <1>1, <1>2, Inductive, PTL DEF Spec
=============================================================================
