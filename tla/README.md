# API Interceptor: TLA+ models, checks and proofs

API Interceptor puts a mitmproxy addon between a client and its servers, holds
the requests (and, on demand, the responses) a user wants to look at, and lets
the user forward, edit or drop them in a web page.  Two processes take part:
the proxy (`app/proxy/`), and an API server (`app/api/`, `app/state/`,
`app/transport/`) that keeps the flows, their queue and the user's decisions and
pushes events to the pages (`gui/`).  Paths below are relative to `src/`.

## The system and its parts

| Part | State | Operations | Talks to |
|---|---|---|---|
| `InterceptionStore` (`app/state/store.py`) | `_flows` (an `OrderedDict` cache bounded by `max_flows_memory`), `_queue` (a deque of flow ids), `_config`, `_lock` | `upsert_request`, `attach_response`, `mark_completed`, `mark_dropped`, `get_flow`, `list_flows`, `set_/take_request_decision`, `set_/take_response_decision`, `queue_state`, `clear_history`, `cleanup`, `get_/update_config`, `start` | the repository; its subscribers (the WebSocket manager) |
| `SQLiteRepository` (`app/state/repository.py`) | tables `flows`, `decisions`, `events`; one connection under a lock of its own | one method per statement group, each ending in a commit | SQLite, in a thread |
| Flow, config and action routes (`app/api/routes/`) | none | one store operation per route (`update_target_ips`: two) | the store |
| Server lifecycle (`app/api/server.py`) | the cleanup task, the manager's heartbeat | start-up, shutdown, `cleanup` once a minute | store, manager |
| `WebSocketManager` and endpoint (`app/transport/ws_manager.py`, `app/api/routes/ws.py`) | `_clients`: a bounded queue, a sender task and `last_pong` per socket | `connect`, `disconnect`, `broadcast`, `send_personal`, `mark_pong`, heartbeat | browsers |
| `InterceptionPipeline`, `AppInterceptor` (`app/proxy/`) | `_sequential_lock`; per exchange the metadata `tracked`, `intercept_response` | `handle_request`, `handle_response` | the API, through `UIClient` |
| `UIClient` (`app/proxy/client.py`) | none | nine calls over `_request_json`, which retries | the API over HTTP |
| Settings (`app/core/config.py`), models, utilities, plugins protocol | none that changes | parsing, validation, serialisation | |
| Front end (`gui/static/app.js`) | the page's view of queue, flows and configuration | event handlers, polling, decisions | the API and the WebSocket |

**How they interact.**  A request is captured by the proxy (`POST /api/flows`)
and enters the queue.  If the configuration selects it, the proxy takes its
sequential lock and polls `GET .../request/decision`.  The user may decide the
head of the queue only; a forward decision is stored in a table, and the poll
that finds it deletes it and then pops the queue.  The server's response is
reported, and held in the same way when the user asked for it.  Every operation
publishes events to all connected pages.

**What is hard.**

* *Interleavings in the store.*  It is asyncio code: a task runs alone until it
  awaits, and most operations hold `_lock` over their awaits.  Some do not:
  `get_flow` and `cleanup` read rows outside the lock and store what they read
  later; `take_request_decision` deletes the decision before it takes the lock;
  `set_response_decision` stores before it takes the lock.
* *Two structures that must agree.*  Eviction from the bounded cache removes
  flows from the queue; cleanup and restart rebuild both from rows.
* *Restarts.*  Memory and calls under way are lost, the tables are not.
* *Calls that fail.*  The proxy retries calls blindly, the poll for a decision
  among them, although it is not idempotent; a request the client has given up
  on may still be served later.
* *Waiting.*  One lock serialises all interceptions in the proxy while another
  order (the queue) says which flow can be decided; only deadlines separate
  them.  `asyncio.Lock` is not reentrant, and early returns must release it.
* *Statements before a commit.*  A repository method may raise or be killed
  between its statements; nothing rolls back but SQLite and a restart.
* *Events after the lock.*  Operations publish when they have released the lock,
  some of them a queue they captured under it; pages see INIT, events, answers
  of calls and their own clicks in an order nobody fixed.
* *Slow and silent browsers.*  Bounded queues that drop payloads, senders that
  die silently, a heartbeat, events broadcast before INIT.

**What makes each part correct.**  Store: the queue holds cached flows, once
each, in order; only its head is decided; a flow leaves it for a reason; memory
agrees with the table; a captured response is not lost; every call returns.
Pipeline: one interception at a time; every held exchange ends; a held request
can be decided; a delivered flow holds nobody back; a decision handed out
arrives.  WebSockets: order, what backpressure may cost, no gap after INIT, the
end of silent sessions.  Repository: methods are atomic and durable.  Pages:
whatever was lost or late, they show the server's state in the end.

## Modules

| Module | Models | Extends |
|---|---|---|
| `OrderedMaps` | sequences of records as insertion-ordered maps: the cache, and the table in the order of `updated_at` | |
| `Tables` | the tables, one step per repository method | |
| `Repository` | `SQLiteRepository` statement by statement, with failures | (`Tables` by refinement) |
| `Store` | `InterceptionStore` over the repository, await by await | `OrderedMaps` |
| `FlowService` | what the flow routes promise, one step per operation | `OrderedMaps` |
| `StoreService` | the mapping under which `Store` implements `FlowService` | `Store` |
| `Pipeline` | the proxy's hooks and HTTP client, with `FlowService` as the API, and the user | `FlowService` |
| `Handed` | the pipeline, with the history of the decisions the API has handed out | `Pipeline` |
| `WsManager` | the WebSocket manager and its endpoint, with browsers | `OrderedMaps` |
| `EventFeed` | what the store publishes after its lock, and the configuration routes | `OrderedMaps` |
| `Page` | one page (`app.js`): its connection, calls, and what it shows | `EventFeed` |
| `MCStore`, `MCRepository`, `MCPipeline`, `MCWsManager`, `MCPage` | symmetry sets, the operations a run calls, the first states of a run | the module, or the one over it |
| `OrderedMapsProofs`, `StoreProofs`, `RepositoryProofs`, `PipelineProofs`, `WsManagerProofs`, `PageProofs` | theorems about the module of that name (`PipelineProofs`: about `Handed` too, `PageProofs`: about `EventFeed` too) | TLAPS |
| `StoreRowsProofs` | memory against tables | `StoreProofs` |
| `StoreServiceProofs` | the refinement of `StoreService` | `StoreService`, `StoreRowsProofs` |

A definition marked "Mutant" is a plausible slip in the code; it is used by no
specification, and each property is violated when the definition that follows
it is replaced by it.

### Store

`rows` and `decisions` are the two tables (rows in the order of `updated_at`,
decisions by key), `cache` and `queue` are `_flows` and `_queue`, `lock` owns
`_lock`, and `task[t]` is the program counter and the locals of one asyncio
task.  The grain of a step is one repository method with the synchronous code up
to the next await: the repository serialises its methods under its own lock, and
the synchronous code touches only memory that no other task touches without the
store lock.  The exceptions (`get_flow`, `take_request_decision`,
`set_response_decision`, `cleanup`) are exactly the operations with several
steps outside the lock.

* A call that still waits for the lock has done nothing, so it begins with its
  first step; waiting *in the middle* of a call is a program counter
  (`get_store`, `take_pop`, `respond_mark`, `cleanup_rebuild`).
* Calls that change nothing (a poll that finds no decision, a decision that is
  refused with 409, a cached `get_flow`, `list_flows`, `queue_state`,
  `get_config`) are stuttering steps and have no action.
* `limit` is `max_flows_memory`, which `UpdateConfig` sets to any number up to
  `MaxMem`, zero included; memory shrinks at the next write.  A cleanup passes
  the limit it has read to `list_flows` (`seen`) and may rebuild memory under
  another one.
* `RowLimit` is the clamp `max(1, min(limit, 1000))`; `Recent` the listing by
  `updated_at DESC`, taken back to its order of insertion (`reversed(recent)`).
* `CrashRestart` loses memory, lock and calls and runs `start()`.  A crash
  between `execute` and `commit` is a crash before the method.
* `cleanup_old` deletes the rows older than a cutoff: a prefix of `rows`, since
  `updated_at` is their order, and the decisions that have no row.  If it
  deletes no row, `cleanup` returns there.  There is one cleanup task
  (`server.py:25`).
* Packet contents are reduced to whether a response is recorded; the content of
  a decision is only what the store branches on.

### Repository and Tables

`work` is what the one connection sees and `durable` what the file holds; `call`
is the method that owns the repository's lock and `at` its next statement.
Python's `sqlite3` opens a transaction before the first writing statement, and
no method rolls back.  `Raise` is a statement or a commit that raises: the
transaction stays open (`work` unchanged) or SQLite has rolled it back
(`work' = durable`), and the next method's commit includes what is left.  `Stop`
is a crash, or a shutdown that cancels the cleanup task wherever it is and
closes the connection.  A row or a decision is the number of the write that made
it, so a stale or repeated one can be told apart; event ids follow `seq`, the
`sqlite_sequence` of AUTOINCREMENT.  `CleanupOld` deletes any set of rows, since
what is old is not modelled.  `Tables` has the same methods as single steps.

### StoreService

The mapping by which `Store` implements `FlowService`: the status of a flow is
that of its cached record, the queue is taken without a flow whose final record
is being saved, and the decisions are gone as soon as a clearing has emptied
memory.  It holds without `get_flow` and `cleanup` (see the two races below) and
without eviction, which the service does not have; a restart is the one further
step that a caller can see.

### FlowService and Pipeline

`FlowService` has each route's effect on the status of a flow, the queue and the
stored decisions in one step, with a cache large enough to hold all flows.  Two
operations keep their two steps (taking a request decision, setting a response
decision), since the pipeline can see between them.  `Pipeline` extends it:
`hook[f]` says which API call the hook of flow `f` is at, how many attempts have
failed (`tries`), what it took and whether the response is to be intercepted;
`wire[f]` is what became of the exchange; `holder` owns `_sequential_lock`;
`inflight` holds requests the API will run although no hook waits for them.

* A call with a lost answer is in one of three states: served before the answer
  was lost (`Unanswered` with the request in flight and run at once), served
  later (in flight), or never served.  `LoseTaken` is the answer of a poll that
  had already taken the decision.  The last failed attempt gives up and the hook
  continues as the code does: void calls are ignored, `get_config` falls back to
  a default that intercepts nothing, a poll counts as "no decision".
* A deadline is looked at between polls only (`RequestDeadline`,
  `ResponseDeadline`).  The model lets it pass before the first poll too, which
  the code would do only if `max_wait_s` were over at once.
* Edits that mitmproxy refuses raise; `AppInterceptor` resumes the exchange and
  the lock is released: a disjunct of `ActOnRequest` and of `TakeResponse`.
* The user may decide the head at any time, and any response, existing or not,
  at any time, as the API allows.
* `Handed` adds the history `handed`: the decisions that a served poll has taken
  from the table (`GivenOut`).  The table forgets a decision when it hands it
  out, so what became of one can only be asked of a history; `Followed` says
  what the hook and the exchange have to look like from then on.

### WsManager

`clients`, `queue`, `sender`, `missed` (heartbeats since the last pong) are the
manager's state, `hand` what a sender has taken from its queue and not sent,
`route` where the endpoint task is, `stale` what the heartbeat has listed and
not yet disconnected, `alive` the browsers that still answer.  Events are
numbered in broadcast order and `snap` is the number of events INIT's state is
sure to include.  `got` and `lost` are histories for the properties.  Time is
counted in heartbeats: `Misses = 3` is `heartbeat_s * 3`.  An endpoint that ends
because of a malformed message ends like one whose socket closed.

Left out: a sender that ends of an exception it does not catch
(`ws_manager.py:108` knows `WebSocketDisconnect` and `RuntimeError`).  The
exception is raised again where `disconnect` awaits the sender (`:64`); there it
would end the heartbeat, and with it the removal of silent sessions.

### EventFeed and Page

`EventFeed` has the store's operations as single steps with what they publish.
`line` holds the events in the order in which `append_event` is reached, which
its lock keeps; an event at the front is broadcast (`FollowUp`), and then its
operation goes on: it publishes a queue it captured before (`upsert_request`,
`clear_history`) or reads the queue anew (`readers`, `Reread`).  Queue events say
whether an arrival, a removal or a clearing published them, which only the
history `shown` uses.  `targeting` holds the copies of the configuration that
`update_target_ips` has read and not yet written back.

Every operation that writes a flow passes through `_set_cache`, and so does a
`get_flow` that misses the cache; any of them may evict other flows, from the
queue too, and mostly no queue event follows.  `AfterSetCache(q, f)` is the set
of queues an eviction may leave: the cache itself is not in this module and the
limit may change at any time, so any queued flows may go but `f`, which is the
newest record and goes last.  `GetFlow` is the effect of a served `GET` on the
store.  `Cleanup` deletes rows and rebuilds the queue from a listing that may
lack some of the rows that are left, and that queues pending flows again; it is
one step here, and its races with writes are in `Store`.  `shown` keeps the last
published queue if it was read anew (`reread`), and whether the queue has
changed without a word since an operation last read it (`silent`).  Of the
configuration the module keeps `intercept_enabled`, the one item the page shows
before it is told.

`Page` has `state` of `app.js` (`page`), the connection (`conn`; a client is
registered, reads the queue for INIT, and then reads the configuration and sends
INIT), the payloads on it (`wire`) and the calls under way (`calls`).  A call is
served when it is made and its answer may arrive after later ones; a PUT may
also be served late.  Equal answers under way are one, since receiving one twice
changes nothing.  `version` counts the writes of a flow, from one again after a
clearing: late answers about an earlier life of a flow may look current then,
which only makes `DetailShown` easier in states that do not last.

The page's `page.config` is the empty set until a configuration is known; a
click on the checkbox sends nothing then, and changes it all the same.  Other
pages appear by what they do to the store.
Left out: the list of flows and its filters, the contents of the panels and the
edits in them, response decisions, export and themes, and calls that fail.

## Runs

Each run takes about two minutes or less on two workers.

| Run | Checks | Bounds |
|---|---|---|
| `store_concurrent` | `TypeOK`, `QueueSafety`, `CacheWithinLimit`, `QueueExit` | 2 flows, 2 tasks, a limit of 0 or 1; all operations but response decisions and `mark_dropped` |
| `store_writers` | `CacheMatchesRows`, `FinalNotQueued`, `ResponseKept`, `HeadOnly`, `QueueOrderKept`, `ImplementsService` (refinement) | 2 flows, 2 tasks, a limit of 2; all but `get_flow`, `cleanup` and `update_config` |
| `store_calls` | `CallsReturn` (liveness) | 1 flow, 2 tasks; all but restarts and `update_config` |
| `store_read_race` | `ResponseKept` is violated | `get_flow` and three writers |
| `store_cleanup_race` | `CleanupRemovesOnlyStale` is violated | `cleanup` and one writer |
| `repository` | `TypeOK`, `Acknowledged`, `HandedOutOnce`, `EventIdsUnique`, `AllOrNothing` (refinement) | 2 flows, 3 writes, 2 events |
| `pipeline_reliable` | `NobodyWaitsInVain`, `DeliveredNotQueued`, `TakenArrives` | 2 flows, no lost call, response decisions |
| `pipeline_live` | `OneIntercepted`, `HooksEnd` (liveness) | 2 flows, calls never served, one retry, cleared histories; no response decisions |
| `pipeline_answers` | `TypeOK`, `HooksEnd` (liveness) | 1 flow, calls lost or served late (two in flight), one retry, response decisions, cleared histories |
| `pipeline_retry` | `TakenArrives` is violated | 2 flows, lost calls, one retry and one request in flight |
| `ws_delivery` | `TypeOK`, `StreamInOrder`, `NewestKept`, `NoGap`, `SilentDropped` (liveness) | 1 client, queue of 3, 4 events, 3 missed heartbeats |
| `page` | `RemovalShown`, `CheckboxShown`, `QueueShown`, `DetailShown` (liveness) | 2 flows, 2 changes, polls while fewer than 2 calls are under way |

**Why the bounds suffice.**  Store: a race needs two tasks, since each operation
holds one lock at most and a task outside it acts on one flow; two flows are
what eviction, the head of the queue and "any other flow" need.  A limit of 1
makes every insertion an eviction and one of 0 leaves the cache empty; a limit
of 2 lets two flows wait, and what it shows of the head and of the order is
proved for any number of flows.  Symmetry of flows and tasks is sound because no
definition tells one from another, and it is off in the liveness runs.
Pipeline: two flows contend for the sequential lock and for the head of the
queue; with one request in flight every call can be served late relative to
every other (`MaxInFlight`); `MaxRetry = 1` has a first, a repeated and a last
attempt.  A response decision puts the final status it leads to in flight, so
`pipeline_live`, where nothing may be, has none: it shows the contention for the
lock, and `pipeline_answers` the paths through late calls and response
decisions.  WebSockets: sessions share nothing but the list of stale clients, so
one client sees all that a session does; four events overrun a queue of three
with one payload in the sender's hand.  `MaxEvents` bounds the broadcasts.
Repository: `MaxWrites = 3` has a decision, one that replaces it and a row;
`MaxSeq = 2` an event before and one after a clearing; the proofs hold for every
bound.  Page: `MaxChanges` bounds what proxy, user and network do, not what
follows from it; two changes race each other, and Init (flows that are stored
and queued or not, a page that is loading) spares the changes that would only
lead there.  `MCPage` takes one order of a full queue as the first state, since
nothing in `Page` tells one flow from another.

**Fairness and what justifies it.**  `Store!FairSpec`: repository methods return
(weak fairness of `Run`), and `asyncio.Lock` wakes its waiters first come, first
served (strong fairness of `Lock`: the lock may be taken and released between).
Nothing is assumed of callers.  `Pipeline!FairSpec`: hooks are run (weak
fairness of `Work`), the lock is first come, first served (strong fairness of
`Acquire`), and the clock reaches `max_wait_s` (strong fairness of `Deadline`,
which is enabled between polls only).  Nothing is assumed of users or servers:
`HooksEnd` starts when the hook begins its first call and, for responses, when
the server has answered.  `WsManager!FairSpec`: the heartbeat task keeps
running, and its disconnects return, which holds as long as no sender ends of an
exception it does not catch (left out, see above); nothing is assumed of
browsers, senders or endpoints.  `Page!Fairness`: the polling timer fires again
and again (strong fairness of `Poll`, whose bound on the calls may disable it
for a while; the code has none), calls are answered, PUTs are served, and the
server publishes what it has to and the page reads its socket (weak fairness of
each).  Nothing is assumed of the connection, of users or of the proxy.

## Where code and text disagree

* `store_read_race`: `get_flow` reads a row outside the lock and puts it into
  the cache later, over a newer record, and the next operation writes the old
  record back: the captured response is lost, and so is any status change.  TLC
  shows the shortest way there, a miss on a flow nobody has stored yet, in which
  the repository serves the reader and the writers in an order that its lock,
  which is first come, first served, would hardly give.  In the same bounds the
  miss also follows an eviction (a limit of 1 and a second flow), and then
  nothing unusual is needed: the row is there to be read, and the response is
  attached between the read and the store.
* `store_cleanup_race`: `cleanup` rebuilds memory from a listing made before it
  took the lock, so a request captured in between vanishes from the queue.
* `pipeline_retry`: a retried poll cannot get the decision its first attempt
  deleted; the request waits for its deadline and is then sent, even if the user
  had dropped it.
* "Backpressure: drop oldest non-critical payload and enqueue newest"
  (`app/transport/ws_manager.py:97`): `_enqueue` does not look at what it drops.
  The oldest payload goes whatever it is, a queue update or the INIT of a client
  whose sender is still busy with an event that was broadcast before.
  `NewestKept` and `StreamInOrder` say what the code does promise, which is the
  newest events in order; a queue that spared some payloads would break the
  first.  The page makes up for it by polling, but for the configuration.

The properties the three runs violate hold where they can: `ResponseKept` and
`CacheMatchesRows` for all operations but `get_flow` and `cleanup`
(`store_writers`), `TakenArrives` while no answer is lost, deadlines, refused
edits and later decisions notwithstanding (`pipeline_reliable`); and `NoGap`
shows what registering clients early is good for.  One more fact of the code is
no property of ours: flows take the sequential lock in the order in which
`get_config` answers, but only the head of the queue can be decided, and
requests that are captured and not intercepted are queued too; so an undecidable
flow can hold the lock until its deadline.

Other facts of the code, which no property forbids:

* A client is registered before INIT is enqueued and can be sent events first,
  although `tests/smoke_test.ps1:163` expects INIT to be the first event.
* `upsert_request` publishes a queue captured under the lock after its first
  event is out; a queue event published meanwhile is newer, and the older one is
  shown last until the next poll.  `RemovalShown` says for which operations this
  cannot happen.
* Evictions and cleanups take flows off the queue and publish nothing, so pages
  show them until the next poll: `RemovalShown` makes the exception, and
  `QueueShown` that it ends.
* The configuration is never polled: a boot answer that arrives after the events
  (`late` in `Page`) is shown until the next change.
* A page writes back the whole configuration it knows, so a checkbox clicked on
  an old one undoes another user's filter; `update_target_ips` likewise undoes a
  change made between its two steps.

## Proofs

TLAPS proves the following for every set of flows and tasks, every memory limit,
retry count and number of requests in flight, from the modules' named
assumptions alone (limits are naturals; `NoFlow`, `Unlocked` and `NoOne` are not
members of the sets they mark the absence of; the flows of `EventFeed`, which
may all be queued when a page is opened, are finitely many).  What a theorem
assumes beyond them is a hypothesis in its statement.

* `OrderedMapsProofs`.  The models take subsequences by rank (`Sub`, `Nth`)
  instead of by recursion, since the provers reach neither `RECURSIVE` operators
  nor induction over sequences.  `NthProperties` shows the ranks well defined
  and increasing (from the library's facts on cardinality); lemmas on `Sub`,
  `Put`, `Newest`, `KeepIn` and `Without` follow: what they contain, that they
  keep the order and the absence of duplicates, how long they are, when they are
  the whole sequence or its tail, and that a map is no longer than the number of
  its keys.
* `StoreProofs`.  `Inductive` shows that the invariant `IInv` is kept by every
  step.  It joins the types, the uniqueness of ids in `rows`, `cache`, `queue`
  and in the listing a cleanup carries, the length of cache and listing, the
  inclusion of the queue in the cache, and what the program counters know: a
  task is at a step inside the lock exactly when it owns it; whoever is at
  `decide_put` has its flow at the head of the queue; whoever is about to save
  carries a record, and whoever works on a flow names one.
  None of the properties is inductive without these: the head, for one, stays
  the head only because every action that could change the queue needs the lock
  the deciding task owns.  `TypeCorrect` and `QueueStaysSafe`
  follow from `IInv`, and the action properties `HeadOnlyDecided` and
  `QueueStaysOrdered` from `IInv` and each step; the order is the one of `Sub`.
  `LimitInv` adds that the limit, and what a cleanup has read of it, stay below
  `MaxMem`.  With it, `CacheStaysWithinLimit` shows that whatever changes the
  cache leaves no more in it than the limit then in force, not the largest one
  ever set; the exceptions are a restart and the rebuild of a cleanup, which go
  by the length of their listing, the latter by the limit it has read before.
* `StoreRowsProofs`.  Its theorems but the last assume `NoLateReads`: `get_flow`
  and `cleanup` are not called, since with them the first three properties are
  violated (the findings above).  This is a hypothesis of each theorem.
  `AgreeInv` says what holds in the middle of a write: a record about to be
  saved is the cached one of its flow; every other cached record is in its row;
  a final flow is queued only while a task is about to save it as reopened; and
  a flow that a decision is about to end is the head, which leaves with it, or
  is not queued.
  `CacheMatchesRows` and `FinalNotQueued` speak of the free lock; what a task
  leaves between the two memory writes and the `await` of the third is what makes
  them inductive.  `ResponseStaysKept` follows each record from the row it was
  read from to the row it is saved to (`KeepInv`).  `QueueLeftWithReason` needs
  no assumption on the operations: whoever ends a flow saves a final record of
  that very flow before it takes it out of the queue (`EndInv`).
* `StoreServiceProofs`.  `StoreServesAtomically` is `ImplementsService`.  It
  assumes `NoLateReads` and `AllFit`: there are finitely many flows, no more
  than the memory limit and the listing of `start()` admit, and the limit is not
  changed; so nothing is evicted, which the service does not have.  `ServeInv`
  adds to `IInv` and `AgreeInv` that memory knows every row, except while a
  clearing is between its two steps; that the flow whose row is read for want of
  a cached record is not in the cache; and that the flow being written is.  From
  it follows that a row is never found where the cache had none, so that an
  operation takes effect in one step: the one that changes memory, or the one
  that stores or deletes a decision.  One lemma per operation says which step of
  the service that is, or that nothing is seen.  The drop of the
  head is the subtle case: the service unqueues it when the decision is stored,
  the store one await later and only from the head; by `AgreeInv` it still is
  the head by then, or not queued.
* `RepositoryProofs`.  `IInv` joins the types; that `work` and `durable` agree
  when a method that found no open transaction begins (`clean`); that between
  the two they differ by exactly the statements executed so far (`ProgressInv`),
  and not at all once it has committed (`CommitInv`); that the decision about to
  be returned is the stored one until it is deleted, and is in no table when its
  deletion is committed; and that the ids issued never exceed what the file's
  `seq` holds.  From it follow the four invariants; `MethodsAreAtomic` shows that
  the commit of each method is the step of `Tables` with its name, and
  `ImplementsTables` that a repository whose statements do not raise implements
  `Tables`, from its initial state on.  Why the exception is needed: what a
  failed method leaves is committed by the next one, and half of a clearing is
  no step of `Tables`.
* `PipelineProofs`.  `Inductive` for `IInv`: the types and "a hook that polls
  for a decision or acts on it owns the sequential lock".
  `TypeCorrect` bounds the attempts; `InterceptionIsSequential` is
  `OneIntercepted`.
* `PipelineProofs`, second part, assuming `~Lossy` (every call
  returns its answer), and for `NobodyIsForgotten` also `~Clears` (nobody clears
  the history): without them the properties are violated.  `FlowInv` follows a
  flow: before its upsert nothing is known of it; a flow with a stored request
  decision, or whose decision was just handed out, is the head or out of the
  queue; once its response is inspected or delivered it is out of the queue; and
  the only calls that run late are second steps of response decisions.
  `HeldInv` adds that from its upsert on a held request is queued, decided or
  ended, at every step it can be held at; `NobodyWaitsInVain` speaks of one of
  them.  The head is what matters: a decision deleted for one flow pops that
  flow, because it was stored for the head and nothing overtakes the head.
* `PipelineProofs`, third part: `TakenDecisionsArrive` is `TakenArrives` for
  `HSpec`, assuming `~Lossy` only.  `FateInv` says of each step of a hook what
  may have been handed out for its exchange by then: nothing while it is held
  for a request; a request decision that is not a drop once it has been sent;
  what `Ended` admits when it is killed or delivered; and at `pop_head` exactly
  the decision the hook carries.  That a hook takes one decision a stage, and
  that the table has one (`KeyInv`), is what keeps a later decision of the user
  from changing the fate of a flow that has taken one.
* `WsManagerProofs`, for every set of clients, number of events and queue size.
  `IInv` says of each client's stream, received, being sent and waiting, that
  each part is in order, that one precedes the next, and that nothing in it is
  newer than what was broadcast (`OrderInv`); that a full queue has lost only
  the oldest (`NewestKept`); and that from the moment the endpoint reads the
  state for INIT every later event is somewhere in the stream, unless the queue
  overflowed (`GapInv`).  `NoGap` speaks only of clients that were told; it
  needs `GapInv` from the reading on, since events are broadcast between the
  reading and the sending of INIT.

* `PageProofs`, for every set of flows and every number of changes and calls.
  Each property speaks of a moment at which nothing is under way, which no step
  preserves; `IInv` says what the messages under way will lead to.
  `RemovalInv`: if no operation has yet to read or publish a queue and neither
  an eviction nor a cleanup has changed it without a word since one was read,
  the last queue event on the line, if it was read anew, carries the queue as it
  is, and if there is none, the one published last did (`RemovalsAreShown`).
  `AnnouncedInv`, `SentInv` and `CheckedInv` follow a configuration along its
  way: the last one on the server's line is in force; if there is none, the last
  one on the page's connection is (an INIT reads the configuration when it is
  sent, and its queue before); if there is none either, no boot answer came late
  and no PUT is under way, the checkbox shows it (`CheckboxIsTrue`).  `KnownInv`
  says that a connected page past its INIT knows a configuration, which is why a
  boot answer after that is late.

The conjuncts of the `IInv`s held under TLC, in the bounds of `store_concurrent`,
`repository`, `ws_delivery`, `page` and of a `Pipeline` of two flows, before they
were proved; those of `StoreRowsProofs` and `StoreServiceProofs` for two flows,
two tasks, a limit of 2 and the operations of `store_writers`.

**Model-checked only.**  The liveness properties: `CallsReturn`, `HooksEnd`,
`SilentDropped`, `QueueShown` and `DetailShown`.  Liveness under fairness and
`ENABLED` are beyond this prover, and so is induction over data; they stay with
TLC.

## Not modelled, and why

* Settings (`app/core/config.py`): environment variables are parsed once, before
  anything runs; there is no state, and its clamps are what the assumptions on
  the constants rest on.
* Packet and header parsing (`app/proxy/utils.py`), logging, plugins (none are
  installed), the browser launch (`actions.py`): data, wording or plain input and
  output that no property tells apart.
* Shutdown beyond the repository: the cleanup task is cancelled (`Stop`), then
  `ws_manager.shutdown()` disconnects each client as the heartbeat does.  What
  goes wrong there is cancellation between tasks: a cleanup that has raised
  earlier raises again at `await cleanup_task` and leaves the manager and the
  connection open, and a heartbeat cancelled while it awaits a sender it has
  cancelled itself runs on.  No operation follows a shutdown.
* Repository methods that raise inside a store operation: memory then differs
  from the tables until the flow is written again.  `Repository` shows what is in
  the tables; `Store` assumes that its methods return.
* In the page: the list of flows and its filters, panels and their edits,
  response decisions, calls that fail.
* Of the configuration, all but `intercept_enabled` and the memory limit: which
  requests are selected is a free choice in `Pipeline`, and a filter is data to
  the page.
* Exceptions of `send_json` that a sender does not catch (see `WsManager`).
* `max_flows_memory` below zero (accepted by `PUT /api/config`) makes `popitem`
  raise on an empty cache; the assumption `MaxMemAssumption` excludes it.

## Plan

Done: all modules and theorems above.  What would come next:

1. `Store` with repository methods that raise, composed with `Repository`.
2. `Pipeline` over a `FlowService` that restarts: decisions and held requests on
   both sides of a crash.
3. Proofs: what a caller sees of the store when flows are evicted or a restart
   intervenes, which `StoreServesAtomically` leaves out.
