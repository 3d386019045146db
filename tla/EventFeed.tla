----------------------------- MODULE EventFeed -----------------------------
(***************************************************************************)
(* What the operations of InterceptionStore (app/state/store.py) publish,  *)
(* in which order, and the configuration they share with the routes of     *)
(* app/api/routes/config.py.                                               *)
(*                                                                         *)
(* An operation changes the store under its lock (Store.tla) and publishes *)
(* afterwards.  _publish first writes the event to the repository, whose   *)
(* lock is first come, first served, and is then broadcast: line holds the *)
(* events in that order.  upsert_request and clear_history publish two     *)
(* events, the second with a queue that was fixed before the first was     *)
(* out; the other operations read the queue anew when the first is out and *)
(* join the line at once.                                                  *)
(*                                                                         *)
(* _set_cache keeps the cache within a limit that may be any and change at *)
(* any time: whatever writes or reads a flow may evict others from the     *)
(* cache and so from the queue, and tells nobody.                          *)
(*                                                                         *)
(* Left out: the cache; all of a flow but the number of its writes; of the *)
(* configuration all but intercept_enabled; a write or a clearing between  *)
(* the steps of a cleanup (Store.tla has them); and the errors of          *)
(* append_event.                                                           *)
(***************************************************************************)
EXTENDS OrderedMaps

CONSTANTS
  Flows,       \* flow ids
  MaxChanges   \* bound on what proxy, users and network do from now on

ASSUME FlowsAssumption == IsFiniteSet(Flows)
ASSUME MaxChangesAssumption == MaxChanges \in Nat

VARIABLES
  queue,      \* _queue
  version,    \* how often each flow's record was written, 0 if there is none
  config,     \* _config, of which intercept_enabled
  targeting,  \* the copies update_target_ips has not written back yet
  line,       \* events on their way to the subscribers
  readers,    \* operations about to read the queue they publish
  shown,      \* history: the last published queue, if it was read anew, and if
              \* the queue has changed silently since an operation last read it
  left        \* what is left of MaxChanges

store == <<queue, version, config>>
feed == <<targeting, line, readers, shown>>
-----------------------------------------------------------------------------
Config == [enabled: BOOLEAN]

QueueEvent(q, by) == [kind |-> "queue", queue |-> q, by |-> by]

\* What follows an event of a flow: a queue event with a captured queue, a
\* queue read anew, or nothing.
FlowEvent(f, captured, reread) ==
  [kind |-> "flow", flow |-> f, captured |-> captured, reread |-> reread]
Cleared == [kind |-> "cleared", captured |-> {QueueEvent(<<>>, "clear")}, reread |-> FALSE]
ConfigEvent(c) == [kind |-> "config", config |-> c]

Spend == left > 0 /\ left' = left - 1

Written(f) == version' = [version EXCEPT ![f] = @ + 1]

Publish(m) == line' = Append(line, m)

\* What _set_cache may make of the queue q: the record of f is the newest and
\* goes last, and only if the limit is 0.
AfterSetCache(q, f) ==
  {KeepIn(q, K) : K \in {K \in SUBSET Elems(q) : f \in Elems(q) /\ K # {} => f \in K}}

\* No event follows that tells of the queue.
Silently == shown' = [shown EXCEPT !.silent = @ \/ queue' # queue]

\* The members of S once each, in any order.
Orders(S) == {q \in [1..Cardinality(S) -> S] : NoDuplicates(q)}

\* Every flow has a row, and all of them are queued or none, as after a restart.
FeedInit ==
  /\ queue \in {<<>>} \cup Orders(Flows)
  /\ version = [f \in Flows |-> 1]
  /\ config = [enabled |-> TRUE]
  /\ targeting = {}
  /\ line = <<>>
  /\ readers = 0
  /\ shown = [reread |-> {}, silent |-> FALSE]
  /\ left = MaxChanges
-----------------------------------------------------------------------------
\* upsert_request: queue_state is taken under the lock, after the eviction.
UpsertRequest(f) ==
  /\ Spend
  /\ Written(f)
  /\ \/ /\ f \in Elems(queue)
        /\ queue' \in AfterSetCache(queue, f)
        /\ Publish(FlowEvent(f, {}, FALSE))
        /\ Silently
     \/ /\ f \notin Elems(queue)
        /\ queue' \in AfterSetCache(Append(queue, f), f)
        /\ Publish(FlowEvent(f, {QueueEvent(queue', "arrival")}, FALSE))
        /\ UNCHANGED shown
  /\ UNCHANGED <<config, targeting, readers>>

AttachResponse(f) ==
  /\ Spend
  /\ Written(f)
  /\ queue' \in AfterSetCache(queue, f)
  /\ Publish(FlowEvent(f, {}, FALSE))
  /\ Silently
  /\ UNCHANGED <<config, targeting, readers>>

\* get_flow: a flow that is not queued may not be cached, and is put there.
GetFlow(f) ==
  /\ queue' \in IF f \in Elems(queue) \/ version[f] = 0 THEN {queue} ELSE AfterSetCache(queue, f)
  /\ Silently
  /\ UNCHANGED <<version, config, targeting, line, readers>>

\* Mutant: the queue is captured under the lock and published later.
SetFinalStatusCaptures(f) ==
  /\ Spend
  /\ version[f] > 0
  /\ Written(f)
  /\ \E q \in AfterSetCache(queue, f) :
       /\ queue' = Without(q, f)
       /\ Publish(FlowEvent(f,
            IF f \in Elems(q) THEN {QueueEvent(queue', "removal")} ELSE {}, FALSE))
       /\ IF f \in Elems(q) THEN UNCHANGED shown ELSE Silently
  /\ UNCHANGED <<config, targeting, readers>>

\* mark_completed, mark_dropped: if f itself was evicted no queue event follows.
SetFinalStatus(f) ==
  /\ Spend
  /\ version[f] > 0
  /\ Written(f)
  /\ \E q \in AfterSetCache(queue, f) :
       /\ queue' = Without(q, f)
       /\ Publish(FlowEvent(f, {}, f \in Elems(q)))
       /\ IF f \in Elems(q) THEN UNCHANGED shown ELSE Silently
  /\ UNCHANGED <<config, targeting, readers>>

\* take_request_decision for the head of the queue publishes no flow event.
TakeRequestDecision ==
  /\ Spend
  /\ queue # <<>>
  /\ queue' = Tail(queue)
  /\ readers' = readers + 1
  /\ UNCHANGED <<version, config, targeting, line, shown>>

\* set_request_decision, action drop, for the head of the queue, which an
\* eviction leaves at the head unless it empties the queue.
DropHead ==
  /\ queue # <<>>
  /\ Written(Head(queue))
  /\ \E q \in AfterSetCache(queue, Head(queue)) :
       /\ queue' = IF q = <<>> THEN <<>> ELSE Tail(q)
       /\ Publish(FlowEvent(Head(queue), {}, q # <<>>))
       /\ IF q # <<>> THEN UNCHANGED shown ELSE Silently
  /\ UNCHANGED <<config, targeting, readers>>

ClearHistory ==
  /\ version' = [f \in Flows |-> 0]
  /\ queue' = <<>>
  /\ Publish(Cleared)
  /\ UNCHANGED <<config, targeting, readers, shown>>

\* cleanup deletes old rows, lists some of the others (the newest, as many as
\* the limit says) and publishes nothing: queued flows that are not listed are
\* gone, and pending ones that are listed are queued again.
Cleanup ==
  /\ Spend
  /\ \E deleted \in SUBSET {f \in Flows : version[f] > 0} \ {{}} :
       /\ version' = [f \in Flows |-> IF f \in deleted THEN 0 ELSE version[f]]
       /\ \E listed \in SUBSET {f \in Flows : version'[f] > 0} :
            \E again \in SUBSET (listed \ Elems(queue)) : \E pending \in Orders(again) :
              queue' = KeepIn(queue, listed) \o pending
  /\ Silently
  /\ UNCHANGED <<config, targeting, line, readers>>

\* update_config
UpdateConfig(c) ==
  /\ config' = c
  /\ Publish(ConfigEvent(c))
  /\ UNCHANGED <<queue, version, readers, shown>>

\* update_target_ips gets a copy of the configuration and writes it back, both
\* under the lock but in two steps.
ReadTargets ==
  /\ Spend
  /\ targeting' = targeting \cup {config}
  /\ UNCHANGED <<store, line, readers, shown>>

WriteTargets ==
  \E c \in targeting :
    /\ UpdateConfig(c)
    /\ targeting' = targeting \ {c}
    /\ UNCHANGED left

\* queue_state, and append_event of what it returned.
Reread ==
  /\ readers > 0
  /\ readers' = readers - 1
  /\ Publish(QueueEvent(queue, "removal"))
  /\ shown' = [shown EXCEPT !.silent = FALSE]
  /\ UNCHANGED <<store, targeting, left>>

\* The event at the front has its id and is broadcast; its operation goes on.
FollowUp(m) ==
  /\ line' = IF m.kind \in {"flow", "cleared"} /\ m.captured # {}
             THEN Append(Tail(line), CHOOSE q \in m.captured : TRUE)
             ELSE Tail(line)
  /\ readers' = IF m.kind = "flow" /\ m.reread THEN readers + 1 ELSE readers
  /\ shown' = IF m.kind = "queue"
              THEN [shown EXCEPT !.reread = IF m.by = "removal" THEN {m.queue} ELSE {}]
              ELSE shown
  /\ UNCHANGED <<store, targeting, left>>
-----------------------------------------------------------------------------
\* When nothing is left to publish and the last queue event is of an operation
\* that took a flow off the queue (take_request_decision, a drop, a final
\* status), it shows the queue as it is, although it is published after the lock
\* is released, and makes up for the silent changes before it: the queue differs
\* only if an eviction or a cleanup has changed it since without a word.
\* upsert_request and clear_history promise less: they publish a captured queue
\* (store.py:91, 222).
RemovalShown ==
  line = <<>> /\ readers = 0 /\ ~shown.silent => shown.reread \subseteq {queue}
=============================================================================
