---------------------------- MODULE StoreService ----------------------------
(***************************************************************************)
(* The store, await by await, implements the flow service, one step per    *)
(* operation, as long as nothing is evicted and nothing reads rows without *)
(* the lock.  The service's status of a flow is that of its cached record, *)
(* which an operation writes before the row; its queue is already without  *)
(* the flow whose final record is being saved; and a clearing of history   *)
(* takes effect on all the tables when it empties memory.                  *)
(***************************************************************************)
EXTENDS Store

StatusOf(f) ==
  IF f \in Ids(cache) THEN (CHOOSE r \in Entry(cache, f) : TRUE).status ELSE "unknown"

Ending == {Flow(t) : t \in {u \in Tasks : task[u].pc \in {"final_save", "decide_save"}}}

Clearing == \E t \in Tasks : At(t, "clear_wipe")

Service == INSTANCE FlowService WITH
  status <- [f \in Flows |-> StatusOf(f)],
  queue <- KeepIn(queue, Flows \ Ending),
  decisions <- IF Clearing THEN {} ELSE decisions

\* Whatever a caller of the store can tell from statuses, queue and decisions,
\* however its operations interleave at their awaits, a store whose operations
\* are atomic could have shown; only a restart is visible besides.
ImplementsService ==
  Service!ServiceInit /\ [][CrashRestart \/ Service!ServiceNext]_(Service!service)
=============================================================================
