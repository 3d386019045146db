------------------------------ MODULE MCStore ------------------------------
(***************************************************************************)
(* Store for TLC: the operations each run calls, and the symmetry of flows *)
(* and tasks, which no definition tells apart.                             *)
(***************************************************************************)
EXTENDS StoreService, TLC

\* Everything but the response decisions, which the store never reads back, and
\* mark_dropped, which takes the path of mark_completed.
ConcurrentOps ==
  AllOps \ {"mark_dropped", "set_response_decision", "take_response_decision"}

\* Everything but the operations that read rows outside the lock.
WriterOps == AllOps \ {"get_flow", "cleanup", "update_config"}

\* Everything but a restart, which would end the calls by itself.
CallOps == AllOps \ {"crash", "update_config"}

ReadRaceOps == {"upsert_request", "attach_response", "mark_completed", "get_flow"}

CleanupRaceOps == {"upsert_request", "cleanup"}

Symmetry == Permutations(Flows) \cup Permutations(Tasks)
=============================================================================
