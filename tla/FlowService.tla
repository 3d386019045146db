---------------------------- MODULE FlowService ----------------------------
(***************************************************************************)
(* What the routes of app/api/routes/flows.py promise their callers: each  *)
(* operation of the store in one step, over the status of every flow, the  *)
(* queue and the stored decisions.  Store.tla shows the same operations    *)
(* await by await; here the cache holds every flow and a row never lags    *)
(* behind it.  Taking a request decision and setting a response decision   *)
(* stay in two steps, as they are not atomic in the store either.          *)
(***************************************************************************)
EXTENDS OrderedMaps

CONSTANT Flows

VARIABLES
  status,     \* the status of each flow's record, "unknown" if it has none
  queue,      \* the flows that wait for a request decision
  decisions   \* table decisions

service == <<status, queue, decisions>>

Final == {"completed", "dropped"}
Status == {"unknown", "pending_request", "pending_response"} \cup Final
\* "inspect" is a forwarded request whose intercept_response is set.
Verdicts == {"forward", "inspect", "drop"}
Decision == [flow: Flows, stage: {"request", "response"}, verdict: Verdicts]

Stored(f, stage) == {d \in decisions : d.flow = f /\ d.stage = stage}

IsHead(f) == queue # <<>> /\ Head(queue) = f

ServiceInit ==
  /\ status = [f \in Flows |-> "unknown"]
  /\ queue = <<>>
  /\ decisions = {}
-----------------------------------------------------------------------------
UpsertRequest(f) ==
  /\ status' = [status EXCEPT ![f] = "pending_request"]
  /\ queue' = IF f \in Elems(queue) THEN queue ELSE Append(queue, f)
  /\ UNCHANGED decisions

AttachResponse(f) ==
  /\ status' = [status EXCEPT ![f] = "pending_response"]
  /\ UNCHANGED <<queue, decisions>>

\* Mutant: a flow that ends stays in the queue.
SetFinalStatusQueued(f, s) ==
  /\ status' = [status EXCEPT ![f] = IF @ = "unknown" THEN @ ELSE s]
  /\ UNCHANGED <<queue, decisions>>

\* mark_completed and mark_dropped.  Only flows with a record are queued.
SetFinalStatus(f, s) ==
  \/ /\ status[f] # "unknown"
     /\ status' = [status EXCEPT ![f] = s]
     /\ queue' = Without(queue, f)
     /\ UNCHANGED decisions
  \/ status[f] = "unknown" /\ UNCHANGED service

\* A decision replaces the one stored for the same flow and stage.
Replacing(d) == (decisions \ Stored(d.flow, d.stage)) \cup {d}

SetRequestDecision(d) ==
  /\ IsHead(d.flow)
  /\ decisions' = Replacing(d)
  /\ \/ /\ d.verdict = "drop"
        /\ status' = [status EXCEPT ![d.flow] = "dropped"]
        /\ queue' = Tail(queue)
     \/ d.verdict # "drop" /\ UNCHANGED <<status, queue>>

\* The first step of set_response_decision; SetFinalStatus is the second.
SetResponseDecision(d) ==
  decisions' = Replacing(d) /\ UNCHANGED <<status, queue>>

\* take_decision, the first step of taking a request decision.
TakeDecision(d) ==
  decisions' = decisions \ {d} /\ UNCHANGED <<status, queue>>

\* Mutant: the queue is popped whatever its head is.
PopAnyHead(f) ==
  /\ queue' = IF queue = <<>> THEN queue ELSE Tail(queue)
  /\ UNCHANGED <<status, decisions>>

\* The second step: the flow leaves the queue if it is the head.
PopHead(f) ==
  /\ queue' = IF IsHead(f) THEN Tail(queue) ELSE queue
  /\ UNCHANGED <<status, decisions>>

ClearHistory ==
  /\ status' = [f \in Flows |-> "unknown"]
  /\ queue' = <<>>
  /\ decisions' = {}

ServiceNext ==
  \/ \E f \in Flows :
       \/ UpsertRequest(f) \/ AttachResponse(f) \/ PopHead(f)
       \/ \E s \in Final : SetFinalStatus(f, s)
  \/ \E d \in Decision :
       \/ d.stage = "request" /\ SetRequestDecision(d)
       \/ d.stage = "response" /\ SetResponseDecision(d)
       \/ TakeDecision(d)
  \/ ClearHistory
=============================================================================
