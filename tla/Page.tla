-------------------------------- MODULE Page --------------------------------
(***************************************************************************)
(* One page (gui/static/app.js) of the events of EventFeed: what it shows, *)
(* its WebSocket, and its calls of the API.                                *)
(*                                                                         *)
(* The WebSocket keeps its order and is lost as a whole; an HTTP call is   *)
(* served when it is made and its answer may arrive after later ones.  A   *)
(* new connection is registered for events before the endpoint has read    *)
(* INIT's queue, and sends INIT in the step in which it has read the       *)
(* configuration (app/api/routes/ws.py).  The page polls every 3 seconds,  *)
(* connected or not.                                                       *)
(*                                                                         *)
(* Left out: other pages (what their calls do to the queue AttachResponse  *)
(* does too); the list of flows, its filters and the panels' contents;     *)
(* calls that fail; full client queues (WsManager.tla).                    *)
(***************************************************************************)
EXTENDS EventFeed

CONSTANTS
  MaxCalls,   \* bound: polls are made while fewer calls are unanswered
  NoFlow      \* no flow is selected

ASSUME MaxCallsAssumption == MaxCalls \in Nat \ {0}
ASSUME NoFlowAssumption == NoFlow \notin Flows

VARIABLES
  page,       \* state of app.js, and the checkbox
  conn,       \* the connection: off, registered, read, on
  wire,       \* events and INIT enqueued for the page
  initQueue,  \* the queue INIT will hold
  calls,      \* PUTs under way and answers of the API under way
  late        \* history: the boot answer replaced a later configuration

front == <<page, conn, wire, initQueue, calls, late>>
vars == <<store, feed, left, front>>

Nothing == [flow |-> NoFlow, version |-> 0]

Init ==
  /\ FeedInit
  /\ page = [queue |-> <<>>, sel |-> NoFlow, detail |-> Nothing, config |-> {}, checked |-> FALSE]
  /\ conn = "off"
  /\ wire = <<>>
  /\ initQueue = <<>>
  /\ calls = {[kind |-> "boot", config |-> config]}
  /\ late = FALSE
-----------------------------------------------------------------------------
\* GET /api/flows/{id}: served at once; a flow that is gone changes nothing.
Details(f) ==
  IF f # NoFlow /\ version[f] > 0
  THEN {[kind |-> "detail", flow |-> f, version |-> version[f]]} ELSE {}

\* refreshQueue, and what the code awaits it for: to load the selected flow,
\* a decided one, or to reset the selection.
QueueCall(next, f) == [kind |-> "queue", queue |-> queue, next |-> next, flow |-> f]

\* Mutant: polling is the fallback of a lost connection only.
PollOffline ==
  /\ conn = "off"
  /\ Cardinality(calls) < MaxCalls
  /\ calls' = calls \cup {QueueCall("selected", NoFlow)}
  /\ UNCHANGED <<store, feed, left, page, conn, wire, initQueue, late>>

Poll ==
  /\ Cardinality(calls) < MaxCalls
  /\ calls' = calls \cup {QueueCall("selected", NoFlow)}
  /\ UNCHANGED <<store, feed, left, page, conn, wire, initQueue, late>>

\* What get_flow does to the store when it is asked for a flow, or for none.
Serve(f) == IF f = NoFlow THEN UNCHANGED <<store, feed>> ELSE GetFlow(f)

\* Mutant: a poll reloads the list and the queue, not the selected flow.
AfterQueueNoReload(c) == IF c.next = "decided" THEN c.flow ELSE NoFlow

\* The flow that is loaded after an answered refreshQueue.
AfterQueue(c) ==
  CASE c.next = "selected" -> page.sel [] c.next = "decided" -> c.flow [] OTHER -> NoFlow

AnswerQueue ==
  \E c \in calls :
    /\ c.kind = "queue"
    /\ page' = IF c.next = "reset"
               THEN [page EXCEPT !.queue = c.queue, !.sel = NoFlow, !.detail = Nothing]
               ELSE [page EXCEPT !.queue = c.queue]
    /\ calls' = (calls \ {c}) \cup Details(AfterQueue(c))
    /\ Serve(AfterQueue(c))
    /\ UNCHANGED <<left, conn, wire, initQueue, late>>

\* loadFlowDetail shows whatever flow the answer is about.
AnswerDetail ==
  \E c \in calls :
    /\ c.kind = "detail"
    /\ page' = [page EXCEPT !.detail = [flow |-> c.flow, version |-> c.version]]
    /\ calls' = calls \ {c}
    /\ UNCHANGED <<store, feed, left, conn, wire, initQueue, late>>

\* refreshConfig, which only boot calls.
AnswerBoot ==
  \E c \in calls :
    /\ c.kind = "boot"
    /\ page' = [page EXCEPT !.config = {c.config}, !.checked = c.config.enabled]
    /\ late' = (page.config # {})
    /\ calls' = calls \ {c}
    /\ UNCHANGED <<store, feed, left, conn, wire, initQueue>>

\* PUT /api/config is served, and its answer is page.config.
ServePut ==
  \E c \in calls :
    /\ c.kind = "put"
    /\ UpdateConfig(c.config)
    /\ calls' = (calls \ {c}) \cup {[kind |-> "reply", config |-> c.config]}
    /\ UNCHANGED <<targeting, left, page, conn, wire, initQueue, late>>

\* Mutant: the answer also sets the checkbox.
AnswerPutChecks ==
  \E c \in calls :
    /\ c.kind = "reply"
    /\ page' = [page EXCEPT !.config = {c.config}, !.checked = c.config.enabled]
    /\ calls' = calls \ {c}
    /\ UNCHANGED <<store, feed, left, conn, wire, initQueue, late>>

AnswerPut ==
  \E c \in calls :
    /\ c.kind = "reply"
    /\ page' = [page EXCEPT !.config = {c.config}]
    /\ calls' = calls \ {c}
    /\ UNCHANGED <<store, feed, left, conn, wire, initQueue, late>>
-----------------------------------------------------------------------------
\* The user selects a flow, flips the checkbox, drops the flow that is shown,
\* or clears the history.
Click ==
  /\ Spend
  /\ \E f \in Flows :
       /\ version[f] > 0
       /\ page' = [page EXCEPT !.sel = f]
       /\ calls' = calls \cup Details(f)
       /\ GetFlow(f)
  /\ UNCHANGED <<conn, wire, initQueue, late>>

\* Nothing is sent while the page knows no configuration.
Toggle ==
  /\ Spend
  /\ calls' = calls \cup
       {[kind |-> "put", config |-> [c EXCEPT !.enabled = ~page.checked]] : c \in page.config}
  /\ page' = [page EXCEPT !.checked = ~@]
  /\ UNCHANGED <<store, feed, conn, wire, initQueue, late>>

\* submitRequestDecision; the API refuses any flow but the head.
Drop ==
  /\ Spend
  /\ queue # <<>> /\ page.detail.flow = Head(queue)
  /\ DropHead
  /\ calls' = calls \cup {[QueueCall("decided", page.detail.flow) EXCEPT !.queue = queue']}
  /\ UNCHANGED <<page, conn, wire, initQueue, late>>

Clear ==
  /\ Spend
  /\ ClearHistory
  /\ calls' = calls \cup {[QueueCall("reset", NoFlow) EXCEPT !.queue = <<>>]}
  /\ UNCHANGED <<page, conn, wire, initQueue, late>>
-----------------------------------------------------------------------------
Connect ==
  /\ conn = "off"
  /\ conn' = "registered"
  /\ UNCHANGED <<store, feed, left, page, wire, initQueue, calls, late>>

ReadQueue ==
  /\ conn = "registered"
  /\ conn' = "read"
  /\ initQueue' = queue
  /\ UNCHANGED <<store, feed, left, page, wire, calls, late>>

SendInit ==
  /\ conn = "read"
  /\ conn' = "on"
  /\ wire' = Append(wire, [kind |-> "init", queue |-> initQueue, config |-> config])
  /\ initQueue' = <<>>
  /\ UNCHANGED <<store, feed, left, page, calls, late>>

Disconnect ==
  /\ Spend
  /\ conn # "off"
  /\ conn' = "off"
  /\ wire' = <<>>
  /\ initQueue' = <<>>
  /\ UNCHANGED <<store, feed, page, calls, late>>

Broadcast ==
  /\ line # <<>>
  /\ FollowUp(Head(line))
  /\ wire' = IF conn = "off" THEN wire ELSE Append(wire, Head(line))
  /\ UNCHANGED <<page, conn, initQueue, calls, late>>

\* onWsMessage
Receive ==
  /\ wire # <<>>
  /\ wire' = Tail(wire)
  /\ LET m == Head(wire)
     IN  \/ /\ m.kind = "init"
            /\ page' = [page EXCEPT !.queue = m.queue, !.config = {m.config},
                                    !.checked = m.config.enabled]
            /\ late' = FALSE /\ UNCHANGED <<store, feed, calls>>
         \/ /\ m.kind = "config"
            /\ page' = [page EXCEPT !.config = {m.config}, !.checked = m.config.enabled]
            /\ late' = FALSE /\ UNCHANGED <<store, feed, calls>>
         \/ /\ m.kind = "flow" /\ m.flow = page.sel
            /\ calls' = calls \cup Details(m.flow)
            /\ GetFlow(m.flow)
            /\ UNCHANGED <<page, late>>
         \/ /\ m.kind = "flow" /\ m.flow # page.sel
            /\ UNCHANGED <<store, feed, page, calls, late>>
         \/ /\ m.kind = "queue"
            /\ page' = [page EXCEPT !.queue = m.queue]
            /\ UNCHANGED <<store, feed, calls, late>>
         \/ /\ m.kind = "cleared"
            /\ page' = [page EXCEPT !.queue = <<>>, !.sel = NoFlow, !.detail = Nothing]
            /\ UNCHANGED <<store, feed, calls, late>>
  /\ UNCHANGED <<left, conn, initQueue>>
-----------------------------------------------------------------------------
Server ==
  /\ \/ \E f \in Flows : UpsertRequest(f) \/ AttachResponse(f) \/ SetFinalStatus(f)
     \/ TakeRequestDecision \/ Cleanup \/ ReadTargets \/ WriteTargets \/ Reread
  /\ UNCHANGED front

User == Click \/ Toggle \/ Drop \/ Clear

Next ==
  \/ Server \/ User \/ Broadcast \/ Receive
  \/ Connect \/ ReadQueue \/ SendInit \/ Disconnect
  \/ Poll \/ AnswerQueue \/ AnswerDetail \/ AnswerBoot \/ ServePut \/ AnswerPut

Spec == Init /\ [][Next]_vars

\* The timer fires, the API answers, and the server publishes what it has to;
\* nothing is assumed of the connection or of the user.
Fairness ==
  /\ SF_vars(Poll)
  /\ WF_vars(AnswerQueue) /\ WF_vars(AnswerDetail)
  /\ WF_vars(AnswerBoot) /\ WF_vars(ServePut) /\ WF_vars(AnswerPut)
  /\ WF_vars(Reread /\ UNCHANGED front) /\ WF_vars(Broadcast) /\ WF_vars(Receive)

FairSpec == Spec /\ Fairness
-----------------------------------------------------------------------------
\* A connected page shows the configuration in force when nothing is under way,
\* although the click shows it before the server knows, INIT and events overlap
\* and a PUT replaces the whole configuration.  The exception is a boot answer
\* that arrives after the events: the configuration is never polled.
CheckboxShown ==
  /\ conn = "on" /\ wire = <<>> /\ line = <<>> /\ ~late
  /\ \A c \in calls : c.kind # "put"
  => page.checked = config.enabled

\* Whatever was published in which order, lost with the connection or never
\* published, the page in the end shows the queue.
QueueShown == <>[](page.queue = queue)

\* In the end the flow that is shown, and that the buttons decide, is the one
\* that is selected, as it is stored.
DetailShown ==
  <>[](page.sel # NoFlow /\ version[page.sel] > 0 =>
         page.detail = [flow |-> page.sel, version |-> version[page.sel]])
=============================================================================
