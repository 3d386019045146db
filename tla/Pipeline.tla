------------------------------ MODULE Pipeline ------------------------------
(***************************************************************************)
(* InterceptionPipeline (app/proxy/pipeline.py) in the proxy process, the  *)
(* HTTP client it calls the API with (app/proxy/client.py), and the API    *)
(* itself as FlowService, which the user's decisions also reach.           *)
(*                                                                         *)
(* Each intercepted exchange runs its request hook and then its response   *)
(* hook.  A hook is at one call of the API at a time, so hook[f].pc is the *)
(* name of that call.  A call that gets no answer is sent again, at most   *)
(* api_retry_count times; the API may still run the request it received    *)
(* (it is then in inflight), at once or after later calls.                 *)
(*                                                                         *)
(* Left out: packets and edits, plugins (AppInterceptor installs none),    *)
(* the sleeps between attempts and polls, and the value of max_wait_s.     *)
(***************************************************************************)
EXTENDS FlowService

CONSTANTS
  MaxRetry,     \* api_retry_count
  MaxInFlight,  \* bound: requests the API still runs on its own
  Lossy,        \* whether calls of the proxy may go unanswered
  Clears,       \* whether the user clears the history
  NoOne         \* the owner of the free sequential lock

ASSUME MaxRetryAssumption == MaxRetry \in Nat
ASSUME MaxInFlightAssumption == MaxInFlight \in Nat
ASSUME SwitchAssumption == Lossy \in BOOLEAN /\ Clears \in BOOLEAN
ASSUME NoOneAssumption == NoOne \notin Flows

VARIABLES
  hook,      \* each flow's hook: its call, the failed attempts, what it took
  wire,      \* what became of the exchange
  holder,    \* the owner of _sequential_lock
  inflight   \* requests the API runs though no hook waits for them

vars == <<service, hook, wire, holder, inflight>>

\* Calls whose answer the hook ignores, and calls that poll for a decision.
VoidCalls == {"upsert_flow", "attach_response", "complete_flow", "mark_dropped"}
Takes == {"take_request_decision", "take_response_decision"}
\* pop_head is the second step of take_request_decision.
Calls == VoidCalls \cup Takes \cup {"get_config", "pop_head"}

Hook == [pc: Calls \cup {"new", "request_lock", "upstream", "response_lock", "done"},
         tries: 0..MaxRetry, took: SUBSET Decision, inspect: BOOLEAN]
Wire == {"held", "sent", "killed", "delivered"}
InFlight == [op: VoidCalls \cup Takes \cup {"pop_head"}, flow: Flows]

At(f, pc) == hook[f].pc = pc

Init ==
  /\ ServiceInit
  /\ hook = [f \in Flows |-> [pc |-> "new", tries |-> 0, took |-> {}, inspect |-> FALSE]]
  /\ wire = [f \in Flows |-> "held"]
  /\ holder = NoOne
  /\ inflight = {}
-----------------------------------------------------------------------------
Goto(f, pc) == hook' = [hook EXCEPT ![f].pc = pc, ![f].tries = 0]
Set(f, w) == wire' = [wire EXCEPT ![f] = w]

Lock(f) == holder = NoOne /\ holder' = f
\* Leaving "async with self._sequential_lock", or a path outside it.
Unlock(f) == holder' = IF holder = f THEN NoOne ELSE holder

\* The end of a hook: resume() lets the request go on to the server, or the
\* response to the client; a flow that is not killable has already ended.
Sent(f) == Goto(f, "upstream") /\ Set(f, "sent") /\ Unlock(f)
Delivered(f) == Goto(f, "done") /\ Set(f, "delivered") /\ Unlock(f)

\* What the API does for a call that takes one step.
Serve(op, f) ==
  \/ op = "upsert_flow" /\ UpsertRequest(f)
  \/ op = "attach_response" /\ AttachResponse(f)
  \/ op = "complete_flow" /\ SetFinalStatus(f, "completed")
  \/ op = "mark_dropped" /\ SetFinalStatus(f, "dropped")

\* An attempt that gets no answer: the API never runs it, or runs it later.
Unanswered(op, f) ==
  /\ Lossy
  /\ UNCHANGED service
  /\ \/ UNCHANGED inflight
     \/ /\ Cardinality(inflight) < MaxInFlight
        /\ inflight' = inflight \cup {[op |-> op, flow |-> f]}

\* _request_json gives up after the last attempt, and returns None.
GivesUp(op, f) == hook[f].tries = MaxRetry /\ Unanswered(op, f)

\* A call whose result is not used ends either way.
Call(op, f) ==
  /\ At(f, op)
  /\ \/ Serve(op, f) /\ UNCHANGED inflight
     \/ GivesUp(op, f)

\* Mutant: one attempt more than api_retry_count allows.
RetryOnceMore(f) ==
  \E op \in VoidCalls \cup Takes :
    /\ At(f, op)
    /\ Unanswered(op, f)
    /\ hook' = [hook EXCEPT ![f].tries = @ + 1]
    /\ UNCHANGED <<wire, holder>>

Retry(f) ==
  \E op \in VoidCalls \cup Takes :
    /\ At(f, op)
    /\ hook[f].tries < MaxRetry
    /\ Unanswered(op, f)
    /\ hook' = [hook EXCEPT ![f].tries = @ + 1]
    /\ UNCHANGED <<wire, holder>>
-----------------------------------------------------------------------------
\* handle_request.  Requests to ignored hosts are not tracked.
Ignore(f) ==
  /\ At(f, "new")
  /\ Goto(f, "done") /\ Set(f, "delivered")
  /\ UNCHANGED <<service, holder, inflight>>

Capture(f) ==
  /\ At(f, "new")
  /\ Goto(f, "upsert_flow")
  /\ UNCHANGED <<service, wire, holder, inflight>>

Upsert(f) ==
  /\ Call("upsert_flow", f)
  /\ Goto(f, "get_config")
  /\ UNCHANGED <<wire, holder>>

\* The configuration selects the request or not.  Without an answer the
\* default of get_config names no target, so the request passes.
Intercept(f) ==
  /\ At(f, "get_config")
  /\ Goto(f, "request_lock")
  /\ UNCHANGED <<service, wire, holder, inflight>>

Pass(f) ==
  /\ At(f, "get_config")
  /\ Sent(f)
  /\ UNCHANGED <<service, inflight>>

LockRequest(f) ==
  /\ At(f, "request_lock")
  /\ Lock(f)
  /\ Goto(f, "take_request_decision")
  /\ UNCHANGED <<service, wire, inflight>>
-----------------------------------------------------------------------------
\* _wait_for_decision.  A poll that finds nothing, or gives up, is followed
\* by a new one.
Poll(f, stage) ==
  LET op == IF stage = "request" THEN "take_request_decision" ELSE "take_response_decision"
  IN  /\ At(f, op)
      /\ \/ Stored(f, stage) = {} /\ UNCHANGED <<service, inflight>>
         \/ GivesUp(op, f)
      /\ Goto(f, op)
      /\ UNCHANGED <<wire, holder>>

TakeRequest(f) ==
  /\ At(f, "take_request_decision")
  /\ \E d \in Stored(f, "request") :
       /\ TakeDecision(d)
       /\ hook' = [hook EXCEPT ![f].pc = "pop_head", ![f].took = {d}]
  /\ UNCHANGED <<wire, holder, inflight>>

\* A lost answer to a poll that took the decision: the API goes on to pop the
\* queue, and the hook polls again for a decision that is gone.
LoseTaken(f) ==
  /\ Lossy
  /\ At(f, "pop_head")
  /\ Cardinality(inflight) < MaxInFlight
  /\ inflight' = inflight \cup {[op |-> "pop_head", flow |-> f]}
  /\ hook' = [hook EXCEPT ![f].pc = "take_request_decision", ![f].took = {},
                          ![f].tries = IF @ = MaxRetry THEN 0 ELSE @ + 1]
  /\ UNCHANGED <<service, wire, holder>>

\* Mutant: a request that goes on keeps the lock.
ActOnRequestKeepsLock(f) ==
  /\ At(f, "pop_head")
  /\ PopHead(f)
  /\ \E d \in hook[f].took :
       \/ d.verdict = "drop" /\ Goto(f, "mark_dropped") /\ Set(f, "killed")
       \/ /\ d.verdict # "drop"
          /\ hook' = [hook EXCEPT ![f].pc = "upstream", ![f].tries = 0, ![f].took = {},
                                 ![f].inspect = (d.verdict = "inspect")]
          /\ Set(f, "sent")
  /\ UNCHANGED <<holder, inflight>>

\* The request is killed, or resumed with the user's edits.  Edits mitmproxy
\* refuses raise before intercept_response is noted, and AppInterceptor then
\* resumes the request.
ActOnRequest(f) ==
  /\ At(f, "pop_head")
  /\ PopHead(f)
  /\ \E d \in hook[f].took :
       \/ /\ d.verdict = "drop"
          /\ hook' = [hook EXCEPT ![f].pc = "mark_dropped", ![f].tries = 0, ![f].took = {}]
          /\ Set(f, "killed") /\ UNCHANGED holder
       \/ /\ d.verdict # "drop"
          /\ \E noted \in {FALSE, d.verdict = "inspect"} :
               hook' = [hook EXCEPT ![f].pc = "upstream", ![f].tries = 0, ![f].took = {},
                                    ![f].inspect = noted]
          /\ Set(f, "sent") /\ Unlock(f)
  /\ UNCHANGED inflight

\* Mutant: a request that waited too long goes on, and the lock stays taken.
RequestDeadlineKeepsLock(f) ==
  /\ At(f, "take_request_decision") /\ hook[f].tries = 0
  /\ Goto(f, "upstream") /\ Set(f, "sent")
  /\ UNCHANGED <<service, holder, inflight>>

\* Mutant: the deadline also ends a poll that has taken the decision.
RequestDeadlineAnytime(f) ==
  \/ /\ At(f, "take_request_decision") /\ hook[f].tries = 0
     /\ Sent(f)
     /\ UNCHANGED <<service, inflight>>
  \/ /\ At(f, "pop_head")
     /\ PopHead(f)
     /\ Sent(f)
     /\ UNCHANGED inflight

\* max_wait_s is over: it is looked at between polls only.
RequestDeadline(f) ==
  /\ At(f, "take_request_decision") /\ hook[f].tries = 0
  /\ Sent(f)
  /\ UNCHANGED <<service, inflight>>

MarkDropped(f) ==
  /\ Call("mark_dropped", f)
  /\ Goto(f, "done") /\ Unlock(f)
  /\ UNCHANGED wire
-----------------------------------------------------------------------------
\* The server answers, and handle_response begins; or the exchange fails
\* there, of which the pipeline hears nothing.
Answer(f) ==
  /\ At(f, "upstream")
  /\ Goto(f, "attach_response")
  /\ UNCHANGED <<service, wire, holder, inflight>>

NoAnswer(f) ==
  /\ At(f, "upstream")
  /\ Goto(f, "done")
  /\ UNCHANGED <<service, wire, holder, inflight>>

Attach(f) ==
  /\ Call("attach_response", f)
  /\ Goto(f, IF hook[f].inspect THEN "response_lock" ELSE "complete_flow")
  /\ UNCHANGED <<wire, holder>>

\* Mutant: responses are intercepted without the sequential lock.
LockResponseFree(f) ==
  /\ At(f, "response_lock")
  /\ Goto(f, "take_response_decision")
  /\ UNCHANGED <<service, wire, holder, inflight>>

LockResponse(f) ==
  /\ At(f, "response_lock")
  /\ Lock(f)
  /\ Goto(f, "take_response_decision")
  /\ UNCHANGED <<service, wire, inflight>>

\* Edits mitmproxy refuses end the hook before complete_flow.
TakeResponse(f) ==
  /\ At(f, "take_response_decision")
  /\ \E d \in Stored(f, "response") :
       /\ TakeDecision(d)
       /\ \/ /\ d.verdict = "drop"
             /\ Goto(f, "mark_dropped") /\ Set(f, "killed") /\ UNCHANGED holder
          \/ d.verdict = "forward" /\ Goto(f, "complete_flow") /\ UNCHANGED <<wire, holder>>
          \/ d.verdict = "forward" /\ Delivered(f)
  /\ UNCHANGED inflight

ResponseDeadline(f) ==
  /\ At(f, "take_response_decision") /\ hook[f].tries = 0
  /\ Delivered(f)
  /\ UNCHANGED <<service, inflight>>

Complete(f) == Call("complete_flow", f) /\ Delivered(f)
-----------------------------------------------------------------------------
\* The API runs a request nobody waits for.
Run(c) ==
  /\ \/ /\ Serve(c.op, c.flow)
        /\ inflight' = inflight \ {c}
     \/ /\ c.op = "pop_head" /\ PopHead(c.flow)
        /\ inflight' = inflight \ {c}
     \/ /\ c.op = "take_request_decision"
        /\ \E d \in Stored(c.flow, "request") : TakeDecision(d)
        /\ inflight' = (inflight \ {c}) \cup {[op |-> "pop_head", flow |-> c.flow]}
     \/ /\ c.op = "take_response_decision"
        /\ \E d \in Stored(c.flow, "response") : TakeDecision(d)
        /\ inflight' = inflight \ {c}
     \/ /\ c.op \in Takes
        /\ Stored(c.flow, IF c.op = "take_request_decision" THEN "request" ELSE "response") = {}
        /\ UNCHANGED service
        /\ inflight' = inflight \ {c}
  /\ UNCHANGED <<hook, wire, holder>>

RunInFlight == \E c \in inflight : Run(c)

\* The user decides: the head of the queue, or any response.  The final
\* status a response decision gives its flow follows in a step of its own.
DecideRequest ==
  /\ \E f \in Flows, verdict \in Verdicts :
       SetRequestDecision([flow |-> f, stage |-> "request", verdict |-> verdict])
  /\ UNCHANGED <<hook, wire, holder, inflight>>

DecideResponse ==
  /\ Cardinality(inflight) < MaxInFlight
  /\ \E f \in Flows, verdict \in {"forward", "drop"} :
       /\ SetResponseDecision([flow |-> f, stage |-> "response", verdict |-> verdict])
       /\ inflight' = inflight \cup
            {[op |-> IF verdict = "drop" THEN "mark_dropped" ELSE "complete_flow", flow |-> f]}
  /\ UNCHANGED <<hook, wire, holder>>

Clear ==
  /\ Clears
  /\ ClearHistory
  /\ UNCHANGED <<hook, wire, holder, inflight>>
-----------------------------------------------------------------------------
Acquire(f) == LockRequest(f) \/ LockResponse(f)
Deadline(f) == RequestDeadline(f) \/ ResponseDeadline(f)
Work(f) ==
  \/ Upsert(f) \/ Intercept(f) \/ Pass(f)
  \/ Poll(f, "request") \/ TakeRequest(f) \/ LoseTaken(f) \/ ActOnRequest(f) \/ MarkDropped(f)
  \/ Attach(f) \/ Poll(f, "response") \/ TakeResponse(f) \/ Complete(f)
  \/ Retry(f)
Outside(f) == Ignore(f) \/ Capture(f) \/ Answer(f) \/ NoAnswer(f)

Step(f) == Acquire(f) \/ Deadline(f) \/ Work(f) \/ Outside(f)

User == DecideRequest \/ DecideResponse \/ Clear

Next == RunInFlight \/ User \/ \E f \in Flows : Step(f)

Spec == Init /\ [][Next]_vars

\* The proxy's event loop runs its hooks, asyncio.Lock wakes its waiters in
\* the order in which they came, and the clock reaches every deadline.
FairSpec ==
  Spec /\ \A f \in Flows : WF_vars(Work(f)) /\ SF_vars(Acquire(f)) /\ SF_vars(Deadline(f))
-----------------------------------------------------------------------------
TypeOK ==
  /\ status \in [Flows -> Status]
  /\ queue \in Seq(Flows)
  /\ decisions \subseteq Decision
  /\ hook \in [Flows -> Hook]
  /\ wire \in [Flows -> Wire]
  /\ holder \in Flows \cup {NoOne}
  /\ inflight \subseteq InFlight

\* Interception is sequential: of all the requests and responses, at most one
\* is polled for or acted upon at a time, whatever calls fail.
Intercepting(f) == hook[f].pc \in Takes \cup {"pop_head"}
OneIntercepted == \A f, g \in Flows : Intercepting(f) /\ Intercepting(g) => f = g

\* A flow whose response went to the client is not left in the queue, where it
\* would hold back the flows behind it (while no call of the proxy is lost).
DeliveredNotQueued ==
  \A f \in Flows : At(f, "done") /\ wire[f] = "delivered" => f \notin Elems(queue)

\* A held request can still be decided: its flow is queued, or its decision is
\* stored, or a response decision has ended it already (while no call of the
\* proxy is lost and history is not cleared).
NobodyWaitsInVain ==
  \A f \in Flows : At(f, "take_request_decision") =>
    f \in Elems(queue) \/ Stored(f, "request") # {} \/ status[f] \in Final

\* Every hook ends: each intercepted request is sent or killed, each response
\* delivered or killed, whatever the user does and whatever calls fail.
HooksEnd ==
  \A f \in Flows :
    /\ At(f, "upsert_flow") ~> hook[f].pc \in {"upstream", "done"}
    /\ At(f, "attach_response") ~> At(f, "done")
=============================================================================
