--------------------------- MODULE PipelineProofs ---------------------------
(***************************************************************************)
(* The pipeline intercepts one exchange at a time, for every set of flows, *)
(* any number of retries and of requests still in flight, and whatever     *)
(* calls are lost.  The inductive invariant says why: a hook that polls    *)
(* for a decision, or is about to act on one, owns the sequential lock.    *)
(* The second part assumes that no call is lost; its last theorem is about *)
(* the decisions handed out (Handed).                                      *)
(***************************************************************************)
EXTENDS Handed, OrderedMapsProofs

ServiceInv ==
  /\ status \in [Flows -> Status]
  /\ queue \in Seq(Flows)
  /\ decisions \subseteq Decision

HookInv ==
  /\ hook \in [Flows -> Hook]
  /\ wire \in [Flows -> Wire]
  /\ holder \in Flows \cup {NoOne}
  /\ inflight \subseteq InFlight

SerialInv == \A f \in Flows : Intercepting(f) => holder = f

IInv == ServiceInv /\ HookInv /\ SerialInv

PCs == Calls \cup {"new", "request_lock", "upstream", "response_lock", "done"}

\* f's hook is at pc now, and no other hook moved.
MovesTo(f, pc) ==
  /\ hook' \in [Flows -> Hook]
  /\ hook'[f].pc = pc
  /\ \A g \in Flows \ {f} : hook'[g] = hook[g]
-----------------------------------------------------------------------------
LEMMA GotoMoves ==
  ASSUME HookInv, NEW f \in Flows, NEW pc \in PCs, Goto(f, pc)
  PROVE  MovesTo(f, pc)
<1>1. 0 \in 0..MaxRetry
  BY MaxRetryAssumption
<1>2. hook[f] \in Hook
  BY DEF HookInv
<1>3. [hook[f] EXCEPT !.pc = pc, !.tries = 0] \in Hook
  BY <1>1, <1>2 DEF Hook, PCs
<1>4. hook' = [hook EXCEPT ![f] = [hook[f] EXCEPT !.pc = pc, !.tries = 0]]
  BY DEF Goto
<1> QED
  BY <1>2, <1>3, <1>4 DEF MovesTo, HookInv, Hook

\* Every operation of the API keeps its state well typed.
LEMMA ServiceSteps ==
  ASSUME ServiceInv, NEW f \in Flows
  PROVE  /\ UpsertRequest(f) => ServiceInv'
         /\ AttachResponse(f) => ServiceInv'
         /\ \A s \in Final : SetFinalStatus(f, s) => ServiceInv'
         /\ PopHead(f) => ServiceInv'
         /\ ClearHistory => ServiceInv'
<1>1. UpsertRequest(f) => ServiceInv'
  BY AppendToQueue DEF ServiceInv, UpsertRequest, Status
<1>2. AttachResponse(f) => ServiceInv'
  BY DEF ServiceInv, AttachResponse, Status
<1>3. ASSUME NEW s \in Final, SetFinalStatus(f, s)
      PROVE  ServiceInv'
  BY <1>3, WithoutProperties DEF ServiceInv, SetFinalStatus, Status, service
<1>4. PopHead(f) => ServiceInv'
  BY TailProperties DEF ServiceInv, PopHead, IsHead
<1>5. ClearHistory => ServiceInv'
  BY DEF ServiceInv, ClearHistory, Status
<1> QED
  BY <1>1, <1>2, <1>3, <1>4, <1>5

LEMMA DecisionSteps ==
  ASSUME ServiceInv, NEW d \in Decision
  PROVE  /\ SetRequestDecision(d) => ServiceInv'
         /\ SetResponseDecision(d) => ServiceInv'
         /\ TakeDecision(d) => ServiceInv'
<1>1. Replacing(d) \subseteq Decision
  BY DEF ServiceInv, Replacing
<1>2. d.flow \in Flows
  BY DEF Decision
<1>3. SetRequestDecision(d) => ServiceInv'
  BY <1>1, <1>2, TailProperties DEF ServiceInv, SetRequestDecision, IsHead, Status, Final
<1> QED
  BY <1>1, <1>3 DEF ServiceInv, SetResponseDecision, TakeDecision

LEMMA StoredDecisions ==
  ASSUME ServiceInv, NEW f, NEW stage
  PROVE  Stored(f, stage) \subseteq Decision
  BY DEF ServiceInv, Stored

LEMMA Served ==
  ASSUME ServiceInv, NEW f \in Flows, NEW op, Serve(op, f)
  PROVE  ServiceInv'
  BY ServiceSteps DEF Serve, Final

LEMMA SameService ==
  ASSUME ServiceInv, UNCHANGED service
  PROVE  ServiceInv'
  BY DEF ServiceInv, service

\* A call that ends leaves the API well typed, and what it may still run.
LEMMA CallEnds ==
  ASSUME IInv, NEW f \in Flows, NEW op \in VoidCalls \cup Takes,
         Call(op, f) \/ Unanswered(op, f)
  PROVE  ServiceInv' /\ inflight' \subseteq InFlight
<1>1. [op |-> op, flow |-> f] \in InFlight
  BY DEF InFlight
<1>2. CASE Unanswered(op, f)
  BY <1>1, <1>2, SameService DEF Unanswered, IInv, HookInv
<1>3. CASE Call(op, f)
  <2>1. CASE Serve(op, f) /\ UNCHANGED inflight
    BY <2>1, Served DEF IInv, HookInv
  <2>2. CASE GivesUp(op, f)
    BY <2>2, <1>2 DEF GivesUp
  <2> QED
    BY <1>3, <2>1, <2>2 DEF Call
<1> QED
  BY <1>2, <1>3

\* A move of one hook keeps interception serial if the hook enters the polling
\* states only with the lock, and takes the lock from no one.
LEMMA StaysSerial ==
  ASSUME IInv, NEW f \in Flows, NEW pc \in PCs, MovesTo(f, pc),
         pc \in Takes \cup {"pop_head"} => holder' = f,
         holder \in {f, NoOne} \/ holder' = holder
  PROVE  SerialInv'
<1> SUFFICES ASSUME NEW g \in Flows, hook'[g].pc \in Takes \cup {"pop_head"}
             PROVE  holder' = g
  BY DEF SerialInv, Intercepting
<1>1. CASE g = f
  BY <1>1 DEF MovesTo
<1>2. CASE g # f
  <2>1. holder = g
    BY <1>2 DEF MovesTo, IInv, SerialInv, Intercepting
  <2> QED
    BY <1>2, <2>1, NoOneAssumption
<1> QED
  BY <1>1, <1>2
-----------------------------------------------------------------------------
\* The step facts an action establishes when it moves f's hook to pc.
Settles(f, pc) ==
  /\ ServiceInv' /\ inflight' \subseteq InFlight
  /\ MovesTo(f, pc)
  /\ wire' = wire \/ \E w \in Wire : Set(f, w)
  /\ pc \in Takes \cup {"pop_head"} => holder' = f
  /\ holder' = holder \/ Lock(f) \/ Unlock(f)

LEMMA SettlesInv ==
  ASSUME IInv, NEW f \in Flows, NEW pc \in PCs, Settles(f, pc)
  PROVE  IInv'
<1>1. holder' \in Flows \cup {NoOne}
  BY DEF Settles, Lock, Unlock, IInv, HookInv
<1>2. wire' \in [Flows -> Wire]
  BY DEF Settles, Set, IInv, HookInv
<1>3. holder \in {f, NoOne} \/ holder' = holder
  BY DEF Settles, Lock, Unlock
<1>4. SerialInv'
  BY <1>3, StaysSerial DEF Settles
<1> QED
  BY <1>1, <1>2, <1>4 DEF Settles, MovesTo, IInv, HookInv

\* A hook in a polling state owns the lock.
LEMMA Owner ==
  ASSUME IInv, NEW f \in Flows, Intercepting(f)
  PROVE  holder = f
  BY DEF IInv, SerialInv

LEMMA InitInv == Init => IInv
<1> SUFFICES ASSUME Init PROVE IInv
  OBVIOUS
<1>1. [pc |-> "new", tries |-> 0, took |-> {}, inspect |-> FALSE] \in Hook
  BY MaxRetryAssumption DEF Hook
<1>2. ServiceInv
  BY DEF Init, ServiceInit, ServiceInv, Status
<1>3. HookInv
  BY <1>1 DEF Init, HookInv, Wire
<1>4. SerialInv
  BY DEF Init, SerialInv, Intercepting, Takes
<1> QED
  BY <1>2, <1>3, <1>4 DEF IInv

\* The hooks' steps up to the decision on the request.
LEMMA RequestSteps ==
  ASSUME IInv, NEW f \in Flows,
         \/ Ignore(f) \/ Capture(f) \/ Upsert(f) \/ Intercept(f) \/ Pass(f)
         \/ LockRequest(f) \/ RequestDeadline(f) \/ MarkDropped(f)
  PROVE  IInv'
<1> USE DEF Calls, VoidCalls, Takes
<1>1. CASE Ignore(f)
  BY <1>1, GotoMoves, SameService, SettlesInv DEF Ignore, Settles, Wire, PCs, IInv, HookInv
<1>2. CASE Capture(f)
  BY <1>2, GotoMoves, SameService, SettlesInv DEF Capture, Settles, PCs, IInv, HookInv
<1>3. CASE Upsert(f)
  BY <1>3, GotoMoves, CallEnds, SettlesInv DEF Upsert, Settles, PCs, IInv, HookInv
<1>4. CASE Intercept(f)
  BY <1>4, GotoMoves, SameService, SettlesInv DEF Intercept, Settles, PCs, IInv, HookInv
<1>5. CASE Pass(f)
  BY <1>5, GotoMoves, SameService, SettlesInv DEF Pass, Sent, Settles, Wire, PCs, IInv, HookInv
<1>6. CASE LockRequest(f)
  BY <1>6, GotoMoves, SameService, SettlesInv DEF LockRequest, Lock, Settles, PCs, IInv, HookInv
<1>7. CASE RequestDeadline(f)
  BY <1>7, GotoMoves, SameService, SettlesInv
     DEF RequestDeadline, Sent, Settles, Wire, PCs, IInv, HookInv
<1>8. CASE MarkDropped(f)
  BY <1>8, GotoMoves, CallEnds, SettlesInv DEF MarkDropped, Settles, PCs, IInv, HookInv
<1> QED
  BY <1>1, <1>2, <1>3, <1>4, <1>5, <1>6, <1>7, <1>8

\* The hooks' steps that poll, take a decision, or send a call again.
LEMMA PollSteps ==
  ASSUME IInv, NEW f \in Flows,
         \/ Poll(f, "request") \/ Poll(f, "response") \/ TakeRequest(f) \/ LoseTaken(f)
         \/ ActOnRequest(f) \/ Retry(f)
  PROVE  IInv'
<1> USE DEF Calls, VoidCalls, Takes
<1> hook[f] \in Hook /\ f \in DOMAIN hook
  BY DEF IInv, HookInv
<1>1. ASSUME NEW stage \in {"request", "response"}, Poll(f, stage)
      PROVE  IInv'
  <2> DEFINE op == IF stage = "request" THEN "take_request_decision"
                   ELSE "take_response_decision"
  <2>1. ServiceInv' /\ inflight' \subseteq InFlight
    BY <1>1, CallEnds, SameService DEF Poll, GivesUp, IInv, HookInv
  <2>2. holder = f
    BY <1>1, Owner DEF Poll, At, Intercepting
  <2>3. MovesTo(f, op) /\ UNCHANGED <<wire, holder>>
    BY <1>1, GotoMoves DEF Poll, PCs, IInv, HookInv
  <2>4. Settles(f, op) /\ op \in PCs
    BY <2>1, <2>2, <2>3 DEF Settles, PCs
  <2> QED
    BY <2>4, SettlesInv
<1>2. CASE TakeRequest(f)
  <2>1. PICK d \in Stored(f, "request") :
          /\ TakeDecision(d)
          /\ hook' = [hook EXCEPT ![f].pc = "pop_head", ![f].took = {d}]
    BY <1>2 DEF TakeRequest
  <2>2. d \in Decision
    BY StoredDecisions DEF IInv
  <2>3. [hook[f] EXCEPT !.pc = "pop_head", !.took = {d}] \in Hook
    BY <2>2 DEF Hook
  <2>4. MovesTo(f, "pop_head")
    BY <2>1, <2>3 DEF MovesTo, IInv, HookInv, Hook
  <2>5. holder' = f
    BY <1>2, Owner DEF TakeRequest, At, Intercepting
  <2>6. Settles(f, "pop_head")
    BY <1>2, <2>1, <2>2, <2>4, <2>5, DecisionSteps
       DEF TakeRequest, Settles, IInv, HookInv
  <2> QED
    BY <2>6, SettlesInv DEF PCs
<1>3. CASE LoseTaken(f)
  <2> DEFINE n == IF hook[f].tries = MaxRetry THEN 0 ELSE hook[f].tries + 1
             h == [hook[f] EXCEPT !.pc = "take_request_decision", !.took = {}, !.tries = n]
  <2>1. hook[f].tries \in 0..MaxRetry
    BY DEF Hook
  <2>2. n \in 0..MaxRetry
    BY <2>1, MaxRetryAssumption
  <2>3. h \in Hook
    BY <2>2 DEF Hook
  <2>4. hook' = [hook EXCEPT ![f] = h]
    BY <1>3 DEF LoseTaken
  <2>5. MovesTo(f, "take_request_decision")
    BY <2>3, <2>4 DEF MovesTo, IInv, HookInv, Hook
  <2>6. holder' = f
    BY <1>3, Owner DEF LoseTaken, At, Intercepting
  <2>7. inflight' \subseteq InFlight
    BY <1>3 DEF LoseTaken, InFlight, IInv, HookInv
  <2>8. Settles(f, "take_request_decision")
    BY <1>3, <2>5, <2>6, <2>7, SameService DEF LoseTaken, Settles, IInv
  <2> QED
    BY <2>8, SettlesInv DEF PCs
<1>4. CASE ActOnRequest(f)
  <2>1. ServiceInv' /\ inflight' \subseteq InFlight
    BY <1>4, ServiceSteps DEF ActOnRequest, IInv, HookInv
  <2>2. PICK d \in hook[f].took :
          \/ /\ hook' = [hook EXCEPT ![f].pc = "mark_dropped", ![f].tries = 0, ![f].took = {}]
             /\ Set(f, "killed") /\ UNCHANGED holder
          \/ /\ \E noted \in {FALSE, d.verdict = "inspect"} :
                  hook' = [hook EXCEPT ![f].pc = "upstream", ![f].tries = 0, ![f].took = {},
                                       ![f].inspect = noted]
             /\ Set(f, "sent") /\ Unlock(f)
    BY <1>4 DEF ActOnRequest
  <2>3. 0 \in 0..MaxRetry
    BY MaxRetryAssumption
  <2>4. CASE Set(f, "killed")
                /\ hook' = [hook EXCEPT ![f].pc = "mark_dropped", ![f].tries = 0, ![f].took = {}]
                /\ UNCHANGED holder
    <3>1. [hook[f] EXCEPT !.pc = "mark_dropped", !.tries = 0, !.took = {}] \in Hook
      BY <2>3 DEF Hook
    <3>2. MovesTo(f, "mark_dropped")
      BY <2>4, <3>1 DEF MovesTo, IInv, HookInv, Hook
    <3>3. Settles(f, "mark_dropped")
      BY <2>1, <2>4, <3>2 DEF Settles, Wire
    <3> QED
      BY <3>3, SettlesInv DEF PCs
  <2>5. ASSUME NEW noted \in BOOLEAN, Set(f, "sent"), Unlock(f),
               hook' = [hook EXCEPT ![f].pc = "upstream", ![f].tries = 0, ![f].took = {},
                                    ![f].inspect = noted]
        PROVE  IInv'
    <3>1. [hook[f] EXCEPT !.pc = "upstream", !.tries = 0, !.took = {}, !.inspect = noted] \in Hook
      BY <2>3 DEF Hook
    <3>2. MovesTo(f, "upstream")
      BY <2>5, <3>1 DEF MovesTo, IInv, HookInv, Hook
    <3>3. Settles(f, "upstream")
      BY <2>1, <2>5, <3>2 DEF Settles, Wire
    <3> QED
      BY <3>3, SettlesInv DEF PCs
  <2> QED
    BY <2>2, <2>4, <2>5
<1>5. CASE Retry(f)
  <2>1. PICK op \in VoidCalls \cup Takes :
          /\ At(f, op) /\ hook[f].tries < MaxRetry /\ Unanswered(op, f)
          /\ hook' = [hook EXCEPT ![f].tries = @ + 1]
    BY <1>5 DEF Retry
  <2>2. hook[f].tries + 1 \in 0..MaxRetry
    BY <2>1, MaxRetryAssumption DEF Hook
  <2>3. [hook[f] EXCEPT !.tries = hook[f].tries + 1] \in Hook
    BY <2>2 DEF Hook
  <2>4. MovesTo(f, op)
    BY <2>1, <2>3 DEF MovesTo, At, IInv, HookInv, Hook
  <2>5. op \in Takes => holder' = f
    BY <1>5, <2>1, Owner DEF Retry, At, Intercepting
  <2>6. Settles(f, op)
    BY <1>5, <2>1, <2>4, <2>5, CallEnds DEF Retry, Settles
  <2> QED
    BY <2>6, SettlesInv DEF PCs
<1> QED
  BY <1>1, <1>2, <1>3, <1>4, <1>5

\* The hooks' steps from the server's answer on.
LEMMA ResponseSteps ==
  ASSUME IInv, NEW f \in Flows,
         \/ Answer(f) \/ NoAnswer(f) \/ Attach(f) \/ LockResponse(f) \/ TakeResponse(f)
         \/ ResponseDeadline(f) \/ Complete(f)
  PROVE  IInv'
<1> USE DEF Calls, VoidCalls, Takes
<1>1. CASE Answer(f)
  BY <1>1, GotoMoves, SameService, SettlesInv DEF Answer, Settles, PCs, IInv, HookInv
<1>2. CASE NoAnswer(f)
  BY <1>2, GotoMoves, SameService, SettlesInv DEF NoAnswer, Settles, PCs, IInv, HookInv
<1>3. CASE Attach(f)
  <2> DEFINE pc == IF hook[f].inspect THEN "response_lock" ELSE "complete_flow"
  <2>1. pc \in PCs \ (Takes \cup {"pop_head"})
    BY DEF PCs
  <2>2. Settles(f, pc)
    BY <1>3, <2>1, GotoMoves, CallEnds DEF Attach, Settles, IInv
  <2> QED
    BY <2>1, <2>2, SettlesInv
<1>4. CASE LockResponse(f)
  BY <1>4, GotoMoves, SameService, SettlesInv DEF LockResponse, Lock, Settles, PCs, IInv, HookInv
<1>5. CASE TakeResponse(f)
  <2>1. PICK d \in Stored(f, "response") :
          /\ TakeDecision(d)
          /\ \/ Goto(f, "mark_dropped") /\ Set(f, "killed") /\ UNCHANGED holder
             \/ Goto(f, "complete_flow") /\ UNCHANGED <<wire, holder>>
             \/ Delivered(f)
    BY <1>5 DEF TakeResponse
  <2>2. ServiceInv' /\ inflight' \subseteq InFlight
    BY <1>5, <2>1, StoredDecisions, DecisionSteps DEF TakeResponse, IInv, HookInv
  <2> QED
    BY <2>1, <2>2, GotoMoves, SettlesInv DEF Delivered, Settles, Wire, PCs, IInv
<1>6. CASE ResponseDeadline(f)
  BY <1>6, GotoMoves, SameService, SettlesInv
     DEF ResponseDeadline, Delivered, Settles, Wire, PCs, IInv, HookInv
<1>7. CASE Complete(f)
  BY <1>7, GotoMoves, CallEnds, SettlesInv DEF Complete, Delivered, Settles, Wire, PCs, IInv
<1> QED
  BY <1>1, <1>2, <1>3, <1>4, <1>5, <1>6, <1>7

\* The steps of the API and of the user move no hook.
LEMMA OtherSteps ==
  ASSUME IInv, RunInFlight \/ User
  PROVE  IInv'
<1>1. ServiceInv' /\ inflight' \subseteq InFlight
  <2>1. ASSUME NEW c \in inflight, Run(c)
        PROVE  ServiceInv' /\ inflight' \subseteq InFlight
    <3>1. c.flow \in Flows /\ [op |-> "pop_head", flow |-> c.flow] \in InFlight
      BY DEF IInv, HookInv, InFlight
    <3>2. ServiceInv'
      BY <2>1, <3>1, Served, ServiceSteps, StoredDecisions, DecisionSteps, SameService
         DEF Run, IInv
    <3>3. inflight' \subseteq InFlight
      BY <2>1, <3>1 DEF Run, IInv, HookInv
    <3> QED
      BY <3>2, <3>3
  <2>2. CASE DecideRequest
    <3>1. PICK f \in Flows, verdict \in Verdicts :
            SetRequestDecision([flow |-> f, stage |-> "request", verdict |-> verdict])
      BY <2>2 DEF DecideRequest
    <3>2. [flow |-> f, stage |-> "request", verdict |-> verdict] \in Decision
      BY DEF Decision
    <3> QED
      BY <2>2, <3>1, <3>2, DecisionSteps DEF DecideRequest, IInv, HookInv
  <2>3. CASE DecideResponse
    <3>1. PICK f \in Flows, verdict \in {"forward", "drop"} :
            /\ SetResponseDecision([flow |-> f, stage |-> "response", verdict |-> verdict])
            /\ inflight' = inflight \cup
                 {[op |-> IF verdict = "drop" THEN "mark_dropped" ELSE "complete_flow",
                   flow |-> f]}
      BY <2>3 DEF DecideResponse
    <3>2. [flow |-> f, stage |-> "response", verdict |-> verdict] \in Decision
      BY DEF Decision, Verdicts
    <3> QED
      BY <3>1, <3>2, DecisionSteps DEF IInv, HookInv, InFlight, VoidCalls
  <2>4. CASE Clear
    <3>1. CASE Flows = {}
      BY <2>4, <3>1 DEF Clear, ClearHistory, ServiceInv, IInv, HookInv
    <3>2. CASE Flows # {}
      BY <2>4, <3>2, ServiceSteps DEF Clear, IInv, HookInv
    <3> QED
      BY <3>1, <3>2
  <2> QED
    BY <2>1, <2>2, <2>3, <2>4 DEF RunInFlight, User
<1>2. UNCHANGED <<hook, wire, holder>>
  BY DEF RunInFlight, Run, User, DecideRequest, DecideResponse, Clear
<1> QED
  BY <1>1, <1>2 DEF IInv, HookInv, SerialInv, Intercepting

\* Every step of the proxy, of the API and of the user keeps the invariant.
THEOREM Inductive == IInv /\ [Next]_vars => IInv'
<1> SUFFICES ASSUME IInv, [Next]_vars PROVE IInv'
  OBVIOUS
<1>1. ASSUME NEW f \in Flows, Step(f)
      PROVE  IInv'
  BY <1>1, RequestSteps, PollSteps, ResponseSteps DEF Step, Acquire, Deadline, Work, Outside
<1>2. CASE RunInFlight \/ User
  BY <1>2, OtherSteps
<1>3. CASE UNCHANGED vars
  BY <1>3 DEF vars, service, IInv, ServiceInv, HookInv, SerialInv, Intercepting
<1> QED
  BY <1>1, <1>2, <1>3 DEF Next
-----------------------------------------------------------------------------
\* The state of the pipeline and of the API stays well typed.
THEOREM TypeCorrect == Spec => []TypeOK
<1>1. IInv => TypeOK
  BY DEF IInv, ServiceInv, HookInv, TypeOK
<1> QED
  BY <1>1, InitInv, Inductive, PTL DEF Spec

\* At most one request or response is being decided at a time, however many
\* calls are lost, sent again or run late.
THEOREM InterceptionIsSequential == Spec => []OneIntercepted
<1>1. IInv => OneIntercepted
  BY DEF IInv, SerialInv, OneIntercepted
<1> QED
  BY <1>1, InitInv, Inductive, PTL DEF Spec
-----------------------------------------------------------------------------
(***************************************************************************)
(* While no call of the proxy is lost: a held request can be decided, a    *)
(* delivered flow blocks no one, and a decision that was taken is acted    *)
(* upon.  The invariants below, beside IInv, follow a flow from its        *)
(* capture to its delivery.                                                *)
(***************************************************************************)
\* What the API runs on its own are the second steps of response decisions.
SecondSteps == {"mark_dropped", "complete_flow"}
OwnInv == \A c \in inflight : c.op \in SecondSteps

\* A flow is queued once, and has a record.
KnownInv == NoDuplicates(queue) /\ \A f \in Elems(queue) : status[f] # "unknown"

Decided(f) == Stored(f, "request") # {}

\* A flow that is or was the last decided is the head of the queue, if queued.
HeadInv ==
  \A f \in Flows : Decided(f) \/ At(f, "pop_head") => IsHead(f) \/ f \notin Elems(queue)

\* Nothing is known of a flow before its upsert.
Fresh == {"new", "upsert_flow"}
FreshInv ==
  \A f \in Flows :
    hook[f].pc \in Fresh =>
      /\ f \notin Elems(queue) /\ ~Decided(f)
      /\ ~hook[f].inspect /\ wire[f] # "delivered"

\* A flow whose response is inspected or delivered has left the queue.
Answering == {"response_lock", "take_response_decision"}
PassedInv ==
  \A f \in Flows :
    hook[f].inspect \/ hook[f].pc \in Answering \/ wire[f] = "delivered"
      => f \notin Elems(queue)

FlowInv == OwnInv /\ KnownInv /\ HeadInv /\ FreshInv /\ PassedInv

\* What a held request waits for: its turn in the queue, or the decision that
\* is stored; or it has ended.
Hope(f) == f \in Elems(queue) \/ Decided(f) \/ status[f] \in Final

\* From its upsert on a held request waits for nothing that cannot come.
Held == {"get_config", "request_lock", "take_request_decision"}
HeldInv ==
  \A f \in Flows :
    hook[f].pc \in Held => Hope(f)
-----------------------------------------------------------------------------
\* No flow but g enters the queue, no decision on a request but g's is stored,
\* heads stay heads for as long as they are queued.
Orderly(g) ==
  /\ KnownInv'
  /\ Elems(queue') \subseteq Elems(queue) \cup {g}
  /\ \A f \in Flows : f # g => Stored(f, "request")' \subseteq Stored(f, "request")
  /\ \A f \in Flows : IsHead(f) => IsHead(f)' \/ f \notin Elems(queue')

\* The first element of a queue stands before every other one, and only it
\* stands before all others.
LEMMA HeadFirst ==
  ASSUME NEW q \in Seq(Flows), q # <<>>, NEW f \in Elems(q), f # Head(q)
  PROVE  Before(q, Head(q), f)
<1>1. /\ DOMAIN q = 1..Len(q) /\ Len(q) \in Nat /\ Head(q) = q[1]
  BY LenProperties
<1>2. PICK i \in DOMAIN q : q[i] = f
  BY DEF Elems
<1>3. 1 \in DOMAIN q /\ 1 < i
  BY <1>1, <1>2
<1> QED BY <1>1, <1>2, <1>3 DEF Before

LEMMA NoneBeforeHead ==
  ASSUME NEW q \in Seq(Flows), NoDuplicates(q), NEW f, Before(q, f, Head(q)), q # <<>>
  PROVE  FALSE
<1>1. DOMAIN q = 1..Len(q) /\ Len(q) \in Nat /\ Head(q) = q[1]
  BY LenProperties
<1>2. PICK i, j \in DOMAIN q : i < j /\ q[j] = Head(q)
  BY DEF Before
<1>3. 1 \in DOMAIN q
  BY <1>1, <1>2
<1>4. j = 1
  BY <1>1, <1>2, <1>3 DEF NoDuplicates
<1> QED BY <1>1, <1>2, <1>4

LEMMA HeadInQueue ==
  ASSUME NEW q \in Seq(Flows), q # <<>>
  PROVE  Head(q) \in Elems(q)
  BY LenProperties DEF Elems

\* Removing one flow leaves the head of the others where it is.
LEMMA WithoutKeepsHead ==
  ASSUME NEW q \in Seq(Flows), NoDuplicates(q), q # <<>>, NEW x, Head(q) # x
  PROVE  Without(q, x) # <<>> /\ Head(Without(q, x)) = Head(q)
<1> DEFINE w == Without(q, x)
<1>1. /\ w \in Seq(Flows) /\ Elems(w) = Elems(q) \ {x} /\ NoDuplicates(w)
      /\ \A a, b : a # x /\ b # x /\ Before(q, a, b) => Before(w, a, b)
  BY WithoutProperties
<1> HIDE DEF w
<1>2. Head(q) \in Elems(w)
  BY <1>1, HeadInQueue
<1>3. w # <<>>
  BY <1>2 DEF Elems
<1>4. Head(w) \in Elems(q) /\ Head(w) # x
  BY <1>1, <1>3, HeadInQueue
<1>5. Head(w) # Head(q) => Before(w, Head(q), Head(w))
  BY <1>1, <1>4, HeadFirst
<1>6. Head(w) = Head(q)
  BY <1>1, <1>3, <1>5, NoneBeforeHead
<1> QED BY <1>3, <1>6 DEF w
-----------------------------------------------------------------------------
\* Each operation of the API is orderly.
LEMMA UpsertOrderly ==
  ASSUME ServiceInv, KnownInv, NEW f \in Flows, UpsertRequest(f)
  PROVE  /\ Orderly(f) /\ f \in Elems(queue')
         /\ \A g \in Flows : Stored(g, "request")' = Stored(g, "request")
<1>1. status' \in [Flows -> Status] /\ status'[f] = "pending_request"
      /\ \A g \in Flows : g # f => status'[g] = status[g]
  BY DEF UpsertRequest, ServiceInv, Status
<1>2. \A g : Stored(g, "request")' = Stored(g, "request")
  BY DEF UpsertRequest, Stored
<1>3. queue \in Seq(Flows) /\ NoDuplicates(queue)
  BY DEF ServiceInv, KnownInv
<1>4. /\ NoDuplicates(queue') /\ Elems(queue') = Elems(queue) \cup {f}
      /\ \A g : IsHead(g) => IsHead(g)'
  <2>1. CASE f \in Elems(queue)
    <3>1. queue' = queue
      BY <2>1 DEF UpsertRequest
    <3> QED BY <1>3, <2>1, <3>1 DEF IsHead
  <2>2. CASE f \notin Elems(queue)
    <3>1. queue' = Append(queue, f)
      BY <2>2 DEF UpsertRequest
    <3>2. NoDuplicates(queue') /\ Elems(queue') = Elems(queue) \cup {f}
      BY <1>3, <2>2, <3>1, AppendToQueue
    <3>3. queue # <<>> => queue' # <<>> /\ Head(queue') = Head(queue)
      BY <1>3, <3>1
    <3> QED BY <3>2, <3>3 DEF IsHead
  <2> QED BY <2>1, <2>2
<1>5. KnownInv'
  <2>1. Elems(queue) \subseteq Flows
    BY <1>3, LenProperties, ElementOfSeq DEF Elems
  <2> QED BY <1>1, <1>4, <2>1 DEF KnownInv
<1> QED BY <1>2, <1>4, <1>5 DEF Orderly

LEMMA FinalOrderly ==
  ASSUME ServiceInv, KnownInv, NEW f \in Flows, NEW s \in Final, NEW x, SetFinalStatus(f, s)
  PROVE  /\ Orderly(x) /\ f \notin Elems(queue') /\ Elems(queue') \subseteq Elems(queue)
         /\ \A g \in Flows : Stored(g, "request")' = Stored(g, "request")
<1>0. queue \in Seq(Flows) /\ NoDuplicates(queue) /\ Elems(queue) \subseteq Flows
  BY LenProperties, ElementOfSeq DEF ServiceInv, KnownInv, Elems
<1>1. CASE UNCHANGED service /\ status[f] = "unknown"
  <2>1. UNCHANGED <<status, queue, decisions>>
    BY <1>1 DEF service
  <2> QED BY <1>1, <2>1 DEF KnownInv, Orderly, Stored, IsHead, Elems, NoDuplicates
<1>2. CASE status[f] # "unknown" /\ status' = [status EXCEPT ![f] = s]
           /\ queue' = Without(queue, f) /\ UNCHANGED decisions
  <2>1. Elems(queue') = Elems(queue) \ {f} /\ NoDuplicates(queue')
    BY <1>0, <1>2, WithoutProperties
  <2>2. \A g : Stored(g, "request")' = Stored(g, "request")
    BY <1>2 DEF Stored
  <2>3. \A g : IsHead(g) => IsHead(g)' \/ g \notin Elems(queue')
    BY <1>0, <1>2, <2>1, WithoutKeepsHead DEF IsHead
  <2>4. KnownInv'
    BY <1>0, <1>2, <2>1 DEF KnownInv, ServiceInv
  <2> QED BY <2>1, <2>2, <2>3, <2>4 DEF Orderly
<1> QED BY <1>1, <1>2 DEF SetFinalStatus

LEMMA PopOrderly ==
  ASSUME ServiceInv, KnownInv, NEW f \in Flows, NEW x, PopHead(f)
  PROVE  /\ Orderly(x) /\ Elems(queue') \subseteq Elems(queue) /\ Elems(queue) \subseteq Elems(queue') \cup {f}
         /\ IsHead(f) => f \notin Elems(queue')
         /\ UNCHANGED status
         /\ \A g \in Flows : Stored(g, "request")' = Stored(g, "request")
<1>1. /\ UNCHANGED <<status, decisions>>
      /\ \A g : Stored(g, "request")' = Stored(g, "request")
  BY DEF PopHead, Stored
<1>2. queue \in Seq(Flows) /\ NoDuplicates(queue)
  BY DEF ServiceInv, KnownInv
<1>3. CASE IsHead(f)
  <2>1. queue # <<>> /\ Head(queue) = f /\ queue' = Tail(queue)
    BY <1>3 DEF PopHead, IsHead
  <2>2. /\ Elems(queue) = Elems(queue') \cup {f} /\ NoDuplicates(queue')
        /\ f \notin Elems(queue')
    BY <1>2, <2>1, TailProperties
  <2>3. KnownInv'
    BY <1>1, <2>2 DEF KnownInv
  <2> QED BY <1>1, <2>1, <2>2, <2>3 DEF Orderly, IsHead
<1>4. CASE ~IsHead(f)
  <2>1. queue' = queue
    BY <1>4 DEF PopHead
  <2> QED BY <1>1, <1>4, <2>1 DEF Orderly, KnownInv, IsHead, Elems, NoDuplicates
<1> QED BY <1>3, <1>4

\* Operations that leave the queue, and the known flows, alone.
LEMMA QueueAlone ==
  ASSUME KnownInv, UNCHANGED queue, NEW x,
         \A f \in Flows : f # x => Stored(f, "request")' \subseteq Stored(f, "request"),
         \A f \in Elems(queue) : status'[f] # "unknown"
  PROVE  Orderly(x)
  BY DEF Orderly, KnownInv, IsHead, Elems, NoDuplicates
-----------------------------------------------------------------------------
\* Nothing of what follows a lost answer happens.
LEMMA NothingLost ==
  ASSUME ~Lossy
  PROVE  /\ \A op, f : ~Unanswered(op, f) /\ ~GivesUp(op, f)
         /\ \A f : ~LoseTaken(f) /\ ~Retry(f)
  BY DEF Unanswered, GivesUp, LoseTaken, Retry

LEMMA CallServed ==
  ASSUME ~Lossy, NEW op, NEW f, Call(op, f)
  PROVE  At(f, op) /\ Serve(op, f) /\ UNCHANGED inflight
  BY NothingLost DEF Call

LEMMA GotoKeepsInspect ==
  ASSUME HookInv, NEW f \in Flows, NEW pc \in PCs, Goto(f, pc)
  PROVE  MovesTo(f, pc) /\ hook'[f].inspect = hook[f].inspect
<1>1. hook'[f] = [hook[f] EXCEPT !.pc = pc, !.tries = 0] /\ hook[f] \in Hook
  BY DEF Goto, HookInv
<1>2. hook'[f].inspect = hook[f].inspect
  BY <1>1 DEF Hook
<1> QED BY <1>2, GotoMoves

\* A step of f's hook, by what it must establish for f.
LEMMA HookFrame ==
  ASSUME IInv, FlowInv, NEW f \in Flows, NEW pc, MovesTo(f, pc), Orderly(f), OwnInv',
         \A g \in Flows : g # f => wire'[g] = wire[g],
         Decided(f)' \/ pc = "pop_head" => IsHead(f)' \/ f \notin Elems(queue'),
         pc \in Fresh => /\ f \notin Elems(queue') /\ ~Decided(f)'
                         /\ ~hook'[f].inspect /\ wire'[f] # "delivered",
         hook'[f].inspect \/ pc \in Answering \/ wire'[f] = "delivered"
           => f \notin Elems(queue')
  PROVE  FlowInv'
<1>1. KnownInv'
  BY DEF Orderly
<1>2. ASSUME NEW g \in Flows, g # f
      PROVE  /\ hook'[g] = hook[g] /\ wire'[g] = wire[g]
             /\ g \in Elems(queue') => g \in Elems(queue)
             /\ Decided(g)' => Decided(g)
             /\ IsHead(g) => IsHead(g)' \/ g \notin Elems(queue')
  BY <1>2 DEF MovesTo, Orderly, Decided
<1>3. HeadInv'
  <2>1. SUFFICES ASSUME NEW g \in Flows, Decided(g)' \/ At(g, "pop_head")'
                 PROVE  IsHead(g)' \/ g \notin Elems(queue')
    BY DEF HeadInv, Elems
  <2>2. CASE g = f
    BY <2>1, <2>2 DEF At, MovesTo
  <2>3. CASE g # f
    BY <1>2, <2>1, <2>3 DEF At, FlowInv, HeadInv
  <2> QED BY <2>2, <2>3
<1>4. FreshInv'
  <2>1. SUFFICES ASSUME NEW g \in Flows, hook'[g].pc \in Fresh
                 PROVE  /\ g \notin Elems(queue') /\ ~Decided(g)'
                        /\ ~hook'[g].inspect /\ wire'[g] # "delivered"
    BY DEF FreshInv, Elems, Fresh
  <2>2. CASE g = f
    BY <2>1, <2>2 DEF MovesTo
  <2>3. CASE g # f
    BY <1>2, <2>1, <2>3 DEF FlowInv, FreshInv
  <2> QED BY <2>2, <2>3
<1>5. PassedInv'
  <2>1. SUFFICES ASSUME NEW g \in Flows,
                        hook'[g].inspect \/ hook'[g].pc \in Answering \/ wire'[g] = "delivered"
                 PROVE  g \notin Elems(queue')
    BY DEF PassedInv, Elems, Answering
  <2>2. CASE g = f
    BY <2>1, <2>2 DEF MovesTo
  <2>3. CASE g # f
    BY <1>2, <2>1, <2>3 DEF FlowInv, PassedInv
  <2> QED BY <2>2, <2>3
<1> QED BY <1>1, <1>3, <1>4, <1>5 DEF FlowInv

\* A step that neither queues, decides nor inspects anything.
LEMMA CalmStep ==
  ASSUME IInv, FlowInv, NEW f \in Flows, NEW pc, MovesTo(f, pc), Orderly(f), OwnInv',
         Elems(queue') \subseteq Elems(queue),
         Stored(f, "request")' \subseteq Stored(f, "request"),
         \A g \in Flows : g # f => wire'[g] = wire[g],
         hook'[f].inspect = hook[f].inspect,
         pc \notin Fresh \cup {"pop_head"},
         pc \in Answering => f \notin Elems(queue'),
         wire'[f] = "delivered" => wire[f] = "delivered" \/ f \notin Elems(queue')
  PROVE  FlowInv'
<1>1. Decided(f)' => IsHead(f)' \/ f \notin Elems(queue')
  BY DEF Decided, Orderly, FlowInv, HeadInv
<1>2. hook'[f].inspect \/ pc \in Answering \/ wire'[f] = "delivered" => f \notin Elems(queue')
  BY DEF FlowInv, PassedInv
<1> QED BY <1>1, <1>2, HookFrame

\* A step of a hook that calls nothing.
LEMMA LocalStep ==
  ASSUME IInv, FlowInv, NEW f \in Flows, NEW pc \in PCs, Goto(f, pc),
         UNCHANGED <<service, inflight>>,
         UNCHANGED wire \/ \E w \in Wire : Set(f, w) /\ (w = "delivered" => f \notin Elems(queue)),
         pc \notin Fresh \cup {"pop_head"},
         pc \in Answering => f \notin Elems(queue)
  PROVE  FlowInv'
<1>1. MovesTo(f, pc) /\ hook'[f].inspect = hook[f].inspect
  BY GotoKeepsInspect DEF IInv
<1>2. UNCHANGED <<status, queue, decisions>>
  BY DEF service
<1>3. Stored(f, "request")' = Stored(f, "request") /\ \A g : Stored(g, "request")' = Stored(g, "request")
  BY <1>2 DEF Stored
<1>4. Orderly(f)
  BY <1>2, <1>3, QueueAlone DEF FlowInv, KnownInv
<1>5. OwnInv'
  BY DEF FlowInv, OwnInv, SecondSteps
<1>6. /\ \A g \in Flows : g # f => wire'[g] = wire[g]
      /\ wire'[f] = "delivered" => wire[f] = "delivered" \/ f \notin Elems(queue)
  BY DEF Set, IInv, HookInv
<1>7. Elems(queue') = Elems(queue)
  BY <1>2
<1> QED BY <1>1, <1>3, <1>4, <1>5, <1>6, <1>7, CalmStep
-----------------------------------------------------------------------------
\* The hooks' steps that call nothing.
LEMMA LocalSteps ==
  ASSUME ~Lossy, IInv, FlowInv, NEW f \in Flows,
         \/ Ignore(f) \/ Intercept(f) \/ Pass(f) \/ LockRequest(f) \/ RequestDeadline(f)
         \/ Poll(f, "request") \/ Poll(f, "response") \/ Answer(f) \/ NoAnswer(f)
         \/ LockResponse(f) \/ ResponseDeadline(f)
  PROVE  FlowInv'
<1> USE DEF Calls, VoidCalls, Takes, Fresh, Answering
<1>1. CASE Ignore(f)
  <2>1. f \notin Elems(queue)
    BY <1>1 DEF Ignore, At, FlowInv, FreshInv
  <2> QED BY <1>1, <2>1, LocalStep DEF Ignore, PCs, Wire, service
<1>2. CASE Intercept(f)
  BY <1>2, LocalStep DEF Intercept, PCs
<1>3. CASE Pass(f)
  BY <1>3, LocalStep DEF Pass, Sent, PCs, Wire
<1>4. CASE LockRequest(f)
  BY <1>4, LocalStep DEF LockRequest, PCs
<1>5. CASE RequestDeadline(f)
  BY <1>5, LocalStep DEF RequestDeadline, Sent, PCs, Wire
<1>6. CASE Poll(f, "request")
  BY <1>6, NothingLost, LocalStep DEF Poll, PCs
<1>7. CASE Poll(f, "response")
  <2>1. f \notin Elems(queue)
    BY <1>7 DEF Poll, At, FlowInv, PassedInv
  <2> QED BY <1>7, <2>1, NothingLost, LocalStep DEF Poll, PCs
<1>8. CASE Answer(f)
  BY <1>8, LocalStep DEF Answer, PCs
<1>9. CASE NoAnswer(f)
  BY <1>9, LocalStep DEF NoAnswer, PCs
<1>10. CASE LockResponse(f)
  <2>1. f \notin Elems(queue)
    BY <1>10 DEF LockResponse, At, FlowInv, PassedInv
  <2> QED BY <1>10, <2>1, LocalStep DEF LockResponse, PCs
<1>11. CASE ResponseDeadline(f)
  <2>1. f \notin Elems(queue)
    BY <1>11 DEF ResponseDeadline, At, FlowInv, PassedInv
  <2> QED BY <1>11, <2>1, LocalStep DEF ResponseDeadline, Delivered, PCs, Wire
<1> QED BY <1>1, <1>2, <1>3, <1>4, <1>5, <1>6, <1>7, <1>8, <1>9, <1>10, <1>11

LEMMA OwnKept ==
  ASSUME FlowInv, inflight' \subseteq inflight
  PROVE  OwnInv'
  BY DEF FlowInv, OwnInv, SecondSteps

\* The request is captured, and its flow enters the queue.
LEMMA CaptureSteps ==
  ASSUME ~Lossy, IInv, FlowInv, NEW f \in Flows, Capture(f) \/ Upsert(f)
  PROVE  FlowInv'
<1> USE DEF Calls, VoidCalls, Takes, Fresh, Answering
<1>1. /\ f \notin Elems(queue) /\ ~Decided(f)
      /\ ~hook[f].inspect /\ wire[f] # "delivered"
  BY CallServed DEF Capture, Upsert, At, FlowInv, FreshInv
<1>2. CASE Capture(f)
  <2>1. MovesTo(f, "upsert_flow") /\ hook'[f].inspect = hook[f].inspect
    BY <1>2, GotoKeepsInspect DEF Capture, PCs, IInv
  <2>2. UNCHANGED <<status, queue, decisions, wire, inflight>>
    BY <1>2 DEF Capture, service
  <2>3. Orderly(f) /\ OwnInv'
    BY <2>2, QueueAlone, OwnKept DEF FlowInv, KnownInv, Stored
  <2>4. ~Decided(f)' /\ f \notin Elems(queue')
    BY <1>1, <2>2 DEF Decided, Stored
  <2> QED BY <1>1, <2>1, <2>2, <2>3, <2>4, HookFrame
<1>3. CASE Upsert(f)
  <2>1. MovesTo(f, "get_config") /\ hook'[f].inspect = hook[f].inspect
    BY <1>3, GotoKeepsInspect DEF Upsert, PCs, IInv
  <2>2. UpsertRequest(f) /\ UNCHANGED <<inflight, wire>>
    BY <1>3, CallServed DEF Upsert, Serve
  <2>3. Orderly(f) /\ Stored(f, "request")' = Stored(f, "request")
    BY <2>2, UpsertOrderly DEF IInv, FlowInv
  <2>4. ~Decided(f)'
    BY <1>1, <2>3 DEF Decided
  <2> QED BY <1>1, <2>1, <2>2, <2>3, <2>4, OwnKept, HookFrame
<1> QED BY <1>2, <1>3

\* The decision is taken while the flow is the head, and pops it.
LEMMA DecisionTaken ==
  ASSUME ~Lossy, IInv, FlowInv, NEW f \in Flows, TakeRequest(f) \/ ActOnRequest(f)
  PROVE  FlowInv'
<1> USE DEF Calls, VoidCalls, Takes, Fresh, Answering
<1> hook[f] \in Hook
  BY DEF IInv, HookInv
<1>0. OwnInv'
  BY OwnKept DEF TakeRequest, ActOnRequest
<1>1. CASE TakeRequest(f)
  <2>1. PICK d \in Stored(f, "request") :
          /\ TakeDecision(d)
          /\ hook' = [hook EXCEPT ![f].pc = "pop_head", ![f].took = {d}]
    BY <1>1 DEF TakeRequest
  <2>2. hook'[f].pc = "pop_head" /\ hook'[f].inspect = hook[f].inspect
    BY <2>1 DEF Hook, IInv, HookInv
  <2>3. MovesTo(f, "pop_head")
    <3>1. IInv'
      BY <1>1, PollSteps
    <3> QED BY <2>1, <2>2, <3>1 DEF MovesTo, IInv, HookInv
  <2>4. UNCHANGED <<status, queue, wire>> /\ \A g : Stored(g, "request")' \subseteq Stored(g, "request")
    BY <1>1, <2>1 DEF TakeRequest, TakeDecision, Stored
  <2>5. Orderly(f)
    BY <2>4, QueueAlone DEF FlowInv, KnownInv
  <2>6. IsHead(f)' \/ f \notin Elems(queue')
    BY <2>1, <2>4 DEF FlowInv, HeadInv, Decided, IsHead
  <2>7. hook'[f].inspect \/ wire'[f] = "delivered" => f \notin Elems(queue')
    BY <2>2, <2>4 DEF FlowInv, PassedInv
  <2> QED BY <1>0, <2>3, <2>4, <2>5, <2>6, <2>7, HookFrame
<1>2. CASE ActOnRequest(f)
  <2>1. At(f, "pop_head") /\ PopHead(f)
    BY <1>2 DEF ActOnRequest
  <2>2. Orderly(f) /\ f \notin Elems(queue')
    BY <2>1, PopOrderly DEF IInv, FlowInv, HeadInv
  <2>3. hook'[f].pc \in {"mark_dropped", "upstream"}
    BY <1>2 DEF ActOnRequest, IInv, HookInv, Hook
  <2>4. MovesTo(f, hook'[f].pc)
    <3>1. IInv'
      BY <1>2, PollSteps
    <3>2. \A g \in Flows \ {f} : hook'[g] = hook[g]
      BY <1>2 DEF ActOnRequest, IInv, HookInv
    <3> QED BY <3>1, <3>2 DEF MovesTo, IInv, HookInv
  <2>5. \A g \in Flows : g # f => wire'[g] = wire[g]
    BY <1>2 DEF ActOnRequest, Set, IInv, HookInv
  <2> QED BY <1>0, <2>2, <2>3, <2>4, <2>5, HookFrame
<1> QED BY <1>1, <1>2

\* The other calls of a hook.
LEMMA CallSteps ==
  ASSUME ~Lossy, IInv, FlowInv, NEW f \in Flows,
         MarkDropped(f) \/ Attach(f) \/ TakeResponse(f) \/ Complete(f)
  PROVE  FlowInv'
<1> USE DEF Calls, VoidCalls, Takes, Fresh, Answering
<1>1. CASE MarkDropped(f)
  <2>1. MovesTo(f, "done") /\ hook'[f].inspect = hook[f].inspect
    BY <1>1, GotoKeepsInspect DEF MarkDropped, PCs, IInv
  <2>2. SetFinalStatus(f, "dropped") /\ UNCHANGED <<inflight, wire>>
    BY <1>1, CallServed DEF MarkDropped, Serve
  <2>3. /\ Orderly(f) /\ Elems(queue') \subseteq Elems(queue)
        /\ Stored(f, "request")' = Stored(f, "request")
    BY <2>2, FinalOrderly DEF IInv, FlowInv, Final
  <2> QED BY <2>1, <2>2, <2>3, OwnKept, CalmStep
<1>2. CASE Complete(f)
  <2>1. MovesTo(f, "done") /\ hook'[f].inspect = hook[f].inspect
    BY <1>2, GotoKeepsInspect DEF Complete, Delivered, PCs, IInv
  <2>2. SetFinalStatus(f, "completed") /\ UNCHANGED inflight /\ Set(f, "delivered")
    BY <1>2, CallServed DEF Complete, Delivered, Serve
  <2>3. /\ Orderly(f) /\ Elems(queue') \subseteq Elems(queue) /\ f \notin Elems(queue')
        /\ Stored(f, "request")' = Stored(f, "request")
    BY <2>2, FinalOrderly DEF IInv, FlowInv, Final
  <2>4. \A g \in Flows : g # f => wire'[g] = wire[g]
    BY <2>2 DEF Set, IInv, HookInv
  <2> QED BY <2>1, <2>2, <2>3, <2>4, OwnKept, CalmStep
<1>3. CASE Attach(f)
  <2> DEFINE pc == IF hook[f].inspect THEN "response_lock" ELSE "complete_flow"
  <2>1. MovesTo(f, pc) /\ hook'[f].inspect = hook[f].inspect
    BY <1>3, GotoKeepsInspect DEF Attach, PCs, IInv
  <2>2. AttachResponse(f) /\ UNCHANGED <<inflight, wire>>
    BY <1>3, CallServed DEF Attach, Serve
  <2>3. /\ UNCHANGED <<queue, decisions>> /\ Stored(f, "request")' = Stored(f, "request")
        /\ \A g : Stored(g, "request")' = Stored(g, "request")
    BY <2>2 DEF AttachResponse, Stored
  <2>4. Elems(queue) \subseteq Flows
    BY LenProperties, ElementOfSeq DEF IInv, ServiceInv, Elems
  <2>5. \A g \in Elems(queue) : status'[g] # "unknown"
    BY <2>2, <2>4 DEF AttachResponse, FlowInv, KnownInv, IInv, ServiceInv
  <2>6. Orderly(f)
    BY <2>3, <2>5, QueueAlone DEF FlowInv
  <2>7. pc \in Answering => f \notin Elems(queue')
    BY <2>3 DEF FlowInv, PassedInv
  <2>8. pc \notin Fresh \cup {"pop_head"}
    OBVIOUS
  <2> HIDE DEF pc
  <2> QED BY <2>1, <2>2, <2>3, <2>6, <2>7, <2>8, OwnKept, CalmStep
<1>4. CASE TakeResponse(f)
  <2>1. PICK d \in Stored(f, "response") :
          /\ TakeDecision(d)
          /\ \/ Goto(f, "mark_dropped") /\ Set(f, "killed")
             \/ Goto(f, "complete_flow") /\ UNCHANGED wire
             \/ Goto(f, "done") /\ Set(f, "delivered")
    BY <1>4 DEF TakeResponse, Delivered
  <2>2. PICK pc \in {"mark_dropped", "complete_flow", "done"} : Goto(f, pc)
    BY <2>1
  <2>3. MovesTo(f, pc) /\ hook'[f].inspect = hook[f].inspect
    BY <2>2, GotoKeepsInspect DEF PCs, IInv
  <2>4. /\ UNCHANGED <<status, queue>>
        /\ \A g : Stored(g, "request")' \subseteq Stored(g, "request")
    BY <2>1 DEF TakeDecision, Stored
  <2>5. Orderly(f)
    BY <2>4, QueueAlone DEF FlowInv, KnownInv
  <2>6. f \notin Elems(queue')
    BY <1>4, <2>4 DEF TakeResponse, At, FlowInv, PassedInv
  <2>7. \A g \in Flows : g # f => wire'[g] = wire[g]
    BY <2>1 DEF Set, IInv, HookInv
  <2>8. OwnInv'
    BY <1>4, OwnKept DEF TakeResponse
  <2> QED BY <2>3, <2>4, <2>5, <2>6, <2>7, <2>8, CalmStep
<1> QED BY <1>1, <1>2, <1>3, <1>4

\* A step of the API or of the user moves no hook.
LEMMA StillFrame ==
  ASSUME IInv, FlowInv, UNCHANGED <<hook, wire>>, OwnInv', NEW g, Orderly(g),
         Elems(queue') \subseteq Elems(queue),
         Decided(g)' => Decided(g) \/ (g \in Elems(queue) /\ (IsHead(g)' \/ g \notin Elems(queue')))
  PROVE  FlowInv'
<1>1. KnownInv'
  BY DEF Orderly
<1>2. \A f \in Flows : IsHead(f) => IsHead(f)' \/ f \notin Elems(queue')
  BY DEF Orderly
<1>3. ASSUME NEW f \in Flows
      PROVE  Decided(f)' => Decided(f) \/ (f \in Elems(queue) /\ (IsHead(f)' \/ f \notin Elems(queue')))
  BY DEF Orderly, Decided
<1>4. HeadInv'
  <2>1. SUFFICES ASSUME NEW f \in Flows, Decided(f)' \/ At(f, "pop_head")'
                 PROVE  IsHead(f)' \/ f \notin Elems(queue')
    BY DEF HeadInv, Elems
  <2>2. Decided(f) \/ At(f, "pop_head") => IsHead(f)' \/ f \notin Elems(queue')
    BY <1>2 DEF FlowInv, HeadInv
  <2> QED BY <1>3, <2>1, <2>2 DEF At
<1>5. FreshInv'
  <2>1. SUFFICES ASSUME NEW f \in Flows, hook[f].pc \in Fresh
                 PROVE  /\ f \notin Elems(queue') /\ ~Decided(f)'
                        /\ ~hook[f].inspect /\ wire[f] # "delivered"
    BY DEF FreshInv, Elems, Fresh
  <2> QED BY <1>3, <2>1 DEF FlowInv, FreshInv
<1>6. PassedInv'
  BY DEF FlowInv, PassedInv, Elems, Answering
<1> QED BY <1>1, <1>4, <1>5, <1>6 DEF FlowInv

LEMMA OwnSteps ==
  ASSUME ~Lossy, IInv, FlowInv, RunInFlight
  PROVE  FlowInv'
<1>1. PICK c \in inflight : Run(c)
  BY DEF RunInFlight
<1>2. c.op \in SecondSteps /\ c.flow \in Flows
  BY DEF FlowInv, OwnInv, IInv, HookInv, InFlight
<1>3. \E s \in Final : SetFinalStatus(c.flow, s)
  BY <1>1, <1>2 DEF Run, Serve, SecondSteps, Takes, Final
<1>4. UNCHANGED <<hook, wire>> /\ inflight' \subseteq inflight
  BY <1>1, <1>2 DEF Run, SecondSteps, Takes
<1>5. /\ Orderly(c.flow) /\ Elems(queue') \subseteq Elems(queue)
      /\ Stored(c.flow, "request")' = Stored(c.flow, "request")
  BY <1>2, <1>3, FinalOrderly DEF IInv, FlowInv
<1>6. Decided(c.flow)' => Decided(c.flow)
  BY <1>5 DEF Decided
<1> QED BY <1>4, <1>5, <1>6, OwnKept, StillFrame

LEMMA DecideOrderly ==
  ASSUME ServiceInv, KnownInv, NEW d \in Decision, d.stage = "request", SetRequestDecision(d)
  PROVE  /\ Orderly(d.flow) /\ Elems(queue') \subseteq Elems(queue)
         /\ d.flow \in Elems(queue) /\ (IsHead(d.flow)' \/ d.flow \notin Elems(queue'))
<1>1. d.flow \in Flows /\ queue \in Seq(Flows) /\ NoDuplicates(queue)
  BY DEF Decision, ServiceInv, KnownInv
<1>2. IsHead(d.flow) /\ d.flow \in Elems(queue) /\ queue # <<>>
  BY <1>1, HeadInQueue DEF SetRequestDecision, IsHead
<1>3. \A g \in Flows : g # d.flow => Stored(g, "request")' \subseteq Stored(g, "request")
  BY DEF SetRequestDecision, Replacing, Stored
<1>4. CASE UNCHANGED <<status, queue>>
  <2>1. Orderly(d.flow)
    BY <1>3, <1>4, QueueAlone DEF KnownInv
  <2> QED BY <1>2, <1>4, <2>1 DEF IsHead
<1>5. CASE status' = [status EXCEPT ![d.flow] = "dropped"] /\ queue' = Tail(queue)
  <2>1. /\ Elems(queue) = Elems(queue') \cup {d.flow} /\ NoDuplicates(queue')
        /\ d.flow \notin Elems(queue')
    BY <1>1, <1>2, <1>5, TailProperties DEF IsHead
  <2>2. KnownInv'
    BY <1>1, <1>5, <2>1 DEF KnownInv, ServiceInv
  <2>3. \A g \in Flows : IsHead(g) => g = d.flow
    BY <1>2 DEF IsHead
  <2> QED BY <1>2, <1>3, <2>1, <2>2, <2>3 DEF Orderly
<1> QED BY <1>4, <1>5 DEF SetRequestDecision

LEMMA UserSteps ==
  ASSUME ~Lossy, IInv, FlowInv, User
  PROVE  FlowInv'
<1>1. CASE DecideRequest
  <2>1. PICK f \in Flows, v \in Verdicts :
          SetRequestDecision([flow |-> f, stage |-> "request", verdict |-> v])
    BY <1>1 DEF DecideRequest
  <2> DEFINE d == [flow |-> f, stage |-> "request", verdict |-> v]
  <2>2. d \in Decision /\ d.flow = f /\ d.stage = "request"
    BY DEF Decision
  <2> HIDE DEF d
  <2>3. SetRequestDecision(d)
    BY <2>1 DEF d
  <2>4. /\ Orderly(f) /\ Elems(queue') \subseteq Elems(queue)
        /\ f \in Elems(queue) /\ (IsHead(f)' \/ f \notin Elems(queue'))
    BY <2>2, <2>3, DecideOrderly DEF IInv, FlowInv
  <2>5. UNCHANGED <<hook, wire>> /\ OwnInv'
    BY <1>1, OwnKept DEF DecideRequest
  <2> QED BY <2>4, <2>5, StillFrame
<1>2. CASE DecideResponse
  <2>1. PICK f \in Flows, v \in {"forward", "drop"} :
          /\ SetResponseDecision([flow |-> f, stage |-> "response", verdict |-> v])
          /\ inflight' = inflight \cup
               {[op |-> IF v = "drop" THEN "mark_dropped" ELSE "complete_flow", flow |-> f]}
    BY <1>2 DEF DecideResponse
  <2>2. OwnInv'
    BY <2>1 DEF OwnInv, FlowInv, SecondSteps
  <2>3. /\ UNCHANGED <<status, queue>>
        /\ \A g : Stored(g, "request")' = Stored(g, "request")
    BY <2>1 DEF SetResponseDecision, Replacing, Stored
  <2>4. Orderly(f) /\ (Decided(f)' => Decided(f))
    BY <2>3, QueueAlone DEF FlowInv, KnownInv, Decided
  <2>5. UNCHANGED <<hook, wire>>
    BY <1>2 DEF DecideResponse
  <2> QED BY <2>2, <2>3, <2>4, <2>5, StillFrame
<1>3. CASE Clear
  <2>1. /\ queue' = <<>> /\ decisions' = {} /\ UNCHANGED <<hook, wire, inflight>>
    BY <1>3 DEF Clear, ClearHistory
  <2>2. Elems(queue') = {} /\ \A g : Stored(g, "request")' = {}
    BY <2>1 DEF Elems, Stored
  <2>3. KnownInv'
    BY <2>1, <2>2 DEF KnownInv, NoDuplicates
  <2>4. Orderly(NoOne) /\ (Decided(NoOne)' => Decided(NoOne))
    BY <2>2, <2>3 DEF Orderly, Decided
  <2> QED BY <2>1, <2>2, <2>4, OwnKept, StillFrame
<1> QED BY <1>1, <1>2, <1>3 DEF User

LEMMA InitFlows == Init => FlowInv
<1>1. SUFFICES ASSUME Init PROVE FlowInv
  OBVIOUS
<1>2. Elems(queue) = {} /\ NoDuplicates(queue) /\ decisions = {}
  BY <1>1 DEF Init, ServiceInit, Elems, NoDuplicates
<1>3. \A f \in Flows : /\ hook[f].pc = "new" /\ ~hook[f].inspect /\ wire[f] = "held"
                       /\ ~Decided(f)
  BY <1>1, <1>2 DEF Init, Decided, Stored
<1> QED BY <1>1, <1>2, <1>3 DEF Init, FlowInv, OwnInv, KnownInv, HeadInv, FreshInv, PassedInv, Answering

\* Without lost calls, every step keeps FlowInv.
LEMMA NextFlows ==
  ASSUME ~Lossy, IInv, FlowInv, [Next]_vars
  PROVE  FlowInv'
<1>1. CASE UNCHANGED vars
  <2>1. UNCHANGED <<status, queue, decisions, hook, wire, inflight>>
    BY <1>1 DEF vars, service
  <2>2. KnownInv'
    BY <2>1 DEF FlowInv, KnownInv, Elems, NoDuplicates
  <2>3. Orderly(NoOne) /\ (Decided(NoOne)' => Decided(NoOne))
    BY <2>1, <2>2 DEF Orderly, Decided, Stored, IsHead, Elems
  <2> QED BY <2>1, <2>3, OwnKept, StillFrame
<1>2. CASE RunInFlight \/ User
  BY <1>2, OwnSteps, UserSteps
<1>3. ASSUME NEW f \in Flows, Step(f)
      PROVE  FlowInv'
  BY <1>3, LocalSteps, CaptureSteps, DecisionTaken, CallSteps, NothingLost
     DEF Step, Acquire, Deadline, Work, Outside
<1> QED BY <1>1, <1>2, <1>3 DEF Next

\* What a flow has gone through agrees with the API's queue and decisions at
\* every step of the hooks, the API and the user.
THEOREM FlowsInductive == ASSUME ~Lossy PROVE Spec => [](IInv /\ FlowInv)
<1>1. IInv /\ FlowInv /\ [Next]_vars => FlowInv'
  BY NextFlows
<1> QED BY <1>1, InitInv, InitFlows, Inductive, PTL DEF Spec

\* A flow whose response went to the client holds nobody back, whatever is
\* decided, cleared, refused or given up by deadline on its way.
THEOREM DeliveredLeavesQueue == ASSUME ~Lossy PROVE Spec => []DeliveredNotQueued
<1>1. FlowInv => DeliveredNotQueued
  BY DEF FlowInv, PassedInv, DeliveredNotQueued
<1> QED BY <1>1, FlowsInductive, PTL
-----------------------------------------------------------------------------
\* No operation of the API on g takes another flow's hope.
HopeKept(g) == \A f \in Flows : f # g /\ Hope(f) => Hope(f)'

LEMMA ServiceKeepsHope ==
  ASSUME ServiceInv, KnownInv, NEW g \in Flows
  PROVE  /\ UpsertRequest(g) => HopeKept(g) /\ Hope(g)'
         /\ AttachResponse(g) => HopeKept(g)
         /\ \A s \in Final : SetFinalStatus(g, s) => HopeKept(NoOne)
         /\ PopHead(g) => HopeKept(g)
         /\ \A d \in decisions : TakeDecision(d) => HopeKept(d.flow)
         /\ UNCHANGED service => HopeKept(NoOne)
<1>1. ASSUME UpsertRequest(g) PROVE HopeKept(g) /\ Hope(g)'
  <2>1. /\ Elems(queue) \subseteq Elems(queue') /\ g \in Elems(queue')
        /\ \A f \in Flows : Decided(f)' = Decided(f)
    <3>1. g \in Elems(queue') /\ \A f \in Flows : Decided(f)' = Decided(f)
      BY <1>1, UpsertOrderly DEF Decided
    <3>2. Elems(queue) \subseteq Elems(queue')
      BY <1>1, AppendToQueue DEF UpsertRequest, ServiceInv
    <3> QED BY <3>1, <3>2
  <2>2. \A f \in Flows : f # g => status'[f] = status[f]
    BY <1>1 DEF UpsertRequest, ServiceInv
  <2> QED BY <2>1, <2>2 DEF HopeKept, Hope, Final
<1>2. ASSUME AttachResponse(g) PROVE HopeKept(g)
  BY <1>2 DEF AttachResponse, HopeKept, Hope, Decided, Stored, Elems, Final, ServiceInv
<1>3. ASSUME UNCHANGED service PROVE HopeKept(NoOne)
  <2>1. UNCHANGED <<status, queue, decisions>>
    BY <1>3 DEF service
  <2> QED BY <2>1 DEF HopeKept, Hope, Decided, Stored, Elems, Final
<1>4. ASSUME NEW s \in Final, SetFinalStatus(g, s) PROVE HopeKept(NoOne)
  <2>1. CASE UNCHANGED service
    BY <1>3, <2>1
  <2>2. CASE status' = [status EXCEPT ![g] = s] /\ queue' = Without(queue, g) /\ UNCHANGED decisions
    <3>1. Elems(queue') = Elems(queue) \ {g}
      BY <2>2, WithoutProperties DEF ServiceInv
    <3>2. status'[g] = s /\ \A f \in Flows : f # g => status'[f] = status[f]
      BY <2>2 DEF ServiceInv
    <3>3. \A f \in Flows : Decided(f)' = Decided(f)
      BY <2>2 DEF Decided, Stored
    <3> QED BY <3>1, <3>2, <3>3 DEF HopeKept, Hope, Final
  <2> QED BY <1>4, <2>1, <2>2 DEF SetFinalStatus
<1>5. ASSUME PopHead(g) PROVE HopeKept(g)
  <2>1. /\ Elems(queue) \subseteq Elems(queue') \cup {g} /\ UNCHANGED status
        /\ \A f \in Flows : Decided(f)' = Decided(f)
    BY <1>5, PopOrderly DEF Decided
  <2> QED BY <2>1 DEF HopeKept, Hope, Final
<1>6. ASSUME NEW d \in decisions, TakeDecision(d) PROVE HopeKept(d.flow)
  <2>1. UNCHANGED <<status, queue>> /\ \A f : f # d.flow => Stored(f, "request") \subseteq Stored(f, "request")'
    BY <1>6 DEF TakeDecision, Stored
  <2> QED BY <2>1 DEF HopeKept, Hope, Decided, Elems, Final
<1> QED BY <1>1, <1>2, <1>3, <1>4, <1>5, <1>6

LEMMA DecisionsKeepHope ==
  ASSUME ServiceInv, NEW d \in Decision,
         \/ d.stage = "request" /\ SetRequestDecision(d)
         \/ d.stage = "response" /\ SetResponseDecision(d)
  PROVE  HopeKept(NoOne)
<1>1. d.flow \in Flows
  BY DEF Decision
<1>2. decisions' = Replacing(d)
  BY DEF SetRequestDecision, SetResponseDecision
<1>3. \A f \in Flows : Decided(f) => Decided(f)'
  <2>1. SUFFICES ASSUME NEW f \in Flows, NEW e \in Stored(f, "request")
                 PROVE  Stored(f, "request")' # {}
    BY DEF Decided
  <2>2. CASE d.flow = f /\ d.stage = "request"
    BY <1>2, <2>2 DEF Replacing, Stored
  <2>3. CASE ~(d.flow = f /\ d.stage = "request")
    BY <1>2, <2>1, <2>3 DEF Replacing, Stored
  <2> QED BY <2>2, <2>3
<1>4. CASE UNCHANGED <<status, queue>>
  BY <1>3, <1>4 DEF HopeKept, Hope, Elems, Final
<1>5. CASE /\ queue # <<>> /\ Head(queue) = d.flow /\ queue' = Tail(queue)
           /\ status' = [status EXCEPT ![d.flow] = "dropped"]
  <2>1. Elems(queue) = Elems(queue') \cup {d.flow}
    BY <1>5, TailProperties DEF ServiceInv
  <2>2. status'[d.flow] = "dropped" /\ \A f \in Flows : f # d.flow => status'[f] = status[f]
    BY <1>1, <1>5 DEF ServiceInv
  <2> QED BY <1>3, <2>1, <2>2 DEF HopeKept, Hope, Final
<1> QED BY <1>4, <1>5 DEF SetRequestDecision, SetResponseDecision, IsHead

LEMMA HeldFrame ==
  ASSUME HeldInv, NEW f \in Flows, NEW pc, MovesTo(f, pc), HopeKept(f) \/ HopeKept(NoOne),
         pc \in Held => Hope(f)'
  PROVE  HeldInv'
<1>1. SUFFICES ASSUME NEW g \in Flows, hook'[g].pc \in Held PROVE Hope(g)'
  BY DEF HeldInv, Held, Hope, Elems, Final, Decided, Stored
<1>2. CASE g = f
  BY <1>1, <1>2 DEF MovesTo
<1>3. CASE g # f
  <2>1. hook[g].pc \in Held
    BY <1>1, <1>3 DEF MovesTo
  <2> QED BY <1>3, <2>1, NoOneAssumption DEF HeldInv, HopeKept
<1> QED BY <1>2, <1>3

LEMMA StillHeld ==
  ASSUME HeldInv, UNCHANGED hook, HopeKept(NoOne)
  PROVE  HeldInv'
<1>1. SUFFICES ASSUME NEW g \in Flows, hook[g].pc \in Held PROVE Hope(g)'
  BY DEF HeldInv, Held, Hope, Elems, Final, Decided, Stored
<1> QED BY <1>1, NoOneAssumption DEF HeldInv, HopeKept

\* A step of a hook that calls nothing, and either was held or is not.
LEMMA LocalHeld ==
  ASSUME IInv, FlowInv, HeldInv, NEW f \in Flows, NEW pc \in PCs, Goto(f, pc), UNCHANGED service,
         pc \in Held => hook[f].pc \in Held
  PROVE  HeldInv'
<1>1. MovesTo(f, pc) /\ HopeKept(NoOne)
  BY GotoKeepsInspect, ServiceKeepsHope DEF IInv, FlowInv
<1>2. pc \in Held => Hope(f)'
  BY <1>1, NoOneAssumption DEF HeldInv, HopeKept
<1> QED BY <1>1, <1>2, HeldFrame

LEMMA HookStepsHeld ==
  ASSUME ~Lossy, IInv, FlowInv, HeldInv, NEW f \in Flows, Step(f)
  PROVE  HeldInv'
<1> USE DEF Calls, VoidCalls, Takes, Held
<1> hook[f] \in Hook
  BY DEF IInv, HookInv
<1>1. CASE \/ Ignore(f) \/ Capture(f) \/ Pass(f) \/ RequestDeadline(f) \/ Answer(f) \/ NoAnswer(f)
           \/ LockResponse(f) \/ ResponseDeadline(f) \/ Poll(f, "response")
  <2>1. UNCHANGED service /\ \E pc \in PCs \ Held : Goto(f, pc)
    BY <1>1, NothingLost DEF Ignore, Capture, Pass, Sent, RequestDeadline, Answer, NoAnswer,
       LockResponse, ResponseDeadline, Delivered, Poll, PCs, service
  <2> QED BY <2>1, LocalHeld
<1>2. CASE Intercept(f) \/ LockRequest(f) \/ Poll(f, "request")
  <2>1. UNCHANGED service /\ hook[f].pc \in Held /\ \E pc \in PCs : Goto(f, pc)
    BY <1>2, NothingLost DEF Intercept, LockRequest, Poll, At, PCs
  <2> QED BY <2>1, LocalHeld
<1>3. CASE Upsert(f)
  <2>1. MovesTo(f, "get_config") /\ UpsertRequest(f)
    BY <1>3, CallServed, GotoKeepsInspect DEF Upsert, Serve, PCs, IInv
  <2> QED BY <2>1, ServiceKeepsHope, HeldFrame DEF IInv, FlowInv
<1>4. CASE MarkDropped(f) \/ Complete(f)
  <2>1. MovesTo(f, "done") /\ \E s \in Final : SetFinalStatus(f, s)
    BY <1>4, CallServed, GotoKeepsInspect DEF MarkDropped, Complete, Delivered, Serve, PCs, Final, IInv
  <2> QED BY <2>1, ServiceKeepsHope, HeldFrame DEF IInv, FlowInv
<1>5. CASE Attach(f)
  <2>1. AttachResponse(f) /\ \E pc \in PCs \ Held : MovesTo(f, pc)
    BY <1>5, CallServed, GotoKeepsInspect DEF Attach, Serve, PCs, IInv
  <2> QED BY <2>1, ServiceKeepsHope, HeldFrame DEF IInv, FlowInv
<1>6. CASE TakeResponse(f)
  <2>1. PICK d \in Stored(f, "response") : TakeDecision(d)
    BY <1>6 DEF TakeResponse
  <2>2. \E pc \in PCs \ Held : Goto(f, pc)
    BY <1>6 DEF TakeResponse, Delivered, PCs
  <2>3. d \in decisions /\ d.flow = f
    BY DEF Stored
  <2> QED BY <2>1, <2>2, <2>3, GotoKeepsInspect, ServiceKeepsHope, HeldFrame DEF IInv, FlowInv
<1>7. CASE TakeRequest(f)
  <2>1. PICK d \in Stored(f, "request") :
          /\ TakeDecision(d)
          /\ hook' = [hook EXCEPT ![f].pc = "pop_head", ![f].took = {d}]
    BY <1>7 DEF TakeRequest
  <2>2. hook'[f].pc = "pop_head" /\ \A g \in Flows \ {f} : hook'[g] = hook[g]
    BY <2>1 DEF Hook, IInv, HookInv
  <2>3. MovesTo(f, "pop_head")
    <3>1. IInv'
      BY <1>7, PollSteps
    <3> QED BY <2>2, <3>1 DEF MovesTo, IInv, HookInv
  <2>4. d \in decisions /\ d.flow = f
    BY DEF Stored
  <2> QED BY <2>1, <2>3, <2>4, ServiceKeepsHope, HeldFrame DEF IInv, FlowInv
<1>8. CASE ActOnRequest(f)
  <2>1. PopHead(f) /\ hook'[f].pc \in {"mark_dropped", "upstream"}
    BY <1>8 DEF ActOnRequest, IInv, HookInv, Hook
  <2>2. MovesTo(f, hook'[f].pc)
    <3>1. IInv'
      BY <1>8, PollSteps
    <3>2. \A g \in Flows \ {f} : hook'[g] = hook[g]
      BY <1>8 DEF ActOnRequest, IInv, HookInv
    <3> QED BY <3>1, <3>2 DEF MovesTo, IInv, HookInv
  <2> QED BY <2>1, <2>2, ServiceKeepsHope, HeldFrame DEF IInv, FlowInv
<1> QED BY <1>1, <1>2, <1>3, <1>4, <1>5, <1>6, <1>7, <1>8, NothingLost
        DEF Step, Acquire, Deadline, Work, Outside

\* Every step keeps HeldInv, as long as nobody clears the history.
LEMMA NextHeld ==
  ASSUME ~Lossy, ~Clears, IInv, FlowInv, HeldInv, [Next]_vars
  PROVE  HeldInv'
<1>1. CASE UNCHANGED vars
  <2>1. UNCHANGED <<status, queue, decisions, hook>>
    BY <1>1 DEF vars, service
  <2> QED BY <2>1 DEF HeldInv, Held, Hope, Decided, Stored, Elems, Final
<1>2. CASE RunInFlight
  <2>1. PICK c \in inflight : Run(c)
    BY <1>2 DEF RunInFlight
  <2>2. c.op \in SecondSteps /\ c.flow \in Flows
    BY DEF FlowInv, OwnInv, IInv, HookInv, InFlight
  <2>3. UNCHANGED hook /\ \E s \in Final : SetFinalStatus(c.flow, s)
    BY <2>1, <2>2 DEF Run, Serve, SecondSteps, Takes, Final
  <2> QED BY <2>2, <2>3, ServiceKeepsHope, StillHeld DEF IInv, FlowInv
<1>3. CASE DecideRequest
  <2>1. PICK f \in Flows, v \in Verdicts :
          SetRequestDecision([flow |-> f, stage |-> "request", verdict |-> v])
    BY <1>3 DEF DecideRequest
  <2> DEFINE d == [flow |-> f, stage |-> "request", verdict |-> v]
  <2>2. d \in Decision /\ d.stage = "request" /\ SetRequestDecision(d)
    BY <2>1 DEF Decision
  <2> HIDE DEF d
  <2> QED BY <1>3, <2>2, DecisionsKeepHope, StillHeld DEF DecideRequest, IInv
<1>4. CASE DecideResponse
  <2>1. PICK f \in Flows, v \in {"forward", "drop"} :
          SetResponseDecision([flow |-> f, stage |-> "response", verdict |-> v])
    BY <1>4 DEF DecideResponse
  <2> DEFINE d == [flow |-> f, stage |-> "response", verdict |-> v]
  <2>2. d \in Decision /\ d.stage = "response" /\ SetResponseDecision(d)
    BY <2>1 DEF Decision, Verdicts
  <2> HIDE DEF d
  <2> QED BY <1>4, <2>2, DecisionsKeepHope, StillHeld DEF DecideResponse, IInv
<1>5. ASSUME NEW f \in Flows, Step(f)
      PROVE  HeldInv'
  BY <1>5, HookStepsHeld
<1> QED BY <1>1, <1>2, <1>3, <1>4, <1>5 DEF Next, User, Clear

\* A held request can be decided, or has been: it never polls for a decision
\* nobody can make any more.
THEOREM NobodyIsForgotten == ASSUME ~Lossy, ~Clears PROVE Spec => []NobodyWaitsInVain
<1>1. Init => HeldInv
  BY DEF Init, HeldInv, Held
<1>2. IInv /\ FlowInv /\ HeldInv /\ [Next]_vars => HeldInv'
  BY NextHeld
<1>3. HeldInv => NobodyWaitsInVain
  BY DEF HeldInv, Held, Hope, Decided, NobodyWaitsInVain, At
<1> QED BY <1>1, <1>2, <1>3, FlowsInductive, PTL DEF Spec
-----------------------------------------------------------------------------
(***************************************************************************)
(* Decisions that are handed out.  FateInv follows an exchange: nothing is *)
(* handed out before its request is polled for, what a hook took is what   *)
(* was handed out, and from then on the call the hook is at, and what went *)
(* over the wire, agree with it.                                           *)
(***************************************************************************)
Unsent == {"new", "upsert_flow", "get_config", "request_lock", "take_request_decision"}
Between == {"upstream", "attach_response", "response_lock", "take_response_decision"}
After == {"mark_dropped", "done"}

\* An exchange that became w has followed d, of the decisions h.
Ended(d, w, h) ==
  \/ d.verdict = "drop" /\ w = "killed"
  \/ /\ d.stage = "request" /\ d.verdict # "drop"
     /\ w \in {"sent", "delivered"} \/ \E e \in h : e.stage = "response" /\ e.verdict = "drop"
  \/ d.stage = "response" /\ d.verdict = "forward" /\ w = "delivered"

\* What may have been handed out for an exchange whose hook is at pc.
Fated(pc, w, h) ==
  /\ pc \in Unsent => w = "held" /\ h = {}
  /\ pc = "pop_head" => w = "held"
  /\ pc \in Between => w = "sent" /\ \A d \in h : d.stage = "request" /\ d.verdict # "drop"
  /\ pc = "complete_flow" =>
       w = "sent" /\ \A d \in h : \/ d.stage = "request" /\ d.verdict # "drop"
                                  \/ d.stage = "response" /\ d.verdict = "forward"
  /\ pc \in After => \A d \in h : Ended(d, w, h)

Taken(f) ==
  At(f, "pop_head") => \E d \in Decision : d.stage = "request" /\ hook[f].took = {d} /\ handed[f] = {d}

\* A flow and stage have one decision at most.
KeyInv == \A d, e \in decisions : d.flow = e.flow /\ d.stage = e.stage => d = e

FateInv ==
  /\ KeyInv
  /\ handed \in [Flows -> SUBSET Decision]
  /\ \A f \in Flows : Fated(hook[f].pc, wire[f], handed[f]) /\ Taken(f)

\* A step that takes nothing from the table leaves the history as it is.
LEMMA NothingHanded ==
  ASSUME handed \in [Flows -> SUBSET Decision], KeyInv, Remember,
         decisions' = decisions \/ \E d \in Decision : decisions' = Replacing(d)
  PROVE  handed' = handed /\ KeyInv'
<1>1. GivenOut = {}
  <2>1. SUFFICES ASSUME NEW d \in decisions PROVE Stored(d.flow, d.stage)' # {}
    BY DEF GivenOut
  <2>2. CASE d \in decisions'
    BY <2>2 DEF Stored
  <2>3. CASE d \notin decisions'
    <3>1. PICK e \in Decision : decisions' = Replacing(e)
      BY <2>3
    <3>2. e \in decisions' /\ d \in Stored(e.flow, e.stage)
      BY <2>3, <3>1 DEF Replacing
    <3> QED BY <3>2 DEF Stored
  <2> QED BY <2>2, <2>3
<1>2. KeyInv'
  BY DEF KeyInv, Replacing, Stored
<1> QED BY <1>1, <1>2 DEF Remember

\* What a poll takes from the table is handed out for its flow.
LEMMA OneHanded ==
  ASSUME FateInv, ServiceInv, Remember, ~Clear, NEW f \in Flows, NEW stage,
         NEW d \in Stored(f, stage), TakeDecision(d)
  PROVE  /\ d \in Decision /\ d.flow = f /\ d.stage = stage
         /\ handed[f] \cup {d} \in SUBSET Decision
         /\ handed' = [handed EXCEPT ![f] = @ \cup {d}]
         /\ KeyInv'
<1>1. d \in Decision /\ d.flow = f /\ d.stage = stage /\ d \in decisions
  BY DEF Stored, ServiceInv
<1>2. decisions' = decisions \ {d}
  BY DEF TakeDecision
<1>3. KeyInv'
  BY <1>2 DEF FateInv, KeyInv
<1>4. GivenOut = {d}
  <2>1. \A e \in decisions : e # d => Stored(e.flow, e.stage)' # {}
    BY <1>2 DEF Stored
  <2>2. Stored(d.flow, d.stage)' = {}
    BY <1>1, <1>2 DEF Stored, FateInv, KeyInv
  <2> QED BY <1>1, <2>1, <2>2 DEF GivenOut
<1>5. handed' = [g \in Flows |-> handed[g] \cup {e \in {d} : e.flow = g}]
  BY <1>4 DEF Remember
<1>6. \A g \in Flows : handed[g] \cup {e \in {d} : e.flow = g}
                         = IF g = f THEN handed[f] \cup {d} ELSE handed[g]
  BY <1>1
<1>7. handed' = [handed EXCEPT ![f] = @ \cup {d}]
  BY <1>5, <1>6 DEF FateInv
<1> QED BY <1>1, <1>3, <1>7 DEF FateInv

\* A step that moves one hook keeps FateInv if it agrees with what f took.
LEMMA FateMoves ==
  ASSUME FateInv, HookInv, KeyInv', NEW f \in Flows, NEW pc, MovesTo(f, pc),
         NEW w \in Wire, wire' = [wire EXCEPT ![f] = w],
         NEW h \in SUBSET Decision, handed' = [handed EXCEPT ![f] = h],
         Fated(pc, w, h),
         pc = "pop_head" => \E d \in Decision : d.stage = "request" /\ hook'[f].took = {d} /\ h = {d}
  PROVE  FateInv'
<1>1. handed' \in [Flows -> SUBSET Decision] /\ handed'[f] = h /\ wire'[f] = w /\ hook'[f].pc = pc
  BY DEF FateInv, HookInv, MovesTo
<1>2. \A g \in Flows \ {f} : handed'[g] = handed[g] /\ wire'[g] = wire[g] /\ hook'[g] = hook[g]
  BY DEF FateInv, HookInv, MovesTo
<1>3. Fated(pc, w, h)' <=> Fated(pc, w, h)
  OBVIOUS
<1>4. \A g \in Flows : Fated(hook'[g].pc, wire'[g], handed'[g])
  <2> SUFFICES ASSUME NEW g \in Flows PROVE Fated(hook'[g].pc, wire'[g], handed'[g])
    OBVIOUS
  <2>1. CASE g = f
    BY <1>1, <2>1
  <2>2. CASE g # f
    BY <1>2, <2>2 DEF FateInv
  <2> QED BY <2>1, <2>2
<1>5. \A g \in Flows : Taken(g)'
  BY <1>1, <1>2 DEF FateInv, Taken, At
<1> QED BY <1>1, <1>4, <1>5 DEF FateInv

\* The same, of a step that takes no decision.
LEMMA FateGoes ==
  ASSUME FateInv, HookInv, Remember, UNCHANGED decisions,
         NEW f \in Flows, NEW pc \in PCs \ {"pop_head"}, MovesTo(f, pc),
         NEW w \in Wire, wire' = [wire EXCEPT ![f] = w], Fated(pc, w, handed[f])
  PROVE  FateInv'
<1>1. handed' = handed /\ KeyInv'
  BY NothingHanded DEF FateInv
<1>2. handed' = [handed EXCEPT ![f] = handed[f]] /\ handed[f] \in SUBSET Decision
  BY <1>1 DEF FateInv
<1> QED BY <1>1, <1>2, FateMoves

\* Steps of a hook that take no decision.
LEMMA FateStays ==
  ASSUME ~Lossy, IInv, FateInv, Remember, NEW f \in Flows,
         \/ Ignore(f) \/ Capture(f) \/ Upsert(f) \/ Intercept(f) \/ Pass(f) \/ LockRequest(f)
         \/ RequestDeadline(f) \/ Poll(f, "request") \/ Poll(f, "response") \/ MarkDropped(f)
         \/ Answer(f) \/ NoAnswer(f) \/ Attach(f) \/ LockResponse(f) \/ ResponseDeadline(f)
         \/ Complete(f)
  PROVE  FateInv'
<1> USE DEF Calls, VoidCalls, Takes
<1> DEFINE pc == hook[f].pc
           w == wire[f]
           h == handed[f]
<1>1. Fated(pc, w, h) /\ w \in Wire /\ h \in SUBSET Decision
  BY DEF FateInv, IInv, HookInv
<1>2. [wire EXCEPT ![f] = w] = wire
  BY DEF IInv, HookInv
<1>3. HookInv
  BY DEF IInv
<1> HIDE DEF w, h
<1>4. CASE Ignore(f)
  <2>1. Fated("done", "delivered", h)
    BY <1>1, <1>4 DEF Ignore, At, Fated, Unsent, Between, After
  <2>2. MovesTo(f, "done") /\ wire' = [wire EXCEPT ![f] = "delivered"] /\ UNCHANGED decisions
    BY <1>3, <1>4, GotoMoves DEF Ignore, Set, service, PCs
  <2> QED BY <1>3, <2>1, <2>2, FateGoes DEF Wire, PCs, h
<1>5. CASE \/ Capture(f) \/ Upsert(f) \/ Intercept(f) \/ LockRequest(f) \/ Poll(f, "request")
  <2>1. PICK p \in Unsent : Goto(f, p)
    BY <1>5 DEF Capture, Upsert, Intercept, LockRequest, Poll, Unsent
  <2>2. UNCHANGED <<wire, decisions>>
    BY <1>5, NothingLost, CallServed DEF Capture, Upsert, Serve, UpsertRequest, Intercept,
       LockRequest, Poll, service
  <2>3. Fated(p, w, h)
    BY <1>1, <1>5 DEF Capture, Upsert, Intercept, LockRequest, Poll, Call, At, Fated, Unsent, Between, After
  <2>4. p \in PCs \ {"pop_head"} /\ MovesTo(f, p)
    BY <1>3, <2>1, GotoMoves DEF Unsent, PCs
  <2> QED BY <1>1, <1>2, <1>3, <2>2, <2>3, <2>4, FateGoes DEF h
<1>6. CASE Pass(f) \/ RequestDeadline(f)
  <2>1. Fated("upstream", "sent", h)
    BY <1>1, <1>6 DEF Pass, RequestDeadline, At, Fated, Unsent, Between, After
  <2>2. MovesTo(f, "upstream") /\ wire' = [wire EXCEPT ![f] = "sent"] /\ UNCHANGED decisions
    BY <1>3, <1>6, GotoMoves DEF Pass, RequestDeadline, Sent, Set, service, PCs
  <2> QED BY <1>3, <2>1, <2>2, FateGoes DEF Wire, PCs, h
<1>7. CASE MarkDropped(f)
  <2>1. Fated("done", w, h)
    BY <1>1, <1>7 DEF MarkDropped, Call, At, Fated, Unsent, Between, After
  <2>2. MovesTo(f, "done") /\ UNCHANGED <<wire, decisions>>
    BY <1>3, <1>7, GotoMoves, CallServed DEF MarkDropped, Serve, SetFinalStatus, service, PCs
  <2> QED BY <1>1, <1>2, <1>3, <2>1, <2>2, FateGoes DEF PCs, h
<1>8. CASE Answer(f) \/ LockResponse(f) \/ Poll(f, "response")
  <2>1. PICK p \in Between : Goto(f, p)
    BY <1>8 DEF Answer, LockResponse, Poll, Between
  <2>2. UNCHANGED <<wire, decisions>>
    BY <1>8, NothingLost DEF Answer, LockResponse, Poll, service
  <2>3. Fated(p, w, h)
    BY <1>1, <1>8 DEF Answer, LockResponse, Poll, At, Fated, Unsent, Between, After
  <2>4. p \in PCs \ {"pop_head"} /\ MovesTo(f, p)
    BY <1>3, <2>1, GotoMoves DEF Between, PCs
  <2> QED BY <1>1, <1>2, <1>3, <2>2, <2>3, <2>4, FateGoes DEF h
<1>9. CASE Attach(f)
  <2>1. PICK p \in {"response_lock", "complete_flow"} : Goto(f, p)
    BY <1>9 DEF Attach
  <2>2. UNCHANGED <<wire, decisions>>
    BY <1>9, CallServed DEF Attach, Serve, AttachResponse
  <2>3. Fated(p, w, h)
    BY <1>1, <1>9 DEF Attach, Call, At, Fated, Unsent, Between, After
  <2>4. p \in PCs \ {"pop_head"} /\ MovesTo(f, p)
    BY <1>3, <2>1, GotoMoves DEF PCs
  <2> QED BY <1>1, <1>2, <1>3, <2>2, <2>3, <2>4, FateGoes DEF h
<1>10. CASE NoAnswer(f)
  <2>1. Fated("done", w, h)
    BY <1>1, <1>10 DEF NoAnswer, At, Fated, Ended, Unsent, Between, After
  <2>2. MovesTo(f, "done") /\ UNCHANGED <<wire, decisions>>
    BY <1>3, <1>10, GotoMoves DEF NoAnswer, service, PCs
  <2> QED BY <1>1, <1>2, <1>3, <2>1, <2>2, FateGoes DEF PCs, h
<1>11. CASE ResponseDeadline(f) \/ Complete(f)
  <2>1. Fated("done", "delivered", h)
    BY <1>1, <1>11 DEF ResponseDeadline, Complete, Call, At, Fated, Ended, Unsent, Between, After
  <2>2. UNCHANGED decisions
    BY <1>11, CallServed DEF ResponseDeadline, Complete, Serve, SetFinalStatus, service
  <2>3. MovesTo(f, "done") /\ wire' = [wire EXCEPT ![f] = "delivered"]
    BY <1>3, <1>11, GotoMoves DEF ResponseDeadline, Complete, Delivered, Set, PCs
  <2> QED BY <1>3, <2>1, <2>2, <2>3, FateGoes DEF Wire, PCs, h
<1> QED BY <1>4, <1>5, <1>6, <1>7, <1>8, <1>9, <1>10, <1>11

\* Steps of a hook that take a decision, or act on one.
LEMMA FateTakes ==
  ASSUME IInv, FateInv, Remember, NEW f \in Flows,
         TakeRequest(f) \/ ActOnRequest(f) \/ TakeResponse(f)
  PROVE  FateInv'
<1> DEFINE h == handed[f]
<1>1. /\ Fated(hook[f].pc, wire[f], h) /\ h \in SUBSET Decision
      /\ hook[f] \in Hook /\ HookInv
  BY DEF FateInv, IInv, HookInv
<1> HIDE DEF h
<1>2. CASE TakeRequest(f)
  <2>1. PICK d \in Stored(f, "request") :
          /\ TakeDecision(d)
          /\ hook' = [hook EXCEPT ![f].pc = "pop_head", ![f].took = {d}]
    BY <1>2 DEF TakeRequest
  <2>2. /\ hook'[f].pc = "pop_head" /\ hook'[f].took = {d}
        /\ \A g \in Flows \ {f} : hook'[g] = hook[g]
    BY <1>1, <2>1 DEF HookInv, Hook
  <2>3. MovesTo(f, "pop_head")
    <3>1. IInv'
      BY <1>2, PollSteps
    <3> QED BY <2>2, <3>1 DEF MovesTo, IInv, HookInv
  <2>4. ~Clear
    BY <1>2, <2>2 DEF TakeRequest, At, Clear
  <2>5. /\ d \in Decision /\ d.stage = "request" /\ KeyInv'
        /\ handed' = [handed EXCEPT ![f] = h \cup {d}]
    BY <2>1, <2>4, OneHanded DEF IInv, h
  <2>6. h = {} /\ wire[f] = "held"
    BY <1>1, <1>2 DEF TakeRequest, At, Fated, Unsent
  <2>7. Fated("pop_head", "held", {d})
    BY DEF Fated, Unsent, Between, After
  <2>8. wire' = [wire EXCEPT ![f] = "held"]
    BY <1>1, <1>2, <2>6 DEF TakeRequest, HookInv
  <2>9. handed' = [handed EXCEPT ![f] = {d}]
    BY <2>5, <2>6
  <2>10. /\ {d} \in SUBSET Decision /\ "held" \in Wire
         /\ \E e \in Decision : e.stage = "request" /\ hook'[f].took = {e} /\ {d} = {e}
    BY <2>2, <2>5 DEF Wire
  <2> HIDE DEF h
  <2> QED BY <1>1, <2>3, <2>5, <2>7, <2>8, <2>9, <2>10, FateMoves
<1>3. CASE ActOnRequest(f)
  <2>1. PICK d \in Decision : d.stage = "request" /\ hook[f].took = {d} /\ h = {d}
    BY <1>3 DEF ActOnRequest, At, FateInv, Taken, h
  <2>2. UNCHANGED decisions
    BY <1>3 DEF ActOnRequest, PopHead
  <2>3. IInv' /\ \A g \in Flows \ {f} : hook'[g] = hook[g]
    BY <1>1, <1>3, PollSteps DEF ActOnRequest, HookInv
  <2>4. CASE d.verdict = "drop"
    <3>1. hook'[f].pc = "mark_dropped" /\ wire' = [wire EXCEPT ![f] = "killed"]
      BY <1>1, <1>3, <2>1, <2>4 DEF ActOnRequest, Set, HookInv, Hook
    <3>2. MovesTo(f, "mark_dropped")
      BY <2>3, <3>1 DEF MovesTo, IInv, HookInv
    <3>3. Fated("mark_dropped", "killed", h)
      BY <2>1, <2>4 DEF Fated, Ended, Unsent, Between, After
    <3> QED BY <1>1, <2>2, <3>1, <3>2, <3>3, FateGoes DEF Wire, PCs, Calls, VoidCalls, h
  <2>5. CASE d.verdict # "drop"
    <3>1. hook'[f].pc = "upstream" /\ wire' = [wire EXCEPT ![f] = "sent"]
      BY <1>1, <1>3, <2>1, <2>5 DEF ActOnRequest, Set, HookInv, Hook
    <3>2. MovesTo(f, "upstream")
      BY <2>3, <3>1 DEF MovesTo, IInv, HookInv
    <3>3. Fated("upstream", "sent", h)
      BY <2>1, <2>5 DEF Fated, Unsent, Between, After
    <3> QED BY <1>1, <2>2, <3>1, <3>2, <3>3, FateGoes DEF Wire, PCs, h
  <2> QED BY <2>4, <2>5
<1>4. CASE TakeResponse(f)
  <2>1. PICK d \in Stored(f, "response") :
          /\ TakeDecision(d)
          /\ \/ d.verdict = "drop" /\ Goto(f, "mark_dropped") /\ Set(f, "killed")
             \/ d.verdict = "forward" /\ Goto(f, "complete_flow") /\ UNCHANGED wire
             \/ d.verdict = "forward" /\ Goto(f, "done") /\ Set(f, "delivered")
    BY <1>4 DEF TakeResponse, Delivered
  <2>2. \A g \in h : g.stage = "request" /\ g.verdict # "drop"
    BY <1>1, <1>4 DEF TakeResponse, At, Fated, Between
  <2>3. wire[f] = "sent" /\ At(f, "take_response_decision")
    BY <1>1, <1>4 DEF TakeResponse, At, Fated, Between
  <2>4. PICK p \in {"mark_dropped", "complete_flow", "done"} : Goto(f, p)
    BY <2>1
  <2>5. MovesTo(f, p)
    BY <1>1, <2>4, GotoMoves DEF PCs, Calls, VoidCalls
  <2>6. ~Clear
    BY <2>3, <2>5 DEF MovesTo, At, Clear
  <2>7. /\ d \in Decision /\ d.stage = "response" /\ KeyInv'
        /\ handed' = [handed EXCEPT ![f] = h \cup {d}] /\ h \cup {d} \in SUBSET Decision
    BY <2>1, <2>6, OneHanded DEF IInv, h
  <2>8. ASSUME NEW w \in Wire, wire' = [wire EXCEPT ![f] = w],
               NEW q \in {"mark_dropped", "complete_flow", "done"}, Goto(f, q),
               Fated(q, w, h \cup {d})
        PROVE  FateInv'
    <3>1. MovesTo(f, q)
      BY <1>1, <2>8, GotoMoves DEF PCs, Calls, VoidCalls
    <3> QED BY <1>1, <2>7, <2>8, <3>1, FateMoves
  <2>9. CASE d.verdict = "drop" /\ Goto(f, "mark_dropped") /\ Set(f, "killed")
    <3>1. Fated("mark_dropped", "killed", h \cup {d})
      BY <2>2, <2>7, <2>9 DEF Fated, Ended, Unsent, Between, After
    <3> QED BY <2>8, <2>9, <3>1 DEF Set, Wire
  <2>10. CASE d.verdict = "forward" /\ Goto(f, "complete_flow") /\ UNCHANGED wire
    <3>1. Fated("complete_flow", "sent", h \cup {d})
      BY <2>2, <2>7, <2>10 DEF Fated, Unsent, Between, After
    <3>2. wire' = [wire EXCEPT ![f] = "sent"]
      BY <1>1, <2>3, <2>10 DEF HookInv
    <3> QED BY <2>8, <2>10, <3>1, <3>2 DEF Wire
  <2>11. CASE d.verdict = "forward" /\ Goto(f, "done") /\ Set(f, "delivered")
    <3>1. Fated("done", "delivered", h \cup {d})
      BY <2>2, <2>7, <2>11 DEF Fated, Ended, Unsent, Between, After
    <3> QED BY <2>8, <2>11, <3>1 DEF Set, Wire
  <2> QED BY <2>1, <2>9, <2>10, <2>11
<1> QED BY <1>2, <1>3, <1>4

\* Steps of the API and the user touch neither hooks nor wire.
LEMMA FateOutside ==
  ASSUME FateInv, UNCHANGED <<hook, wire, handed>>, KeyInv'
  PROVE  FateInv'
<1>1. \A f \in Flows : Fated(hook[f].pc, wire[f], handed[f])' /\ Taken(f)'
  BY DEF FateInv, Taken, At, Fated, Ended
<1> QED BY <1>1 DEF FateInv

LEMMA NextFate ==
  ASSUME ~Lossy, IInv, FlowInv, FateInv, [HNext]_hvars
  PROVE  FateInv'
<1>1. CASE UNCHANGED hvars
  <2>1. UNCHANGED <<hook, wire, handed, decisions>>
    BY <1>1 DEF hvars, vars, service
  <2> QED BY <2>1, FateOutside DEF FateInv, KeyInv
<1>2. CASE HNext /\ (RunInFlight \/ DecideRequest \/ DecideResponse)
  <2>1. UNCHANGED <<hook, wire>>
    BY <1>2 DEF RunInFlight, Run, DecideRequest, DecideResponse
  <2>2. decisions' = decisions \/ \E d \in Decision : decisions' = Replacing(d)
    <3>1. CASE RunInFlight
      <4>1. PICK c \in inflight : Run(c)
        BY <3>1 DEF RunInFlight
      <4>2. c.op \in SecondSteps
        BY DEF FlowInv, OwnInv
      <4>3. \E s \in Final : SetFinalStatus(c.flow, s)
        BY <4>1, <4>2 DEF Run, Serve, SecondSteps, Takes, Final
      <4> QED BY <4>3 DEF SetFinalStatus, service
    <3>2. CASE DecideRequest
      BY <3>2 DEF DecideRequest, SetRequestDecision, Decision
    <3>3. CASE DecideResponse
      BY <3>3 DEF DecideResponse, SetResponseDecision, Decision, Verdicts
    <3> QED BY <1>2, <3>1, <3>2, <3>3
  <2>3. handed' = handed /\ KeyInv'
    BY <1>2, <2>2, NothingHanded DEF HNext, FateInv
  <2> QED BY <2>1, <2>3, FateOutside
<1>3. CASE HNext /\ Clear
  <2>1. UNCHANGED <<hook, wire>> /\ decisions' = {} /\ GivenOut = {}
    BY <1>3 DEF Clear, ClearHistory, GivenOut
  <2>2. handed' = handed
    BY <1>3, <2>1 DEF HNext, Remember, FateInv
  <2> QED BY <2>1, <2>2, FateOutside DEF KeyInv
<1>4. ASSUME NEW f \in Flows, Step(f), Remember
      PROVE  FateInv'
  BY <1>4, FateStays, FateTakes, NothingLost DEF Step, Acquire, Deadline, Work, Outside
<1> QED BY <1>1, <1>2, <1>3, <1>4 DEF HNext, Next, User

\* A decision the API hands out is followed by the hook it was made for,
\* whatever the user does meanwhile, clearings of the history included.
THEOREM TakenDecisionsArrive == ASSUME ~Lossy PROVE HSpec => []TakenArrives
<1>1. HInit => Init /\ FateInv
  <2>1. HInit => Init
    BY DEF HInit
  <2>2. HInit => FateInv
    BY DEF HInit, Init, ServiceInit, FateInv, KeyInv, Fated, Taken, At, Unsent, Between, After
  <2> QED BY <2>1, <2>2
<1>2. [HNext]_hvars => [Next]_vars
  BY DEF HNext, hvars
<1>3. IInv /\ FlowInv /\ FateInv /\ [HNext]_hvars => FateInv'
  BY NextFate
<1>4. IInv /\ FateInv => TakenArrives
  <2>1. SUFFICES ASSUME IInv, FateInv, NEW f \in Flows, NEW d \in handed[f]
                 PROVE  Followed(f, d)
    BY DEF TakenArrives
  <2>2. hook[f].pc \in Unsent \cup Between \cup After \cup {"pop_head", "complete_flow"}
    BY <2>1 DEF IInv, HookInv, Hook, Calls, VoidCalls, Takes, Unsent, Between, After
  <2>3. Fated(hook[f].pc, wire[f], handed[f]) /\ Taken(f)
    BY <2>1 DEF FateInv
  <2>4. CASE hook[f].pc = "pop_head"
    BY <2>1, <2>3, <2>4 DEF Taken, At, Followed
  <2>5. CASE hook[f].pc # "pop_head"
    BY <2>1, <2>2, <2>3, <2>5 DEF Fated, Ended, Followed, At
  <2> QED BY <2>4, <2>5
<1>5. HSpec => Spec
  BY <1>1, <1>2, PTL DEF HSpec, Spec
<1> QED BY <1>1, <1>3, <1>4, <1>5, FlowsInductive, PTL DEF HSpec
=============================================================================
