-------------------------- MODULE RepositoryProofs --------------------------
(***************************************************************************)
(* What Repository.tla promises, for every set of flows and every bound on *)
(* writes and events: proved with the inductive invariant IInv.            *)
(***************************************************************************)
EXTENDS Repository, TLAPS

Statements ==
  {"put_row", "put_decision", "drop_decision", "put_event", "drop_rows",
   "drop_orphan_decisions", "drop_orphan_events",
   "wipe_decisions", "wipe_events", "wipe_rows"}

CallType ==
  [op: Methods \cup {"idle"}, sel: SUBSET Flows, value: 0..MaxWrites, at: 1..5, clean: BOOLEAN]

\* The statements of a script as a method that has come to position k.
Step(op, k) == Script[op][k]

\* What a method was called with.
CallInv ==
  /\ call.op \in {"upsert_flow", "set_decision"} => call.value = writes /\ writes > 0
  /\ call.op \in {"set_decision", "take_decision"} => \E f \in Flows : call.sel = {f}
  /\ call.op = "append_event" /\ call.at = 1 => work.seq < MaxSeq
  /\ call.op = "take_decision" => call.value \in 1..writes

\* A method that began with no open transaction has added to what is durable
\* exactly the statements it has run.
ProgressInv ==
  Busy /\ call.clean =>
    /\ call.at = 1 => work = durable
    /\ call.at = 2 /\ 1 <= Length => work = After(Step(call.op, 1), call, durable)
    /\ call.at = 3 /\ 2 <= Length =>
         work = After(Step(call.op, 2), call, After(Step(call.op, 1), call, durable))
    /\ call.at = 4 /\ 3 <= Length =>
         work = After(Step(call.op, 3), call,
                  After(Step(call.op, 2), call, After(Step(call.op, 1), call, durable)))

CommitInv == Busy /\ call.at = Length + 2 => durable = work

\* No two flows hold the same decision.
Distinct(w) ==
  \A f, g \in Flows : w.decisions[f] = w.decisions[g] /\ w.decisions[f] # 0 => f = g

Numbered(w) == \A f \in Flows : w.decisions[f] <= writes

\* A decision is handed out after its deletion was committed, and the decision
\* about to be stored is a new one.
DecisionInv ==
  /\ Distinct(work) /\ Distinct(durable)
  /\ Numbered(work) /\ Numbered(durable)
  /\ handed \subseteq 1..writes
  /\ call.op = "take_decision" =>
       /\ call.at = 1 => \A f \in call.sel : work.decisions[f] = call.value
       /\ call.at > 1 => \A f \in Flows : work.decisions[f] # call.value
  /\ call.op = "set_decision" =>
       /\ call.value \notin handed
       /\ call.at = 1 => \A f \in Flows : work.decisions[f] < call.value

\* Event ids that were returned are below the sequence a crash comes back to.
EventInv ==
  /\ \A i \in issued : i <= durable.seq
  /\ durable.seq <= work.seq
  /\ call.op = "append_event" /\ call.at > 1 =>
       work.seq > 0 /\ \A i \in issued : i < work.seq

IInv ==
  /\ TypeOK /\ CallInv /\ ProgressInv /\ CommitInv /\ Acknowledged
  /\ DecisionInv /\ HandedOutOnce /\ EventInv
-----------------------------------------------------------------------------
LEMMA Scripts ==
  /\ Methods = {"upsert_flow", "set_decision", "take_decision", "append_event",
                "cleanup_old", "clear_all"}
  /\ Script["upsert_flow"] = <<"put_row">>
  /\ Script["set_decision"] = <<"put_decision">>
  /\ Script["take_decision"] = <<"drop_decision">>
  /\ Script["append_event"] = <<"put_event">>
  /\ Script["cleanup_old"] = <<"drop_rows", "drop_orphan_decisions", "drop_orphan_events">>
  /\ Script["clear_all"] = <<"wipe_decisions", "wipe_events", "wipe_rows">>
  /\ "idle" \notin Methods
PROOF BY DEF Methods, Script

LEMMA ScriptLengths ==
  /\ \A op \in Methods : Len(Script[op]) \in 1..3
  /\ \A op \in {"upsert_flow", "set_decision", "take_decision", "append_event"} :
       Len(Script[op]) = 1
  /\ \A op \in {"cleanup_old", "clear_all"} : Len(Script[op]) = 3
PROOF BY Scripts

LEMMA ScriptSteps ==
  ASSUME NEW op \in Methods, NEW k \in 1..Len(Script[op])
  PROVE  /\ Script[op][k] \in Statements
         /\ Script[op][k] = "put_decision" => op = "set_decision" /\ k = 1
         /\ Script[op][k] = "put_event" => op = "append_event" /\ k = 1
         /\ op = "set_decision" => Script[op][k] = "put_decision"
         /\ op = "take_decision" => Script[op][k] = "drop_decision"
         /\ op = "append_event" => Script[op][k] = "put_event"
PROOF
  <1>1. CASE op \in {"upsert_flow", "set_decision", "take_decision", "append_event"}
    <2>1. Len(Script[op]) = 1
      BY <1>1, ScriptLengths
    <2>2. k = 1
      BY <2>1
    <2>3. QED
      BY <1>1, <2>2, Scripts DEF Statements
  <1>2. CASE op \in {"cleanup_old", "clear_all"}
    <2>1. Len(Script[op]) = 3
      BY <1>2, ScriptLengths
    <2>2. k = 1 \/ k = 2 \/ k = 3
      BY <2>1
    <2>3. QED
      BY <1>2, <2>2, Scripts DEF Statements
  <1>3. QED
    BY <1>1, <1>2, Scripts

\* A statement keeps the tables well typed.
LEMMA AfterType ==
  ASSUME NEW s \in Statements, NEW c \in CallType, NEW w \in TablesType,
         s = "put_event" => w.seq < MaxSeq
  PROVE  After(s, c, w) \in TablesType
PROOF
  <1>1. \A C \in Decided, S \in SUBSET Flows, n \in 0..MaxWrites : T!Write(C, S, n) \in Decided
    BY DEF Decided, T!Write
  <1>2. T!Missing(w) \in SUBSET Flows /\ T!Orphans(w) \subseteq w.events
    BY DEF T!Missing, T!Orphans
  <1>3. T!Absent \in 0..MaxWrites
    BY BoundsAssumption DEF T!Absent
  <1>4. T!Empty.rows \in Decided /\ T!Empty.decisions \in Decided
    BY <1>3 DEF T!Empty, Decided
  <1>5. c.sel \in SUBSET Flows /\ c.value \in 0..MaxWrites
    BY DEF CallType
  <1>6. w.rows \in Decided /\ w.decisions \in Decided
    BY DEF TablesType
  <1>7. CASE s \in {"put_row", "drop_rows", "wipe_rows"}
    BY <1>1, <1>3, <1>4, <1>5, <1>6, <1>7 DEF After, TablesType
  <1>8. CASE s \in {"put_decision", "drop_decision", "drop_orphan_decisions", "wipe_decisions"}
    BY <1>1, <1>2, <1>3, <1>4, <1>5, <1>6, <1>8 DEF After, TablesType
  <1>9. CASE s \in {"drop_orphan_events", "wipe_events"}
    BY <1>2, <1>9 DEF After, TablesType
  <1>10. CASE s = "put_event"
    <2>1. NextId(w) \in 1..MaxSeq
      BY <1>10, BoundsAssumption DEF NextId, TablesType
    <2>2. [id |-> NextId(w), about |-> c.sel] \in [id: 1..MaxSeq, about: SUBSET Flows]
      BY <2>1, <1>5
    <2>3. w.events \cup {[id |-> NextId(w), about |-> c.sel]}
            \in SUBSET [id: 1..MaxSeq, about: SUBSET Flows]
      BY <2>2 DEF TablesType
    <2>4. After(s, c, w) = [w EXCEPT !.seq = NextId(w),
                              !.events = @ \cup {[id |-> NextId(w), about |-> c.sel]}]
      BY <1>10 DEF After
    <2>5. NextId(w) \in 0..MaxSeq
      BY <2>1
    <2>6. QED
      BY <2>3, <2>4, <2>5 DEF TablesType
  <1>11. QED
    BY <1>7, <1>8, <1>9, <1>10 DEF Statements

\* A statement leaves a decision alone or removes it, unless it stores one.
LEMMA AfterDecision ==
  ASSUME NEW s \in Statements, NEW c \in CallType, NEW w \in TablesType, NEW f \in Flows
  PROVE  LET d == After(s, c, w).decisions[f]
         IN  /\ s # "put_decision" => d = w.decisions[f] \/ d = 0
             /\ s = "put_decision" => d = IF f \in c.sel THEN c.value ELSE w.decisions[f]
             /\ s = "drop_decision" => d = IF f \in c.sel THEN 0 ELSE w.decisions[f]
PROOF
  BY DEF Statements, After, T!Write, T!Absent, T!Empty, TablesType

\* Only an INSERT of an event moves the sequence, by one.
LEMMA AfterSeq ==
  ASSUME NEW s \in Statements, NEW c, NEW w \in TablesType
  PROVE  After(s, c, w).seq = IF s = "put_event" THEN w.seq + 1 ELSE w.seq
PROOF
  BY DEF Statements, After, NextId, TablesType

\* What a statement does depends on the arguments of the call alone.
LEMMA AfterArguments ==
  ASSUME NEW s \in Statements, NEW c, NEW d, NEW w, c.sel = d.sel, c.value = d.value
  PROVE  After(s, c, w) = After(s, d, w)
PROOF
  BY DEF Statements, After
-----------------------------------------------------------------------------
\* A method that begins changes nothing yet.
LEMMA StartKeeps ==
  ASSUME IInv, NEW op \in Methods, NEW S \in SUBSET Flows, NEW n \in 0..MaxWrites,
         Start(op, S, n), writes' \in writes..MaxWrites,
         op \in {"upsert_flow", "set_decision"} => n = writes' /\ writes < writes',
         op \in {"set_decision", "take_decision"} => \E f \in Flows : S = {f},
         op = "append_event" => work.seq < MaxSeq,
         op = "take_decision" =>
           n # 0 /\ \E f \in Flows : S = {f} /\ work.decisions[f] = n
  PROVE  IInv'
PROOF
  <1> USE DEF IInv
  <1>1. call' = [op |-> op, sel |-> S, value |-> n, at |-> 1, clean |-> work = durable]
        /\ work' = work /\ durable' = durable /\ handed' = handed /\ issued' = issued
        /\ outcome' = outcome
    BY DEF Start
  <1>2. writes \in 0..MaxWrites /\ writes' \in 0..MaxWrites /\ writes <= writes'
    BY BoundsAssumption DEF TypeOK
  <1>3. TypeOK'
    <2>1. Len(Script[op]) \in 1..3
      BY ScriptLengths
    <2>2. call' \in CallType
      BY <1>1 DEF CallType
    <2>3. Busy' => call.at' <= Length' + 2
      BY <1>1, <2>1 DEF Busy, Length
    <2>4. QED
      BY <1>1, <1>2, <2>2, <2>3 DEF TypeOK, CallType
  <1>4. CallInv'
    <2>1. op = "take_decision" => n \in 1..writes'
      BY <1>2 DEF DecisionInv, Numbered, TypeOK, TablesType, Decided
    <2>2. QED
      BY <1>1, <1>2, <2>1 DEF CallInv
  <1>5. ProgressInv'
    <2>1. call'.at = 1
      BY <1>1
    <2>2. call'.clean => work' = durable'
      BY <1>1
    <2>3. QED
      BY <2>1, <2>2 DEF ProgressInv
  <1>6. CommitInv' /\ Acknowledged'
    <2>1. Len(Script[op]) \in 1..3 /\ op # "idle"
      BY ScriptLengths, Scripts
    <2>2. QED
      BY <1>1, <2>1 DEF CommitInv, Acknowledged, Busy, Length
  <1>7. DecisionInv'
    <2>1. (Distinct(work) /\ Distinct(durable) /\ Numbered(work) /\ Numbered(durable))'
      BY <1>1, <1>2 DEF DecisionInv, Distinct, Numbered, TypeOK, TablesType, Decided
    <2>2. handed' \subseteq 1..writes'
      BY <1>1, <1>2 DEF DecisionInv
    <2>3. op = "take_decision" => \A f \in S : work.decisions[f] = n
      OBVIOUS
    <2>4. op = "set_decision" => n \notin handed /\ \A f \in Flows : work.decisions[f] < n
      BY <1>2 DEF DecisionInv, Numbered, TypeOK, TablesType, Decided
    <2>5. QED
      BY <1>1, <2>1, <2>2, <2>3, <2>4 DEF DecisionInv
  <1>8. HandedOutOnce' /\ EventInv'
    BY <1>1 DEF HandedOutOnce, EventInv
  <1>9. QED
    BY <1>3, <1>4, <1>5, <1>6, <1>7, <1>8

LEMMA StartsKeep ==
  ASSUME IInv,
         UpsertFlow \/ SetDecision \/ TakeDecision \/ AppendEvent \/ CleanupOld \/ ClearAll
  PROVE  IInv'
PROOF
  <1>1. writes \in 0..MaxWrites /\ work.decisions \in [Flows -> 0..MaxWrites]
    BY DEF IInv, TypeOK, TablesType, Decided
  <1>2. CASE UpsertFlow
    <2>1. PICK f \in Flows : Start("upsert_flow", {f}, writes + 1)
      BY <1>2 DEF UpsertFlow
    <2>2. writes' = writes + 1 /\ writes + 1 \in 0..MaxWrites
      BY <1>1, <1>2, BoundsAssumption DEF UpsertFlow
    <2>3. QED
      BY <1>1, <2>1, <2>2, StartKeeps, Scripts, BoundsAssumption
  <1>3. CASE SetDecision
    <2>1. PICK f \in Flows : Start("set_decision", {f}, writes + 1)
      BY <1>3 DEF SetDecision
    <2>2. writes' = writes + 1 /\ writes + 1 \in 0..MaxWrites
      BY <1>1, <1>3, BoundsAssumption DEF SetDecision
    <2>3. QED
      BY <1>1, <2>1, <2>2, StartKeeps, Scripts, BoundsAssumption
  <1>4. CASE TakeDecision
    <2>1. PICK f \in Flows : work.decisions[f] # 0
                             /\ Start("take_decision", {f}, work.decisions[f])
      BY <1>4 DEF TakeDecision, T!Absent
    <2>2. writes' = writes
      BY <1>4 DEF TakeDecision
    <2>3. QED
      BY <1>1, <2>1, <2>2, StartKeeps, Scripts, BoundsAssumption
  <1>5. CASE AppendEvent
    <2>1. PICK S \in SUBSET Flows : Start("append_event", S, 0)
      BY <1>5 DEF AppendEvent
    <2>2. writes' = writes /\ work.seq < MaxSeq
      BY <1>5 DEF AppendEvent
    <2>3. QED
      BY <1>1, <2>1, <2>2, StartKeeps, Scripts, BoundsAssumption
  <1>6. CASE CleanupOld
    <2>1. PICK S \in SUBSET Flows : Start("cleanup_old", S, 0)
      BY <1>6 DEF CleanupOld
    <2>2. writes' = writes
      BY <1>6 DEF CleanupOld
    <2>3. QED
      BY <1>1, <2>1, <2>2, StartKeeps, Scripts, BoundsAssumption
  <1>7. CASE ClearAll
    BY <1>1, <1>7, StartKeeps, Scripts, BoundsAssumption DEF ClearAll
  <1>8. QED
    BY <1>2, <1>3, <1>4, <1>5, <1>6, <1>7

LEMMA ExecuteKeeps ==
  ASSUME IInv, Execute
  PROVE  IInv'
PROOF
  <1> USE DEF IInv
  <1> DEFINE k == call.at
  <1> DEFINE s == Script[call.op][k]
  <1>1. call \in CallType /\ call.op \in Methods
    BY DEF TypeOK, CallType, Execute, Busy
  <1>2. k \in 1..Length /\ Length \in 1..3
    <2>1. Len(Script[call.op]) \in 1..3
      BY <1>1, ScriptLengths
    <2>2. k \in 1..5
      BY <1>1 DEF CallType
    <2>3. QED
      BY <2>1, <2>2 DEF Execute, Length
  <1>3. /\ s \in Statements
        /\ s = "put_decision" => call.op = "set_decision" /\ k = 1
        /\ s = "put_event" => call.op = "append_event" /\ k = 1
        /\ call.op = "set_decision" => s = "put_decision"
        /\ call.op = "take_decision" => s = "drop_decision"
        /\ call.op = "append_event" => s = "put_event"
    BY <1>1, <1>2, ScriptSteps DEF Length
  <1>4. work' = After(s, call, work)
    BY DEF Execute
  <1>5. call' = [call EXCEPT !.at = k + 1]
    BY DEF Execute
  <1>6. /\ call' \in CallType /\ call'.at = k + 1 /\ call'.op = call.op
        /\ call'.sel = call.sel /\ call'.value = call.value /\ call'.clean = call.clean
    BY <1>1, <1>2, <1>5 DEF CallType
  <1>7. durable' = durable /\ outcome' = outcome /\ writes' = writes
        /\ handed' = handed /\ issued' = issued
    BY DEF Execute
  <1>8. Length' = Length /\ Busy
    BY <1>6 DEF Length, Execute
  <1>9. work \in TablesType /\ durable \in TablesType /\ work' \in TablesType
    <2>1. work \in TablesType /\ durable \in TablesType
      BY DEF TypeOK
    <2>2. s = "put_event" => work.seq < MaxSeq
      BY <1>3 DEF CallInv
    <2>3. QED
      BY <1>1, <1>3, <1>4, <2>1, <2>2, AfterType
  <1>10. TypeOK'
    <2>1. Busy' => call.at' <= Length' + 2
      BY <1>2, <1>6, <1>8
    <2>2. QED
      BY <1>6, <1>7, <1>9, <2>1 DEF TypeOK, CallType
  <1>11. CallInv'
    BY <1>2, <1>6, <1>7 DEF CallInv
  <1>12. ProgressInv'
    <2>1. \A t \in Statements : \A w : After(t, call', w) = After(t, call, w)
      BY <1>6, AfterArguments
    <2>2. \A j \in 1..Length : Step(call.op, j) \in Statements
      BY <1>1, ScriptSteps DEF Step, Length
    <2>3. SUFFICES ASSUME call.clean
                   PROVE  ProgressInv'
      BY <1>6 DEF ProgressInv
    <2>4. CASE k = 1
      BY <1>2, <1>4, <1>6, <1>7, <1>8, <2>1, <2>2, <2>3, <2>4 DEF ProgressInv, Step
    <2>5. CASE k = 2
      BY <1>2, <1>4, <1>6, <1>7, <1>8, <2>1, <2>2, <2>3, <2>5 DEF ProgressInv, Step
    <2>6. CASE k = 3
      BY <1>2, <1>4, <1>6, <1>7, <1>8, <2>1, <2>2, <2>3, <2>6 DEF ProgressInv, Step
    <2>7. QED
      BY <1>2, <2>4, <2>5, <2>6
  <1>13. CommitInv' /\ Acknowledged'
    BY <1>2, <1>6, <1>8 DEF CommitInv, Acknowledged, Busy
  <1>14. \A f \in Flows :
           /\ s # "put_decision" => work'.decisions[f] = work.decisions[f] \/ work'.decisions[f] = 0
           /\ s = "put_decision" =>
                work'.decisions[f] = IF f \in call.sel THEN call.value ELSE work.decisions[f]
           /\ s = "drop_decision" =>
                work'.decisions[f] = IF f \in call.sel THEN 0 ELSE work.decisions[f]
    BY <1>1, <1>3, <1>4, <1>9, AfterDecision
  <1>15. /\ \A f \in Flows : work.decisions[f] \in Nat
         /\ call.value \in Nat /\ writes \in Nat
         /\ \A f \in Flows : durable.decisions[f] \in Nat
    BY <1>1, <1>9, BoundsAssumption DEF TypeOK, TablesType, Decided, CallType
  <1>16. DecisionInv'
    <2>1. Distinct(work)'
      <3>1. CASE s # "put_decision"
        BY <3>1, <1>14 DEF DecisionInv, Distinct
      <3>2. CASE s = "put_decision"
        <4>1. PICK g \in Flows : call.sel = {g}
          BY <1>3, <3>2 DEF CallInv
        <4>2. \A f \in Flows : work.decisions[f] < call.value
          BY <1>3, <3>2 DEF DecisionInv
        <4>3. QED
          BY <1>14, <1>15, <3>2, <4>1, <4>2 DEF DecisionInv, Distinct
      <3>3. QED
        BY <3>1, <3>2
    <2>2. Numbered(work)'
      <3>1. s = "put_decision" => call.value = writes
        BY <1>3 DEF CallInv
      <3>2. QED
        BY <1>7, <1>14, <1>15, <3>1 DEF DecisionInv, Numbered
    <2>3. (Distinct(durable) /\ Numbered(durable) /\ handed \subseteq 1..writes)'
      BY <1>7 DEF DecisionInv, Distinct, Numbered
    <2>4. call.op = "take_decision" => \A f \in Flows : work'.decisions[f] # call.value
      <3>1. SUFFICES ASSUME call.op = "take_decision", NEW f \in Flows
                     PROVE  work'.decisions[f] # call.value
        OBVIOUS
      <3>2. call.value # 0 /\ s = "drop_decision"
        BY <1>3, <3>1 DEF CallInv
      <3>3. k = 1
        <4>1. Length = 1
          BY <3>1, ScriptLengths DEF Length
        <4>2. QED
          BY <1>2, <4>1
      <3>4. PICK g \in Flows : call.sel = {g}
        BY <3>1 DEF CallInv
      <3>5. work.decisions[g] = call.value
        BY <3>1, <3>3, <3>4 DEF DecisionInv
      <3>6. QED
        BY <1>14, <3>2, <3>4, <3>5 DEF DecisionInv, Distinct
    <2>5. QED
      BY <1>2, <1>6, <1>7, <2>1, <2>2, <2>3, <2>4 DEF DecisionInv
  <1>17. HandedOutOnce'
    <2>1. 0 \notin handed
      BY DEF DecisionInv
    <2>2. s = "put_decision" => call.value \notin handed
      BY <1>3 DEF DecisionInv
    <2>3. QED
      BY <1>7, <1>14, <2>1, <2>2 DEF HandedOutOnce
  <1>18. EventInv'
    <2>1. work'.seq = IF s = "put_event" THEN work.seq + 1 ELSE work.seq
      BY <1>3, <1>4, <1>9, AfterSeq
    <2>2. work.seq \in Nat /\ durable.seq \in Nat /\ \A i \in issued : i \in Nat
      BY <1>9, BoundsAssumption DEF TablesType, TypeOK
    <2>3. QED
      BY <1>2, <1>3, <1>6, <1>7, <2>1, <2>2 DEF EventInv
  <1>19. QED
    BY <1>10, <1>11, <1>12, <1>13, <1>16, <1>17, <1>18

LEMMA CommitKeeps ==
  ASSUME IInv, Commit
  PROVE  IInv'
PROOF
  <1> USE DEF IInv
  <1>1. call \in CallType /\ call.op \in Methods /\ Busy /\ call.at = Length + 1
    BY DEF TypeOK, CallType, Commit, Busy
  <1>2. Length \in 1..3
    BY <1>1, ScriptLengths DEF Length
  <1>3. call' = [call EXCEPT !.at = call.at + 1]
    BY DEF Commit
  <1>4. /\ call' \in CallType /\ call'.at = Length + 2 /\ call'.op = call.op
        /\ call'.sel = call.sel /\ call'.value = call.value /\ call'.clean = call.clean
    BY <1>1, <1>2, <1>3 DEF CallType
  <1>5. durable' = work /\ work' = work /\ outcome' = outcome /\ writes' = writes
        /\ handed' = handed /\ issued' = issued
    BY DEF Commit
  <1>6. Length' = Length
    BY <1>4 DEF Length
  <1>7. TypeOK'
    BY <1>4, <1>5, <1>6 DEF TypeOK, CallType
  <1>8. CallInv'
    BY <1>2, <1>4, <1>5 DEF CallInv
  <1>9. ProgressInv'
    BY <1>2, <1>4, <1>6 DEF ProgressInv
  <1>10. CommitInv' /\ Acknowledged'
    BY <1>1, <1>4, <1>5 DEF CommitInv, Acknowledged, Busy
  <1>11. DecisionInv' /\ HandedOutOnce'
    BY <1>1, <1>2, <1>4, <1>5 DEF DecisionInv, Distinct, Numbered, HandedOutOnce
  <1>12. EventInv'
    <2>1. work.seq \in Nat /\ durable.seq \in Nat /\ \A i \in issued : i \in Nat
      BY BoundsAssumption DEF TablesType, TypeOK
    <2>2. QED
      BY <1>1, <1>2, <1>4, <1>5, <2>1 DEF EventInv
  <1>13. QED
    BY <1>7, <1>8, <1>9, <1>10, <1>11, <1>12

LEMMA ReturnKeeps ==
  ASSUME IInv, Return
  PROVE  IInv'
PROOF
  <1> USE DEF IInv
  <1>1. call \in CallType /\ call.op \in Methods /\ Busy /\ call.at = Length + 2
    BY DEF TypeOK, CallType, Return, Busy
  <1>2. Length \in 1..3
    BY <1>1, ScriptLengths DEF Length
  <1>3. /\ call' = Idle /\ outcome' = "returned"
        /\ handed' = IF call.op = "take_decision" THEN handed \cup {call.value} ELSE handed
        /\ issued' = IF call.op = "append_event" THEN issued \cup {work.seq} ELSE issued
        /\ work' = work /\ durable' = durable /\ writes' = writes
    BY DEF Return, Answer
  <1>4. durable = work
    BY <1>1 DEF CommitInv
  <1>5. ~Busy' /\ call'.op = "idle"
    BY <1>3 DEF Busy, Idle
  <1>6. work.seq \in 0..MaxSeq /\ durable.seq \in Nat /\ \A i \in issued : i \in Nat
    BY BoundsAssumption DEF TablesType, TypeOK
  <1>7. call.op = "append_event" => work.seq \in 1..MaxSeq
    <2>1. call.at > 1
      BY <1>1, <1>2
    <2>2. QED
      BY <1>6, <2>1 DEF EventInv
  <1>8. TypeOK'
    <2>1. Idle \in CallType
      BY BoundsAssumption DEF Idle, CallType
    <2>2. handed' \subseteq 1..MaxWrites
      <3>1. writes \in 0..MaxWrites /\ handed \subseteq 1..MaxWrites
        BY DEF TypeOK
      <3>2. call.op = "take_decision" => call.value \in 1..MaxWrites
        BY <3>1, BoundsAssumption DEF CallInv
      <3>3. QED
        BY <1>3, <3>1, <3>2
    <2>3. issued' \subseteq 1..MaxSeq
      BY <1>3, <1>7 DEF TypeOK
    <2>4. QED
      BY <1>3, <1>5, <2>1, <2>2, <2>3 DEF TypeOK, CallType
  <1>9. CallInv' /\ ProgressInv' /\ CommitInv'
    BY <1>5 DEF CallInv, ProgressInv, CommitInv
  <1>10. Acknowledged'
    BY <1>3, <1>4 DEF Acknowledged
  <1>11. DecisionInv'
    <2>1. handed' \subseteq 1..writes'
      BY <1>3 DEF DecisionInv, CallInv
    <2>2. QED
      BY <1>3, <1>5, <2>1 DEF DecisionInv, Distinct, Numbered
  <1>12. HandedOutOnce'
    <2>1. call.at > 1
      BY <1>1, <1>2
    <2>2. call.op = "take_decision" => \A f \in Flows : work.decisions[f] # call.value
      BY <2>1 DEF DecisionInv
    <2>3. QED
      BY <1>3, <1>4, <2>2 DEF HandedOutOnce
  <1>13. EventInv'
    BY <1>3, <1>4, <1>5, <1>6 DEF EventInv
  <1>14. QED
    BY <1>8, <1>9, <1>10, <1>11, <1>12, <1>13

LEMMA RaiseOrStopKeeps ==
  ASSUME IInv, Raise \/ Stop
  PROVE  IInv'
PROOF
  <1> USE DEF IInv
  <1>1. /\ call' = Idle /\ outcome' \in {"raised", "stopped"}
        /\ work' = work \/ work' = durable
        /\ durable' = durable /\ writes' = writes /\ handed' = handed /\ issued' = issued
    BY DEF Raise, Stop
  <1>2. ~Busy' /\ call'.op = "idle"
    BY <1>1 DEF Busy, Idle
  <1>3. work.seq \in Nat /\ durable.seq \in Nat
    BY BoundsAssumption DEF TablesType, TypeOK
  <1>4. TypeOK'
    <2>1. Idle \in CallType
      BY BoundsAssumption DEF Idle, CallType
    <2>2. QED
      BY <1>1, <1>2, <2>1 DEF TypeOK, CallType
  <1>5. CallInv' /\ ProgressInv' /\ CommitInv' /\ Acknowledged'
    BY <1>1, <1>2 DEF CallInv, ProgressInv, CommitInv, Acknowledged
  <1>6. DecisionInv' /\ HandedOutOnce'
    BY <1>1, <1>2 DEF DecisionInv, Distinct, Numbered, HandedOutOnce
  <1>7. EventInv'
    BY <1>1, <1>2, <1>3 DEF EventInv
  <1>8. QED
    BY <1>4, <1>5, <1>6, <1>7
-----------------------------------------------------------------------------
LEMMA InitHolds == Init => IInv
PROOF
  <1> SUFFICES ASSUME Init PROVE IInv
    OBVIOUS
  <1>1. /\ work = T!Empty /\ durable = T!Empty /\ call = Idle /\ outcome = "returned"
        /\ writes = 0 /\ handed = {} /\ issued = {}
    BY DEF Init
  <1>2. T!Empty \in TablesType
    <2>1. [f \in Flows |-> T!Absent] \in Decided
      BY BoundsAssumption DEF T!Absent, Decided
    <2>2. QED
      BY <2>1, BoundsAssumption DEF T!Empty, TablesType
  <1>3. ~Busy /\ call.op = "idle" /\ Idle \in CallType
    BY <1>1, BoundsAssumption DEF Idle, Busy, CallType
  <1>4. TypeOK
    BY <1>1, <1>2, <1>3, BoundsAssumption DEF TypeOK, CallType
  <1>5. \A f \in Flows : T!Empty.decisions[f] = 0
    BY DEF T!Empty, T!Absent
  <1>6. DecisionInv /\ HandedOutOnce /\ EventInv
    BY <1>1, <1>3, <1>5 DEF DecisionInv, Distinct, Numbered, HandedOutOnce, EventInv, T!Empty
  <1>7. QED
    BY <1>1, <1>3, <1>4, <1>6 DEF IInv, CallInv, ProgressInv, CommitInv, Acknowledged

\* Every step of every method, an exception or a crash at any statement
\* included, keeps what the properties rest on.
THEOREM Inductive == IInv /\ [Next]_vars => IInv'
PROOF
  <1> SUFFICES ASSUME IInv, [Next]_vars PROVE IInv'
    OBVIOUS
  <1>1. CASE UNCHANGED vars
    BY <1>1 DEF vars, IInv, TypeOK, Busy, Length, CallInv, ProgressInv, CommitInv,
      Acknowledged, DecisionInv, Distinct, Numbered, HandedOutOnce, EventInv
  <1>2. CASE Next
    BY <1>2, StartsKeep, ExecuteKeeps, CommitKeeps, ReturnKeeps, RaiseOrStopKeeps DEF Next
  <1>3. QED
    BY <1>1, <1>2

LEMMA Invariant == Spec => []IInv
PROOF
  BY InitHolds, Inductive, PTL DEF Spec

\* The tables, the method that runs and the histories stay well typed.
THEOREM TypeCorrect == Spec => []TypeOK
PROOF
  <1>1. IInv => TypeOK
    BY DEF IInv
  <1>2. QED
    BY <1>1, Invariant, PTL

\* A method returns after its commit, whatever methods raised before it.
THEOREM AcknowledgedIsDurable == Spec => []Acknowledged
PROOF
  <1>1. IInv => Acknowledged
    BY DEF IInv
  <1>2. QED
    BY <1>1, Invariant, PTL

\* A decision that was handed to the proxy is in no table any more, so that
\* neither a retry nor a crash brings it back.
THEOREM DecisionsHandedOutOnce == Spec => []HandedOutOnce
PROOF
  <1>1. IInv => HandedOutOnce
    BY DEF IInv
  <1>2. QED
    BY <1>1, Invariant, PTL

\* The id an event is published with was not published before.
THEOREM EventIdsAreUnique == Spec => []EventIdsUnique
PROOF
  <1>1. IInv => EventIdsUnique
    <2>1. SUFFICES ASSUME IInv, call.op = "append_event", call.at > Length
                   PROVE  work.seq \notin issued
      BY DEF EventIdsUnique
    <2>2. Length = 1
      BY <2>1, ScriptLengths DEF Length
    <2>3. work.seq \in Nat
      BY <2>1, BoundsAssumption DEF IInv, TypeOK, TablesType
    <2>4. QED
      BY <2>1, <2>2, <2>3 DEF IInv, EventInv
  <1>2. QED
    BY <1>1, Invariant, PTL
-----------------------------------------------------------------------------
\* The commit of a method that found no open transaction is one step of the
\* atomic tables.
LEMMA CommitIsAtomic ==
  ASSUME IInv, Commit, call.clean
  PROVE  T!Next
PROOF
  <1>1. /\ call \in CallType /\ call.op \in Methods /\ Busy /\ call.at = Length + 1
        /\ durable \in TablesType /\ durable' = work
    BY DEF IInv, TypeOK, CallType, Commit, Busy
  <1>2. call.sel \in SUBSET Flows
    BY <1>1 DEF CallType
  <1>3. ASSUME Length = 1
        PROVE  durable' = After(Script[call.op][1], call, durable)
    BY <1>1, <1>3 DEF IInv, ProgressInv, Step
  <1>4. ASSUME Length = 3
        PROVE  durable' = After(Script[call.op][3], call,
                            After(Script[call.op][2], call,
                              After(Script[call.op][1], call, durable)))
    BY <1>1, <1>4 DEF IInv, ProgressInv, Step
  <1>5. call.op \in {"upsert_flow", "set_decision"} => call.value \in 1..MaxWrites
    BY <1>1, BoundsAssumption DEF IInv, CallInv, CallType
  <1>6. CASE call.op = "upsert_flow"
    <2>1. durable' = After("put_row", call, durable)
      BY <1>3, <1>6, Scripts, ScriptLengths DEF Length
    <2>2. T!UpsertFlow(call.sel, call.value)
      BY <2>1 DEF T!UpsertFlow, After
    <2>3. QED
      BY <1>2, <1>5, <1>6, <2>2 DEF T!Next
  <1>7. CASE call.op = "set_decision"
    <2>1. durable' = After("put_decision", call, durable)
      BY <1>3, <1>7, Scripts, ScriptLengths DEF Length
    <2>2. T!SetDecision(call.sel, call.value)
      BY <2>1 DEF T!SetDecision, After
    <2>3. QED
      BY <1>2, <1>5, <1>7, <2>2 DEF T!Next
  <1>8. CASE call.op = "take_decision"
    <2>1. durable' = After("drop_decision", call, durable)
      BY <1>3, <1>8, Scripts, ScriptLengths DEF Length
    <2>2. T!TakeDecision(call.sel)
      BY <2>1 DEF T!TakeDecision, After
    <2>3. QED
      BY <1>2, <2>2 DEF T!Next
  <1>9. CASE call.op = "append_event"
    <2>1. durable' = After("put_event", call, durable)
      BY <1>3, <1>9, Scripts, ScriptLengths DEF Length
    <2>2. T!AppendEvent(call.sel)
      BY <2>1 DEF T!AppendEvent, After, NextId
    <2>3. QED
      BY <1>2, <2>2 DEF T!Next
  <1>10. CASE call.op = "cleanup_old"
    <2> DEFINE left == [durable EXCEPT !.rows = T!Write(@, call.sel, T!Absent)]
    <2> DEFINE mid == [left EXCEPT !.decisions = T!Write(@, T!Missing(left), T!Absent)]
    <2>1. durable' = After("drop_orphan_events", call,
                       After("drop_orphan_decisions", call, After("drop_rows", call, durable)))
      BY <1>4, <1>10, Scripts, ScriptLengths DEF Length
    <2>2. After("drop_rows", call, durable) = left
      BY DEF After
    <2>3. After("drop_orphan_decisions", call, left) = mid
      BY DEF After
    <2>4. After("drop_orphan_events", call, mid) = [mid EXCEPT !.events = @ \ T!Orphans(mid)]
      BY DEF After
    <2>5. T!Orphans(mid) = T!Orphans(left)
      BY <1>1 DEF T!Orphans, T!Missing, TablesType
    <2>6. durable' = [left EXCEPT !.decisions = T!Write(@, T!Missing(left), T!Absent),
                                  !.events = @ \ T!Orphans(left)]
      BY <1>1, <2>1, <2>2, <2>3, <2>4, <2>5 DEF TablesType
    <2>7. T!CleanupOld(call.sel)
      BY <2>6 DEF T!CleanupOld
    <2>8. QED
      BY <1>2, <2>7 DEF T!Next
  <1>11. CASE call.op = "clear_all"
    <2>1. durable' = After("wipe_rows", call,
                       After("wipe_events", call, After("wipe_decisions", call, durable)))
      BY <1>4, <1>11, Scripts, ScriptLengths DEF Length
    <2>2. durable' = [[[durable EXCEPT !.decisions = T!Empty.decisions]
                                EXCEPT !.events = {}]
                                EXCEPT !.rows = T!Empty.rows]
      BY <2>1 DEF After
    <2>3. durable' = [rows |-> T!Empty.rows, decisions |-> T!Empty.decisions,
                      events |-> {}, seq |-> durable.seq]
      BY <1>1, <2>2 DEF TablesType
    <2>4. T!ClearAll
      BY <2>3 DEF T!ClearAll, T!Empty
    <2>5. QED
      BY <2>4 DEF T!Next
  <1>12. QED
    BY <1>1, <1>6, <1>7, <1>8, <1>9, <1>10, <1>11, Scripts

\* Only a commit changes the file.
LEMMA OnlyCommitChanges ==
  ASSUME [Next]_vars, ~Commit
  PROVE  durable' = durable
PROOF
  BY DEF Next, UpsertFlow, SetDecision, TakeDecision, AppendEvent, CleanupOld, ClearAll,
    Start, Execute, Return, Answer, Raise, Stop, vars

\* A method that found no open transaction takes effect on disk as a whole or
\* not at all.
THEOREM MethodsAreAtomic == Spec => AllOrNothing
PROOF
  <1>1. IInv /\ [Next]_vars => [call.clean => T!Next]_durable
    BY CommitIsAtomic, OnlyCommitChanges
  <1>2. QED
    BY <1>1, Invariant, PTL DEF Spec, AllOrNothing

\* While no statement raises, every method finds the tables as committed.
Clean == IF Busy THEN call.clean ELSE work = durable

LEMMA CleanKept == IInv /\ Clean /\ [Next /\ outcome' # "raised"]_vars => Clean'
PROOF
  <1> SUFFICES ASSUME IInv, Clean, [Next /\ outcome' # "raised"]_vars
               PROVE  Clean'
    OBVIOUS
  <1>1. CASE UNCHANGED vars
    BY <1>1 DEF vars, Clean, Busy
  <1>2. ASSUME NEW op \in Methods, NEW S, NEW n, Start(op, S, n)
        PROVE  Clean'
    BY <1>2, Scripts DEF Start, Clean, Busy
  <1>3. CASE UpsertFlow \/ SetDecision \/ TakeDecision \/ AppendEvent \/ CleanupOld \/ ClearAll
    BY <1>2, <1>3, Scripts
      DEF UpsertFlow, SetDecision, TakeDecision, AppendEvent, CleanupOld, ClearAll
  <1>4. CASE Execute \/ Commit
    <2>1. call \in CallType
      BY DEF IInv, TypeOK, CallType
    <2>2. call'.op = call.op /\ call'.clean = call.clean /\ Busy
      BY <1>4, <2>1 DEF Execute, Commit, CallType
    <2>3. QED
      BY <2>2 DEF Clean, Busy
  <1>5. CASE Return
    BY <1>5 DEF Return, Answer, IInv, CommitInv, Clean, Busy, Idle
  <1>6. CASE Stop
    BY <1>6 DEF Stop, Clean, Busy, Idle
  <1>7. ASSUME Raise, outcome' # "raised"
        PROVE  FALSE
    BY <1>7 DEF Raise
  <1>8. QED
    BY <1>1, <1>3, <1>4, <1>5, <1>6, <1>7 DEF Next

\* While no statement raises, the repository implements the atomic tables: what
\* the models of the store take each of its methods for.
THEOREM ImplementsTables == Init /\ [][Next /\ outcome' # "raised"]_vars => T!Spec
PROOF
  <1> DEFINE Reliable == [Next /\ outcome' # "raised"]_vars
  <1>1. Init => IInv /\ Clean /\ durable = T!Empty
    BY InitHolds DEF Init, Clean, Busy, Idle
  <1>2. IInv /\ Clean /\ Reliable => IInv' /\ Clean'
    BY Inductive, CleanKept
  <1>3. IInv /\ Clean /\ Reliable => [T!Next]_durable
    BY CommitIsAtomic, OnlyCommitChanges DEF Commit, Clean
  <1>4. QED
    BY <1>1, <1>2, <1>3, PTL DEF T!Spec
=============================================================================
