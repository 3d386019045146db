----------------------------- MODULE Repository -----------------------------
(***************************************************************************)
(* SQLiteRepository (app/state/repository.py) statement by statement.      *)
(*                                                                         *)
(* One connection is shared by all methods, which its lock lets run one at *)
(* a time, so one program counter serves them all and a method that waits  *)
(* has done nothing.  Python's sqlite3 opens a transaction before the      *)
(* first statement that writes and nothing but commit ends it: work is     *)
(* what the connection sees, durable what the file holds.  No method rolls *)
(* back: after an exception the transaction stays open, unless SQLite has  *)
(* rolled it back itself (disk full, I/O error), and the next method's     *)
(* commit includes it.                                                     *)
(*                                                                         *)
(* Left out: methods that only read, and the texts in the columns: a row   *)
(* or a decision is the number of the write that made it.                  *)
(***************************************************************************)
EXTENDS Naturals, Sequences

CONSTANTS
  Flows,      \* flow ids
  MaxWrites,  \* bound on the rows and decisions that are written
  MaxSeq      \* bound on the events that are appended

ASSUME BoundsAssumption == MaxWrites \in Nat /\ MaxSeq \in Nat

VARIABLES
  work,       \* the tables as the connection sees them
  durable,    \* the tables as committed
  call,       \* the method that holds _lock
  outcome,    \* how the last method ended
  writes,     \* number of rows and decisions written so far
  handed,     \* history: the decisions take_decision has returned
  issued      \* history: the event ids append_event has returned

vars == <<work, durable, call, outcome, writes, handed, issued>>

T == INSTANCE Tables WITH tables <- durable, Values <- 1..MaxWrites
-----------------------------------------------------------------------------
\* The statements of a method, in order; all but clear_all's name the flows
\* they are about (sel).
Script ==
  [upsert_flow   |-> <<"put_row">>,
   set_decision  |-> <<"put_decision">>,
   take_decision |-> <<"drop_decision">>,
   append_event  |-> <<"put_event">>,
   cleanup_old   |-> <<"drop_rows", "drop_orphan_decisions", "drop_orphan_events">>,
   clear_all     |-> <<"wipe_decisions", "wipe_events", "wipe_rows">>]

Methods == DOMAIN Script

Idle == [op |-> "idle", sel |-> {}, value |-> 0, at |-> 1, clean |-> TRUE]

Busy == call.op # "idle"
Length == Len(Script[call.op])

\* Mutant: events(id) without AUTOINCREMENT.
NextIdReused(w) ==
  IF w.events = {} THEN 1
  ELSE 1 + (CHOOSE e \in w.events : \A d \in w.events : d.id <= e.id).id

\* id INTEGER PRIMARY KEY AUTOINCREMENT
NextId(w) == w.seq + 1

\* The tables after statement s of method c.
After(s, c, w) ==
  CASE s = "put_row"               -> [w EXCEPT !.rows = T!Write(@, c.sel, c.value)]
    [] s = "put_decision"          -> [w EXCEPT !.decisions = T!Write(@, c.sel, c.value)]
    [] s = "drop_decision"         -> [w EXCEPT !.decisions = T!Write(@, c.sel, T!Absent)]
    [] s = "put_event"             -> [w EXCEPT !.seq = NextId(w),
                                                !.events = @ \cup {[id |-> NextId(w), about |-> c.sel]}]
    [] s = "drop_rows"             -> [w EXCEPT !.rows = T!Write(@, c.sel, T!Absent)]
    [] s = "drop_orphan_decisions" -> [w EXCEPT !.decisions = T!Write(@, T!Missing(w), T!Absent)]
    [] s = "drop_orphan_events"    -> [w EXCEPT !.events = @ \ T!Orphans(w)]
    [] s = "wipe_decisions"        -> [w EXCEPT !.decisions = T!Empty.decisions]
    [] s = "wipe_events"           -> [w EXCEPT !.events = {}]
    [] s = "wipe_rows"             -> [w EXCEPT !.rows = T!Empty.rows]

Init ==
  /\ work = T!Empty
  /\ durable = T!Empty
  /\ call = Idle
  /\ outcome = "returned"
  /\ writes = 0
  /\ handed = {}
  /\ issued = {}
-----------------------------------------------------------------------------
Start(op, S, n) ==
  /\ ~Busy
  /\ call' = [op |-> op, sel |-> S, value |-> n, at |-> 1, clean |-> work = durable]
  /\ UNCHANGED <<work, durable, outcome, handed, issued>>

UpsertFlow ==
  /\ writes < MaxWrites
  /\ writes' = writes + 1
  /\ \E f \in Flows : Start("upsert_flow", {f}, writes + 1)

SetDecision ==
  /\ writes < MaxWrites
  /\ writes' = writes + 1
  /\ \E f \in Flows : Start("set_decision", {f}, writes + 1)

\* Mutant: without the early return there is always a decision to hand out.
TakeAnyDecision ==
  /\ \E f \in Flows : Start("take_decision", {f}, work.decisions[f])
  /\ UNCHANGED writes

\* The SELECT and the early return: without a decision nothing changes.
TakeDecision ==
  /\ \E f \in Flows :
       work.decisions[f] # T!Absent /\ Start("take_decision", {f}, work.decisions[f])
  /\ UNCHANGED writes

\* Events of the queue and of the configuration name no flow.
AppendEvent ==
  /\ work.seq < MaxSeq
  /\ \E S \in {{}} \cup {{f} : f \in Flows} : Start("append_event", S, 0)
  /\ UNCHANGED writes

\* Which rows are older than the cutoff is left open.
CleanupOld == (\E S \in SUBSET Flows : Start("cleanup_old", S, 0)) /\ UNCHANGED writes

ClearAll == Start("clear_all", {}, 0) /\ UNCHANGED writes
-----------------------------------------------------------------------------
\* Mutant: the connection is in autocommit mode (isolation_level=None).
ExecuteAutocommits ==
  /\ Busy
  /\ call.at <= Length
  /\ work' = After(Script[call.op][call.at], call, work)
  /\ durable' = work'
  /\ call' = [call EXCEPT !.at = @ + 1]
  /\ UNCHANGED <<outcome, writes, handed, issued>>

Execute ==
  /\ Busy
  /\ call.at <= Length
  /\ work' = After(Script[call.op][call.at], call, work)
  /\ call' = [call EXCEPT !.at = @ + 1]
  /\ UNCHANGED <<durable, outcome, writes, handed, issued>>

Commit ==
  /\ Busy
  /\ call.at = Length + 1
  /\ durable' = work
  /\ call' = [call EXCEPT !.at = @ + 1]
  /\ UNCHANGED <<work, outcome, writes, handed, issued>>

\* The answer reaches the caller.
Answer ==
  /\ call' = Idle
  /\ outcome' = "returned"
  /\ handed' = IF call.op = "take_decision" THEN handed \cup {call.value} ELSE handed
  /\ issued' = IF call.op = "append_event" THEN issued \cup {work.seq} ELSE issued
  /\ UNCHANGED <<work, durable, writes>>

\* Mutant: a decision is returned before its deletion is committed.
ReturnTaken ==
  /\ Busy
  /\ call.at = Length + IF call.op = "take_decision" THEN 1 ELSE 2
  /\ Answer

\* Mutant: a method of one statement returns without a commit.
ReturnUncommitted ==
  /\ Busy
  /\ call.at = Length + IF Length = 1 THEN 1 ELSE 2
  /\ Answer

Return == Busy /\ call.at = Length + 2 /\ Answer

\* A statement or the commit raises and the lock is released.
Raise ==
  /\ Busy
  /\ call.at <= Length + 1
  /\ work' \in {work, durable}
  /\ call' = Idle
  /\ outcome' = "raised"
  /\ UNCHANGED <<durable, writes, handed, issued>>

\* The process dies at any step, or shutdown cancels the cleanup task wherever
\* it is and closes the connection; what is not committed is rolled back.
Stop ==
  /\ work' = durable
  /\ call' = Idle
  /\ outcome' = "stopped"
  /\ UNCHANGED <<durable, writes, handed, issued>>

Next ==
  \/ UpsertFlow \/ SetDecision \/ TakeDecision \/ AppendEvent \/ CleanupOld \/ ClearAll
  \/ Execute \/ Commit \/ Return \/ Raise \/ Stop

Spec == Init /\ [][Next]_vars
-----------------------------------------------------------------------------
Decided == [Flows -> 0..MaxWrites]
TablesType ==
  [rows: Decided, decisions: Decided,
   events: SUBSET [id: 1..MaxSeq, about: SUBSET Flows], seq: 0..MaxSeq]

TypeOK ==
  /\ work \in TablesType
  /\ durable \in TablesType
  /\ call \in [op: Methods \cup {"idle"}, sel: SUBSET Flows, value: 0..MaxWrites,
               at: 1..5, clean: BOOLEAN]
  /\ Busy => call.at <= Length + 2
  /\ outcome \in {"returned", "raised", "stopped"}
  /\ writes \in 0..MaxWrites
  /\ handed \subseteq 1..MaxWrites
  /\ issued \subseteq 1..MaxSeq

\* What a method that returned has written survives a crash, the leftovers of
\* methods that raised before it included.
Acknowledged == ~Busy /\ outcome = "returned" => durable = work

\* A method that found no open transaction takes effect on disk as a whole, by
\* its commit, or not at all, whatever statement fails and wherever the process
\* stops: the steps of the atomic tables (Tables.tla).
AllOrNothing == [][call.clean => T!Next]_durable

\* A decision that was handed to the proxy is gone, for the connection and for
\* what a crash would bring back, so no poll can get it again.
HandedOutOnce ==
  \A f \in Flows : work.decisions[f] \notin handed /\ durable.decisions[f] \notin handed

\* The id that is about to be published with an event never was the id of
\* another published event: not after history is cleared, a failed commit or a
\* crash either.
EventIdsUnique ==
  call.op = "append_event" /\ call.at > Length => work.seq \notin issued
=============================================================================
