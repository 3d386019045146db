------------------------------- MODULE Tables -------------------------------
(***************************************************************************)
(* What the methods of SQLiteRepository promise the store: each changes    *)
(* the tables of app/state/repository.py in one step or not at all, and    *)
(* what a crash leaves is what the methods that took effect have written.  *)
(* Rows and decisions are reduced to the number of the write they hold.    *)
(***************************************************************************)
EXTENDS Naturals

CONSTANTS
  Flows,   \* flow ids
  Values   \* the numbers of the writes, from 1

VARIABLE tables  \* rows and decisions by flow, events, and sqlite_sequence

Absent == 0

Empty == [rows |-> [f \in Flows |-> Absent], decisions |-> [f \in Flows |-> Absent],
          events |-> {}, seq |-> 0]

\* Table column c where the flows S hold value n.
Write(c, S, n) == [f \in Flows |-> IF f \in S THEN n ELSE c[f]]

Missing(w) == {f \in Flows : w.rows[f] = Absent}

\* An event names one flow or none; only the former can be an orphan.
Orphans(w) == {e \in w.events : e.about # {} /\ e.about \subseteq Missing(w)}

UpsertFlow(S, n) == tables' = [tables EXCEPT !.rows = Write(@, S, n)]

SetDecision(S, n) == tables' = [tables EXCEPT !.decisions = Write(@, S, n)]

TakeDecision(S) == tables' = [tables EXCEPT !.decisions = Write(@, S, Absent)]

AppendEvent(S) ==
  tables' = [tables EXCEPT !.seq = @ + 1,
                           !.events = @ \cup {[id |-> tables.seq + 1, about |-> S]}]

\* The rows of S go, and with them every decision and event of a flow that has
\* no row.
CleanupOld(S) ==
  LET left == [tables EXCEPT !.rows = Write(@, S, Absent)]
  IN  tables' = [left EXCEPT !.decisions = Write(@, Missing(left), Absent),
                             !.events = @ \ Orphans(left)]

\* Event ids are not used again: AUTOINCREMENT outlives the rows.
ClearAll == tables' = [Empty EXCEPT !.seq = tables.seq]

Next ==
  \/ \E S \in SUBSET Flows :
       \/ TakeDecision(S) \/ AppendEvent(S) \/ CleanupOld(S)
       \/ \E n \in Values : UpsertFlow(S, n) \/ SetDecision(S, n)
  \/ ClearAll

Spec == tables = Empty /\ [][Next]_tables
=============================================================================
