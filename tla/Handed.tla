------------------------------- MODULE Handed -------------------------------
(***************************************************************************)
(* Pipeline with a history: the decisions the API has handed out.  A       *)
(* decision leaves the table when a call that polls for it is served; what *)
(* the hook it was meant for then does with its exchange takes further     *)
(* steps, and the call's answer may be lost.                               *)
(***************************************************************************)
EXTENDS Pipeline

VARIABLE handed   \* for each flow, the decisions that were handed out

hvars == <<vars, handed>>

\* What this step takes from the table: neither replaced nor cleared.
GivenOut == IF Clear THEN {} ELSE {d \in decisions : Stored(d.flow, d.stage)' = {}}

Remember == handed' = [f \in Flows |-> handed[f] \cup {d \in GivenOut : d.flow = f}]

HInit == Init /\ handed = [f \in Flows |-> {}]

HNext == Next /\ Remember

HSpec == HInit /\ [][HNext]_hvars
-----------------------------------------------------------------------------
\* The exchange of f has taken, or is about to take, the course d asks for.
Followed(f, d) ==
  \/ At(f, "pop_head") /\ hook[f].took = {d}
  \/ d.verdict = "drop" /\ wire[f] = "killed"
  \/ /\ d.stage = "request" /\ d.verdict # "drop"
     /\ \/ wire[f] \in {"sent", "delivered"}
        \/ \E e \in handed[f] : e.stage = "response" /\ e.verdict = "drop"
  \/ /\ d.stage = "response" /\ d.verdict = "forward"
     /\ At(f, "complete_flow") \/ wire[f] = "delivered"

\* A decision the API hands out is followed ("Resilient API client with
\* retry/backoff", client.py:15): the hook that asked for it drops or sends on
\* the very exchange it was made for, whatever deadlines pass, whatever the user
\* decides meanwhile and wherever edits are refused; it never is deleted in the
\* table while the hook goes on waiting or does something else.
TakenArrives == \A f \in Flows : \A d \in handed[f] : Followed(f, d)
=============================================================================
