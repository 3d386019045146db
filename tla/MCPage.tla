------------------------------- MODULE MCPage -------------------------------
EXTENDS Page

\* Nothing in Page tells one flow from another: one order of a full queue stands
\* for all of them as the first state.
MCInit == Init /\ queue \in {<<>>, CHOOSE q \in Orders(Flows) : TRUE}

MCSpec == MCInit /\ [][Next]_vars /\ Fairness
=============================================================================
