---------------------------- MODULE OrderedMaps ----------------------------
(***************************************************************************)
(* Sequences of records with an "id" field, read as insertion-ordered      *)
(* maps: the OrderedDict of the cache, and the flows table in the order of *)
(* updated_at.  A subsequence is stated by the ranks of the positions it   *)
(* keeps, not by recursion as SelectSeq is, so that OrderedMapsProofs can  *)
(* prove what it returns.                                                  *)
(***************************************************************************)
EXTENDS Naturals, FiniteSets, Sequences

\* The k-th smallest member of the set I of positions.
Nth(I, k) == CHOOSE i \in I : Cardinality({j \in I : j <= i}) = k

\* The elements of s at the positions in I, in their order.
Sub(s, I) == [k \in 1..Cardinality(I) |-> s[Nth(I, k)]]

Elems(s) == {s[i] : i \in DOMAIN s}

Ids(s) == {s[i].id : i \in DOMAIN s}

IdsInOrder(s) == [i \in DOMAIN s |-> s[i].id]

\* The at most one record of id x: a dict's get, or a row read by its key.
Entry(s, x) == {r \in Elems(s) : r.id = x}

KeepIn(q, S) == Sub(q, {i \in DOMAIN q : q[i] \in S})

Without(q, x) == Sub(q, {i \in DOMAIN q : q[i] # x})

\* r written at the newest end, in the place of the record of its id.
Put(s, r) == Append(Sub(s, {i \in DOMAIN s : s[i].id # r.id}), r)

\* The newest n records.
Newest(s, n) == IF Len(s) <= n THEN s ELSE SubSeq(s, Len(s) - n + 1, Len(s))

NoDuplicates(q) == \A i, j \in DOMAIN q : q[i] = q[j] => i = j

UniqueIds(s) == \A i, j \in DOMAIN s : s[i].id = s[j].id => i = j

\* a stands before b in q.
Before(q, a, b) == \E i, j \in DOMAIN q : i < j /\ q[i] = a /\ q[j] = b
=============================================================================
