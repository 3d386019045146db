------------------------- MODULE OrderedMapsProofs -------------------------
(***************************************************************************)
(* What the operators of OrderedMaps return.  Everything rests on one      *)
(* fact, NthProperties: Nth(I, _) enumerates a finite set I of positions   *)
(* in increasing order.  It needs no induction: the rank of a position is  *)
(* an injection of I into 1..Cardinality(I), so it reaches every rank.     *)
(***************************************************************************)
EXTENDS OrderedMaps, Integers, FiniteSetTheorems, SequenceTheorems, TLAPS

Rank(I, i) == Cardinality({j \in I : j <= i})

\* A rank is a number between 1 and the size of the set.
LEMMA RankType ==
  ASSUME NEW I \in SUBSET Nat, IsFiniteSet(I), NEW i \in I
  PROVE  /\ Cardinality(I) \in Nat
         /\ Rank(I, i) \in 1..Cardinality(I)
<1> DEFINE D == {j \in I : j <= i}
<1>1. Cardinality(I) \in Nat
  BY FS_CardinalityType
<1>2. IsFiniteSet(D) /\ Cardinality(D) <= Cardinality(I)
  <2>1. D \in SUBSET I
    OBVIOUS
  <2> QED BY <2>1, FS_Subset
<1>3. Cardinality(D) \in Nat
  BY <1>2, FS_CardinalityType
<1>4. i \in D
  OBVIOUS
<1>5. Cardinality(D) # 0
  BY <1>2, <1>4, FS_EmptySet
<1> QED BY <1>1, <1>2, <1>3, <1>5 DEF Rank

\* A later position has a larger rank.
LEMMA RankIncreases ==
  ASSUME NEW I \in SUBSET Nat, IsFiniteSet(I), NEW i \in I, NEW k \in I, i < k
  PROVE  Rank(I, i) < Rank(I, k)
<1> DEFINE D(x) == {j \in I : j <= x}
<1>1. IsFiniteSet(D(k))
  <2>1. D(k) \in SUBSET I
    OBVIOUS
  <2> QED BY <2>1, FS_Subset
<1>2. D(i) \in SUBSET D(k)
  <2>1. \A j \in I : j \in Int
    OBVIOUS
  <2>2. i \in Int /\ k \in Int /\ i < k
    BY <2>1
  <2>3. \A j \in I : j <= i => j <= k
    BY <2>1, <2>2
  <2> QED BY <2>3
<1>3. k \in D(k) /\ k \notin D(i)
  OBVIOUS
<1>4. Cardinality(D(i)) <= Cardinality(D(k)) /\ Cardinality(D(k)) # Cardinality(D(i))
  <2> HIDE DEF D
  <2> QED BY <1>1, <1>2, <1>3, FS_Subset
<1>5. Rank(I, i) \in Nat /\ Rank(I, k) \in Nat
  BY RankType
<1> QED BY <1>4, <1>5 DEF Rank

\* Nth(I, _) is the increasing enumeration of I.
THEOREM NthProperties ==
  ASSUME NEW I \in SUBSET Nat, IsFiniteSet(I)
  PROVE  /\ \A k \in 1..Cardinality(I) : Nth(I, k) \in I
         /\ \A k, l \in 1..Cardinality(I) : k < l => Nth(I, k) < Nth(I, l)
         /\ \A i \in I : \E k \in 1..Cardinality(I) : Nth(I, k) = i
<1> DEFINE n == Cardinality(I)
           R == [i \in I |-> Rank(I, i)]
<1>1. n \in Nat
  BY FS_CardinalityType
<1>2. R \in [I -> 1..n]
  BY RankType
<1>3. \A i, k \in I : i # k => Rank(I, i) # Rank(I, k)
  <2>1. TAKE i, k \in I
  <2>2. HAVE i # k
  <2>3. i < k \/ k < i
    BY <2>2
  <2>4. Rank(I, i) \in Nat /\ Rank(I, k) \in Nat
    BY RankType
  <2> QED BY <2>3, <2>4, RankIncreases
<1>4. R \in Injection(I, 1..n)
  BY <1>2, <1>3 DEF Injection, IsInjective
<1>5. IsFiniteSet(1..n) /\ Cardinality(1..n) = n
  BY <1>1, FS_Interval
<1>6. R \in Surjection(I, 1..n)
  BY <1>4, <1>5, FS_Injection
<1>7. \A k \in 1..n : \E i \in I : Rank(I, i) = k
  BY <1>6 DEF Surjection
<1>8. \A k \in 1..n : Nth(I, k) \in I /\ Rank(I, Nth(I, k)) = k
  BY <1>7 DEF Nth, Rank
<1>9. \A k, l \in 1..n : k < l => Nth(I, k) < Nth(I, l)
  <2>1. TAKE k, l \in 1..n
  <2>2. HAVE k < l
  <2>3. Nth(I, k) \in I /\ Nth(I, l) \in I
    BY <1>8
  <2>4. Nth(I, k) # Nth(I, l)
    BY <1>8, <2>2
  <2>5. ASSUME Nth(I, l) < Nth(I, k) PROVE FALSE
    <3>1. Rank(I, Nth(I, l)) < Rank(I, Nth(I, k))
      BY <2>3, <2>5, RankIncreases
    <3>2. l < k
      BY <3>1, <1>8
    <3> QED BY <2>2, <3>2, <1>1
  <2>6. \A i \in I : i \in Int
    OBVIOUS
  <2>7. Nth(I, k) \in Int /\ Nth(I, l) \in Int
    BY <2>3, <2>6
  <2> QED BY <2>4, <2>5, <2>7
<1>10. \A i \in I : \E k \in 1..n : Nth(I, k) = i
  <2>1. TAKE i \in I
  <2>2. Rank(I, i) \in 1..n
    BY RankType
  <2>3. Nth(I, Rank(I, i)) = i
    BY <1>3, <1>8, <2>2
  <2> QED BY <2>2, <2>3
<1> QED BY <1>8, <1>9, <1>10
-----------------------------------------------------------------------------
\* Sub(s, I) is s read at the positions of I in increasing order.
THEOREM SubProperties ==
  ASSUME NEW S, NEW s \in Seq(S), NEW I \in SUBSET (1..Len(s))
  PROVE  /\ Sub(s, I) \in Seq(S)
         /\ \E g \in [1..Len(Sub(s, I)) -> I] :
              /\ \A k, l \in 1..Len(Sub(s, I)) : k < l => g[k] < g[l]
              /\ \A i \in I : \E k \in 1..Len(Sub(s, I)) : g[k] = i
              /\ \A k \in 1..Len(Sub(s, I)) : Sub(s, I)[k] = s[g[k]]
<1> DEFINE n == Cardinality(I)
           g == [k \in 1..n |-> Nth(I, k)]
<1>1. Len(s) \in Nat /\ \A i \in 1..Len(s) : s[i] \in S
  BY LenProperties, ElementOfSeq
<1>2. IsFiniteSet(I) /\ I \in SUBSET Nat
  <2>1. IsFiniteSet(1..Len(s))
    BY <1>1, FS_Interval
  <2>2. IsFiniteSet(I)
    BY <2>1, FS_Subset
  <2>3. 1..Len(s) \subseteq Nat
    BY <1>1
  <2> QED BY <2>2, <2>3
<1>3. n \in Nat
  BY <1>2, FS_CardinalityType
<1>4. /\ g \in [1..n -> I]
      /\ \A k, l \in 1..n : k < l => g[k] < g[l]
      /\ \A i \in I : \E k \in 1..n : g[k] = i
  BY <1>2, NthProperties
<1>5. \A k \in 1..n : s[Nth(I, k)] \in S
  BY <1>1, <1>2, NthProperties
<1>6. Sub(s, I) \in [1..n -> S]
  BY <1>5 DEF Sub
<1>7. Sub(s, I) \in Seq(S) /\ Len(Sub(s, I)) = n
  BY <1>3, <1>6
<1>8. \A k \in 1..n : Sub(s, I)[k] = s[g[k]]
  BY DEF Sub
<1> HIDE DEF g, n
<1> QED BY <1>4, <1>7, <1>8

\* A subsequence holds what s holds at its positions.
LEMMA SubElems ==
  ASSUME NEW S, NEW s \in Seq(S), NEW I \in SUBSET (1..Len(s))
  PROVE  /\ Elems(Sub(s, I)) = {s[i] : i \in I}
         /\ Ids(Sub(s, I)) = {s[i].id : i \in I}
<1> DEFINE u == Sub(s, I)
<1>1. u \in Seq(S) /\ DOMAIN u = 1..Len(u)
  BY SubProperties, LenProperties
<1>2. PICK g \in [1..Len(u) -> I] :
        /\ \A i \in I : \E k \in 1..Len(u) : g[k] = i
        /\ \A k \in 1..Len(u) : u[k] = s[g[k]]
  BY SubProperties
<1> HIDE DEF u
<1>3. \A k \in DOMAIN u : g[k] \in I /\ u[k] = s[g[k]]
  BY <1>1, <1>2
<1>4. \A i \in I : \E k \in DOMAIN u : u[k] = s[i]
  <2>1. TAKE i \in I
  <2>2. PICK k \in 1..Len(u) : g[k] = i
    BY <1>2
  <2>3. u[k] = s[i]
    BY <1>2, <2>2
  <2> QED BY <1>1, <2>3
<1>5. Elems(u) = {s[i] : i \in I}
  <2>1. \A x \in Elems(u) : \E i \in I : x = s[i]
    BY <1>3 DEF Elems
  <2>2. \A i \in I : s[i] \in Elems(u)
    BY <1>4 DEF Elems
  <2> QED BY <2>1, <2>2
<1>6. Ids(u) = {s[i].id : i \in I}
  <2>1. \A x \in Ids(u) : \E i \in I : x = s[i].id
    BY <1>3 DEF Ids
  <2>2. \A i \in I : s[i].id \in Ids(u)
    <3>1. TAKE i \in I
    <3>2. PICK k \in DOMAIN u : u[k] = s[i]
      BY <1>4
    <3> QED BY <3>2 DEF Ids
  <2> QED BY <2>1, <2>2
<1> QED BY <1>5, <1>6 DEF u

\* A subsequence repeats nothing that s does not repeat.
LEMMA SubUnique ==
  ASSUME NEW S, NEW s \in Seq(S), NEW I \in SUBSET (1..Len(s))
  PROVE  /\ UniqueIds(s) => UniqueIds(Sub(s, I))
         /\ NoDuplicates(s) => NoDuplicates(Sub(s, I))
<1> DEFINE u == Sub(s, I)
<1>1. /\ u \in Seq(S) /\ DOMAIN u = 1..Len(u) /\ Len(u) \in Nat
      /\ DOMAIN s = 1..Len(s) /\ Len(s) \in Nat
  BY SubProperties, LenProperties
<1>2. PICK g \in [1..Len(u) -> I] :
        /\ \A k, l \in 1..Len(u) : k < l => g[k] < g[l]
        /\ \A k \in 1..Len(u) : u[k] = s[g[k]]
  BY SubProperties
<1> HIDE DEF u
<1>3. \A k, l \in 1..Len(u) : g[k] = g[l] => k = l
  <2>1. TAKE k, l \in 1..Len(u)
  <2>2. g[k] \in 1..Len(s) /\ g[l] \in 1..Len(s)
    BY <1>2
  <2>3. k < l \/ l < k \/ k = l
    BY <1>1
  <2> QED BY <1>1, <1>2, <2>2, <2>3
<1>4. \A k \in DOMAIN u : g[k] \in DOMAIN s /\ u[k] = s[g[k]]
  BY <1>1, <1>2
<1>5. UniqueIds(s) => UniqueIds(u)
  <2>1. SUFFICES ASSUME UniqueIds(s), NEW k \in DOMAIN u, NEW l \in DOMAIN u,
                        u[k].id = u[l].id
                 PROVE  k = l
    BY DEF UniqueIds
  <2>2. s[g[k]].id = s[g[l]].id
    BY <1>4, <2>1
  <2>3. g[k] = g[l]
    BY <1>4, <2>1, <2>2 DEF UniqueIds
  <2> QED BY <1>1, <1>3, <2>3
<1>6. NoDuplicates(s) => NoDuplicates(u)
  BY <1>1, <1>3, <1>4, Zenon DEF NoDuplicates
<1> QED BY <1>5, <1>6 DEF u

\* A subsequence keeps the order of s.
LEMMA SubOrder ==
  ASSUME NEW S, NEW s \in Seq(S), NEW I \in SUBSET (1..Len(s)),
         NEW i \in I, NEW j \in I, i < j
  PROVE  Before(Sub(s, I), s[i], s[j])
<1> DEFINE u == Sub(s, I)
<1>1. /\ u \in Seq(S) /\ DOMAIN u = 1..Len(u) /\ Len(u) \in Nat
      /\ Len(s) \in Nat
  BY SubProperties, LenProperties
<1>2. PICK g \in [1..Len(u) -> I] :
        /\ \A k, l \in 1..Len(u) : k < l => g[k] < g[l]
        /\ \A x \in I : \E k \in 1..Len(u) : g[k] = x
        /\ \A k \in 1..Len(u) : u[k] = s[g[k]]
  BY SubProperties
<1> HIDE DEF u
<1>3. PICK k \in 1..Len(u), l \in 1..Len(u) : g[k] = i /\ g[l] = j
  BY <1>2
<1>4. k < l
  <2>1. i \in Int /\ j \in Int
    BY <1>1
  <2>2. k # l /\ ~ l < k
    BY <1>2, <1>3, <2>1
  <2> QED BY <1>1, <2>2
<1>5. Before(u, s[i], s[j])
  BY <1>1, <1>2, <1>3, <1>4 DEF Before
<1> QED BY <1>5 DEF u
-----------------------------------------------------------------------------
\* Filtering a queue by a set.
THEOREM KeepInProperties ==
  ASSUME NEW S, NEW q \in Seq(S), NEW T
  PROVE  /\ KeepIn(q, T) \in Seq(S)
         /\ Elems(KeepIn(q, T)) = Elems(q) \cap T
         /\ NoDuplicates(q) => NoDuplicates(KeepIn(q, T))
         /\ \A a, b \in T : Before(q, a, b) => Before(KeepIn(q, T), a, b)
<1> DEFINE I == {i \in DOMAIN q : q[i] \in T}
<1>1. DOMAIN q = 1..Len(q) /\ I \in SUBSET (1..Len(q))
  BY LenProperties
<1>2. KeepIn(q, T) = Sub(q, I)
  BY DEF KeepIn
<1>3. KeepIn(q, T) \in Seq(S)
  BY <1>1, <1>2, SubProperties
<1>4. Elems(KeepIn(q, T)) = Elems(q) \cap T
  <2>1. Elems(Sub(q, I)) = {q[i] : i \in I}
    BY <1>1, SubElems
  <2> QED BY <1>2, <2>1 DEF Elems
<1>5. NoDuplicates(q) => NoDuplicates(KeepIn(q, T))
  BY <1>1, <1>2, SubUnique
<1>6. \A a, b \in T : Before(q, a, b) => Before(KeepIn(q, T), a, b)
  <2>1. SUFFICES ASSUME NEW a \in T, NEW b \in T, Before(q, a, b)
                 PROVE  Before(Sub(q, I), a, b)
    BY <1>2
  <2>2. PICK i, j \in DOMAIN q : i < j /\ q[i] = a /\ q[j] = b
    BY <2>1 DEF Before
  <2>3. i \in I /\ j \in I
    BY <2>2
  <2> HIDE DEF I
  <2> QED BY <1>1, <2>2, <2>3, SubOrder
<1> QED BY <1>3, <1>4, <1>5, <1>6

\* Taking one flow out of a queue.
THEOREM WithoutProperties ==
  ASSUME NEW S, NEW q \in Seq(S), NEW x
  PROVE  /\ Without(q, x) \in Seq(S)
         /\ Elems(Without(q, x)) = Elems(q) \ {x}
         /\ NoDuplicates(q) => NoDuplicates(Without(q, x))
         /\ \A a, b : a # x /\ b # x /\ Before(q, a, b) => Before(Without(q, x), a, b)
<1> DEFINE I == {i \in DOMAIN q : q[i] # x}
<1>1. DOMAIN q = 1..Len(q) /\ I \in SUBSET (1..Len(q))
  BY LenProperties
<1>2. Without(q, x) = Sub(q, I)
  BY DEF Without
<1>3. Without(q, x) \in Seq(S)
  BY <1>1, <1>2, SubProperties
<1>4. Elems(Without(q, x)) = Elems(q) \ {x}
  <2>1. Elems(Sub(q, I)) = {q[i] : i \in I}
    BY <1>1, SubElems
  <2> QED BY <1>2, <2>1 DEF Elems
<1>5. NoDuplicates(q) => NoDuplicates(Without(q, x))
  BY <1>1, <1>2, SubUnique
<1>6. ASSUME NEW a, NEW b, a # x, b # x, Before(q, a, b)
      PROVE  Before(Without(q, x), a, b)
  <2>1. PICK i, j \in DOMAIN q : i < j /\ q[i] = a /\ q[j] = b
    BY <1>6 DEF Before
  <2>2. i \in I /\ j \in I
    BY <1>6, <2>1
  <2>3. Before(Sub(q, I), q[i], q[j])
    <3> HIDE DEF I
    <3> QED BY <1>1, <2>1, <2>2, SubOrder
  <2> QED BY <1>2, <2>1, <2>3
<1> QED BY <1>3, <1>4, <1>5, <1>6

\* Writing a record under its key.
THEOREM PutProperties ==
  ASSUME NEW S, NEW s \in Seq(S), NEW r \in S
  PROVE  /\ Put(s, r) \in Seq(S)
         /\ Elems(Put(s, r)) = {e \in Elems(s) : e.id # r.id} \cup {r}
         /\ Ids(Put(s, r)) = Ids(s) \cup {r.id}
         /\ UniqueIds(s) => UniqueIds(Put(s, r))
<1> DEFINE I == {i \in DOMAIN s : s[i].id # r.id}
           u == Sub(s, I)
           p == Append(u, r)
<1>1. DOMAIN s = 1..Len(s) /\ I \in SUBSET (1..Len(s))
  BY LenProperties
<1>2. u \in Seq(S) /\ DOMAIN u = 1..Len(u) /\ Len(u) \in Nat
  BY <1>1, SubProperties, LenProperties
<1>3. /\ Elems(u) = {s[i] : i \in I}
      /\ Ids(u) = {s[i].id : i \in I}
      /\ UniqueIds(s) => UniqueIds(u)
  BY <1>1, SubElems, SubUnique
<1>4. /\ p \in Seq(S)
      /\ DOMAIN p = 1..(Len(u) + 1)
      /\ \A k \in 1..Len(u) : p[k] = u[k]
      /\ p[Len(u) + 1] = r
  <2> HIDE DEF u
  <2> QED BY <1>2
<1>5. \A k \in DOMAIN p : k \in DOMAIN u \/ k = Len(u) + 1
  <2> HIDE DEF u, p
  <2> QED BY <1>2, <1>4
<1>6. \A k \in DOMAIN u : k \in DOMAIN p /\ p[k] = u[k]
  <2> HIDE DEF u, p
  <2> QED BY <1>2, <1>4
<1>7. Len(u) + 1 \in DOMAIN p
  <2> HIDE DEF u, p
  <2> QED BY <1>2, <1>4
<1>8. Elems(p) = Elems(u) \cup {r}
  <2> HIDE DEF u, p
  <2>1. \A x \in Elems(p) : x \in Elems(u) \/ x = r
    BY <1>4, <1>5, <1>6 DEF Elems
  <2>2. \A x \in Elems(u) : x \in Elems(p)
    BY <1>6 DEF Elems
  <2>3. r \in Elems(p)
    BY <1>4, <1>7 DEF Elems
  <2> QED BY <2>1, <2>2, <2>3
<1>9. Ids(p) = Ids(u) \cup {r.id}
  <2> HIDE DEF u, p
  <2>1. \A x \in Ids(p) : x \in Ids(u) \/ x = r.id
    BY <1>4, <1>5, <1>6 DEF Ids
  <2>2. \A x \in Ids(u) : x \in Ids(p)
    BY <1>6 DEF Ids
  <2>3. r.id \in Ids(p)
    BY <1>4, <1>7 DEF Ids
  <2> QED BY <2>1, <2>2, <2>3
<1>10. Elems(u) = {e \in Elems(s) : e.id # r.id}
  <2> HIDE DEF u
  <2> QED BY <1>3 DEF Elems
<1>11. Ids(u) = Ids(s) \ {r.id}
  <2> HIDE DEF u
  <2> QED BY <1>3 DEF Ids
<1>12. UniqueIds(s) => UniqueIds(p)
  <2>1. SUFFICES ASSUME UniqueIds(u), NEW k \in DOMAIN p, NEW l \in DOMAIN p,
                        p[k].id = p[l].id
                 PROVE  k = l
    <3> HIDE DEF u, p
    <3> QED BY <1>3 DEF UniqueIds
  <2>2. \A x \in DOMAIN u : u[x].id # r.id
    <3>1. r.id \notin Ids(u)
      BY <1>11
    <3> HIDE DEF u
    <3> QED BY <3>1 DEF Ids
  <2> HIDE DEF u, p
  <2>3. CASE k \in DOMAIN u /\ l \in DOMAIN u
    BY <1>6, <2>1, <2>3 DEF UniqueIds
  <2>4. CASE k = Len(u) + 1 /\ l \in DOMAIN u
    BY <1>4, <1>6, <2>1, <2>2, <2>4
  <2>5. CASE l = Len(u) + 1 /\ k \in DOMAIN u
    BY <1>4, <1>6, <2>1, <2>2, <2>5
  <2>6. CASE k = Len(u) + 1 /\ l = Len(u) + 1
    BY <2>6
  <2> QED BY <1>5, <2>3, <2>4, <2>5, <2>6
<1>13. Put(s, r) = p
  BY DEF Put
<1> HIDE DEF p, u
<1> QED BY <1>4, <1>8, <1>9, <1>10, <1>11, <1>12, <1>13

\* A stretch of a sequence.
LEMMA StretchProperties ==
  ASSUME NEW S, NEW s \in Seq(S), NEW m \in Nat, m <= Len(s)
  PROVE  LET u == SubSeq(s, m + 1, Len(s))
         IN  /\ u \in Seq(S)
             /\ Len(u) = Len(s) - m
             /\ Elems(u) \subseteq Elems(s)
             /\ Ids(u) \subseteq Ids(s)
             /\ UniqueIds(s) => UniqueIds(u)
<1> DEFINE u == SubSeq(s, m + 1, Len(s))
<1>1. DOMAIN s = 1..Len(s) /\ Len(s) \in Nat /\ \A i \in 1..Len(s) : s[i] \in S
  BY LenProperties, ElementOfSeq
<1>2. \A i \in (m + 1)..Len(s) : s[i] \in S
  BY <1>1
<1>3. /\ u \in Seq(S)
      /\ Len(u) = IF m + 1 <= Len(s) THEN Len(s) - (m + 1) + 1 ELSE 0
      /\ \A i \in 1..(Len(s) - (m + 1) + 1) : u[i] = s[(m + 1) + i - 1]
  BY <1>1, <1>2, SubSeqProperties
<1> HIDE DEF u
<1>4. Len(u) = Len(s) - m /\ DOMAIN u = 1..(Len(s) - m)
  <2>1. Len(u) = Len(s) - m
    <3>1. Len(u) = IF m + 1 <= Len(s) THEN Len(s) - (m + 1) + 1 ELSE 0
      BY <1>3
    <3>2. CASE m + 1 <= Len(s)
      BY <1>1, <3>1, <3>2
    <3>3. CASE m = Len(s)
      BY <1>1, <3>1, <3>3
    <3>4. Len(s) \in Nat /\ m \in Nat /\ m <= Len(s)
      BY <1>1
    <3> QED BY <3>2, <3>3, <3>4
  <2>2. DOMAIN u = 1..Len(u)
    BY <1>3, LenProperties
  <2> QED BY <2>1, <2>2
<1>5. \A i \in DOMAIN u : m + i \in DOMAIN s /\ u[i] = s[m + i]
  <2>1. TAKE i \in DOMAIN u
  <2>2. i \in 1..(Len(s) - m) /\ Len(s) - m = Len(s) - (m + 1) + 1
    BY <1>1, <1>4, <2>1
  <2>3. u[i] = s[(m + 1) + i - 1]
    BY <1>3, <2>2
  <2>4. (m + 1) + i - 1 = m + i /\ m + i \in 1..Len(s)
    BY <1>1, <2>2
  <2> QED BY <1>1, <2>3, <2>4
<1>6. Elems(u) \subseteq Elems(s)
  BY <1>5 DEF Elems
<1>7. Ids(u) \subseteq Ids(s)
  BY <1>5 DEF Ids
<1>8. UniqueIds(s) => UniqueIds(u)
  <2>1. SUFFICES ASSUME UniqueIds(s), NEW k \in DOMAIN u, NEW l \in DOMAIN u,
                        u[k].id = u[l].id
                 PROVE  k = l
    BY DEF UniqueIds
  <2>2. m + k = m + l
    BY <1>5, <2>1 DEF UniqueIds
  <2>3. k \in Int /\ l \in Int
    BY <1>4
  <2> QED BY <2>2, <2>3
<1> QED BY <1>3, <1>4, <1>6, <1>7, <1>8 DEF u

\* Keeping the newest records.
THEOREM NewestProperties ==
  ASSUME NEW S, NEW s \in Seq(S), NEW n \in Nat
  PROVE  /\ Newest(s, n) \in Seq(S)
         /\ Len(Newest(s, n)) <= n
         /\ Elems(Newest(s, n)) \subseteq Elems(s)
         /\ Ids(Newest(s, n)) \subseteq Ids(s)
         /\ UniqueIds(s) => UniqueIds(Newest(s, n))
<1>1. Len(s) \in Nat
  BY LenProperties
<1>2. CASE Len(s) <= n
  BY <1>2 DEF Newest
<1>3. CASE ~ Len(s) <= n
  <2> DEFINE m == Len(s) - n
  <2>1. m \in Nat /\ m <= Len(s) /\ Len(s) - n + 1 = m + 1 /\ Len(s) - m = n
    BY <1>1, <1>3
  <2>2. Newest(s, n) = SubSeq(s, m + 1, Len(s))
    BY <1>3, <2>1 DEF Newest
  <2> HIDE DEF m
  <2> QED BY <2>1, <2>2, StretchProperties
<1> QED BY <1>2, <1>3

\* The ids of records, in their order.
THEOREM IdsInOrderProperties ==
  ASSUME NEW S, NEW F, NEW s \in Seq(S), \A r \in S : r.id \in F
  PROVE  /\ IdsInOrder(s) \in Seq(F)
         /\ Elems(IdsInOrder(s)) = Ids(s)
         /\ UniqueIds(s) => NoDuplicates(IdsInOrder(s))
<1>1. DOMAIN s = 1..Len(s) /\ Len(s) \in Nat /\ \A i \in 1..Len(s) : s[i] \in S
  BY LenProperties, ElementOfSeq
<1>2. IdsInOrder(s) \in [1..Len(s) -> F]
  BY <1>1 DEF IdsInOrder
<1>3. IdsInOrder(s) \in Seq(F)
  BY <1>1, <1>2
<1>4. /\ DOMAIN IdsInOrder(s) = DOMAIN s
      /\ \A i \in DOMAIN s : IdsInOrder(s)[i] = s[i].id
  BY DEF IdsInOrder
<1>5. Elems(IdsInOrder(s)) = Ids(s)
  <2>1. \A x \in Elems(IdsInOrder(s)) : x \in Ids(s)
    BY <1>4 DEF Elems, Ids
  <2>2. \A x \in Ids(s) : x \in Elems(IdsInOrder(s))
    BY <1>4 DEF Elems, Ids
  <2> QED BY <2>1, <2>2
<1>6. UniqueIds(s) => NoDuplicates(IdsInOrder(s))
  BY <1>4 DEF UniqueIds, NoDuplicates
<1> QED BY <1>3, <1>5, <1>6

\* Joining two queues.
THEOREM ConcatQueues ==
  ASSUME NEW S, NEW p \in Seq(S), NEW q \in Seq(S)
  PROVE  /\ p \o q \in Seq(S)
         /\ Elems(p \o q) = Elems(p) \cup Elems(q)
         /\ NoDuplicates(p) /\ NoDuplicates(q) /\ Elems(p) \cap Elems(q) = {}
              => NoDuplicates(p \o q)
         /\ \A a, b : Before(p, a, b) => Before(p \o q, a, b)
<1> DEFINE c == p \o q
<1>1. /\ DOMAIN p = 1..Len(p) /\ Len(p) \in Nat
      /\ DOMAIN q = 1..Len(q) /\ Len(q) \in Nat
  BY LenProperties
<1>2. c \in Seq(S) /\ Len(c) = Len(p) + Len(q)
  BY ConcatProperties
<1>3. DOMAIN c = 1..(Len(p) + Len(q))
  BY <1>2, LenProperties
<1>4. \A i \in 1..(Len(p) + Len(q)) : c[i] = IF i <= Len(p) THEN p[i] ELSE q[i - Len(p)]
  BY ConcatProperties
<1> HIDE DEF c
<1>5. \A i \in DOMAIN p : i \in DOMAIN c /\ c[i] = p[i]
  BY <1>1, <1>3, <1>4
<1>6. \A i \in DOMAIN q : Len(p) + i \in DOMAIN c /\ c[Len(p) + i] = q[i]
  BY <1>1, <1>3, <1>4
<1>7. \A i \in DOMAIN c : \/ i \in DOMAIN p /\ c[i] = p[i]
                          \/ i - Len(p) \in DOMAIN q /\ c[i] = q[i - Len(p)]
  BY <1>1, <1>3, <1>4
<1>8. Elems(c) = Elems(p) \cup Elems(q)
  <2>1. \A x \in Elems(c) : x \in Elems(p) \cup Elems(q)
    BY <1>7 DEF Elems
  <2>2. \A x \in Elems(p) : x \in Elems(c)
    BY <1>5 DEF Elems
  <2>3. \A x \in Elems(q) : x \in Elems(c)
    BY <1>6 DEF Elems
  <2> QED BY <2>1, <2>2, <2>3
<1>9. ASSUME NoDuplicates(p), NoDuplicates(q), Elems(p) \cap Elems(q) = {}
      PROVE  NoDuplicates(c)
  <2>1. SUFFICES ASSUME NEW i \in DOMAIN c, NEW j \in DOMAIN c, c[i] = c[j]
                 PROVE  i = j
    BY DEF NoDuplicates
  <2>2. i \in Int /\ j \in Int /\ Len(p) \in Int
    BY <1>1, <1>3
  <2>3. CASE i \in DOMAIN p /\ c[i] = p[i] /\ j \in DOMAIN p /\ c[j] = p[j]
    BY <1>9, <2>1, <2>3 DEF NoDuplicates
  <2>4. CASE /\ i - Len(p) \in DOMAIN q /\ c[i] = q[i - Len(p)]
             /\ j - Len(p) \in DOMAIN q /\ c[j] = q[j - Len(p)]
    <3>1. i - Len(p) = j - Len(p)
      BY <1>9, <2>1, <2>4 DEF NoDuplicates
    <3> QED BY <2>2, <3>1
  <2>5. CASE /\ i \in DOMAIN p /\ c[i] = p[i]
             /\ j - Len(p) \in DOMAIN q /\ c[j] = q[j - Len(p)]
    <3>1. c[i] \in Elems(p) /\ c[j] \in Elems(q)
      BY <2>5 DEF Elems
    <3> QED BY <1>9, <2>1, <3>1
  <2>6. CASE /\ j \in DOMAIN p /\ c[j] = p[j]
             /\ i - Len(p) \in DOMAIN q /\ c[i] = q[i - Len(p)]
    <3>1. c[j] \in Elems(p) /\ c[i] \in Elems(q)
      BY <2>6 DEF Elems
    <3> QED BY <1>9, <2>1, <3>1
  <2> QED BY <1>7, <2>1, <2>3, <2>4, <2>5, <2>6
<1>10. \A a, b : Before(p, a, b) => Before(c, a, b)
  BY <1>5 DEF Before
<1> QED BY <1>2, <1>8, <1>9, <1>10 DEF c

\* Queueing a flow.
THEOREM AppendToQueue ==
  ASSUME NEW S, NEW q \in Seq(S), NEW x \in S
  PROVE  /\ Append(q, x) \in Seq(S)
         /\ Elems(Append(q, x)) = Elems(q) \cup {x}
         /\ NoDuplicates(q) /\ x \notin Elems(q) => NoDuplicates(Append(q, x))
         /\ \A a, b : Before(q, a, b) => Before(Append(q, x), a, b)
<1>1. Elems(<<x>>) = {x} /\ NoDuplicates(<<x>>) /\ <<x>> \in Seq(S)
  BY DEF Elems, NoDuplicates
<1>2. q \o <<x>> = Append(q, x)
  OBVIOUS
<1>3. /\ q \o <<x>> \in Seq(S)
      /\ Elems(q \o <<x>>) = Elems(q) \cup Elems(<<x>>)
      /\ NoDuplicates(q) /\ NoDuplicates(<<x>>) /\ Elems(q) \cap Elems(<<x>>) = {}
           => NoDuplicates(q \o <<x>>)
      /\ \A a, b : Before(q, a, b) => Before(q \o <<x>>, a, b)
  BY <1>1, ConcatQueues
<1>4. x \notin Elems(q) => Elems(q) \cap Elems(<<x>>) = {}
  BY <1>1
<1> QED BY <1>1, <1>2, <1>3, <1>4

\* Popping the head of a queue.
THEOREM TailProperties ==
  ASSUME NEW S, NEW q \in Seq(S), q # <<>>
  PROVE  /\ Tail(q) \in Seq(S)
         /\ Elems(q) = Elems(Tail(q)) \cup {Head(q)}
         /\ NoDuplicates(q) => NoDuplicates(Tail(q)) /\ Head(q) \notin Elems(Tail(q))
         /\ \A a, b : a # Head(q) /\ b # Head(q) /\ Before(q, a, b) => Before(Tail(q), a, b)
<1>1. /\ Len(q) \in Nat /\ Len(q) # 0
      /\ DOMAIN q = 1..Len(q)
      /\ Head(q) = q[1]
  BY LenProperties
<1>2. /\ Tail(q) \in Seq(S)
      /\ Len(Tail(q)) = Len(q) - 1
      /\ \A i \in 1..Len(Tail(q)) : Tail(q)[i] = q[i + 1]
  BY HeadTailProperties
<1>3. DOMAIN Tail(q) = 1..(Len(q) - 1)
  BY <1>2, LenProperties
<1>4. \A i \in DOMAIN Tail(q) : i \in Int /\ i + 1 \in DOMAIN q /\ i + 1 # 1 /\ Tail(q)[i] = q[i + 1]
  BY <1>1, <1>2, <1>3
<1>5. \A i \in DOMAIN q : i # 1 => i - 1 \in DOMAIN Tail(q) /\ q[i] = Tail(q)[i - 1]
  BY <1>1, <1>2, <1>3
<1>6. 1 \in DOMAIN q
  BY <1>1
<1>7. Elems(q) = Elems(Tail(q)) \cup {Head(q)}
  <2>1. \A x \in Elems(q) : x \in Elems(Tail(q)) \/ x = Head(q)
    BY <1>1, <1>5 DEF Elems
  <2>2. \A x \in Elems(Tail(q)) : x \in Elems(q)
    BY <1>4 DEF Elems
  <2>3. Head(q) \in Elems(q)
    BY <1>1, <1>6 DEF Elems
  <2> QED BY <2>1, <2>2, <2>3
<1>8. ASSUME NoDuplicates(q) PROVE NoDuplicates(Tail(q)) /\ Head(q) \notin Elems(Tail(q))
  <2>1. NoDuplicates(Tail(q))
    <3>1. SUFFICES ASSUME NEW i \in DOMAIN Tail(q), NEW j \in DOMAIN Tail(q), Tail(q)[i] = Tail(q)[j]
                   PROVE  i = j
      BY DEF NoDuplicates
    <3>2. i + 1 = j + 1
      BY <1>4, <1>8, <3>1 DEF NoDuplicates
    <3> QED BY <1>4, <3>2
  <2>2. \A i \in DOMAIN Tail(q) : Tail(q)[i] # q[1]
    BY <1>4, <1>6, <1>8 DEF NoDuplicates
  <2>3. Head(q) \notin Elems(Tail(q))
    BY <1>1, <2>2 DEF Elems
  <2> QED BY <2>1, <2>3
<1>9. ASSUME NEW a, NEW b, a # Head(q), b # Head(q), Before(q, a, b)
      PROVE  Before(Tail(q), a, b)
  <2>1. PICK i, j \in DOMAIN q : i < j /\ q[i] = a /\ q[j] = b
    BY <1>9 DEF Before
  <2>2. i # 1 /\ j # 1
    BY <1>1, <1>9, <2>1
  <2>3. i - 1 \in DOMAIN Tail(q) /\ j - 1 \in DOMAIN Tail(q)
        /\ Tail(q)[i - 1] = a /\ Tail(q)[j - 1] = b
    BY <1>5, <2>1, <2>2
  <2>4. i - 1 < j - 1
    BY <1>1, <2>1
  <2> QED BY <2>3, <2>4 DEF Before
<1> QED BY <1>2, <1>7, <1>8, <1>9
-----------------------------------------------------------------------------
\* The positions of an interval, in increasing order.
LEMMA NthOfInterval ==
  ASSUME NEW a \in Nat, NEW b \in Nat, NEW k \in 1..Cardinality(a..b)
  PROVE  Nth(a..b, k) = a + k - 1
<1>1. a <= b /\ k \in 1..(b - a + 1)
  <2>1. Cardinality(a..b) = IF a > b THEN 0 ELSE b - a + 1
    BY a \in Int, b \in Int, FS_Interval
  <2>2. ~(a > b)
    BY <2>1
  <2> QED BY <2>1, <2>2
<1>2. \A i \in a..b : Cardinality({j \in a..b : j <= i}) = i - a + 1
  <2>1. TAKE i \in a..b
  <2>2. {j \in a..b : j <= i} = a..i
    OBVIOUS
  <2>3. Cardinality(a..i) = i - a + 1
    BY FS_Interval
  <2> QED BY <2>2, <2>3
<1>3. \A i \in a..b : Cardinality({j \in a..b : j <= i}) = k <=> i = a + k - 1
  BY <1>1, <1>2
<1>4. a + k - 1 \in a..b
  BY <1>1
<1> QED BY <1>3, <1>4 DEF Nth

\* Keeping every position from one on keeps that stretch as it is.
LEMMA SubStretch ==
  ASSUME NEW S, NEW s \in Seq(S), NEW a \in 1..(Len(s) + 1)
  PROVE  Sub(s, a..Len(s)) = SubSeq(s, a, Len(s))
<1> DEFINE I == a..Len(s)
<1>1. Len(s) \in Nat /\ a \in Nat /\ \A i \in I : s[i] \in S
  BY LenProperties, ElementOfSeq
<1>2. Cardinality(I) = Len(s) - a + 1
  <2>1. Cardinality(I) = IF a > Len(s) THEN 0 ELSE Len(s) - a + 1
    BY <1>1, a \in Int, Len(s) \in Int, FS_Interval
  <2>2. a > Len(s) => Len(s) - a + 1 = 0
    BY <1>1
  <2> QED BY <2>1, <2>2
<1>3. /\ SubSeq(s, a, Len(s)) \in Seq(S) /\ Len(SubSeq(s, a, Len(s))) = Len(s) - a + 1
      /\ \A k \in 1..(Len(s) - a + 1) : SubSeq(s, a, Len(s))[k] = s[a + k - 1]
  BY <1>1, SubSeqProperties
<1>4. \A k \in 1..Cardinality(I) : Sub(s, I)[k] = s[a + k - 1]
  BY <1>1, NthOfInterval DEF Sub
<1>5. Sub(s, I) \in Seq(S) /\ Len(Sub(s, I)) = Cardinality(I)
  <2>1. I \in SUBSET (1..Len(s))
    BY <1>1
  <2>2. DOMAIN Sub(s, I) = 1..Cardinality(I)
    BY DEF Sub
  <2> QED BY <1>1, <1>2, <2>1, <2>2, SubProperties, LenProperties
<1> HIDE DEF I
<1> QED BY <1>2, <1>3, <1>4, <1>5, SeqEqual DEF I

\* Keeping all keeps the sequence.
LEMMA SubAll ==
  ASSUME NEW S, NEW s \in Seq(S)
  PROVE  Sub(s, DOMAIN s) = s
<1>1. DOMAIN s = 1..Len(s) /\ 1 \in 1..(Len(s) + 1)
  BY LenProperties
<1> QED BY <1>1, SubStretch, SubSeqFull

LEMMA KeepAll ==
  ASSUME NEW S, NEW q \in Seq(S), NEW T, Elems(q) \subseteq T
  PROVE  KeepIn(q, T) = q
<1>1. {i \in DOMAIN q : q[i] \in T} = DOMAIN q
  BY DEF Elems
<1> QED BY <1>1, SubAll DEF KeepIn

\* What is not there cannot be taken out.
LEMMA WithoutAbsent ==
  ASSUME NEW S, NEW q \in Seq(S), NEW x, x \notin Elems(q)
  PROVE  Without(q, x) = q
<1>1. {i \in DOMAIN q : q[i] # x} = DOMAIN q
  BY DEF Elems
<1> QED BY <1>1, SubAll DEF Without

\* Taking out the head of a queue leaves its tail.
LEMMA WithoutHead ==
  ASSUME NEW S, NEW q \in Seq(S), q # <<>>, NoDuplicates(q)
  PROVE  Without(q, Head(q)) = Tail(q)
<1>1. /\ DOMAIN q = 1..Len(q) /\ Len(q) \in Nat \ {0} /\ Head(q) = q[1]
  BY LenProperties, EmptySeq
<1>2. {i \in DOMAIN q : q[i] # Head(q)} = 2..Len(q)
  BY <1>1 DEF NoDuplicates
<1>3. Sub(q, 2..Len(q)) = SubSeq(q, 2, Len(q))
  BY <1>1, SubStretch
<1> QED BY <1>2, <1>3, TailIsSubSeq DEF Without

\* Keeping all but one is taking out that one.
LEMMA KeepAllBut ==
  ASSUME NEW S, NEW q \in Seq(S), NEW T, Elems(q) \subseteq T, NEW x
  PROVE  KeepIn(q, T \ {x}) = Without(q, x)
<1>1. {i \in DOMAIN q : q[i] \in T \ {x}} = {i \in DOMAIN q : q[i] # x}
  BY DEF Elems
<1> QED BY <1>1 DEF KeepIn, Without

\* A map is no longer than the number of its keys.
LEMMA UniqueBound ==
  ASSUME NEW S, NEW s \in Seq(S), UniqueIds(s), NEW F, IsFiniteSet(F), Ids(s) \subseteq F
  PROVE  Len(s) <= Cardinality(F)
<1>1. DOMAIN s = 1..Len(s) /\ Len(s) \in Nat
  BY LenProperties
<1> DEFINE g == [i \in 1..Len(s) |-> s[i].id]
<1>2. g \in Injection(1..Len(s), F)
  BY <1>1 DEF Ids, UniqueIds, Injection, IsInjective
<1>3. IsFiniteSet(1..Len(s)) /\ Cardinality(1..Len(s)) = Len(s)
  BY <1>1, FS_Interval
<1> HIDE DEF g
<1> QED BY <1>2, <1>3, FS_Injection
=============================================================================
