----------------------------- MODULE PipelineProofs ----------------------------
(***************************************************************************)
(* Proofs about the plan of an invocation: every listed test is in exactly *)
(* one batch of one shard, the labels of a target reach every request, the *)
(* shards run what the user's words choose, in commands that the harness   *)
(* accepts, and its output is read as it was meant.                        *)
(* The operators are folds, as their loops are in the code, so each has a  *)
(* lemma: what a filter keeps and a sort reorders (KeepFacts, SortFacts);  *)
(* that every mode of Partition covers its tests (Cover), of which the     *)
(* heap of Chunks is the hard one: a chunk without a test, or a heap       *)
(* without a chunk, would contradict the count of the cells that are left  *)
(* (CellsFacts, CountFacts); that an estimate is a number, whatever was    *)
(* recorded; that one label which asks for exclusivity is enough.  The     *)
(* shards are told apart by the hash, and the repetitions of a batch by    *)
(* the blocks of a shard's requests.  PlanInv carries the inputs of the    *)
(* plan through the stages before it.  The words of a command line and the *)
(* lines of a run go through folds, too.  Passed says, after any number of *)
(* the user's words, what quokka passes on and what the harness makes of   *)
(* it; behind quokka's own words this is Commanded, from which follow what *)
(* a command reports and runs and that it is accepted.  Account says what  *)
(* a run may print.                                                        *)
(***************************************************************************)
EXTENDS Pipeline, FoldProofs, FiniteSetTheorems

-------------------------------------------------------------------------------
(* Ordering.                                                                 *)

\* Keep goes through the elements one by one.
Keeps(g, s, S) ==
    /\ g[0] = <<>> /\ g[Len(s)] = Keep(s, S)
    /\ \A k \in 0 .. Len(s) - 1 :
          g[k + 1] = IF s[k + 1] \in S THEN Append(g[k], s[k + 1]) ELSE g[k]

LEMMA KeepSteps ==
    ASSUME NEW U, NEW S, NEW s \in Seq(U)
    PROVE  \E g \in [0 .. Len(s) -> Seq(U)] : Keeps(g, s, S)
<1> DEFINE n == Len(s)
           V == Seq(U)
           nil == <<>>
           op(a, k) == IF s[k] \in S THEN Append(a, s[k]) ELSE a
           Folds(it) == it = [t \in SUBSET (1 .. n) |->
                                IF t = {} THEN nil ELSE op(it[t \ {Greatest(t)}], Greatest(t))]
           iter == CHOOSE it : Folds(it)
           f == [p \in V \X (1 .. n) |-> op(p[1], p[2])]
<1>1. n \in Nat /\ DOMAIN s = 1 .. n /\ nil \in V
  OBVIOUS
<1>2. Keep(s, S) = iter[1 .. n]
  BY <1>1 DEF Keep, FoldLeft, MapThenFoldSet, Max, Greatest
<1>3. \A a \in V, k \in 1 .. n : op(a, k) \in V
  OBVIOUS
<1> HIDE DEF n, V, nil, op
<1>4. f \in [V \X (1 .. n) -> V]
  BY <1>3
<1>5. \A a \in V, k \in 1 .. n : f[<<a, k>>] = op(a, k)
  BY <1>3
<1> HIDE DEF f
<1>6. \E it : Folds(it)
  <2>1. PICK it \in [SUBSET (1 .. n) -> V] : Typed(it, n, V, nil, f)
    BY <1>1, <1>4, TypedIterates
  <2>2. \A t \in SUBSET (1 .. n) :
          it[t] = IF t = {} THEN nil ELSE op(it[t \ {Greatest(t)}], Greatest(t))
    BY <1>5, <2>1 DEF Typed
  <2> QED BY <2>2
<1>7. Folds(iter)
  BY <1>6
<1> HIDE DEF iter
<1>8. StepsAs(iter, n, V, nil, f)
  BY <1>1, <1>5, <1>7, GreatestIsThere DEF StepsAs
<1>9. PICK g \in [0 .. n -> V] : Chain(g, n, nil, f, iter[1 .. n])
  BY <1>1, <1>4, <1>8, FoldChain
<1>10. \A k \in 0 .. n - 1 : g[k + 1] = op(g[k], k + 1)
  BY <1>1, <1>5, <1>9 DEF Chain
<1> QED BY <1>2, <1>9, <1>10 DEF n, V, nil, op, Chain, Keeps

\* The first k elements.
Firsts(s, k) == {s[i] : i \in 1 .. k}

LEMMA FirstsFacts ==
    ASSUME NEW U, NEW s \in Seq(U)
    PROVE  /\ Firsts(s, 0) = {} /\ Firsts(s, Len(s)) = ToSet(s)
           /\ \A k \in 0 .. Len(s) - 1 :
                /\ Firsts(s, k + 1) = Firsts(s, k) \cup {s[k + 1]} /\ s[k + 1] \in U
                /\ IsInjective(s) => s[k + 1] \notin Firsts(s, k)
<1>1. Len(s) \in Nat /\ DOMAIN s = 1 .. Len(s) /\ \A i \in 1 .. Len(s) : s[i] \in U
  OBVIOUS
<1>2. Firsts(s, 0) = {} /\ Firsts(s, Len(s)) = ToSet(s)
  BY <1>1 DEF Firsts, ToSet
<1>3. ASSUME NEW k \in 0 .. Len(s) - 1
      PROVE  /\ Firsts(s, k + 1) = Firsts(s, k) \cup {s[k + 1]} /\ s[k + 1] \in U
             /\ IsInjective(s) => s[k + 1] \notin Firsts(s, k)
  <2>1. k + 1 \in 1 .. Len(s) /\ k + 1 \notin 1 .. k /\ 1 .. k \subseteq 1 .. Len(s)
        /\ \A i \in 1 .. k + 1 : i \in 1 .. k \/ i = k + 1
    BY <1>1
  <2>2. \A i : i \in 1 .. k => i \in 1 .. k + 1
    BY <1>1
  <2>3. k + 1 \in 1 .. k + 1
    BY <1>1
  <2>4. Firsts(s, k + 1) = Firsts(s, k) \cup {s[k + 1]}
    BY <2>1, <2>2, <2>3 DEF Firsts
  <2>5. IsInjective(s) => s[k + 1] \notin Firsts(s, k)
    BY <1>1, <2>1 DEF Firsts, IsInjective
  <2> QED BY <1>1, <2>1, <2>4, <2>5
<1> QED BY <1>2, <1>3

LEMMA AppendFacts ==
    ASSUME NEW U, NEW a \in Seq(U), NEW x \in U
    PROVE  /\ Append(a, x) \in Seq(U) /\ Len(Append(a, x)) = Len(a) + 1
           /\ ToSet(Append(a, x)) = ToSet(a) \cup {x}
           /\ IsInjective(a) /\ x \notin ToSet(a) => IsInjective(Append(a, x))
<1> DEFINE r == Append(a, x)
           n == Len(a)
<1>1. /\ n \in Nat /\ DOMAIN a = 1 .. n /\ r \in Seq(U) /\ Len(r) = n + 1 /\ DOMAIN r = 1 .. n + 1
      /\ r[n + 1] = x /\ \A i \in 1 .. n : r[i] = a[i]
  OBVIOUS
<1> HIDE DEF r, n
<1>2. \A i \in 1 .. n + 1 : i \in 1 .. n \/ i = n + 1
  BY <1>1
<1>3. (\A i \in 1 .. n : i \in 1 .. n + 1) /\ n + 1 \in 1 .. n + 1
  BY <1>1
<1>4. ToSet(r) = ToSet(a) \cup {x}
  BY <1>1, <1>2, <1>3 DEF ToSet
<1>5. IsInjective(a) /\ x \notin ToSet(a) => IsInjective(r)
  BY <1>1, <1>2 DEF ToSet, IsInjective
<1> QED BY <1>1, <1>4, <1>5 DEF r, n

LEMMA KeepFacts ==
    ASSUME NEW U, NEW S, NEW s \in Seq(U)
    PROVE  /\ Keep(s, S) \in Seq(U) /\ ToSet(Keep(s, S)) = ToSet(s) \cap S
           /\ IsInjective(s) => IsInjective(Keep(s, S))
<1> DEFINE n == Len(s)
<1>1. PICK g \in [0 .. n -> Seq(U)] : Keeps(g, s, S)
  BY KeepSteps
<1>2. /\ g[0] = <<>> /\ g[n] = Keep(s, S)
      /\ \A k \in 0 .. n - 1 :
            g[k + 1] = IF s[k + 1] \in S THEN Append(g[k], s[k + 1]) ELSE g[k]
  BY <1>1 DEF Keeps
<1>3. n \in Nat
  OBVIOUS
<1> HIDE DEF n
<1> DEFINE T == {k \in 0 .. n : /\ ToSet(g[k]) = Firsts(s, k) \cap S
                                /\ IsInjective(s) => IsInjective(g[k])}
<1>4. 0 \in T
  <2>1. ToSet(<<>>) = {} /\ IsInjective(<<>>)
    BY DEF ToSet, IsInjective
  <2> QED BY <1>2, <1>3, <2>1, FirstsFacts
<1>5. ASSUME NEW k \in 0 .. n - 1, k \in T PROVE k + 1 \in T
  <2>1. /\ g[k] \in Seq(U) /\ s[k + 1] \in U /\ k + 1 \in 0 .. n
        /\ Firsts(s, k + 1) = Firsts(s, k) \cup {s[k + 1]}
        /\ IsInjective(s) => s[k + 1] \notin Firsts(s, k)
    BY <1>3, FirstsFacts DEF n
  <2>2. CASE s[k + 1] \in S
    <3>1. g[k + 1] = Append(g[k], s[k + 1])
      BY <1>2, <2>2
    <3>2. /\ ToSet(g[k + 1]) = ToSet(g[k]) \cup {s[k + 1]}
          /\ IsInjective(g[k]) /\ s[k + 1] \notin ToSet(g[k]) => IsInjective(g[k + 1])
      BY <2>1, <3>1, AppendFacts
    <3> QED BY <1>5, <2>1, <2>2, <3>2
  <2>3. CASE s[k + 1] \notin S
    <3>1. g[k + 1] = g[k]
      BY <1>2, <2>3
    <3> QED BY <1>5, <2>1, <2>3, <3>1
  <2> QED BY <2>2, <2>3
<1> HIDE DEF T
<1>6. n \in T
  <2>1. \A k \in 0 .. n : k \in T
    BY <1>3, <1>4, <1>5, UpTo
  <2> QED BY <1>3, <2>1
<1>7. Firsts(s, n) = ToSet(s)
  BY FirstsFacts DEF n
<1> QED BY <1>2, <1>3, <1>6, <1>7 DEF T

\* An element that is put between two others.
LEMMA InsertAtFacts ==
    ASSUME NEW U, NEW a \in Seq(U), NEW x \in U, NEW i \in 1 .. Len(a) + 1
    PROVE  /\ InsertAt(a, i, x) \in Seq(U) /\ Len(InsertAt(a, i, x)) = Len(a) + 1
           /\ ToSet(InsertAt(a, i, x)) = ToSet(a) \cup {x}
           /\ IsInjective(a) /\ x \notin ToSet(a) => IsInjective(InsertAt(a, i, x))
<1> DEFINE r == InsertAt(a, i, x)
           n == Len(a)
<1>1. n \in Nat /\ i \in 1 .. n + 1 /\ DOMAIN a = 1 .. n /\ \A j \in 1 .. n : a[j] \in U
  OBVIOUS
<1>2. /\ r \in Seq(U) /\ Len(r) = n + 1 /\ DOMAIN r = 1 .. n + 1
      /\ \A j \in 1 .. n + 1 : r[j] = IF j < i THEN a[j] ELSE IF j = i THEN x ELSE a[j - 1]
  <2> DEFINE b == SubSeq(a, 1, i - 1)
             c == SubSeq(a, i, Len(a))
  <2>1. b \in Seq(U) /\ Len(b) = i - 1 /\ \A j \in 1 .. i - 1 : b[j] = a[j]
    BY <1>1
  <2>2. c \in Seq(U) /\ Len(c) = n - i + 1 /\ \A j \in 1 .. n - i + 1 : c[j] = a[i + j - 1]
    BY <1>1
  <2>3. r = (b \o <<x>>) \o c
    BY DEF InsertAt
  <2> HIDE DEF b, c, n, r
  <2> DEFINE d == b \o <<x>>
  <2>4. /\ d \in Seq(U) /\ Len(d) = i
        /\ \A j \in 1 .. i : d[j] = IF j < i THEN a[j] ELSE x
    <3>1. i \in Nat /\ i >= 1
      BY <1>1
    <3> QED BY <2>1, <3>1
  <2> HIDE DEF d
  <2>5. /\ r \in Seq(U) /\ Len(r) = n + 1
        /\ \A j \in 1 .. n + 1 : r[j] = IF j <= i THEN d[j] ELSE c[j - i]
    <3>1. r = d \o c
      BY <2>3 DEF d
    <3>2. i \in Nat /\ n \in Nat /\ i + (n - i + 1) = n + 1
      BY <1>1
    <3>3. c \in Seq(U) /\ d \in Seq(U)
      BY <2>2, <2>4
    <3>4. r \in Seq(U) /\ Len(r) = Len(d) + Len(c)
      BY <3>3, <3>1
    <3>5. \A j \in 1 .. Len(d) + Len(c) : r[j] = IF j <= Len(d) THEN d[j] ELSE c[j - Len(d)]
      BY <3>3, <3>1
    <3> QED BY <2>2, <2>4, <3>2, <3>4, <3>5
  <2>6. ASSUME NEW j \in 1 .. n + 1, j > i PROVE c[j - i] = a[j - 1]
    <3>1. j - i \in 1 .. n - i + 1 /\ i + (j - i) - 1 = j - 1
      BY <1>1, <2>6
    <3> QED BY <2>2, <3>1
  <2>7. DOMAIN r = 1 .. n + 1
    BY <1>1, <2>5
  <2> QED BY <1>1, <2>4, <2>5, <2>6, <2>7
<1> HIDE DEF r, n
<1>3. \A j \in 1 .. n + 1 :
        /\ j < i => j \in 1 .. n /\ r[j] = a[j]
        /\ j = i => r[j] = x
        /\ j > i => j - 1 \in 1 .. n /\ r[j] = a[j - 1]
  BY <1>1, <1>2
<1>4. ToSet(r) \subseteq ToSet(a) \cup {x}
  BY <1>1, <1>2, <1>3 DEF ToSet
<1>5. ASSUME NEW j \in 1 .. n PROVE a[j] \in ToSet(r)
  <2>1. j < i => j \in 1 .. n + 1 /\ r[j] = a[j]
    BY <1>1, <1>3
  <2>2. j >= i => j + 1 \in 1 .. n + 1 /\ r[j + 1] = a[j]
    <3>1. j + 1 \in 1 .. n + 1 /\ (j + 1) - 1 = j /\ (j >= i => j + 1 > i)
      BY <1>1
    <3> QED BY <1>1, <1>3, <3>1
  <2>3. j < i \/ j >= i
    BY <1>1
  <2> QED BY <1>2, <2>1, <2>2, <2>3 DEF ToSet
<1>6. x \in ToSet(r)
  BY <1>1, <1>2, <1>3 DEF ToSet
<1>7. ToSet(r) = ToSet(a) \cup {x}
  BY <1>1, <1>4, <1>5, <1>6 DEF ToSet
<1>8. ASSUME IsInjective(a), x \notin ToSet(a), NEW j \in 1 .. n + 1, NEW k \in 1 .. n + 1, r[j] = r[k]
      PROVE  j = k
  <2>1. \A m \in 1 .. n : a[m] # x
    BY <1>1, <1>8 DEF ToSet
  <2>2. \A m, l \in 1 .. n : a[m] = a[l] => m = l
    BY <1>1, <1>8 DEF IsInjective
  <2>3. j = i => k = i
    BY <1>1, <1>3, <1>8, <2>1
  <2>4. k = i => j = i
    BY <1>1, <1>3, <1>8, <2>1
  <2>5. CASE j < i /\ k < i
    BY <1>3, <1>8, <2>2, <2>5
  <2>6. CASE j > i /\ k > i
    <3>1. j - 1 = k - 1
      BY <1>3, <1>8, <2>2, <2>6
    <3> QED BY <3>1
  <2>7. CASE j < i /\ k > i
    <3>1. j = k - 1
      BY <1>3, <1>8, <2>2, <2>7
    <3> QED BY <1>1, <2>7, <3>1
  <2>8. CASE j > i /\ k < i
    <3>1. k = j - 1
      BY <1>3, <1>8, <2>2, <2>8
    <3> QED BY <1>1, <2>8, <3>1
  <2> QED BY <1>1, <2>3, <2>4, <2>5, <2>6, <2>7, <2>8
<1>9. IsInjective(a) /\ x \notin ToSet(a) => IsInjective(r)
  BY <1>2, <1>8 DEF IsInjective
<1> QED BY <1>2, <1>7, <1>9 DEF r, n

LEMMA InsertFacts ==
    ASSUME NEW U, NEW a \in Seq(U), NEW x \in U, NEW weight
    PROVE  /\ Insert(a, x, weight) \in Seq(U) /\ Len(Insert(a, x, weight)) = Len(a) + 1
           /\ ToSet(Insert(a, x, weight)) = ToSet(a) \cup {x}
           /\ IsInjective(a) /\ x \notin ToSet(a) => IsInjective(Insert(a, x, weight))
<1> DEFINE P == {i \in DOMAIN a : weight[a[i]] >= weight[x]}
           i == Cardinality(P) + 1
<1>1. IsFiniteSet(1 .. Len(a)) /\ Cardinality(1 .. Len(a)) = Len(a)
  <2>1. Len(a) \in Nat
    OBVIOUS
  <2> QED BY <2>1, FS_Interval
<1>2. P \subseteq 1 .. Len(a)
  OBVIOUS
<1> HIDE DEF P
<1>3. Cardinality(P) \in Nat /\ Cardinality(P) <= Len(a)
  BY <1>1, <1>2, FS_Subset, FS_CardinalityType
<1>4. i \in 1 .. Len(a) + 1
  BY <1>3
<1>5. Insert(a, x, weight) = InsertAt(a, i, x)
  BY DEF Insert, P
<1> HIDE DEF i
<1> QED BY <1>4, <1>5, InsertAtFacts

\* HeaviestFirst inserts the elements one by one.
Sorts(g, s, weight) ==
    /\ g[0] = <<>> /\ g[Len(s)] = HeaviestFirst(s, weight)
    /\ \A k \in 0 .. Len(s) - 1 : g[k + 1] = Insert(g[k], s[k + 1], weight)

LEMMA SortSteps ==
    ASSUME NEW U, NEW weight, NEW s \in Seq(U)
    PROVE  \E g \in [0 .. Len(s) -> Seq(U)] : Sorts(g, s, weight)
<1> DEFINE n == Len(s)
           V == Seq(U)
           nil == <<>>
           op(a, k) == Insert(a, s[k], weight)
           Folds(it) == it = [t \in SUBSET (1 .. n) |->
                                IF t = {} THEN nil ELSE op(it[t \ {Greatest(t)}], Greatest(t))]
           iter == CHOOSE it : Folds(it)
           f == [p \in V \X (1 .. n) |-> op(p[1], p[2])]
<1>1. n \in Nat /\ DOMAIN s = 1 .. n /\ nil \in V
  OBVIOUS
<1>2. HeaviestFirst(s, weight) = iter[1 .. n]
  BY <1>1 DEF HeaviestFirst, FoldLeft, MapThenFoldSet, Max, Greatest
<1>3. \A a \in V, k \in 1 .. n : op(a, k) \in V
  BY InsertFacts
<1> HIDE DEF n, V, nil, op
<1>4. f \in [V \X (1 .. n) -> V]
  BY <1>3
<1>5. \A a \in V, k \in 1 .. n : f[<<a, k>>] = op(a, k)
  BY <1>3
<1> HIDE DEF f
<1>6. \E it : Folds(it)
  <2>1. PICK it \in [SUBSET (1 .. n) -> V] : Typed(it, n, V, nil, f)
    BY <1>1, <1>4, TypedIterates
  <2>2. \A t \in SUBSET (1 .. n) :
          it[t] = IF t = {} THEN nil ELSE op(it[t \ {Greatest(t)}], Greatest(t))
    BY <1>5, <2>1 DEF Typed
  <2> QED BY <2>2
<1>7. Folds(iter)
  BY <1>6
<1> HIDE DEF iter
<1>8. StepsAs(iter, n, V, nil, f)
  BY <1>1, <1>5, <1>7, GreatestIsThere DEF StepsAs
<1>9. PICK g \in [0 .. n -> V] : Chain(g, n, nil, f, iter[1 .. n])
  BY <1>1, <1>4, <1>8, FoldChain
<1>10. \A k \in 0 .. n - 1 : g[k + 1] = op(g[k], k + 1)
  <2>1. \A k \in 0 .. n - 1 : k \in 0 .. n /\ k + 1 \in 1 .. n
    BY <1>1
  <2>2. \A k \in 0 .. n - 1 : g[k] \in V /\ g[k + 1] = f[<<g[k], k + 1>>]
    BY <1>9, <2>1 DEF Chain
  <2> QED BY <1>5, <2>1, <2>2
<1> QED BY <1>2, <1>9, <1>10 DEF n, V, nil, op, Chain, Sorts

LEMMA SortFacts ==
    ASSUME NEW U, NEW weight, NEW s \in Seq(U)
    PROVE  LET r == HeaviestFirst(s, weight)
           IN /\ r \in Seq(U) /\ Len(r) = Len(s) /\ ToSet(r) = ToSet(s)
              /\ IsInjective(s) => IsInjective(r)
<1> DEFINE n == Len(s)
<1>1. PICK g \in [0 .. n -> Seq(U)] : Sorts(g, s, weight)
  BY SortSteps
<1>2. /\ g[0] = <<>> /\ g[n] = HeaviestFirst(s, weight)
      /\ \A k \in 0 .. n - 1 : g[k + 1] = Insert(g[k], s[k + 1], weight)
  BY <1>1 DEF Sorts
<1>3. n \in Nat
  OBVIOUS
<1> HIDE DEF n
<1> DEFINE T == {k \in 0 .. n : /\ Len(g[k]) = k /\ ToSet(g[k]) = Firsts(s, k)
                                /\ IsInjective(s) => IsInjective(g[k])}
<1>4. 0 \in T
  <2>1. Len(<<>>) = 0 /\ ToSet(<<>>) = {} /\ IsInjective(<<>>)
    BY DEF ToSet, IsInjective
  <2>2. Firsts(s, 0) = {}
    BY FirstsFacts
  <2>3. /\ Len(g[0]) = 0 /\ ToSet(g[0]) = Firsts(s, 0) /\ IsInjective(g[0])
    BY <1>2, <2>1, <2>2
  <2> QED BY <1>3, <2>3
<1>5. ASSUME NEW k \in 0 .. n - 1, k \in T PROVE k + 1 \in T
  <2>1. /\ g[k] \in Seq(U) /\ s[k + 1] \in U /\ k + 1 \in 0 .. n
        /\ Firsts(s, k + 1) = Firsts(s, k) \cup {s[k + 1]}
        /\ IsInjective(s) => s[k + 1] \notin Firsts(s, k)
    BY <1>3, FirstsFacts DEF n
  <2>2. /\ Len(g[k + 1]) = Len(g[k]) + 1 /\ ToSet(g[k + 1]) = ToSet(g[k]) \cup {s[k + 1]}
        /\ IsInjective(g[k]) /\ s[k + 1] \notin ToSet(g[k]) => IsInjective(g[k + 1])
    BY <1>2, <2>1, InsertFacts
  <2> QED BY <1>5, <2>1, <2>2
<1> HIDE DEF T
<1>6. n \in T
  <2>1. \A k \in 0 .. n : k \in T
    BY <1>3, <1>4, <1>5, UpTo
  <2> QED BY <1>3, <2>1
<1>7. Firsts(s, n) = ToSet(s)
  BY FirstsFacts DEF n
<1>8. /\ g[n] \in Seq(U) /\ Len(g[n]) = n /\ ToSet(g[n]) = ToSet(s)
      /\ IsInjective(s) => IsInjective(g[n])
  BY <1>3, <1>6, <1>7 DEF T
<1> QED BY <1>2, <1>8 DEF n

-------------------------------------------------------------------------------
(* Batches.                                                                  *)

\* The tests of a sequence of batches.
Batched(bs) == UNION {ToSet(bs[i]) : i \in DOMAIN bs}

\* bs are batches, none empty, in which each of F is once.
Cover(bs, X, F) ==
    /\ bs \in Seq(Seq(X)) /\ Batched(bs) = F
    /\ \A i \in DOMAIN bs : bs[i] # <<>> /\ IsInjective(bs[i])
    /\ \A i, j \in DOMAIN bs : i # j => ToSet(bs[i]) \cap ToSet(bs[j]) = {}

\* The batches of bs are at most n long.
AtMost(bs, n) == \A i \in DOMAIN bs : Len(bs[i]) <= n

LEMMA EmptyFacts == ToSet(<<>>) = {} /\ IsInjective(<<>>) /\ Len(<<>>) = 0
  BY DEF ToSet, IsInjective

LEMMA SingleFacts ==
    ASSUME NEW x PROVE ToSet(<<x>>) = {x} /\ IsInjective(<<x>>) /\ Len(<<x>>) = 1 /\ <<x>> # <<>>
<1>1. DOMAIN <<x>> = {1} /\ <<x>>[1] = x /\ Len(<<x>>) = 1
  OBVIOUS
<1>2. \A i : i \in DOMAIN <<x>> <=> i = 1
  BY <1>1
<1>3. <<x>> # <<>>
  OBVIOUS
<1>4. ToSet(<<x>>) = {x}
  BY <1>1 DEF ToSet
<1> QED BY <1>1, <1>2, <1>3, <1>4 DEF IsInjective

LEMMA NoBatches == ASSUME NEW X, NEW n PROVE Cover(<<>>, X, {}) /\ AtMost(<<>>, n)
<1>1. DOMAIN <<>> = {} /\ <<>> \in Seq(Seq(X))
  OBVIOUS
<1> QED BY <1>1 DEF Cover, AtMost, Batched

LEMMA CoverAppend ==
    ASSUME NEW X, NEW F, NEW bs, Cover(bs, X, F), NEW b \in Seq(X), b # <<>>, IsInjective(b),
           ToSet(b) \cap F = {}
    PROVE  /\ Cover(Append(bs, b), X, F \cup ToSet(b))
           /\ \A n : AtMost(bs, n) /\ Len(b) <= n => AtMost(Append(bs, b), n)
<1> DEFINE r == Append(bs, b)
           n == Len(bs)
<1>1. bs \in Seq(Seq(X)) /\ n \in Nat /\ DOMAIN bs = 1 .. n
  BY DEF Cover
<1>2. /\ r \in Seq(Seq(X)) /\ DOMAIN r = 1 .. n + 1 /\ r[n + 1] = b
      /\ \A i \in 1 .. n : r[i] = bs[i]
  BY <1>1
<1> HIDE DEF r, n
<1>3. (\A i \in 1 .. n + 1 : i \in 1 .. n \/ i = n + 1) /\ n + 1 \in 1 .. n + 1 /\ n + 1 \notin 1 .. n
      /\ \A i \in 1 .. n : i \in 1 .. n + 1
  BY <1>1
<1>4. Batched(r) = F \cup ToSet(b)
  <2>1. Batched(bs) = F
    BY DEF Cover
  <2>2. ASSUME NEW x PROVE x \in Batched(r) <=> x \in F \/ x \in ToSet(b)
    <3>1. x \in Batched(r) <=> \E i \in 1 .. n + 1 : x \in ToSet(r[i])
      BY <1>2 DEF Batched
    <3>2. x \in F <=> \E i \in 1 .. n : x \in ToSet(bs[i])
      BY <1>1, <2>1 DEF Batched
    <3> QED BY <1>2, <1>3, <3>1, <3>2
  <2> QED BY <2>2
<1>5. \A i \in 1 .. n + 1 : r[i] # <<>> /\ IsInjective(r[i])
  BY <1>1, <1>2, <1>3 DEF Cover
<1>6. \A i \in 1 .. n : ToSet(bs[i]) \cap ToSet(b) = {}
  <2>1. \A i \in 1 .. n : ToSet(bs[i]) \subseteq F
    BY <1>1 DEF Cover, Batched
  <2> QED BY <2>1
<1>7. \A i, j \in 1 .. n : i # j => ToSet(bs[i]) \cap ToSet(bs[j]) = {}
  BY <1>1 DEF Cover
<1>8. ASSUME NEW i \in 1 .. n + 1, NEW j \in 1 .. n + 1, i # j PROVE ToSet(r[i]) \cap ToSet(r[j]) = {}
  <2>1. CASE i = n + 1
    BY <1>2, <1>3, <1>6, <1>8, <2>1
  <2>2. CASE j = n + 1
    BY <1>2, <1>3, <1>6, <1>8, <2>2
  <2>3. CASE i \in 1 .. n /\ j \in 1 .. n
    BY <1>2, <1>7, <1>8, <2>3
  <2> QED BY <1>3, <2>1, <2>2, <2>3
<1>9. Cover(r, X, F \cup ToSet(b))
  BY <1>2, <1>4, <1>5, <1>8 DEF Cover
<1>10. \A m : AtMost(bs, m) /\ Len(b) <= m => AtMost(r, m)
  BY <1>1, <1>2, <1>3 DEF AtMost
<1> QED BY <1>9, <1>10 DEF r

\* Every test by itself.
LEMMA PerTestFacts ==
    ASSUME NEW X, NEW tests \in Seq(X), IsInjective(tests)
    PROVE  LET bs == [i \in 1 .. Len(tests) |-> <<tests[i]>>]
           IN Cover(bs, X, ToSet(tests)) /\ AtMost(bs, 1)
<1> DEFINE n == Len(tests)
           bs == [i \in 1 .. n |-> <<tests[i]>>]
<1>1. n \in Nat /\ DOMAIN tests = 1 .. n /\ \A i \in 1 .. n : tests[i] \in X
  OBVIOUS
<1> HIDE DEF n
<1>2. DOMAIN bs = 1 .. n /\ \A i \in 1 .. n : bs[i] = <<tests[i]>>
  OBVIOUS
<1>3. bs \in Seq(Seq(X))
  BY <1>1
<1> HIDE DEF bs
<1>4. \A i \in 1 .. n : /\ ToSet(bs[i]) = {tests[i]} /\ IsInjective(bs[i])
                        /\ Len(bs[i]) = 1 /\ bs[i] # <<>>
  BY <1>2, SingleFacts
<1>5. Batched(bs) = ToSet(tests)
  BY <1>1, <1>2, <1>4 DEF Batched, ToSet
<1>6. \A i, j \in 1 .. n : i # j => ToSet(bs[i]) \cap ToSet(bs[j]) = {}
  <2>1. \A i, j \in 1 .. n : i # j => tests[i] # tests[j]
    BY <1>1 DEF IsInjective
  <2> QED BY <1>4, <2>1
<1>7. Cover(bs, X, ToSet(tests))
  BY <1>2, <1>3, <1>4, <1>5, <1>6 DEF Cover
<1>8. AtMost(bs, 1)
  <2>1. ASSUME NEW i \in DOMAIN bs PROVE Len(bs[i]) <= 1
    <3>1. Len(bs[i]) = 1
      BY <1>2, <1>4
    <3> QED BY <3>1
  <2> QED BY <2>1 DEF AtMost
<1> QED BY <1>7, <1>8 DEF bs, n

\* The states of bucket_generic, and its invariant: F is in the batches and the current one.
BucketState(X) == [batches : Seq(Seq(X)), current : Seq(X)]

Bucketed(s, X, F) ==
    /\ s \in BucketState(X)
    /\ Cover(s.batches, X, F \ ToSet(s.current)) /\ ToSet(s.current) \subseteq F
    /\ IsInjective(s.current) /\ Len(s.current) < MaxBatch /\ AtMost(s.batches, MaxBatch)

LEMMA FlushFacts ==
    ASSUME NEW X, NEW s, NEW F, Bucketed(s, X, F)
    PROVE  Cover(Flush(s), X, F) /\ AtMost(Flush(s), MaxBatch)
<1>1. CASE s.current = <<>>
  <2>1. F \ ToSet(s.current) = F
    BY <1>1, EmptyFacts
  <2> QED BY <1>1, <2>1 DEF Bucketed, Flush
<1>2. CASE s.current # <<>>
  <2> DEFINE b == s.current
             G == F \ ToSet(b)
  <2>1. /\ b \in Seq(X) /\ b # <<>> /\ IsInjective(b) /\ Cover(s.batches, X, G)
        /\ AtMost(s.batches, MaxBatch) /\ Len(b) <= MaxBatch
    <3>1. b \in Seq(X) /\ Len(b) \in Nat /\ Len(b) < MaxBatch
      BY DEF Bucketed, BucketState
    <3> QED BY <1>2, <3>1, MaxBatchAssumption DEF Bucketed
  <2>2. ToSet(b) \cap G = {} /\ G \cup ToSet(b) = F
    BY DEF Bucketed
  <2>3. Flush(s) = Append(s.batches, b)
    BY <1>2 DEF Flush
  <2> HIDE DEF b, G
  <2>4. Cover(Append(s.batches, b), X, G \cup ToSet(b)) /\ AtMost(Append(s.batches, b), MaxBatch)
    BY <2>1, <2>2, CoverAppend
  <2> QED BY <2>2, <2>3, <2>4
<1> QED BY <1>1, <1>2

LEMMA NothingCurrent ==
    ASSUME NEW X, NEW F, NEW s \in BucketState(X), s.current = <<>>, Cover(s.batches, X, F),
           AtMost(s.batches, MaxBatch)
    PROVE  Bucketed(s, X, F)
<1>1. F \ ToSet(s.current) = F /\ ToSet(s.current) \subseteq F
  BY EmptyFacts
<1>2. IsInjective(s.current) /\ Len(s.current) < MaxBatch
  BY EmptyFacts, MaxBatchAssumption
<1>3. Cover(s.batches, X, F \ ToSet(s.current))
  BY <1>1
<1> QED BY <1>1, <1>2, <1>3 DEF Bucketed

LEMMA BucketStep ==
    ASSUME NEW X, NEW s, NEW F, Bucketed(s, X, F), NEW x \in X, x \notin F, NEW threshold, NEW expect
    PROVE  Bucketed(PutInBucket(s, x, threshold, expect), X, F \cup {x})
<1> DEFINE r == PutInBucket(s, x, threshold, expect)
           b == Append(s.current, x)
<1> SUFFICES Bucketed(r, X, F \cup {x})
  OBVIOUS
<1>1. /\ b \in Seq(X) /\ Len(b) = Len(s.current) + 1 /\ ToSet(b) = ToSet(s.current) \cup {x}
      /\ IsInjective(b) /\ Len(s.current) \in Nat /\ b # <<>> /\ s.current \in Seq(X)
  <2>1. s.current \in Seq(X) /\ IsInjective(s.current) /\ x \notin ToSet(s.current)
    BY DEF Bucketed, BucketState
  <2>2. /\ b \in Seq(X) /\ Len(b) = Len(s.current) + 1 /\ ToSet(b) = ToSet(s.current) \cup {x}
        /\ IsInjective(b)
    BY <2>1, AppendFacts
  <2> QED BY <2>1, <2>2, EmptyFacts
<1>2. /\ Cover(s.batches, X, F \ ToSet(s.current)) /\ s.batches \in Seq(Seq(X))
      /\ AtMost(s.batches, MaxBatch) /\ ToSet(s.current) \subseteq F /\ Len(s.current) < MaxBatch
  BY DEF Bucketed, BucketState
<1>3. MaxBatch \in Nat /\ 0 < MaxBatch /\ 1 <= MaxBatch
  BY MaxBatchAssumption
<1>4. CASE expect[x].p50 >= threshold
  <2>1. r = [batches |-> Append(Flush(s), <<x>>), current |-> <<>>]
    BY <1>4 DEF PutInBucket
  <2>2. Cover(Flush(s), X, F) /\ AtMost(Flush(s), MaxBatch)
    BY FlushFacts
  <2>3. <<x>> \in Seq(X) /\ <<x>> # <<>> /\ IsInjective(<<x>>) /\ ToSet(<<x>>) = {x} /\ Len(<<x>>) = 1
    BY SingleFacts
  <2> DEFINE y == <<x>>
  <2> HIDE DEF y
  <2>4. y \in Seq(X) /\ y # <<>> /\ IsInjective(y) /\ ToSet(y) = {x} /\ Len(y) <= MaxBatch
    BY <1>3, <2>3 DEF y
  <2>5. Cover(Append(Flush(s), y), X, F \cup {x}) /\ AtMost(Append(Flush(s), y), MaxBatch)
    BY <2>2, <2>4, CoverAppend
  <2>6. r.batches = Append(Flush(s), y) /\ r.current = <<>>
    BY <2>1 DEF y
  <2>7. r \in BucketState(X)
    BY <2>1, <2>5 DEF BucketState, Cover, y
  <2>8. Cover(r.batches, X, F \cup {x}) /\ AtMost(r.batches, MaxBatch) /\ r.current = <<>>
    BY <2>5, <2>6
  <2> HIDE DEF r
  <2> QED BY <2>7, <2>8, NothingCurrent
<1>5. CASE ~(expect[x].p50 >= threshold) /\ Len(b) >= MaxBatch
  <2>1. r = [batches |-> Append(s.batches, b), current |-> <<>>]
    BY <1>5 DEF PutInBucket
  <2>2. (F \ ToSet(s.current)) \cup ToSet(b) = F \cup {x} /\ ToSet(b) \cap (F \ ToSet(s.current)) = {}
    BY <1>1, <1>2
  <2>3. Len(b) <= MaxBatch
    BY <1>1, <1>2, <1>3
  <2> DEFINE G == F \ ToSet(s.current)
  <2>4. Cover(s.batches, X, G) /\ ToSet(b) \cap G = {} /\ G \cup ToSet(b) = F \cup {x}
    BY <1>2, <2>2
  <2> HIDE DEF b, G
  <2>5. Cover(Append(s.batches, b), X, G \cup ToSet(b)) /\ AtMost(Append(s.batches, b), MaxBatch)
    BY <1>1, <1>2, <2>3, <2>4, CoverAppend
  <2>6. r.batches = Append(s.batches, b) /\ r.current = <<>>
    BY <2>1
  <2>7. r \in BucketState(X)
    BY <2>1, <2>5 DEF BucketState, Cover
  <2>8. Cover(r.batches, X, F \cup {x}) /\ AtMost(r.batches, MaxBatch) /\ r.current = <<>>
    BY <2>4, <2>5, <2>6
  <2> HIDE DEF r
  <2> QED BY <2>7, <2>8, NothingCurrent
<1>6. CASE ~(expect[x].p50 >= threshold) /\ ~(Len(b) >= MaxBatch)
  <2>1. r = [batches |-> s.batches, current |-> b]
    BY <1>6 DEF PutInBucket
  <2>2. (F \cup {x}) \ ToSet(b) = F \ ToSet(s.current) /\ ToSet(b) \subseteq F \cup {x}
    BY <1>1, <1>2
  <2>3. Len(b) < MaxBatch
    BY <1>1, <1>3, <1>6
  <2> HIDE DEF b
  <2>4. r.batches = s.batches /\ r.current = b /\ r \in BucketState(X)
    BY <1>1, <1>2, <2>1 DEF BucketState
  <2>5. Cover(r.batches, X, (F \cup {x}) \ ToSet(r.current))
    BY <1>2, <2>2, <2>4
  <2> HIDE DEF r
  <2> QED BY <1>1, <1>2, <2>2, <2>3, <2>4, <2>5 DEF Bucketed
<1> QED BY <1>4, <1>5, <1>6

LEMMA BucketType ==
    ASSUME NEW X, NEW s \in BucketState(X), NEW x \in X, NEW threshold, NEW expect
    PROVE  PutInBucket(s, x, threshold, expect) \in BucketState(X)
<1>1. Flush(s) \in Seq(Seq(X)) /\ <<x>> \in Seq(X) /\ s.current \in Seq(X) /\ s.batches \in Seq(Seq(X))
  BY DEF Flush, BucketState
<1> DEFINE b == Append(s.current, x)
           y == <<x>>
<1>2. b \in Seq(X) /\ y \in Seq(X) /\ <<>> \in Seq(X)
  BY <1>1
<1>3. PutInBucket(s, x, threshold, expect) \in
        {[batches |-> Append(Flush(s), y), current |-> <<>>],
         [batches |-> Append(s.batches, b), current |-> <<>>],
         [batches |-> s.batches, current |-> b]}
  BY DEF PutInBucket
<1> HIDE DEF b, y
<1>4. Append(Flush(s), y) \in Seq(Seq(X)) /\ Append(s.batches, b) \in Seq(Seq(X))
  BY <1>1, <1>2
<1>5. /\ [batches |-> Append(Flush(s), y), current |-> <<>>] \in BucketState(X)
      /\ [batches |-> Append(s.batches, b), current |-> <<>>] \in BucketState(X)
      /\ [batches |-> s.batches, current |-> b] \in BucketState(X)
  BY <1>1, <1>2, <1>4 DEF BucketState
<1> QED BY <1>3, <1>5

\* Buckets takes the tests one by one, and flushes the last state.
FillsBuckets(g, s, threshold, expect) ==
    /\ g[0] = [batches |-> <<>>, current |-> <<>>] /\ Flush(g[Len(s)]) = Buckets(s, threshold, expect)
    /\ \A k \in 0 .. Len(s) - 1 : g[k + 1] = PutInBucket(g[k], s[k + 1], threshold, expect)

LEMMA BucketSteps ==
    ASSUME NEW X, NEW threshold, NEW expect, NEW s \in Seq(X)
    PROVE  \E g \in [0 .. Len(s) -> BucketState(X)] : FillsBuckets(g, s, threshold, expect)
<1> DEFINE n == Len(s)
           V == BucketState(X)
           nil == [batches |-> <<>>, current |-> <<>>]
           op(a, k) == PutInBucket(a, s[k], threshold, expect)
           Folds(it) == it = [t \in SUBSET (1 .. n) |->
                                IF t = {} THEN nil ELSE op(it[t \ {Greatest(t)}], Greatest(t))]
           iter == CHOOSE it : Folds(it)
           f == [p \in V \X (1 .. n) |-> op(p[1], p[2])]
<1>1. n \in Nat /\ DOMAIN s = 1 .. n /\ (\A k \in 1 .. n : s[k] \in X) /\ nil \in V
  BY DEF BucketState
<1>2. Buckets(s, threshold, expect) = Flush(iter[1 .. n])
  BY <1>1 DEF Buckets, FoldLeft, MapThenFoldSet, Max, Greatest
<1>3. \A a \in V, k \in 1 .. n : op(a, k) \in V
  BY <1>1, BucketType
<1> HIDE DEF n, V, nil, op
<1>4. f \in [V \X (1 .. n) -> V]
  BY <1>3
<1>5. \A a \in V, k \in 1 .. n : f[<<a, k>>] = op(a, k)
  BY <1>3
<1> HIDE DEF f
<1>6. \E it : Folds(it)
  <2>1. PICK it \in [SUBSET (1 .. n) -> V] : Typed(it, n, V, nil, f)
    BY <1>1, <1>4, TypedIterates
  <2>2. \A t \in SUBSET (1 .. n) :
          it[t] = IF t = {} THEN nil ELSE op(it[t \ {Greatest(t)}], Greatest(t))
    BY <1>5, <2>1 DEF Typed
  <2> QED BY <2>2
<1>7. Folds(iter)
  BY <1>6
<1> HIDE DEF iter
<1>8. StepsAs(iter, n, V, nil, f)
  BY <1>1, <1>5, <1>7, GreatestIsThere DEF StepsAs
<1>9. PICK g \in [0 .. n -> V] : Chain(g, n, nil, f, iter[1 .. n])
  BY <1>1, <1>4, <1>8, FoldChain
<1>10. \A k \in 0 .. n - 1 : g[k + 1] = op(g[k], k + 1)
  <2>1. \A k \in 0 .. n - 1 : k \in 0 .. n /\ k + 1 \in 1 .. n
    BY <1>1
  <2>2. \A k \in 0 .. n - 1 : g[k] \in V /\ g[k + 1] = f[<<g[k], k + 1>>]
    BY <1>9, <2>1 DEF Chain
  <2> QED BY <1>5, <2>1, <2>2
<1> QED BY <1>2, <1>9, <1>10 DEF n, V, nil, op, Chain, FillsBuckets

LEMMA BucketsFacts ==
    ASSUME NEW X, NEW tests \in Seq(X), IsInjective(tests), NEW threshold, NEW expect
    PROVE  LET bs == Buckets(tests, threshold, expect)
           IN Cover(bs, X, ToSet(tests)) /\ AtMost(bs, MaxBatch)
<1> DEFINE n == Len(tests)
<1>1. PICK g \in [0 .. n -> BucketState(X)] : FillsBuckets(g, tests, threshold, expect)
  BY BucketSteps
<1>2. /\ g[0] = [batches |-> <<>>, current |-> <<>>]
      /\ Flush(g[n]) = Buckets(tests, threshold, expect)
      /\ \A k \in 0 .. n - 1 : g[k + 1] = PutInBucket(g[k], tests[k + 1], threshold, expect)
  BY <1>1 DEF FillsBuckets
<1>3. n \in Nat
  OBVIOUS
<1> HIDE DEF n
<1> DEFINE T == {k \in 0 .. n : Bucketed(g[k], X, Firsts(tests, k))}
<1>4. 0 \in T
  <2>1. g[0] \in BucketState(X) /\ g[0].batches = <<>> /\ g[0].current = <<>>
    BY <1>2, <1>3
  <2>2. Cover(g[0].batches, X, {}) /\ AtMost(g[0].batches, MaxBatch)
    BY <2>1, NoBatches
  <2>3. Bucketed(g[0], X, {})
    BY <2>1, <2>2, NothingCurrent
  <2>4. Firsts(tests, 0) = {}
    BY FirstsFacts
  <2>5. Bucketed(g[0], X, Firsts(tests, 0))
    BY <2>3, <2>4
  <2>6. 0 \in 0 .. n
    BY <1>3
  <2> QED BY <2>5, <2>6
<1>5. ASSUME NEW k \in 0 .. n - 1, k \in T PROVE k + 1 \in T
  <2>1. /\ tests[k + 1] \in X /\ k + 1 \in 0 .. n /\ tests[k + 1] \notin Firsts(tests, k)
        /\ Firsts(tests, k + 1) = Firsts(tests, k) \cup {tests[k + 1]}
    BY <1>3, FirstsFacts DEF n
  <2>2. Bucketed(g[k + 1], X, Firsts(tests, k) \cup {tests[k + 1]})
    BY <1>2, <1>5, <2>1, BucketStep
  <2> QED BY <2>1, <2>2
<1> HIDE DEF T
<1>6. n \in T
  <2>1. \A k \in 0 .. n : k \in T
    BY <1>3, <1>4, <1>5, UpTo
  <2> QED BY <1>3, <2>1
<1>7. Firsts(tests, n) = ToSet(tests)
  BY FirstsFacts DEF n
<1>8. Bucketed(g[n], X, ToSet(tests))
  BY <1>6, <1>7 DEF T
<1> QED BY <1>2, <1>8, FlushFacts

\* The least of a set of naturals.
LEMMA LeastIsThere ==
    ASSUME NEW S \in SUBSET Nat, S # {}
    PROVE  \E m \in S : \A x \in S : m <= x
<1> SUFFICES ASSUME \A m \in S : \E x \in S : x < m PROVE FALSE
  OBVIOUS
<1> DEFINE T == {k \in Nat : \A x \in S : x > k}
<1>1. 0 \in T
  <2>1. ASSUME NEW x \in S PROVE x > 0
    <3>1. PICK y \in S : y < x
      OBVIOUS
    <3> QED BY <3>1
  <2> QED BY <2>1
<1>2. ASSUME NEW k \in T PROVE k + 1 \in T
  <2>1. ASSUME NEW x \in S PROVE x > k + 1
    <3>1. PICK y \in S : y < x
      OBVIOUS
    <3>2. y > k /\ k \in Nat /\ y \in Nat /\ x \in Nat
      BY <1>2
    <3> QED BY <3>1, <3>2
  <2> QED BY <2>1
<1>3. T \in SUBSET Nat
  OBVIOUS
<1> HIDE DEF T
<1>4. T = Nat
  BY <1>1, <1>2, <1>3, EveryNatural
<1>5. PICK x \in S : TRUE
  OBVIOUS
<1>6. x \in T
  BY <1>4
<1>7. x > x /\ x \in Nat
  BY <1>6 DEF T
<1> QED BY <1>7

LEMMA LightestFacts ==
    ASSUME NEW c \in Nat, NEW load \in [1 .. c -> Nat], NEW open \in SUBSET (1 .. c), open # {}
    PROVE  Lightest(open, load) \in open
<1> DEFINE L == {load[i] : i \in open}
<1>1. L \in SUBSET Nat /\ L # {}
  OBVIOUS
<1>2. PICK m \in L : \A x \in L : m <= x
  <2> HIDE DEF L
  <2> QED BY <1>1, LeastIsThere
<1> DEFINE S == {i \in open : load[i] = m}
<1>3. S \in SUBSET Nat /\ S # {}
  <2>1. S # {}
    BY <1>2
  <2>2. \A j \in open : j \in Nat
    OBVIOUS
  <2>3. S \in SUBSET Nat
    BY <2>2
  <2> QED BY <2>1, <2>3
<1>4. PICK i \in S : \A j \in S : i <= j
  <2> HIDE DEF S
  <2> QED BY <1>3, LeastIsThere
<1>5. ASSUME NEW j \in open PROVE load[i] < load[j] \/ (load[i] = load[j] /\ i <= j)
  <2>1. load[i] = m /\ m \in Nat /\ load[j] \in Nat /\ m <= load[j] /\ (load[j] = m => i <= j)
    BY <1>1, <1>2, <1>4
  <2> QED BY <2>1
<1>6. i \in open
  OBVIOUS
<1> QED BY <1>5, <1>6 DEF Lightest

\* The states of chunk_fixed_generic with c chunks.
ChunkState(X, c) == [chunks : [1 .. c -> Seq(X)], load : [1 .. c -> Nat], open : SUBSET (1 .. c),
                     panic : BOOLEAN]

\* x joins the open chunk h, which is closed if that fills it.
Joins(r, s, x, h, size) ==
    /\ h \in s.open /\ r.panic = s.panic /\ r.chunks = [s.chunks EXCEPT ![h] = Append(s.chunks[h], x)]
    /\ r.open = IF Len(Append(s.chunks[h], x)) < size THEN s.open ELSE s.open \ {h}

\* While a chunk is open, a test goes into one.
LEMMA ChunkType ==
    ASSUME NEW X, NEW c \in Nat, NEW s \in ChunkState(X, c), NEW x \in X, NEW size, NEW expect,
           expect[x].p95 \in Nat
    PROVE  /\ PutInChunk(s, x, size, expect) \in ChunkState(X, c)
           /\ s.open # {} => \E h \in s.open : Joins(PutInChunk(s, x, size, expect), s, x, h, size)
<1> DEFINE r == PutInChunk(s, x, size, expect)
           i == Lightest(s.open, s.load)
           chunk == Append(s.chunks[i], x)
           load == [s.load EXCEPT ![i] = @ + expect[x].p95]
           chunks == [s.chunks EXCEPT ![i] = chunk]
           open == IF Len(chunk) < size THEN s.open ELSE s.open \ {i}
<1>1. /\ s.chunks \in [1 .. c -> Seq(X)] /\ s.load \in [1 .. c -> Nat]
      /\ s.open \in SUBSET (1 .. c) /\ s.panic \in BOOLEAN
  BY DEF ChunkState
<1>2. CASE s.open = {}
  <2>1. r = [s EXCEPT !.panic = TRUE]
    BY <1>2 DEF PutInChunk
  <2>2. r \in ChunkState(X, c)
    BY <2>1 DEF ChunkState
  <2> QED BY <1>2, <2>2
<1>3. CASE s.open # {}
  <2>1. i \in s.open
    BY <1>1, <1>3, LightestFacts
  <2>2. i \in 1 .. c
    BY <1>1, <2>1
  <2>3. r = [s EXCEPT !.chunks = chunks, !.load = load, !.open = open]
    BY <1>1, <1>3 DEF PutInChunk
  <2> HIDE DEF i, r
  <2>4. chunks \in [1 .. c -> Seq(X)]
    <3>1. chunk \in Seq(X)
      BY <1>1, <2>2
    <3> HIDE DEF chunk
    <3> QED BY <1>1, <3>1
  <2>5. load \in [1 .. c -> Nat]
    <3>1. s.load[i] + expect[x].p95 \in Nat
      BY <1>1, <2>2
    <3> QED BY <1>1, <3>1
  <2>6. open \in SUBSET (1 .. c)
    BY <1>1
  <2> HIDE DEF chunks, load, open
  <2>7. r \in ChunkState(X, c) /\ r.panic = s.panic /\ r.chunks = chunks /\ r.open = open
    BY <2>3, <2>4, <2>5, <2>6 DEF ChunkState
  <2>8. Joins(r, s, x, i, size)
    BY <2>1, <2>7 DEF Joins, chunks, chunk, open
  <2> QED BY <2>1, <2>7, <2>8 DEF r
<1> QED BY <1>2, <1>3

\* What chunk_fixed_generic comes to after the tests of s.
Filled(s, c, size, expect) ==
    FoldLeft(LAMBDA a, t : PutInChunk(a, t, size, expect), NoChunks(c), s)

\* Filled takes the tests one by one.
FillsChunks(g, s, c, size, expect) ==
    /\ g[0] = NoChunks(c) /\ g[Len(s)] = Filled(s, c, size, expect)
    /\ \A k \in 0 .. Len(s) - 1 : g[k + 1] = PutInChunk(g[k], s[k + 1], size, expect)

LEMMA ChunkSteps ==
    ASSUME NEW X, NEW c \in Nat, NEW size, NEW expect, \A x \in X : expect[x].p95 \in Nat, NEW s \in Seq(X)
    PROVE  \E g \in [0 .. Len(s) -> ChunkState(X, c)] : FillsChunks(g, s, c, size, expect)
<1> DEFINE n == Len(s)
           V == ChunkState(X, c)
           nil == NoChunks(c)
           op(a, k) == PutInChunk(a, s[k], size, expect)
           Folds(it) == it = [t \in SUBSET (1 .. n) |->
                                IF t = {} THEN nil ELSE op(it[t \ {Greatest(t)}], Greatest(t))]
           iter == CHOOSE it : Folds(it)
           f == [p \in V \X (1 .. n) |-> op(p[1], p[2])]
<1>1. n \in Nat /\ DOMAIN s = 1 .. n /\ (\A k \in 1 .. n : s[k] \in X) /\ nil \in V
  BY DEF ChunkState, NoChunks
<1>2. Filled(s, c, size, expect) = iter[1 .. n]
  BY <1>1 DEF Filled, FoldLeft, MapThenFoldSet, Max, Greatest
<1>3. \A a \in V, k \in 1 .. n : op(a, k) \in V
  BY <1>1, ChunkType
<1> HIDE DEF n, V, nil, op
<1>4. f \in [V \X (1 .. n) -> V]
  BY <1>3
<1>5. \A a \in V, k \in 1 .. n : f[<<a, k>>] = op(a, k)
  BY <1>3
<1> HIDE DEF f
<1>6. \E it : Folds(it)
  <2>1. PICK it \in [SUBSET (1 .. n) -> V] : Typed(it, n, V, nil, f)
    BY <1>1, <1>4, TypedIterates
  <2>2. \A t \in SUBSET (1 .. n) :
          it[t] = IF t = {} THEN nil ELSE op(it[t \ {Greatest(t)}], Greatest(t))
    BY <1>5, <2>1 DEF Typed
  <2> QED BY <2>2
<1>7. Folds(iter)
  BY <1>6
<1> HIDE DEF iter
<1>8. StepsAs(iter, n, V, nil, f)
  BY <1>1, <1>5, <1>7, GreatestIsThere DEF StepsAs
<1>9. PICK g \in [0 .. n -> V] : Chain(g, n, nil, f, iter[1 .. n])
  BY <1>1, <1>4, <1>8, FoldChain
<1>10. \A k \in 0 .. n - 1 : g[k + 1] = op(g[k], k + 1)
  <2>1. \A k \in 0 .. n - 1 : k \in 0 .. n /\ k + 1 \in 1 .. n
    BY <1>1
  <2>2. \A k \in 0 .. n - 1 : g[k] \in V /\ g[k + 1] = f[<<g[k], k + 1>>]
    BY <1>9, <2>1 DEF Chain
  <2> QED BY <1>5, <2>1, <2>2
<1> QED BY <1>2, <1>9, <1>10 DEF n, V, nil, op, Chain, FillsChunks

\* The places that are taken in c chunks of at most size.
Cells(chunks, c, size) == {p \in (1 .. c) \X (1 .. size) : p[2] <= Len(chunks[p[1]])}

LEMMA CellsFacts ==
    ASSUME NEW X, NEW c \in Nat, NEW size \in Nat, NEW chunks \in [1 .. c -> Seq(X)]
    PROVE  /\ IsFiniteSet(Cells(chunks, c, size)) /\ Cardinality(Cells(chunks, c, size)) \in Nat
           /\ (\A i \in 1 .. c : Len(chunks[i]) >= size) => Cardinality(Cells(chunks, c, size)) = c * size
           /\ \A e \in 1 .. c :
                chunks[e] = <<>> => Cardinality(Cells(chunks, c, size)) <= (c - 1) * size
<1> DEFINE A == 1 .. c
           B == 1 .. size
           P == A \X B
           C == Cells(chunks, c, size)
<1>1. IsFiniteSet(A) /\ IsFiniteSet(B) /\ Cardinality(A) = c /\ Cardinality(B) = size
  BY FS_Interval
<1>2. IsFiniteSet(P) /\ Cardinality(P) = c * size
  <2> HIDE DEF A, B
  <2>1. IsFiniteSet(A \X B) /\ Cardinality(A \X B) = Cardinality(A) * Cardinality(B)
    BY <1>1, FS_Product
  <2> QED BY <1>1, <2>1
<1>3. C \subseteq P
  BY DEF Cells
<1>4. IsFiniteSet(C) /\ Cardinality(C) \in Nat
  <2> HIDE DEF C, P
  <2> QED BY <1>2, <1>3, FS_Subset, FS_CardinalityType
<1>5. ASSUME \A i \in 1 .. c : Len(chunks[i]) >= size PROVE Cardinality(C) = c * size
  <2>1. ASSUME NEW p \in P PROVE p[2] <= Len(chunks[p[1]])
    <3>1. p[1] \in 1 .. c /\ p[2] \in 1 .. size
      OBVIOUS
    <3>2. chunks[p[1]] \in Seq(X) /\ Len(chunks[p[1]]) \in Nat /\ Len(chunks[p[1]]) >= size
      BY <1>5, <3>1
    <3> QED BY <3>1, <3>2
  <2>2. C = P
    BY <2>1 DEF Cells
  <2> QED BY <1>2, <2>2
<1>6. ASSUME NEW e \in 1 .. c, chunks[e] = <<>> PROVE Cardinality(C) <= (c - 1) * size
  <2> DEFINE R == A \ {e}
             Q == R \X B
  <2>1. IsFiniteSet(R) /\ Cardinality(R) = c - 1
    BY <1>1, FS_RemoveElement
  <2>2. IsFiniteSet(Q) /\ Cardinality(Q) = (c - 1) * size
    <3> HIDE DEF R, B
    <3>1. IsFiniteSet(R \X B) /\ Cardinality(R \X B) = Cardinality(R) * Cardinality(B)
      BY <1>1, <2>1, FS_Product
    <3> QED BY <1>1, <2>1, <3>1
  <2>3. ASSUME NEW p \in C PROVE p \in Q
    <3>1. p \in P /\ p[1] \in 1 .. c /\ p[2] \in 1 .. size /\ p[2] <= Len(chunks[p[1]])
      BY DEF Cells
    <3>2. p[1] # e
      BY <1>6, <3>1, EmptyFacts
    <3> QED BY <3>1, <3>2
  <2>4. C \in SUBSET Q
    BY <2>3
  <2> HIDE DEF C, Q
  <2> QED BY <2>2, <2>4, FS_Subset
<1> QED BY <1>4, <1>5, <1>6

\* The invariant of chunk_fixed_generic: each of the k tests F is in one chunk, and those that
\* are not full are open.
Chunked(s, X, c, size, F, k) ==
    /\ s \in ChunkState(X, c) /\ ~s.panic /\ s.open = {i \in 1 .. c : Len(s.chunks[i]) < size}
    /\ \A i \in 1 .. c : Len(s.chunks[i]) <= size /\ IsInjective(s.chunks[i])
    /\ \A i, j \in 1 .. c : i # j => ToSet(s.chunks[i]) \cap ToSet(s.chunks[j]) = {}
    /\ Batched(s.chunks) = F /\ Cardinality(Cells(s.chunks, c, size)) = k

LEMMA NothingChunked ==
    ASSUME NEW X, NEW c \in Nat, NEW size \in Nat \ {0}
    PROVE  Chunked(NoChunks(c), X, c, size, {}, 0)
<1> DEFINE s == NoChunks(c)
<1>1. /\ s.chunks = [i \in 1 .. c |-> <<>>] /\ s.open = 1 .. c /\ s.panic = FALSE
      /\ s \in ChunkState(X, c)
  BY DEF NoChunks, ChunkState
<1> HIDE DEF s
<1>2. DOMAIN s.chunks = 1 .. c /\ \A i \in 1 .. c : s.chunks[i] = <<>>
  BY <1>1
<1>3. \A i \in 1 .. c : /\ Len(s.chunks[i]) = 0 /\ IsInjective(s.chunks[i])
                        /\ ToSet(s.chunks[i]) = {}
  BY <1>2, EmptyFacts
<1>4. s.open = {i \in 1 .. c : Len(s.chunks[i]) < size}
  BY <1>1, <1>3
<1>5. Batched(s.chunks) = {}
  BY <1>2, <1>3 DEF Batched
<1>6. Cells(s.chunks, c, size) = {}
  <2>1. ASSUME NEW p \in (1 .. c) \X (1 .. size) PROVE ~(p[2] <= Len(s.chunks[p[1]]))
    <3>1. p[1] \in 1 .. c /\ p[2] \in 1 .. size
      OBVIOUS
    <3>2. Len(s.chunks[p[1]]) = 0
      BY <1>3, <3>1
    <3> QED BY <3>1, <3>2
  <2> QED BY <2>1 DEF Cells
<1>7. Cardinality({}) = 0
  BY FS_EmptySet
<1>8. \A i \in 1 .. c : Len(s.chunks[i]) <= size
  BY <1>3
<1> QED BY <1>1, <1>3, <1>4, <1>5, <1>6, <1>7, <1>8 DEF Chunked, s

LEMMA ChunkStep ==
    ASSUME NEW X, NEW c \in Nat, NEW size \in Nat \ {0}, NEW s, NEW F, NEW k \in Nat,
           Chunked(s, X, c, size, F, k), k < c * size,
           NEW x \in X, x \notin F, NEW expect, expect[x].p95 \in Nat
    PROVE  Chunked(PutInChunk(s, x, size, expect), X, c, size, F \cup {x}, k + 1)
<1> DEFINE r == PutInChunk(s, x, size, expect)
<1> SUFFICES Chunked(r, X, c, size, F \cup {x}, k + 1)
  OBVIOUS
<1>1. /\ s \in ChunkState(X, c) /\ ~s.panic /\ s.open = {i \in 1 .. c : Len(s.chunks[i]) < size}
      /\ \A i \in 1 .. c : Len(s.chunks[i]) <= size /\ IsInjective(s.chunks[i])
      /\ \A i, j \in 1 .. c : i # j => ToSet(s.chunks[i]) \cap ToSet(s.chunks[j]) = {}
      /\ Batched(s.chunks) = F /\ Cardinality(Cells(s.chunks, c, size)) = k
  BY DEF Chunked
<1>2. s.chunks \in [1 .. c -> Seq(X)] /\ DOMAIN s.chunks = 1 .. c
  BY <1>1 DEF ChunkState
<1>3. s.open # {}
  <2> SUFFICES ASSUME s.open = {} PROVE FALSE
    OBVIOUS
  <2>1. \A i \in 1 .. c : Len(s.chunks[i]) >= size
    <3>1. \A i \in 1 .. c : Len(s.chunks[i]) \in Nat /\ ~(Len(s.chunks[i]) < size)
      BY <1>1, <1>2
    <3> QED BY <3>1
  <2>2. Cardinality(Cells(s.chunks, c, size)) = c * size
    BY <1>2, <2>1, CellsFacts
  <2> QED BY <1>1, <2>2
<1>4. r \in ChunkState(X, c) /\ \E i \in s.open : Joins(r, s, x, i, size)
  BY <1>1, <1>3, ChunkType
<1> HIDE DEF r
<1> PICK h \in s.open : Joins(r, s, x, h, size)
  BY <1>4
<1> DEFINE chunk == Append(s.chunks[h], x)
<1>5. /\ r \in ChunkState(X, c) /\ h \in s.open /\ r.panic = s.panic
      /\ r.chunks = [s.chunks EXCEPT ![h] = chunk]
      /\ r.open = IF Len(chunk) < size THEN s.open ELSE s.open \ {h}
  BY <1>4 DEF Joins
<1>6. h \in 1 .. c /\ s.chunks[h] \in Seq(X) /\ Len(s.chunks[h]) \in Nat /\ Len(s.chunks[h]) < size
  BY <1>1, <1>2, <1>5
<1>7. ToSet(s.chunks[h]) \subseteq F /\ \A i \in 1 .. c : ToSet(s.chunks[i]) \subseteq F
  BY <1>1, <1>2, <1>6 DEF Batched
<1>8. /\ chunk \in Seq(X) /\ Len(chunk) = Len(s.chunks[h]) + 1
      /\ ToSet(chunk) = ToSet(s.chunks[h]) \cup {x} /\ IsInjective(chunk)
  BY <1>1, <1>6, <1>7, AppendFacts
<1> HIDE DEF chunk
<1>9. /\ DOMAIN r.chunks = 1 .. c /\ r.chunks[h] = chunk
      /\ \A i \in 1 .. c : i # h => r.chunks[i] = s.chunks[i]
  BY <1>2, <1>5, <1>6
<1>10. \A i \in 1 .. c : Len(r.chunks[i]) <= size /\ IsInjective(r.chunks[i])
  <2>1. Len(chunk) <= size
    BY <1>6, <1>8
  <2> QED BY <1>1, <1>8, <1>9, <2>1
<1>11. ASSUME NEW i \in 1 .. c, NEW j \in 1 .. c, i # j
       PROVE  ToSet(r.chunks[i]) \cap ToSet(r.chunks[j]) = {}
  <2>1. ToSet(s.chunks[i]) \cap ToSet(s.chunks[j]) = {}
    BY <1>1, <1>11
  <2>2. x \notin ToSet(s.chunks[i]) /\ x \notin ToSet(s.chunks[j])
    BY <1>7
  <2>3. CASE i = h
    BY <1>8, <1>9, <1>11, <2>1, <2>2, <2>3
  <2>4. CASE j = h
    BY <1>8, <1>9, <1>11, <2>1, <2>2, <2>4
  <2>5. CASE i # h /\ j # h
    BY <1>9, <2>1, <2>5
  <2> QED BY <2>3, <2>4, <2>5
<1>12. Batched(r.chunks) = F \cup {x}
  <2>1. ASSUME NEW y PROVE y \in Batched(r.chunks) <=> y \in F \/ y = x
    <3>1. y \in Batched(r.chunks) <=> \E i \in 1 .. c : y \in ToSet(r.chunks[i])
      BY <1>9 DEF Batched
    <3>2. y \in F <=> \E i \in 1 .. c : y \in ToSet(s.chunks[i])
      BY <1>1, <1>2 DEF Batched
    <3> QED BY <1>6, <1>8, <1>9, <3>1, <3>2
  <2> QED BY <2>1
<1>13. r.open = {i \in 1 .. c : Len(r.chunks[i]) < size}
  <2>1. \A i \in 1 .. c : i # h => (i \in r.open <=> Len(r.chunks[i]) < size)
    BY <1>1, <1>5, <1>9
  <2>2. h \in r.open <=> Len(r.chunks[h]) < size
    BY <1>5, <1>9
  <2>3. r.open \subseteq 1 .. c
    BY <1>1, <1>5
  <2> QED BY <2>1, <2>2, <2>3
<1>14. Cardinality(Cells(r.chunks, c, size)) = k + 1
  <2> DEFINE m == Len(s.chunks[h])
             q == <<h, m + 1>>
             C == Cells(s.chunks, c, size)
             D == Cells(r.chunks, c, size)
  <2>1. q \in (1 .. c) \X (1 .. size) /\ q[1] = h /\ q[2] = m + 1 /\ m \in Nat
    BY <1>6
  <2>2. q \notin C
    BY <2>1 DEF Cells
  <2>3. ASSUME NEW p \in (1 .. c) \X (1 .. size) PROVE p \in D <=> p \in C \/ p = q
    <3>1. /\ p[1] \in 1 .. c /\ p[2] \in 1 .. size /\ p = <<p[1], p[2]>>
          /\ p \in D <=> p[2] <= Len(r.chunks[p[1]])
          /\ p \in C <=> p[2] <= Len(s.chunks[p[1]])
      BY DEF Cells
    <3>2. CASE p[1] = h
      <4>1. p = q <=> p[2] = m + 1
        BY <2>1, <3>1, <3>2
      <4>2. Len(r.chunks[p[1]]) = m + 1 /\ Len(s.chunks[p[1]]) = m
        BY <1>8, <1>9, <3>2
      <4>3. p[2] <= m + 1 <=> p[2] <= m \/ p[2] = m + 1
        BY <2>1, <3>1
      <4> QED BY <3>1, <4>1, <4>2, <4>3
    <3>3. CASE p[1] # h
      <4>1. r.chunks[p[1]] = s.chunks[p[1]]
        BY <1>9, <3>1, <3>3
      <4> QED BY <2>1, <3>1, <3>3, <4>1
    <3> QED BY <3>2, <3>3
  <2>4. D = C \cup {q}
    <3>1. C \subseteq (1 .. c) \X (1 .. size) /\ D \subseteq (1 .. c) \X (1 .. size)
      BY DEF Cells
    <3> HIDE DEF C, D, q
    <3> QED BY <2>1, <2>3, <3>1
  <2>5. IsFiniteSet(C) /\ Cardinality(C) = k
    BY <1>1, <1>2, CellsFacts
  <2> HIDE DEF C, D, q
  <2>6. Cardinality(D) = k + 1
    BY <2>2, <2>4, <2>5, FS_AddElement
  <2> QED BY <2>6 DEF D
<1> QED BY <1>1, <1>5, <1>10, <1>11, <1>12, <1>13, <1>14 DEF Chunked

\* div_ceil: enough chunks, and not one too many.
LEMMA CountFacts ==
    ASSUME NEW n \in Nat \ {0}, NEW size \in Nat \ {0}
    PROVE  LET c == ChunkCount(n, size) IN c \in Nat /\ c * size >= n /\ (c - 1) * size < n
<1> DEFINE a == n + size - 1
           c == a \div size
<1>1. a \in Nat
  OBVIOUS
<1> HIDE DEF a
<1>2. c \in Nat /\ size * c <= a /\ a < size * (c + 1)
  BY <1>1
<1> HIDE DEF c
<1>3. size * (c + 1) = c * size + size /\ size * c = c * size /\ (c - 1) * size = c * size - size
      /\ c * size \in Nat
  BY <1>2
<1> DEFINE p == c * size
<1>4. p \in Nat /\ p <= n + size - 1 /\ n + size - 1 < p + size
  BY <1>2, <1>3 DEF a
<1>5. p >= n /\ p - size < n
  <2> HIDE DEF p
  <2> QED BY <1>4
<1> QED BY <1>2, <1>3, <1>5 DEF ChunkCount, c, a

LEMMA ChunksFacts ==
    ASSUME NEW X, NEW tests \in Seq(X), IsInjective(tests), tests # <<>>, NEW size \in Nat \ {0},
           NEW expect, \A x \in X : expect[x].p95 \in Nat
    PROVE  LET bs == Chunks(tests, size, expect)
           IN Cover(bs, X, ToSet(tests)) /\ AtMost(bs, size)
<1> DEFINE n == Len(tests)
           c == ChunkCount(n, size)
           weight == [t \in ToSet(tests) |-> expect[t].p95]
           s == HeaviestFirst(tests, weight)
           end == Filled(s, c, size, expect)
<1>1. n \in Nat \ {0}
  OBVIOUS
<1>2. c \in Nat /\ c * size >= n /\ (c - 1) * size < n
  <2> HIDE DEF n
  <2> QED BY <1>1, CountFacts
<1>3. s \in Seq(X) /\ Len(s) = n /\ ToSet(s) = ToSet(tests) /\ IsInjective(s)
  <2> HIDE DEF weight
  <2> QED BY SortFacts
<1>4. Chunks(tests, size, expect) = IF end.panic THEN <<Panic>> ELSE end.chunks
  BY DEF Chunks, Filled
<1> HIDE DEF n, c, s, end
<1>5. PICK g \in [0 .. Len(s) -> ChunkState(X, c)] : FillsChunks(g, s, c, size, expect)
  BY <1>2, <1>3, ChunkSteps
<1>6. /\ g[0] = NoChunks(c) /\ g[n] = end
      /\ \A k \in 0 .. n - 1 : g[k + 1] = PutInChunk(g[k], s[k + 1], size, expect)
  BY <1>3, <1>5 DEF FillsChunks, end
<1> DEFINE T == {k \in 0 .. n : Chunked(g[k], X, c, size, Firsts(s, k), k)}
<1>7. 0 \in T
  <2>1. Chunked(g[0], X, c, size, {}, 0)
    BY <1>2, <1>6, NothingChunked
  <2>2. Firsts(s, 0) = {}
    BY <1>3, FirstsFacts
  <2>3. Chunked(g[0], X, c, size, Firsts(s, 0), 0)
    BY <2>1, <2>2
  <2>4. 0 \in 0 .. n
    BY <1>1
  <2> QED BY <2>3, <2>4
<1>8. ASSUME NEW k \in 0 .. n - 1, k \in T PROVE k + 1 \in T
  <2>1. /\ s[k + 1] \in X /\ s[k + 1] \notin Firsts(s, k)
        /\ Firsts(s, k + 1) = Firsts(s, k) \cup {s[k + 1]}
    BY <1>3, FirstsFacts
  <2>2. k \in Nat /\ k < c * size /\ k + 1 \in 0 .. n
    <3>1. k < n /\ c * size \in Nat
      BY <1>1, <1>2
    <3> QED BY <1>1, <1>2, <3>1
  <2>3. Chunked(g[k], X, c, size, Firsts(s, k), k)
    BY <1>8
  <2> DEFINE x == s[k + 1]
             F == Firsts(s, k)
  <2> HIDE DEF x, F
  <2>4. x \in X /\ x \notin F /\ expect[x].p95 \in Nat /\ Chunked(g[k], X, c, size, F, k)
    BY <2>1, <2>3 DEF x, F
  <2>5. Chunked(PutInChunk(g[k], x, size, expect), X, c, size, F \cup {x}, k + 1)
    BY <1>2, <2>2, <2>4, ChunkStep
  <2>6. Chunked(g[k + 1], X, c, size, Firsts(s, k + 1), k + 1)
    BY <1>6, <2>1, <2>5 DEF x, F
  <2> QED BY <2>2, <2>6
<1> HIDE DEF T
<1>9. n \in T
  <2>1. \A k \in 0 .. n : k \in T
    BY <1>1, <1>7, <1>8, UpTo
  <2> QED BY <1>1, <2>1
<1>10. Firsts(s, n) = ToSet(tests)
  BY <1>3, FirstsFacts
<1>11. Chunked(end, X, c, size, ToSet(tests), n)
  BY <1>6, <1>9, <1>10 DEF T
<1>12. end.chunks \in [1 .. c -> Seq(X)] /\ DOMAIN end.chunks = 1 .. c
  BY <1>11 DEF Chunked, ChunkState
<1>13. ASSUME NEW e \in 1 .. c PROVE end.chunks[e] # <<>>
  <2> SUFFICES ASSUME end.chunks[e] = <<>> PROVE FALSE
    OBVIOUS
  <2>1. Cardinality(Cells(end.chunks, c, size)) <= (c - 1) * size
    BY <1>2, <1>12, CellsFacts
  <2>2. n <= (c - 1) * size /\ (c - 1) * size < n
    BY <1>2, <1>11, <2>1 DEF Chunked
  <2> QED
    <3> DEFINE p == (c - 1) * size
    <3>1. p \in Int
      BY <1>2
    <3> HIDE DEF p
    <3>2. n <= p /\ p < n
      BY <2>2 DEF p
    <3> QED BY <1>1, <3>1, <3>2
<1>14. end.chunks \in Seq(Seq(X))
  BY <1>2, <1>12
<1>15. Cover(end.chunks, X, ToSet(tests)) /\ AtMost(end.chunks, size)
  BY <1>11, <1>12, <1>13, <1>14 DEF Chunked, Cover, AtMost
<1>16. Chunks(tests, size, expect) = end.chunks
  BY <1>4, <1>11 DEF Chunked
<1> QED BY <1>15, <1>16

LEMMA OnlyOne == ASSUME NEW x, NEW s \in Seq({x}), Len(s) = 1 PROVE s = <<x>>
<1>1. s[1] = x
  OBVIOUS
<1> QED BY <1>1

LEMMA NonEmptyFacts == ASSUME NEW X, NEW s \in Seq(X), s # <<>> PROVE s[1] \in ToSet(s)
<1>1. 1 \in DOMAIN s
  OBVIOUS
<1> QED BY <1>1 DEF ToSet

\* Batches may be sorted.
LEMMA CoverReordered ==
    ASSUME NEW X, NEW F, NEW bs, Cover(bs, X, F), NEW weight
    PROVE  LET r == HeaviestFirst(bs, weight)
           IN Cover(r, X, F) /\ \A n : AtMost(bs, n) => AtMost(r, n)
<1> DEFINE r == HeaviestFirst(bs, weight)
<1>1. /\ bs \in Seq(Seq(X)) /\ Batched(bs) = F
      /\ \A i \in DOMAIN bs : bs[i] # <<>> /\ IsInjective(bs[i]) /\ bs[i] \in Seq(X)
      /\ \A i, j \in DOMAIN bs : i # j => ToSet(bs[i]) \cap ToSet(bs[j]) = {}
  BY DEF Cover
<1>2. IsInjective(bs)
  <2>1. ASSUME NEW i \in DOMAIN bs, NEW j \in DOMAIN bs, bs[i] = bs[j] PROVE i = j
    <3>1. bs[i][1] \in ToSet(bs[i])
      BY <1>1, NonEmptyFacts
    <3> QED BY <1>1, <2>1, <3>1
  <2> QED BY <2>1 DEF IsInjective
<1>3. r \in Seq(Seq(X)) /\ ToSet(r) = ToSet(bs) /\ IsInjective(r)
  BY <1>1, <1>2, SortFacts
<1> HIDE DEF r
<1>4. ASSUME NEW i \in DOMAIN r PROVE \E j \in DOMAIN bs : r[i] = bs[j]
  <2>1. r[i] \in ToSet(bs)
    BY <1>3 DEF ToSet
  <2> QED BY <2>1 DEF ToSet
<1>5. ASSUME NEW j \in DOMAIN bs PROVE \E i \in DOMAIN r : r[i] = bs[j]
  <2>1. bs[j] \in ToSet(r)
    BY <1>3 DEF ToSet
  <2> QED BY <2>1 DEF ToSet
<1>6. Batched(r) = F
  BY <1>1, <1>4, <1>5 DEF Batched
<1>7. \A i \in DOMAIN r : r[i] # <<>> /\ IsInjective(r[i])
  BY <1>1, <1>4
<1>8. ASSUME NEW i \in DOMAIN r, NEW k \in DOMAIN r, i # k PROVE ToSet(r[i]) \cap ToSet(r[k]) = {}
  <2>1. r[i] # r[k]
    BY <1>3, <1>8 DEF IsInjective
  <2>2. PICK j \in DOMAIN bs : r[i] = bs[j]
    BY <1>4
  <2>3. PICK l \in DOMAIN bs : r[k] = bs[l]
    BY <1>4
  <2>4. j # l
    BY <2>1, <2>2, <2>3
  <2> QED BY <1>1, <2>2, <2>3, <2>4
<1>9. Cover(r, X, F)
  BY <1>3, <1>6, <1>7, <1>8 DEF Cover
<1>10. \A n : AtMost(bs, n) => AtMost(r, n)
  BY <1>4 DEF AtMost
<1> QED BY <1>9, <1>10 DEF r

\* The batches of F: all of them at once, or each of them once, and not too many together.
Fits(bs, X, F, config, mode) ==
    \/ bs = <<All>> /\ mode = "target" /\ config.shard.count <= 1
    \/ /\ Cover(bs, X, F)
       /\ mode = "per-test" => AtMost(bs, 1)
       /\ mode = "fixed-chunk" => AtMost(bs, config.chunkSize)
       /\ mode = "duration-bucketed" => AtMost(bs, MaxBatch)

LEMMA BatchesFacts ==
    ASSUME NEW X, NEW tests \in Seq(X), IsInjective(tests), tests # <<>>, NEW config,
           config.chunkSize \in Nat \ {0}, config.shard.count \in Nat, config.batchMode \in BatchModes,
           NEW attributable, NEW big, NEW expect, \A x \in X : expect[x].p95 \in Nat
    PROVE  LET mode == ModeOf(config, attributable, big)
           IN /\ Fits(BuildBatches(tests, config, attributable, big, expect), X, ToSet(tests), config, mode)
              /\ mode \in BatchModes
<1> DEFINE mode == ModeOf(config, attributable, big)
           F == ToSet(tests)
           bs == IF mode = "target" /\ config.shard.count > 1 THEN <<tests>>
                 ELSE Partition(mode, tests, config, expect)
           members(b) == ToSet(IF b = All THEN tests ELSE b)
           weight == [b \in ToSet(bs) |-> Heaviest({expect[t].p95 : t \in members(b)})]
           r == HeaviestFirst(bs, weight)
<1>1. mode \in BatchModes
  BY DEF ModeOf, BatchModes
<1>2. BuildBatches(tests, config, attributable, big, expect) = r
  BY DEF BuildBatches
<1> HIDE DEF weight, mode
<1>3. CASE mode = "target" /\ config.shard.count > 1
  <2>1. bs = <<tests>>
    BY <1>3
  <2>2. Cover(<<>>, X, {})
    BY NoBatches
  <2>3. Cover(Append(<<>>, tests), X, {} \cup F)
    BY <2>2, CoverAppend
  <2>4. Append(<<>>, tests) = <<tests>> /\ {} \cup F = F
    OBVIOUS
  <2>5. Cover(bs, X, F)
    BY <2>1, <2>3, <2>4
  <2> HIDE DEF bs
  <2>6. Cover(r, X, F)
    BY <2>5, CoverReordered
  <2> QED BY <1>1, <1>2, <1>3, <2>6 DEF Fits, mode
<1>4. CASE mode = "target" /\ ~(config.shard.count > 1)
  <2>1. bs = <<All>>
    BY <1>4 DEF Partition
  <2> DEFINE U == {All}
  <2>2. <<All>> \in Seq(U) /\ Len(<<All>>) = 1 /\ ToSet(<<All>>) = U
    BY SingleFacts
  <2> HIDE DEF U, bs
  <2>3. r \in Seq(U) /\ Len(r) = 1
    <3>1. bs \in Seq(U) /\ Len(bs) = 1
      BY <2>1, <2>2
    <3> QED BY <3>1, SortFacts
  <2>4. r = <<All>>
    <3> HIDE DEF r
    <3> QED BY <2>3, OnlyOne DEF U
  <2> HIDE DEF r
  <2>5. config.shard.count <= 1
    BY <1>4
  <2> QED BY <1>1, <1>2, <1>4, <2>4, <2>5 DEF Fits, mode
<1>5. CASE mode = "per-test"
  <2>1. bs = [i \in 1 .. Len(tests) |-> <<tests[i]>>]
    BY <1>5 DEF Partition
  <2>2. Cover(bs, X, F) /\ AtMost(bs, 1)
    BY <2>1, PerTestFacts
  <2> HIDE DEF bs
  <2>3. Cover(r, X, F) /\ AtMost(r, 1)
    BY <2>2, CoverReordered
  <2> QED BY <1>1, <1>2, <1>5, <2>3 DEF Fits, mode
<1>6. CASE mode = "duration-bucketed"
  <2>1. bs = Buckets(tests, config.threshold, expect)
    BY <1>6 DEF Partition
  <2>2. Cover(bs, X, F) /\ AtMost(bs, MaxBatch)
    BY <2>1, BucketsFacts
  <2> HIDE DEF bs
  <2>3. Cover(r, X, F) /\ AtMost(r, MaxBatch)
    BY <2>2, CoverReordered
  <2> QED BY <1>1, <1>2, <1>6, <2>3 DEF Fits, mode
<1>7. CASE mode = "fixed-chunk"
  <2>1. bs = Chunks(tests, config.chunkSize, expect)
    BY <1>7 DEF Partition
  <2>2. Cover(bs, X, F) /\ AtMost(bs, config.chunkSize)
    BY <2>1, ChunksFacts
  <2> HIDE DEF bs
  <2>3. Cover(r, X, F) /\ AtMost(r, config.chunkSize)
    BY <2>2, CoverReordered
  <2> QED BY <1>1, <1>2, <1>7, <2>3 DEF Fits, mode
<1> QED BY <1>1, <1>3, <1>4, <1>5, <1>6, <1>7 DEF BatchModes

-------------------------------------------------------------------------------
(* Estimates.                                                                *)

Sample == [time : Nat, ms : Nat]
Perf == [Environment -> Seq(Sample)]

LEMMA NewestType == ASSUME NEW samples \in Seq(Sample) PROVE Newest(samples) \in Seq(Sample)
<1> DEFINE byMs == [x \in ToSet(samples) |-> x.ms]
           byTime == [x \in ToSet(samples) |-> x.time]
           longest == HeaviestFirst(samples, byMs)
           sorted == HeaviestFirst(longest, byTime)
           k == IF Len(sorted) < MaxSamples THEN Len(sorted) ELSE MaxSamples
<1>1. Newest(samples) = SubSeq(sorted, 1, k)
  BY DEF Newest
<1> HIDE DEF byMs, byTime
<1>2. longest \in Seq(Sample)
  BY SortFacts
<1> HIDE DEF longest
<1>3. sorted \in Seq(Sample)
  BY <1>2, SortFacts
<1> HIDE DEF sorted
<1>4. k \in 0 .. Len(sorted)
  <2>1. Len(sorted) \in Nat
    BY <1>3
  <2> QED BY <2>1, SamplesAssumption
<1> HIDE DEF k
<1>5. SubSeq(sorted, 1, k) \in Seq(Sample)
  BY <1>3, <1>4
<1> QED BY <1>1, <1>5

LEMMA RecordType ==
    ASSUME NEW perf \in Perf, NEW r \in TestRun PROVE RecordAt(perf, r) \in Perf
<1>1. r.env \in Environment /\ r.time \in Nat /\ r.ms \in Nat
  BY DEF TestRun
<1> DEFINE x == [time |-> r.time, ms |-> r.ms]
           y == <<x>>
<1>2. y \in Seq(Sample)
  BY <1>1 DEF Sample
<1>3. RecordAt(perf, r) = IF r.failed THEN perf
                          ELSE [perf EXCEPT ![r.env] = CombinePerf(perf[r.env], y)]
  BY <1>1 DEF RecordAt, Perf
<1> HIDE DEF y
<1>4. perf[r.env] \in Seq(Sample)
  BY <1>1 DEF Perf
<1>5. perf[r.env] \o y \in Seq(Sample)
  BY <1>2, <1>4
<1>6. CombinePerf(perf[r.env], y) \in Seq(Sample)
  BY <1>5, NewestType DEF CombinePerf
<1> QED BY <1>1, <1>3, <1>6 DEF Perf

\* Recorded takes the runs one by one.
Records(g, s) ==
    /\ g[0] = [e \in Environment |-> <<>>] /\ g[Len(s)] = Recorded(s)
    /\ \A k \in 0 .. Len(s) - 1 : g[k + 1] = RecordAt(g[k], s[k + 1])

LEMMA RecordedSteps ==
    ASSUME NEW s \in Seq(TestRun)
    PROVE  \E g \in [0 .. Len(s) -> Perf] : Records(g, s)
<1> DEFINE n == Len(s)
           V == Perf
           nil == [e \in Environment |-> <<>>]
           op(a, k) == RecordAt(a, s[k])
           Folds(it) == it = [t \in SUBSET (1 .. n) |->
                                IF t = {} THEN nil ELSE op(it[t \ {Greatest(t)}], Greatest(t))]
           iter == CHOOSE it : Folds(it)
           f == [p \in V \X (1 .. n) |-> op(p[1], p[2])]
<1>1. n \in Nat /\ DOMAIN s = 1 .. n /\ (\A k \in 1 .. n : s[k] \in TestRun) /\ nil \in V
  BY DEF Perf
<1>2. Recorded(s) = iter[1 .. n]
  BY <1>1 DEF Recorded, FoldLeft, MapThenFoldSet, Max, Greatest
<1>3. \A a \in V, k \in 1 .. n : op(a, k) \in V
  BY <1>1, RecordType
<1> HIDE DEF n, V, nil, op
<1>4. f \in [V \X (1 .. n) -> V]
  BY <1>3
<1>5. \A a \in V, k \in 1 .. n : f[<<a, k>>] = op(a, k)
  BY <1>3
<1> HIDE DEF f
<1>6. \E it : Folds(it)
  <2>1. PICK it \in [SUBSET (1 .. n) -> V] : Typed(it, n, V, nil, f)
    BY <1>1, <1>4, TypedIterates
  <2>2. \A t \in SUBSET (1 .. n) :
          it[t] = IF t = {} THEN nil ELSE op(it[t \ {Greatest(t)}], Greatest(t))
    BY <1>5, <2>1 DEF Typed
  <2> QED BY <2>2
<1>7. Folds(iter)
  BY <1>6
<1> HIDE DEF iter
<1>8. StepsAs(iter, n, V, nil, f)
  BY <1>1, <1>5, <1>7, GreatestIsThere DEF StepsAs
<1>9. PICK g \in [0 .. n -> V] : Chain(g, n, nil, f, iter[1 .. n])
  BY <1>1, <1>4, <1>8, FoldChain
<1>10. \A k \in 0 .. n - 1 : g[k + 1] = op(g[k], k + 1)
  <2>1. \A k \in 0 .. n - 1 : k \in 0 .. n /\ k + 1 \in 1 .. n
    BY <1>1
  <2>2. \A k \in 0 .. n - 1 : g[k] \in V /\ g[k + 1] = f[<<g[k], k + 1>>]
    BY <1>9, <2>1 DEF Chain
  <2> QED BY <1>5, <2>1, <2>2
<1> QED BY <1>2, <1>9, <1>10 DEF n, V, nil, op, Chain, Records

LEMMA PercentileType ==
    ASSUME NEW values \in Seq(Nat), values # <<>>, NEW p \in Nat PROVE Percentile(values, p) \in Nat
<1> DEFINE weight == [v \in ToSet(values) |-> v]
           n == Len(values)
           sorted == HeaviestFirst(values, weight)
           rank == (p * n + 99) \div 100
           within == IF rank < 1 THEN 1 ELSE IF rank > n THEN n ELSE rank
<1>1. Percentile(values, p) = sorted[n + 1 - within]
  BY DEF Percentile
<1>2. n \in Nat /\ n >= 1
  OBVIOUS
<1> HIDE DEF weight
<1>3. sorted \in Seq(Nat) /\ Len(sorted) = n
  BY SortFacts
<1> HIDE DEF sorted, n
<1>4. rank \in Int
  <2>1. p * n + 99 \in Int
    BY <1>2
  <2> HIDE DEF rank
  <2> QED BY <2>1 DEF rank
<1> HIDE DEF rank
<1>5. within \in 1 .. n
  BY <1>2, <1>4
<1> HIDE DEF within
<1>6. n + 1 - within \in 1 .. n
  BY <1>2, <1>5
<1> QED BY <1>1, <1>3, <1>6

\* What is expected of a test is a number of milliseconds, whatever has been recorded.
LEMMA EstimateType ==
    ASSUME NEW runs \in Seq(TestRun)
    PROVE  Estimate(Recorded(runs)).p95 \in Nat
<1>1. PICK g \in [0 .. Len(runs) -> Perf] : Records(g, runs)
  BY RecordedSteps
<1>2. Recorded(runs) \in Perf
  <2>1. Len(runs) \in 0 .. Len(runs)
    OBVIOUS
  <2> QED BY <1>1, <2>1 DEF Records
<1> DEFINE perf == Recorded(runs)
           samples == CombinePerf(perf["Local"], perf["Remote"])
           values == [i \in DOMAIN samples |-> samples[i].ms]
<1>3. perf["Local"] \in Seq(Sample) /\ perf["Remote"] \in Seq(Sample)
  BY <1>2 DEF Perf, Environment
<1> HIDE DEF perf
<1>4. samples \in Seq(Sample)
  <2>1. perf["Local"] \o perf["Remote"] \in Seq(Sample)
    BY <1>3
  <2> QED BY <2>1, NewestType DEF CombinePerf
<1>5. Estimate(perf) = IF samples = <<>> THEN Unseen
                       ELSE [p50 |-> Percentile(values, 50), p95 |-> Percentile(values, 95)]
  BY DEF Estimate
<1> HIDE DEF samples
<1>6. values \in Seq(Nat) /\ (samples # <<>> => values # <<>>)
  <2>1. \A i \in 1 .. Len(samples) : samples[i].ms \in Nat
    <3>1. \A i \in 1 .. Len(samples) : samples[i] \in Sample
      BY <1>4
    <3> QED BY <3>1 DEF Sample
  <2>2. Len(samples) \in Nat /\ DOMAIN samples = 1 .. Len(samples)
    BY <1>4
  <2>3. values \in Seq(Nat)
    BY <2>1, <2>2
  <2>4. DOMAIN values = DOMAIN samples
    OBVIOUS
  <2>5. samples # <<>> => Len(samples) >= 1
    BY <1>4
  <2>6. DOMAIN <<>> = 1 .. 0
    OBVIOUS
  <2>7. samples # <<>> => values # <<>>
    <3> HIDE DEF values
    <3> QED BY <2>2, <2>4, <2>5, <2>6
  <2> QED BY <2>3, <2>7
<1> HIDE DEF values
<1>7. CASE samples = <<>>
  BY <1>5, <1>7, SamplesAssumption DEF Unseen, perf
<1>8. CASE samples # <<>>
  <2>1. Percentile(values, 95) \in Nat
    BY <1>6, <1>8, PercentileType
  <2> QED BY <1>5, <1>8, <2>1 DEF perf
<1> QED BY <1>7, <1>8

-------------------------------------------------------------------------------
(* Labels.                                                                   *)

LabelProfile == [hardware : SUBSET STRING, exclusive : BOOLEAN, resources : SUBSET STRING]
AskHardware == {"gpu", "large-mem", "network-private"}
AskExclusive == {"exclusive", "serial_global_state"}

LEMMA CombineFacts ==
    ASSUME NEW p \in LabelProfile, NEW label \in STRING
    PROVE  LET r == Combine(p, Single(label))
           IN /\ r \in LabelProfile /\ r.hardware = p.hardware \cup ({label} \cap AskHardware)
              /\ r.exclusive = (p.exclusive \/ label \in AskExclusive)
<1> DEFINE r == Combine(p, Single(label))
           q == Single(label)
<1>1. /\ q.hardware = {label} \cap AskHardware /\ q.exclusive = (label \in AskExclusive)
      /\ q.resources \subseteq STRING
  BY DEF Single, AskHardware, AskExclusive
<1>2. p.hardware \subseteq STRING /\ p.exclusive \in BOOLEAN /\ p.resources \subseteq STRING
  BY DEF LabelProfile
<1>3. r = [hardware |-> p.hardware \cup q.hardware, exclusive |-> p.exclusive \/ q.exclusive,
           resources |-> p.resources \cup q.resources]
  BY DEF Combine
<1> HIDE DEF q, r
<1>4. /\ r.hardware = p.hardware \cup q.hardware /\ r.exclusive = (p.exclusive \/ q.exclusive)
      /\ r.resources = p.resources \cup q.resources
  BY <1>3
<1>5. p.hardware \cup q.hardware \in SUBSET STRING /\ p.resources \cup q.resources \in SUBSET STRING
  BY <1>1, <1>2
<1>6. (p.exclusive \/ q.exclusive) \in BOOLEAN
  OBVIOUS
<1>7. r \in LabelProfile
  BY <1>3, <1>5, <1>6 DEF LabelProfile
<1>8. r.hardware = p.hardware \cup ({label} \cap AskHardware)
  BY <1>1, <1>4
<1>9. r.exclusive = (p.exclusive \/ label \in AskExclusive)
  BY <1>1, <1>4
<1> QED BY <1>7, <1>8, <1>9 DEF r, q

\* What the labels ask for, one by one.
Asked(labels) == FoldLeft(LAMBDA acc, l : Combine(acc, Single(l)), DefaultProfile, labels)

\* Asked takes the labels one by one.
Asks(g, s) ==
    /\ g[0] = DefaultProfile /\ g[Len(s)] = Asked(s)
    /\ \A k \in 0 .. Len(s) - 1 : g[k + 1] = Combine(g[k], Single(s[k + 1]))

LEMMA AskedSteps ==
    ASSUME NEW s \in Seq(STRING)
    PROVE  \E g \in [0 .. Len(s) -> LabelProfile] : Asks(g, s)
<1> DEFINE n == Len(s)
           V == LabelProfile
           nil == DefaultProfile
           op(a, k) == Combine(a, Single(s[k]))
           Folds(it) == it = [t \in SUBSET (1 .. n) |->
                                IF t = {} THEN nil ELSE op(it[t \ {Greatest(t)}], Greatest(t))]
           iter == CHOOSE it : Folds(it)
           f == [p \in V \X (1 .. n) |-> op(p[1], p[2])]
<1>1. n \in Nat /\ DOMAIN s = 1 .. n /\ (\A k \in 1 .. n : s[k] \in STRING) /\ nil \in V
  BY DEF LabelProfile, DefaultProfile, NoHardware
<1>2. Asked(s) = iter[1 .. n]
  BY <1>1 DEF Asked, FoldLeft, MapThenFoldSet, Max, Greatest
<1>3. \A a \in V, k \in 1 .. n : op(a, k) \in V
  BY <1>1, CombineFacts
<1> HIDE DEF n, V, nil, op
<1>4. f \in [V \X (1 .. n) -> V]
  BY <1>3
<1>5. \A a \in V, k \in 1 .. n : f[<<a, k>>] = op(a, k)
  BY <1>3
<1> HIDE DEF f
<1>6. \E it : Folds(it)
  <2>1. PICK it \in [SUBSET (1 .. n) -> V] : Typed(it, n, V, nil, f)
    BY <1>1, <1>4, TypedIterates
  <2>2. \A t \in SUBSET (1 .. n) :
          it[t] = IF t = {} THEN nil ELSE op(it[t \ {Greatest(t)}], Greatest(t))
    BY <1>5, <2>1 DEF Typed
  <2> QED BY <2>2
<1>7. Folds(iter)
  BY <1>6
<1> HIDE DEF iter
<1>8. StepsAs(iter, n, V, nil, f)
  BY <1>1, <1>5, <1>7, GreatestIsThere DEF StepsAs
<1>9. PICK g \in [0 .. n -> V] : Chain(g, n, nil, f, iter[1 .. n])
  BY <1>1, <1>4, <1>8, FoldChain
<1>10. \A k \in 0 .. n - 1 : g[k + 1] = op(g[k], k + 1)
  <2>1. \A k \in 0 .. n - 1 : k \in 0 .. n /\ k + 1 \in 1 .. n
    BY <1>1
  <2>2. \A k \in 0 .. n - 1 : g[k] \in V /\ g[k + 1] = f[<<g[k], k + 1>>]
    BY <1>9, <2>1 DEF Chain
  <2> QED BY <1>5, <2>1, <2>2
<1> QED BY <1>2, <1>9, <1>10 DEF n, V, nil, op, Chain, Asks

LEMMA AskedFacts ==
    ASSUME NEW labels \in Seq(STRING)
    PROVE  /\ Asked(labels).hardware = ToSet(labels) \cap AskHardware
           /\ Asked(labels).exclusive = (ToSet(labels) \cap AskExclusive # {})
<1> DEFINE n == Len(labels)
<1>1. PICK g \in [0 .. n -> LabelProfile] : Asks(g, labels)
  BY AskedSteps
<1>2. /\ g[0] = DefaultProfile /\ g[n] = Asked(labels)
      /\ \A k \in 0 .. n - 1 : g[k + 1] = Combine(g[k], Single(labels[k + 1]))
  BY <1>1 DEF Asks
<1>3. n \in Nat
  OBVIOUS
<1> HIDE DEF n
<1> DEFINE T == {k \in 0 .. n : /\ g[k].hardware = Firsts(labels, k) \cap AskHardware
                                /\ g[k].exclusive = (Firsts(labels, k) \cap AskExclusive # {})}
<1>4. 0 \in T
  <2>1. g[0].hardware = {} /\ g[0].exclusive = FALSE
    BY <1>2 DEF DefaultProfile, NoHardware
  <2>2. Firsts(labels, 0) = {}
    BY FirstsFacts
  <2>3. 0 \in 0 .. n
    BY <1>3
  <2> QED BY <2>1, <2>2, <2>3
<1>5. ASSUME NEW k \in 0 .. n - 1, k \in T PROVE k + 1 \in T
  <2>1. /\ labels[k + 1] \in STRING
        /\ Firsts(labels, k + 1) = Firsts(labels, k) \cup {labels[k + 1]}
    BY FirstsFacts DEF n
  <2>2. k \in 0 .. n /\ k + 1 \in 0 .. n
    BY <1>3
  <2>3. /\ g[k].hardware = Firsts(labels, k) \cap AskHardware
        /\ g[k].exclusive = (Firsts(labels, k) \cap AskExclusive # {})
    BY <1>5
  <2> DEFINE x == labels[k + 1]
             F == Firsts(labels, k)
  <2>4. g[k] \in LabelProfile /\ x \in STRING /\ g[k + 1] = Combine(g[k], Single(x))
    BY <1>2, <2>1, <2>2
  <2> HIDE DEF x, F
  <2>5. /\ g[k + 1].hardware = g[k].hardware \cup ({x} \cap AskHardware)
        /\ g[k + 1].exclusive = (g[k].exclusive \/ x \in AskExclusive)
    BY <2>4, CombineFacts
  <2>6. g[k + 1].hardware = (F \cup {x}) \cap AskHardware
    BY <2>3, <2>5 DEF F
  <2>7. g[k + 1].exclusive = ((F \cup {x}) \cap AskExclusive # {})
    BY <2>3, <2>5 DEF F
  <2>8. F \cup {x} = Firsts(labels, k + 1)
    BY <2>1 DEF F, x
  <2> HIDE DEF T
  <2>9. /\ g[k + 1].hardware = Firsts(labels, k + 1) \cap AskHardware
        /\ g[k + 1].exclusive = (Firsts(labels, k + 1) \cap AskExclusive # {})
    BY <2>6, <2>7, <2>8
  <2> QED BY <2>2, <2>9 DEF T
<1> HIDE DEF T
<1>6. n \in T
  <2>1. \A k \in 0 .. n : k \in T
    BY <1>3, <1>4, <1>5, UpTo
  <2> QED BY <1>3, <2>1
<1>7. Firsts(labels, n) = ToSet(labels)
  BY FirstsFacts DEF n
<1> QED BY <1>2, <1>6, <1>7 DEF T

\* A request is exclusive if a label asks for it, in any order, and no hardware conflicts.
LEMMA ExclusiveFacts ==
    ASSUME NEW labels \in Seq(STRING), ~({"gpu", "large-mem"} \subseteq ToSet(labels)),
           NEW plan, plan.profile = Profile(labels), NEW config
    PROVE  OnRequest(TestingProfile(plan, config)).exclusive = (ToSet(labels) \cap AskExclusive # {})
<1> DEFINE p == Asked(labels)
<1>1. Profile(labels) = IF Conflicting(p.hardware) THEN DefaultProfile ELSE p
  BY DEF Profile, Asked
<1>2. /\ p.hardware = ToSet(labels) \cap AskHardware
      /\ p.exclusive = (ToSet(labels) \cap AskExclusive # {})
  BY AskedFacts
<1> HIDE DEF p
<1>3. ~Conflicting(p.hardware)
  BY <1>2 DEF Conflicting
<1>4. plan.profile = p
  BY <1>1, <1>3
<1>5. p \in LabelProfile
  <2>1. PICK g \in [0 .. Len(labels) -> LabelProfile] : Asks(g, labels)
    BY AskedSteps
  <2>2. Len(labels) \in 0 .. Len(labels)
    OBVIOUS
  <2> QED BY <2>1, <2>2 DEF Asks, p
<1>6. TestingProfile(plan, config).exclusive = p.exclusive
  <2>1. CASE ~plan.translator.overrides
    BY <1>4, <1>5, <2>1 DEF TestingProfile, LabelProfile
  <2>2. CASE plan.translator.overrides /\ config.localDebug
    BY <1>4, <1>5, <2>2 DEF TestingProfile, LabelProfile
  <2>3. CASE plan.translator.overrides /\ ~config.localDebug
    BY <1>4, <2>3 DEF TestingProfile
  <2> QED BY <2>1, <2>2, <2>3
<1>7. OnRequest(TestingProfile(plan, config)).exclusive = TestingProfile(plan, config).exclusive
  BY DEF OnRequest
<1> QED BY <1>2, <1>6, <1>7

-------------------------------------------------------------------------------
(* The actions of a target.                                                  *)

\* The places of the b-th batch among those of batches that are each repeated R times.
Block(b, R) == (b - 1) * R + 1 .. (b - 1) * R + R

LEMMA BlockSize ==
    ASSUME NEW b \in Nat \ {0}, NEW R \in Nat
    PROVE  IsFiniteSet(Block(b, R)) /\ Cardinality(Block(b, R)) = R
<1> DEFINE p == (b - 1) * R
<1>1. p \in Nat
  OBVIOUS
<1>2. Block(b, R) = p + 1 .. p + R
  BY DEF Block
<1> HIDE DEF p
<1>3. IsFiniteSet(p + 1 .. p + R) /\ Cardinality(p + 1 .. p + R) = R
  BY <1>1, FS_Interval
<1> QED BY <1>2, <1>3

\* The k-th action is one of a batch's block, and the block's repetitions are all different.
LEMMA BlockFacts ==
    ASSUME NEW L \in Nat, NEW R \in Nat \ {0}
    PROVE  /\ \A k \in 1 .. L * R :
                /\ (k - 1) \div R + 1 \in 1 .. L /\ (k - 1) % R \in 0 .. R - 1
                /\ k \in Block((k - 1) \div R + 1, R)
           /\ \A b \in 1 .. L, e \in 0 .. R - 1 :
                LET k == (b - 1) * R + e + 1
                IN k \in 1 .. L * R /\ k \in Block(b, R) /\ (k - 1) \div R + 1 = b /\ (k - 1) % R = e
           /\ \A b \in 1 .. L : \A k \in Block(b, R) :
                k \in 1 .. L * R /\ (k - 1) \div R + 1 = b
<1>1. ASSUME NEW b \in 1 .. L, NEW e \in 0 .. R - 1
      PROVE  LET k == (b - 1) * R + e + 1
             IN k \in 1 .. L * R /\ k \in Block(b, R) /\ (k - 1) \div R + 1 = b /\ (k - 1) % R = e
  <2> DEFINE q == b - 1
             p == q * R
             m == L * R
  <2>1. q \in Nat /\ q + 1 <= L /\ e \in Nat
    OBVIOUS
  <2> HIDE DEF q
  <2>2. p \in Nat /\ m \in Nat /\ p + R <= m
    BY <2>1
  <2>3. (p + e) \div R = q /\ (p + e) % R = e
    BY <2>1
  <2> HIDE DEF p, m
  <2>4. p + e + 1 \in 1 .. m /\ p + e + 1 \in p + 1 .. p + R /\ (p + e + 1) - 1 = p + e
    BY <2>1, <2>2
  <2>5. (p + e + 1 - 1) \div R + 1 = q + 1 /\ (p + e + 1 - 1) % R = e
    BY <2>3, <2>4
  <2>6. q + 1 = b
    BY DEF q
  <2> QED BY <2>4, <2>5, <2>6 DEF Block, p, m, q
<1>2. ASSUME NEW k \in 1 .. L * R
      PROVE  /\ (k - 1) \div R + 1 \in 1 .. L /\ (k - 1) % R \in 0 .. R - 1
             /\ k \in Block((k - 1) \div R + 1, R)
  <2> DEFINE a == k - 1
             q == a \div R
             m == L * R
  <2>1. m \in Nat
    OBVIOUS
  <2>2. a \in Nat /\ a + 1 <= m
    <3> HIDE DEF m
    <3>1. k \in 1 .. m
      BY DEF m
    <3> QED BY <2>1, <3>1
  <2> HIDE DEF a
  <2>3. q \in Nat /\ R * q <= a /\ a < R * (q + 1) /\ a % R \in 0 .. R - 1
    BY <2>2
  <2> HIDE DEF q
  <2> DEFINE p == q * R
  <2>4. p \in Nat /\ R * q = p /\ R * (q + 1) = p + R
    BY <2>3
  <2>5. q + 1 \in 1 .. L
    <3>1. ~(q >= L)
      <4> SUFFICES ASSUME q >= L PROVE FALSE
        OBVIOUS
      <4>1. p >= m
        BY <2>3
      <4> HIDE DEF p, m
      <4> QED BY <2>1, <2>2, <2>3, <2>4, <4>1
    <3> QED BY <2>3, <3>1
  <2>6. a + 1 \in p + 1 .. p + R
    <3> HIDE DEF p
    <3> QED BY <2>2, <2>3, <2>4
  <2>7. a + 1 = k /\ (q + 1) - 1 = q
    BY <2>3 DEF a
  <2>8. k \in Block(q + 1, R)
    BY <2>6, <2>7 DEF Block
  <2> QED BY <2>3, <2>5, <2>8 DEF q, a
<1>3. ASSUME NEW b \in 1 .. L, NEW k \in Block(b, R)
      PROVE  k \in 1 .. L * R /\ (k - 1) \div R + 1 = b
  <2> DEFINE p == (b - 1) * R
             e == k - p - 1
  <2>1. p \in Nat /\ k \in p + 1 .. p + R
    BY DEF Block
  <2>2. e \in 0 .. R - 1 /\ p + e + 1 = k
    <3> HIDE DEF p
    <3> QED BY <2>1
  <2> HIDE DEF e
  <2> QED BY <1>1, <2>2
<1> QED BY <1>1, <1>2, <1>3

\* The tests of shard i.
ShardOf(tests, count, hash, i) == ShardFilter(tests, [index |-> i, count |-> count], hash)

InOneShard(t, tests, count, hash) ==
    \E h \in 0 .. count - 1 : \A i \in 0 .. count - 1 : t \in ToSet(ShardOf(tests, count, hash, i)) <=> i = h

LEMMA ShardFacts ==
    ASSUME NEW X, NEW tests \in Seq(X), IsInjective(tests), NEW count \in Nat \ {0},
           NEW hash \in [X -> Nat]
    PROVE  /\ \A i \in 0 .. count - 1 :
                LET mine == ShardOf(tests, count, hash, i)
                IN mine \in Seq(X) /\ IsInjective(mine) /\ ToSet(mine) \subseteq ToSet(tests)
           /\ \A t \in ToSet(tests) : InOneShard(t, tests, count, hash)
<1> DEFINE of(i) == ShardOf(tests, count, hash, i)
<1>1. CASE count <= 1
  <2>1. \A i : of(i) = tests
    BY <1>1 DEF ShardOf, ShardFilter
  <2>2. 0 .. count - 1 = {0}
    BY <1>1
  <2> HIDE DEF of
  <2>3. \A t \in ToSet(tests) : \A i \in 0 .. count - 1 : t \in ToSet(of(i)) <=> i = 0
    BY <2>1, <2>2
  <2> QED BY <1>1, <2>1, <2>2, <2>3 DEF of, InOneShard
<1>2. CASE ~(count <= 1)
  <2> DEFINE mine(i) == {t \in ToSet(tests) : hash[t] % count = i}
  <2>1. \A i : of(i) = Keep(tests, mine(i))
    BY <1>2 DEF ShardOf, ShardFilter
  <2> HIDE DEF of
  <2>2. ASSUME NEW i
        PROVE  of(i) \in Seq(X) /\ IsInjective(of(i)) /\ ToSet(of(i)) = mine(i)
    <3> DEFINE S == mine(i)
    <3>1. S \subseteq ToSet(tests)
      OBVIOUS
    <3> HIDE DEF S
    <3>2. Keep(tests, S) \in Seq(X) /\ ToSet(Keep(tests, S)) = ToSet(tests) \cap S
          /\ IsInjective(Keep(tests, S))
      BY KeepFacts
    <3> QED BY <2>1, <3>1, <3>2 DEF S
  <2>3. ASSUME NEW t \in ToSet(tests)
        PROVE  \E h \in 0 .. count - 1 : \A i \in 0 .. count - 1 : t \in ToSet(of(i)) <=> i = h
    <3>1. t \in X
      BY DEF ToSet
    <3>2. hash[t] % count \in 0 .. count - 1
      <4>1. hash[t] \in Nat
        BY <3>1
      <4> QED BY <4>1
    <3>3. \A i : t \in ToSet(of(i)) <=> i = hash[t] % count
      BY <2>2
    <3> QED BY <3>2, <3>3
  <2>4. \A i : ToSet(of(i)) \subseteq ToSet(tests)
    BY <2>2
  <2> QED BY <1>2, <2>2, <2>3, <2>4 DEF of, InOneShard
<1> QED BY <1>1, <1>2

-------------------------------------------------------------------------------
(* What the pipeline goes by once it has planned.                            *)

AllNames == Names \cup {Whole}

\* The configuration is that of a scenario, and has no errors.
Chosen == \E s \in Scenarios : tpx = s.tpx /\ target = s.target /\ Errors(tpx) = {}

\* What is kept are names, each once, and the overrides were checked against them.
Listed ==
    kept \in Seq(AllNames) /\ IsInjective(kept) /\ OverridesValid(target, Resolve(tpx).overrides, kept)

\* The requests are the actions of the shards.
Planned ==
    LET count == Resolve(tpx).shard.count
    IN \E hash \in Hashes, databases \in [0 .. count - 1 -> Databases] :
         requests = [i \in 0 .. count - 1 |-> Actions(i, hash, databases[i])]

\* The tests that the harness shows, given these words.
Shows(words, tests) == {t.name : t \in HarnessSelects(words, tests)}

\* What is read in the target's listing.
ListedNames ==
    LET words == ListingArgs(Policy(tpx), tpx.choices["list-format"], Effective(tpx))
    IN ParseListing(tpx.choices["list-format"], HarnessSelects(words, suite), Policy(tpx))

\* What is kept of a target that is listed are the tests of its listing.
FromListing ==
    IF target.type = "rust" THEN kept \in Seq(Names) /\ ToSet(kept) = Names \cap ListedNames
                            ELSE kept = <<Whole>>

\* What is remembered of the start is what the invocation said.
Remembered ==
    history = [wanted |-> Plainly(tpx), sensible |-> HarnessAccepts(Effective(tpx) \o Unstable)]

PlanInv ==
    /\ suite \in Suites
    /\ stage \in {"configured", "rejected", "listed", "planned"} => Chosen /\ Remembered
    /\ stage \in {"listed", "planned"} => Listed /\ FromListing
    /\ stage = "planned" => Planned
    /\ stage = "rejected" => ~(history.sensible /\ PlainFilters(Effective(tpx)))

\* What shard i goes by.
ConfigOf(i) == [Resolve(tpx) EXCEPT !.shard.index = i]
PlanOf(i) == Derive(target.type, target.labels, ConfigOf(i))
MineOf(i, hash) == ShardFilter(kept, ConfigOf(i).shard, hash)
ModeIn(i) == ModeOf(ConfigOf(i), PlanOf(i).translator.attributable, PlanOf(i).big)

LEMMA ChosenFacts ==
    ASSUME Chosen
    PROVE  /\ tpx.chunkSize \in Nat /\ tpx.shardCount \in Nat /\ tpx.stress \in Nat
           /\ tpx.stressLabelReps \in Nat /\ tpx.choices["batch-mode"] \in BatchModes
           /\ target.labels \in Seq(STRING) /\ target.type \in TargetTypes
           /\ Effective(tpx) \in Seq(STRING) /\ tpx.choices["list-format"] \in Formats
           /\ tpx.choices["run-format"] \in Formats
<1>1. PICK s \in Scenarios : tpx = s.tpx /\ target = s.target /\ Errors(tpx) = {}
  BY DEF Chosen
<1>2. /\ s.target.type \in TargetTypes /\ s.target.labels \in Seq(STRING)
      /\ {s.tpx.chunkSize, s.tpx.shardCount, s.tpx.shardIndex, s.tpx.threshold, s.tpx.stress,
          s.tpx.stressLabelReps} \subseteq Nat
      /\ {"batch-mode", "list-format", "run-format"} \subseteq DOMAIN s.tpx.choices
      /\ s.tpx.choices["batch-mode"] \in BatchModes \cup {"invalid"}
      /\ {s.tpx.choices["list-format"], s.tpx.choices["run-format"]}
            \subseteq Formats \cup {"invalid"}
      /\ Effective(s.tpx) \in Seq(STRING)
  BY InputsAssumption
<1>3. \A o \in DOMAIN tpx.choices : tpx.choices[o] # "invalid"
  <2>1. {o \in DOMAIN tpx.choices : tpx.choices[o] = "invalid"} = {}
    BY <1>1 DEF Errors
  <2> QED BY <2>1
<1> QED BY <1>1, <1>2, <1>3

LEMMA ResolveFacts ==
    ASSUME Chosen
    PROVE  LET config == Resolve(tpx)
           IN /\ config.chunkSize \in Nat \ {0} /\ config.shard.count \in Nat \ {0}
              /\ config.stress \in Nat /\ config.stressLabelReps \in Nat \ {0}
              /\ config.batchMode \in BatchModes
              /\ \A i : /\ ConfigOf(i).chunkSize = config.chunkSize
                        /\ ConfigOf(i).shard = [index |-> i, count |-> config.shard.count]
                        /\ ConfigOf(i).stress = config.stress
                        /\ ConfigOf(i).stressLabelReps = config.stressLabelReps
                        /\ ConfigOf(i).batchMode = config.batchMode
                        /\ ConfigOf(i).logical = config.logical
                        /\ ConfigOf(i).overrides = config.overrides
<1> DEFINE config == Resolve(tpx)
<1>1. /\ config.chunkSize = AtLeastOne(tpx.chunkSize) /\ config.stress = tpx.stress
      /\ config.shard = [index |-> tpx.shardIndex, count |-> AtLeastOne(tpx.shardCount)]
      /\ config.stressLabelReps = AtLeastOne(tpx.stressLabelReps)
      /\ config.batchMode = tpx.choices["batch-mode"]
  BY DEF Resolve
<1>2. DOMAIN config = {"policy", "listFormat", "runFormat", "batchMode", "chunkSize", "threshold",
                       "overrides", "logical", "shard", "localDebug", "stress", "stressLabelReps",
                       "flakyAttempts", "helpOnly", "usageError", "listOnly", "extra", "direct"}
  BY DEF Resolve
<1>3. \A n \in Nat : AtLeastOne(n) \in Nat \ {0}
  BY DEF AtLeastOne
<1> HIDE DEF config
<1>4. ASSUME NEW i
      PROVE  /\ ConfigOf(i).chunkSize = config.chunkSize
             /\ ConfigOf(i).shard = [index |-> i, count |-> config.shard.count]
             /\ ConfigOf(i).stress = config.stress
             /\ ConfigOf(i).stressLabelReps = config.stressLabelReps
             /\ ConfigOf(i).batchMode = config.batchMode
             /\ ConfigOf(i).logical = config.logical
             /\ ConfigOf(i).overrides = config.overrides
  <2>1. ConfigOf(i) = [config EXCEPT !.shard.index = i]
    BY DEF ConfigOf, config
  <2>2. ConfigOf(i).shard = [config.shard EXCEPT !.index = i]
    BY <1>2, <2>1
  <2>3. [config.shard EXCEPT !.index = i] = [index |-> i, count |-> config.shard.count]
    BY <1>1
  <2> QED BY <1>2, <2>1, <2>2, <2>3
<1>5. config.shard.count = AtLeastOne(tpx.shardCount)
  BY <1>1
<1> QED BY <1>1, <1>3, <1>4, <1>5, ChosenFacts DEF config

LEMMA PlanFacts ==
    ASSUME Chosen, NEW i
    PROVE  /\ PlanOf(i).repeats = Repeats(target.labels, Resolve(tpx))
           /\ PlanOf(i).repeats \in Nat \ {0}
           /\ PlanOf(i).stress = IsStress(target.labels, Resolve(tpx))
           /\ PlanOf(i).profile = Profile(target.labels)
           /\ PlanOf(i).big = ("big" \in ToSet(target.labels))
<1> DEFINE config == Resolve(tpx)
           mine == ConfigOf(i)
<1>1. /\ mine.stress = config.stress /\ mine.stressLabelReps = config.stressLabelReps
      /\ config.stress \in Nat /\ config.stressLabelReps \in Nat \ {0}
  BY ResolveFacts
<1> HIDE DEF config, mine
<1>2. /\ PlanOf(i).repeats = Repeats(target.labels, mine)
      /\ PlanOf(i).stress = IsStress(target.labels, mine)
      /\ PlanOf(i).profile = Profile(target.labels)
      /\ PlanOf(i).big = ("big" \in ToSet(target.labels))
  BY DEF PlanOf, Derive, mine
<1>3. Repeats(target.labels, mine) = Repeats(target.labels, config)
  BY <1>1 DEF Repeats
<1>4. IsStress(target.labels, mine) = IsStress(target.labels, config)
  BY <1>1 DEF IsStress
<1>5. Repeats(target.labels, config) \in Nat \ {0}
  BY <1>1 DEF Repeats
<1> QED BY <1>2, <1>3, <1>4, <1>5 DEF config

\* The requests rs of shard i are its batches bs, each as often as the target repeats.
Made(rs, bs, i, mine) ==
    LET R == PlanOf(i).repeats
        of(b, e) == Request(b, IF b = All THEN mine ELSE b, e, PlanOf(i), ConfigOf(i))
    IN /\ Fits(bs, AllNames, ToSet(mine), ConfigOf(i), ModeIn(i)) /\ ModeIn(i) \in BatchModes
       /\ rs = [k \in 1 .. Len(bs) * R |-> of(bs[(k - 1) \div R + 1], (k - 1) % R)]

LEMMA ActionsFacts ==
    ASSUME Chosen, Listed, NEW hash \in Hashes, NEW database \in Databases,
           NEW i \in 0 .. Resolve(tpx).shard.count - 1
    PROVE  /\ MineOf(i, hash) = <<>> => Actions(i, hash, database) = <<>>
           /\ MineOf(i, hash) # <<>> => \E bs : Made(Actions(i, hash, database), bs, i, MineOf(i, hash))
<1> DEFINE mine == MineOf(i, hash)
           expect == [n \in DOMAIN database |-> Estimate(Recorded(database[n]))]
           bs == BuildBatches(mine, ConfigOf(i), PlanOf(i).translator.attributable, PlanOf(i).big, expect)
           R == PlanOf(i).repeats
           of(b, e) == Request(b, IF b = All THEN mine ELSE b, e, PlanOf(i), ConfigOf(i))
<1>1. Actions(i, hash, database) =
        IF mine = <<>> THEN <<>>
        ELSE [k \in 1 .. Len(bs) * R |-> of(bs[(k - 1) \div R + 1], (k - 1) % R)]
  BY DEF Actions, MineOf, ConfigOf, PlanOf
<1>2. mine \in Seq(AllNames) /\ IsInjective(mine)
  <2>1. ConfigOf(i).shard = [index |-> i, count |-> Resolve(tpx).shard.count]
        /\ Resolve(tpx).shard.count \in Nat \ {0}
    BY ResolveFacts
  <2>2. hash \in [AllNames -> Nat]
    BY InputsAssumption DEF AllNames
  <2>3. kept \in Seq(AllNames) /\ IsInjective(kept)
    BY DEF Listed
  <2> QED BY <2>1, <2>2, <2>3, ShardFacts DEF MineOf, ShardOf
<1>3. \A x \in AllNames : expect[x].p95 \in Nat
  <2>1. database \in [AllNames -> Seq(TestRun)]
    BY InputsAssumption DEF AllNames
  <2>2. ASSUME NEW x \in AllNames PROVE expect[x].p95 \in Nat
    <3>1. expect[x] = Estimate(Recorded(database[x])) /\ database[x] \in Seq(TestRun)
      BY <2>1
    <3> HIDE DEF expect
    <3> QED BY <3>1, EstimateType
  <2> QED BY <2>2
<1>4. ASSUME mine # <<>> PROVE Made(Actions(i, hash, database), bs, i, mine)
  <2>1. /\ ConfigOf(i).chunkSize \in Nat \ {0} /\ ConfigOf(i).batchMode \in BatchModes
        /\ ConfigOf(i).shard.count \in Nat
    <3>1. /\ Resolve(tpx).chunkSize \in Nat \ {0} /\ Resolve(tpx).shard.count \in Nat \ {0}
          /\ Resolve(tpx).batchMode \in BatchModes
          /\ ConfigOf(i).chunkSize = Resolve(tpx).chunkSize
          /\ ConfigOf(i).shard = [index |-> i, count |-> Resolve(tpx).shard.count]
          /\ ConfigOf(i).batchMode = Resolve(tpx).batchMode
      BY ResolveFacts
    <3> QED BY <3>1
  <2> HIDE DEF mine, expect
  <2>2. Fits(bs, AllNames, ToSet(mine), ConfigOf(i), ModeIn(i)) /\ ModeIn(i) \in BatchModes
    BY <1>2, <1>3, <1>4, <2>1, BatchesFacts DEF ModeIn
  <2> HIDE DEF bs
  <2> QED BY <1>1, <1>4, <2>2 DEF Made
<1> QED BY <1>1, <1>4

\* The tests a request is about.
Members(r) == IF r.batch = All THEN kept ELSE r.batch
About(rs, n) == {j \in DOMAIN rs : n \in ToSet(Members(rs[j]))}

\* Not too many tests for one action.
Sized(m, config) ==
    /\ config.batchMode = "fixed-chunk" => Len(m) <= config.chunkSize
    /\ config.batchMode = "duration-bucketed" => Len(m) <= MaxBatch
    /\ config.logical => Len(m) = 1

\* Each of F is about one of the batches of bs, none of which is empty or too large.
Selected(bs, F) ==
    LET of(b) == IF bs[b] = All THEN kept ELSE bs[b]
    IN /\ Len(bs) \in Nat /\ DOMAIN bs = 1 .. Len(bs)
       /\ \A n \in F : \E b \in DOMAIN bs : \A c \in DOMAIN bs : n \in ToSet(of(c)) <=> c = b
       /\ \A b \in DOMAIN bs : /\ of(b) # <<>> /\ ToSet(of(b)) \subseteq F /\ IsInjective(of(b))
                               /\ Sized(of(b), Resolve(tpx))

LEMMA NotAll == ASSUME NEW b \in Seq(AllNames) PROVE b # All
<1>1. "all" \notin AllNames
  BY InputsAssumption DEF AllNames
<1>2. All[1] = "all" /\ Len(All) = 1
  BY DEF All
<1>3. Len(b) = 1 => b[1] \in AllNames
  OBVIOUS
<1> QED BY <1>1, <1>2, <1>3

LEMMA ModeFacts ==
    ASSUME NEW config, NEW attributable, NEW big
    PROVE  LET mode == ModeOf(config, attributable, big)
           IN /\ config.logical \/ big => mode = "per-test"
              /\ mode = "per-test" \/ mode = config.batchMode
  BY DEF ModeOf

LEMMA CoverSelected ==
    ASSUME Chosen, NEW i, NEW F, NEW bs, Cover(bs, AllNames, F),
           Fits(bs, AllNames, F, ConfigOf(i), ModeIn(i))
    PROVE  Selected(bs, F)
<1> DEFINE of(b) == IF bs[b] = All THEN kept ELSE bs[b]
           config == Resolve(tpx)
<1>1. /\ bs \in Seq(Seq(AllNames)) /\ Batched(bs) = F
      /\ \A b \in DOMAIN bs : bs[b] # <<>> /\ IsInjective(bs[b]) /\ bs[b] \in Seq(AllNames)
      /\ \A b, c \in DOMAIN bs : b # c => ToSet(bs[b]) \cap ToSet(bs[c]) = {}
  BY DEF Cover
<1>2. \A b \in DOMAIN bs : of(b) = bs[b]
  BY <1>1, NotAll
<1>3. Len(bs) \in Nat /\ DOMAIN bs = 1 .. Len(bs)
  BY <1>1
<1>4. ASSUME NEW n \in F
      PROVE  \E b \in DOMAIN bs : \A c \in DOMAIN bs : n \in ToSet(bs[c]) <=> c = b
  <2>1. PICK b \in DOMAIN bs : n \in ToSet(bs[b])
    BY <1>1 DEF Batched
  <2>2. \A c \in DOMAIN bs : n \in ToSet(bs[c]) <=> c = b
    BY <1>1, <2>1
  <2> QED BY <2>2
<1>5. ASSUME NEW b \in DOMAIN bs PROVE Sized(bs[b], config)
  <2> DEFINE m == bs[b]
  <2> SUFFICES Sized(m, config)
    OBVIOUS
  <2>1. /\ Len(m) \in Nat /\ Len(m) >= 1
    <3>1. m \in Seq(AllNames) /\ m # <<>>
      BY <1>1
    <3> HIDE DEF m
    <3> QED BY <3>1
  <2>2. /\ config.chunkSize \in Nat \ {0} /\ ConfigOf(i).chunkSize = config.chunkSize
        /\ ConfigOf(i).batchMode = config.batchMode /\ ConfigOf(i).logical = config.logical
    BY ResolveFacts
  <2>3. /\ config.logical => ModeIn(i) = "per-test"
        /\ ModeIn(i) = "per-test" \/ ModeIn(i) = config.batchMode
    BY <2>2, ModeFacts DEF ModeIn
  <2>4. bs # <<All>>
    <3> SUFFICES ASSUME bs = <<All>> PROVE FALSE
      OBVIOUS
    <3>1. 1 \in DOMAIN bs /\ bs[1] = All
      OBVIOUS
    <3> QED BY <1>1, <3>1, NotAll
  <2>5. /\ ModeIn(i) = "per-test" => Len(m) <= 1
        /\ ModeIn(i) = "fixed-chunk" => Len(m) <= config.chunkSize
        /\ ModeIn(i) = "duration-bucketed" => Len(m) <= MaxBatch
    BY <2>2, <2>4 DEF Fits, AtMost
  <2> HIDE DEF m, config
  <2>6. CASE ModeIn(i) = "per-test"
    <3>1. Len(m) = 1
      BY <2>1, <2>5, <2>6
    <3>2. Len(m) <= config.chunkSize
      BY <2>2, <3>1
    <3>3. Len(m) <= MaxBatch
      BY <3>1, MaxBatchAssumption
    <3> QED BY <3>1, <3>2, <3>3 DEF Sized
  <2>7. CASE ModeIn(i) # "per-test"
    <3>1. ~config.logical /\ ModeIn(i) = config.batchMode
      BY <2>3, <2>7
    <3> QED BY <2>5, <3>1 DEF Sized
  <2> QED BY <2>6, <2>7
<1>6. \A b \in DOMAIN bs : ToSet(bs[b]) \subseteq F
  BY <1>1 DEF Batched
<1> HIDE DEF of, config
<1>7. \A n \in F : \E b \in DOMAIN bs : \A c \in DOMAIN bs : n \in ToSet(of(c)) <=> c = b
  BY <1>2, <1>4
<1>8. \A b \in DOMAIN bs : /\ of(b) # <<>> /\ ToSet(of(b)) \subseteq F /\ IsInjective(of(b))
                           /\ Sized(of(b), config)
  BY <1>1, <1>2, <1>5, <1>6
<1> QED BY <1>3, <1>7, <1>8 DEF Selected, of, config

LEMMA AllSelected ==
    ASSUME Chosen, Listed, kept # <<>>, NEW i, ModeIn(i) = "target"
    PROVE  Selected(<<All>>, ToSet(kept))
<1> DEFINE bs == <<All>>
<1>1. DOMAIN bs = {1} /\ bs[1] = All
  OBVIOUS
<1>2. Len(bs) \in Nat /\ DOMAIN bs = 1 .. Len(bs)
  OBVIOUS
<1> HIDE DEF bs
<1>3. Sized(kept, Resolve(tpx))
  <2>1. ConfigOf(i).batchMode = Resolve(tpx).batchMode /\ ConfigOf(i).logical = Resolve(tpx).logical
    BY ResolveFacts
  <2>2. Resolve(tpx).batchMode = "target" /\ ~Resolve(tpx).logical
    BY <2>1, ModeFacts DEF ModeIn
  <2> QED BY <2>2 DEF Sized
<1>4. IsInjective(kept)
  BY DEF Listed
<1> QED BY <1>1, <1>2, <1>3, <1>4 DEF Selected, bs

\* Each of F is in a batch of the shard, once for each repetition.
WholeShard(rs, F) ==
    LET R == Repeats(target.labels, Resolve(tpx))
    IN /\ \A n \in F :
            /\ IsFiniteSet(About(rs, n)) /\ Cardinality(About(rs, n)) = R
            /\ IsStress(target.labels, Resolve(tpx)) =>
                  {rs[j].repeat : j \in About(rs, n)} = 0 .. R - 1
       /\ \A j \in DOMAIN rs :
            LET m == Members(rs[j])
            IN m # <<>> /\ ToSet(m) \subseteq F /\ IsInjective(m) /\ Sized(m, Resolve(tpx))

\* A shard with a request for each repetition e of each batch of bs.
LEMMA SelectedWhole ==
    ASSUME Chosen, NEW i, NEW F, NEW bs, Selected(bs, F), NEW rs,
           LET R == PlanOf(i).repeats
           IN /\ DOMAIN rs = 1 .. Len(bs) * R
              /\ \A k \in 1 .. Len(bs) * R :
                   /\ rs[k].batch = bs[(k - 1) \div R + 1]
                   /\ rs[k].repeat = IF PlanOf(i).stress THEN (k - 1) % R ELSE 0
    PROVE  WholeShard(rs, F)
<1> DEFINE of(b) == IF bs[b] = All THEN kept ELSE bs[b]
           L == Len(bs)
           R == PlanOf(i).repeats
           at(k) == (k - 1) \div R + 1
<1>1. /\ L \in Nat /\ DOMAIN bs = 1 .. L
      /\ \A n \in F : \E b \in 1 .. L : \A c \in 1 .. L : n \in ToSet(of(c)) <=> c = b
      /\ \A b \in 1 .. L : /\ of(b) # <<>> /\ ToSet(of(b)) \subseteq F /\ IsInjective(of(b))
                           /\ Sized(of(b), Resolve(tpx))
  BY DEF Selected
<1>2. /\ R \in Nat \ {0} /\ R = Repeats(target.labels, Resolve(tpx))
      /\ PlanOf(i).stress = IsStress(target.labels, Resolve(tpx))
  BY PlanFacts
<1>3. DOMAIN rs = 1 .. L * R /\ \A k \in 1 .. L * R : Members(rs[k]) = of(at(k))
  BY DEF Members
<1>4. \A k \in 1 .. L * R : rs[k].repeat = IF PlanOf(i).stress THEN (k - 1) % R ELSE 0
  OBVIOUS
<1> HIDE DEF of, L, R
<1>5. /\ \A k \in 1 .. L * R : at(k) \in 1 .. L /\ (k - 1) % R \in 0 .. R - 1 /\ k \in Block(at(k), R)
      /\ \A b \in 1 .. L, e \in 0 .. R - 1 :
           \E k \in 1 .. L * R : k \in Block(b, R) /\ (k - 1) % R = e
      /\ \A b \in 1 .. L : \A k \in Block(b, R) : k \in 1 .. L * R /\ at(k) = b
  <2>1. L \in Nat /\ R \in Nat \ {0}
    BY <1>1, <1>2
  <2>2. \A b \in 1 .. L, e \in 0 .. R - 1 :
          LET k == (b - 1) * R + e + 1
          IN k \in 1 .. L * R /\ k \in Block(b, R) /\ (k - 1) \div R + 1 = b /\ (k - 1) % R = e
    BY <2>1, BlockFacts
  <2>3. \A b \in 1 .. L, e \in 0 .. R - 1 :
           \E k \in 1 .. L * R : k \in Block(b, R) /\ (k - 1) % R = e
    BY <2>2
  <2>4. \A k \in 1 .. L * R :
          /\ (k - 1) \div R + 1 \in 1 .. L /\ (k - 1) % R \in 0 .. R - 1
          /\ k \in Block((k - 1) \div R + 1, R)
    BY <2>1, BlockFacts
  <2>5. \A b \in 1 .. L : \A k \in Block(b, R) : k \in 1 .. L * R /\ (k - 1) \div R + 1 = b
    BY <2>1, BlockFacts
  <2> QED BY <2>3, <2>4, <2>5
<1> HIDE DEF at
<1>6. ASSUME NEW n \in F
      PROVE  /\ IsFiniteSet(About(rs, n)) /\ Cardinality(About(rs, n)) = R
             /\ IsStress(target.labels, Resolve(tpx)) =>
                  {rs[j].repeat : j \in About(rs, n)} = 0 .. R - 1
  <2>1. PICK b \in 1 .. L : \A c \in 1 .. L : n \in ToSet(of(c)) <=> c = b
    BY <1>1
  <2>2. About(rs, n) = Block(b, R)
    <3>1. ASSUME NEW k \in About(rs, n) PROVE k \in Block(b, R)
      <4>1. k \in 1 .. L * R /\ n \in ToSet(of(at(k)))
        BY <1>3 DEF About
      <4>2. at(k) = b
        BY <1>5, <2>1, <4>1
      <4> QED BY <1>5, <4>1, <4>2
    <3>2. ASSUME NEW k \in Block(b, R) PROVE k \in About(rs, n)
      <4>1. k \in 1 .. L * R /\ at(k) = b
        BY <1>5
      <4>2. n \in ToSet(of(b))
        BY <2>1
      <4> QED BY <1>3, <4>1, <4>2 DEF About
    <3> QED BY <3>1, <3>2
  <2>3. IsFiniteSet(Block(b, R)) /\ Cardinality(Block(b, R)) = R
    <3>1. b \in Nat \ {0} /\ R \in Nat
      BY <1>1, <1>2
    <3> QED BY <3>1, BlockSize
  <2>4. ASSUME IsStress(target.labels, Resolve(tpx))
        PROVE  {rs[j].repeat : j \in Block(b, R)} = 0 .. R - 1
    <3>1. ASSUME NEW k \in Block(b, R)
          PROVE  rs[k].repeat = (k - 1) % R /\ rs[k].repeat \in 0 .. R - 1
      <4>1. k \in 1 .. L * R /\ (k - 1) % R \in 0 .. R - 1
        BY <1>5
      <4>2. PlanOf(i).stress
        BY <1>2, <2>4
      <4> QED BY <1>4, <4>1, <4>2
    <3>2. \A e \in 0 .. R - 1 : \E k \in Block(b, R) : (k - 1) % R = e
      BY <1>5
    <3>3. \A e \in 0 .. R - 1 : \E k \in Block(b, R) : rs[k].repeat = e
      BY <3>1, <3>2
    <3> QED BY <3>1, <3>3
  <2> QED BY <2>2, <2>3, <2>4
<1>7. ASSUME NEW j \in DOMAIN rs
      PROVE  LET m == Members(rs[j])
             IN m # <<>> /\ ToSet(m) \subseteq F /\ IsInjective(m) /\ Sized(m, Resolve(tpx))
  <2>1. at(j) \in 1 .. L /\ Members(rs[j]) = of(at(j))
    BY <1>3, <1>5
  <2> QED BY <1>1, <2>1
<1> QED BY <1>2, <1>6, <1>7 DEF WholeShard

LEMMA ShardIsWhole ==
    ASSUME Chosen, Listed, NEW hash \in Hashes, NEW database \in Databases,
           NEW i \in 0 .. Resolve(tpx).shard.count - 1
    PROVE  WholeShard(Actions(i, hash, database), ToSet(MineOf(i, hash)))
<1> DEFINE mine == MineOf(i, hash)
           rs == Actions(i, hash, database)
           R == PlanOf(i).repeats
<1>1. CASE mine = <<>>
  <2>1. rs = <<>> /\ DOMAIN <<>> = {}
    BY <1>1, ActionsFacts
  <2>2. ToSet(mine) = {}
    BY <1>1, EmptyFacts
  <2> HIDE DEF mine, rs
  <2> QED BY <2>1, <2>2 DEF WholeShard, mine, rs
<1>2. CASE mine # <<>>
  <2>1. PICK bs : Made(rs, bs, i, mine)
    BY <1>2, ActionsFacts
  <2> HIDE DEF mine, rs
  <2>2. /\ Fits(bs, AllNames, ToSet(mine), ConfigOf(i), ModeIn(i))
        /\ rs = [k \in 1 .. Len(bs) * R |->
                   LET b == bs[(k - 1) \div R + 1]
                   IN Request(b, IF b = All THEN mine ELSE b, (k - 1) % R, PlanOf(i), ConfigOf(i))]
    BY <2>1 DEF Made
  <2>3. /\ DOMAIN rs = 1 .. Len(bs) * R
        /\ \A k \in 1 .. Len(bs) * R :
             /\ rs[k].batch = bs[(k - 1) \div R + 1]
             /\ rs[k].repeat = IF PlanOf(i).stress THEN (k - 1) % R ELSE 0
    BY <2>2 DEF Request
  <2>4. Selected(bs, ToSet(mine))
    <3>1. CASE Cover(bs, AllNames, ToSet(mine))
      BY <2>2, <3>1, CoverSelected
    <3>2. CASE bs = <<All>> /\ ModeIn(i) = "target" /\ ConfigOf(i).shard.count <= 1
      <4>1. mine = kept
        BY <3>2 DEF MineOf, ShardFilter, mine
      <4>2. Selected(<<All>>, ToSet(kept))
        BY <1>2, <3>2, <4>1, AllSelected
      <4> QED BY <3>2, <4>1, <4>2
    <3> QED BY <2>2, <3>1, <3>2 DEF Fits
  <2> QED BY <2>3, <2>4, SelectedWhole DEF mine, rs
<1> QED BY <1>1, <1>2

\* The requests keep what the labels and the overrides ask for.
Honours(rs) ==
    \A j \in DOMAIN rs :
        /\ ~({"gpu", "large-mem"} \subseteq ToSet(target.labels)) =>
             rs[j].on.exclusive = (ToSet(target.labels) \cap {"exclusive", "serial_global_state"} # {})
        /\ rs[j].memory = IF ToSet(rs[j].batch) \cap tpx.overrides # {} THEN "override" ELSE "default"

LEMMA ShardHonours ==
    ASSUME Chosen, Listed, NEW hash \in Hashes, NEW database \in Databases,
           NEW i \in 0 .. Resolve(tpx).shard.count - 1
    PROVE  Honours(Actions(i, hash, database))
<1> DEFINE mine == MineOf(i, hash)
           rs == Actions(i, hash, database)
           R == PlanOf(i).repeats
<1>1. CASE mine = <<>>
  <2>1. rs = <<>> /\ DOMAIN <<>> = {}
    BY <1>1, ActionsFacts
  <2> HIDE DEF mine, rs
  <2> QED BY <2>1 DEF Honours, rs
<1>2. CASE mine # <<>>
  <2>1. PICK bs : Made(rs, bs, i, mine)
    BY <1>2, ActionsFacts
  <2> HIDE DEF mine, rs
  <2>2. /\ Fits(bs, AllNames, ToSet(mine), ConfigOf(i), ModeIn(i))
        /\ rs = [k \in 1 .. Len(bs) * R |->
                   LET b == bs[(k - 1) \div R + 1]
                   IN Request(b, IF b = All THEN mine ELSE b, (k - 1) % R, PlanOf(i), ConfigOf(i))]
    BY <2>1 DEF Made
  <2>3. R \in Nat \ {0}
    BY PlanFacts
  <2>4. Len(bs) \in Nat /\ DOMAIN bs = 1 .. Len(bs)
    BY <2>2 DEF Fits, Cover
  <2>5. ConfigOf(i).overrides = tpx.overrides /\ Resolve(tpx).overrides = tpx.overrides
    <3>1. Resolve(tpx).overrides = tpx.overrides
      BY DEF Resolve
    <3> QED BY <3>1, ResolveFacts
  <2>6. tpx.overrides # {} => PlanOf(i).big
    BY <2>5, PlanFacts DEF Listed, OverridesValid
  <2>7. ASSUME NEW b \in 1 .. Len(bs), tpx.overrides # {} PROVE bs[b] # All /\ Len(bs[b]) = 1
    <3>1. ModeIn(i) = "per-test"
      BY <2>6, <2>7, ModeFacts DEF ModeIn
    <3>2. Cover(bs, AllNames, ToSet(mine)) /\ AtMost(bs, 1)
      BY <2>2, <3>1 DEF Fits
    <3>3. bs[b] \in Seq(AllNames) /\ bs[b] # <<>> /\ Len(bs[b]) <= 1
      <4>1. b \in DOMAIN bs /\ bs \in Seq(Seq(AllNames))
        BY <2>4, <3>2 DEF Cover
      <4>2. bs[b] \in Seq(AllNames)
        BY <4>1
      <4>3. bs[b] # <<>> /\ Len(bs[b]) <= 1
        BY <3>2, <4>1 DEF Cover, AtMost
      <4> QED BY <4>2, <4>3
    <3> DEFINE m == bs[b]
    <3>4. Len(m) = 1
      <4>1. m \in Seq(AllNames) /\ m # <<>> /\ Len(m) <= 1
        BY <3>3
      <4> HIDE DEF m
      <4>2. Len(m) \in Nat /\ Len(m) >= 1
        BY <4>1
      <4>3. Len(m) <= 1
        BY <4>1
      <4> DEFINE l == Len(m)
      <4>4. l \in Nat /\ l >= 1 /\ l <= 1
        BY <4>2, <4>3
      <4> HIDE DEF l
      <4>5. l = 1
        BY <4>4
      <4> QED BY <4>5 DEF l
    <3> QED BY <3>3, <3>4, NotAll
  <2>8. ASSUME NEW j \in DOMAIN rs
        PROVE  /\ ~({"gpu", "large-mem"} \subseteq ToSet(target.labels)) =>
                    rs[j].on.exclusive = (ToSet(target.labels) \cap AskExclusive # {})
               /\ rs[j].memory = IF ToSet(rs[j].batch) \cap tpx.overrides # {} THEN "override"
                                 ELSE "default"
    <3> DEFINE at == (j - 1) \div R + 1
               b == bs[at]
               m == IF b = All THEN mine ELSE b
    <3>1. j \in 1 .. Len(bs) * R
      BY <2>2
    <3>2. at \in 1 .. Len(bs)
      <4> HIDE DEF R
      <4> QED BY <2>3, <2>4, <3>1, BlockFacts
    <3>3. /\ rs[j].batch = b /\ rs[j].memory = MemoryMax(tpx.overrides, m)
          /\ rs[j].on = OnRequest(TestingProfile(PlanOf(i), ConfigOf(i)))
      BY <2>2, <2>5, <3>1 DEF Request
    <3> HIDE DEF at
    <3>4. rs[j].memory = IF ToSet(b) \cap tpx.overrides # {} THEN "override" ELSE "default"
      <4>1. CASE tpx.overrides = {}
        BY <3>3, <4>1 DEF MemoryMax
      <4>2. CASE tpx.overrides # {}
        <5>1. m = b /\ Len(m) = 1
          BY <2>7, <3>2, <4>2
        <5> HIDE DEF m, b
        <5> QED BY <3>3, <5>1 DEF MemoryMax
      <4> QED BY <4>1, <4>2
    <3>5. ASSUME ~({"gpu", "large-mem"} \subseteq ToSet(target.labels))
          PROVE  rs[j].on.exclusive = (ToSet(target.labels) \cap AskExclusive # {})
      <4>1. target.labels \in Seq(STRING) /\ PlanOf(i).profile = Profile(target.labels)
        BY ChosenFacts, PlanFacts
      <4>2. OnRequest(TestingProfile(PlanOf(i), ConfigOf(i))).exclusive
              = (ToSet(target.labels) \cap AskExclusive # {})
        BY <3>5, <4>1, ExclusiveFacts
      <4> QED BY <3>3, <4>2
    <3> QED BY <3>3, <3>4, <3>5
  <2> QED BY <2>8 DEF Honours, AskExclusive, rs
<1> QED BY <1>1, <1>2

\* The requests give the harness the words of their batch.
Worded(rs) ==
    \A j \in DOMAIN rs :
        /\ rs[j].batch = All \/ rs[j].batch \in Seq(AllNames)
        /\ rs[j].words = Words(target.type, rs[j].batch, Resolve(tpx))

LEMMA ShardWorded ==
    ASSUME Chosen, Listed, NEW hash \in Hashes, NEW database \in Databases,
           NEW i \in 0 .. Resolve(tpx).shard.count - 1
    PROVE  Worded(Actions(i, hash, database))
<1> DEFINE mine == MineOf(i, hash)
           rs == Actions(i, hash, database)
           R == PlanOf(i).repeats
<1>1. CASE mine = <<>>
  <2>1. rs = <<>> /\ DOMAIN <<>> = {}
    BY <1>1, ActionsFacts
  <2> HIDE DEF mine, rs
  <2> QED BY <2>1 DEF Worded, rs
<1>2. CASE mine # <<>>
  <2>1. PICK bs : Made(rs, bs, i, mine)
    BY <1>2, ActionsFacts
  <2> HIDE DEF mine, rs
  <2>2. /\ Fits(bs, AllNames, ToSet(mine), ConfigOf(i), ModeIn(i))
        /\ rs = [k \in 1 .. Len(bs) * R |->
                   LET b == bs[(k - 1) \div R + 1]
                   IN Request(b, IF b = All THEN mine ELSE b, (k - 1) % R, PlanOf(i), ConfigOf(i))]
    BY <2>1 DEF Made
  <2>3. R \in Nat \ {0}
    BY PlanFacts
  <2>4. Len(bs) \in Nat /\ DOMAIN bs = 1 .. Len(bs)
        /\ \A b \in 1 .. Len(bs) : bs[b] = All \/ bs[b] \in Seq(AllNames)
    <3>1. CASE bs = <<All>>
      BY <3>1
    <3>2. CASE Cover(bs, AllNames, ToSet(mine))
      <4>1. bs \in Seq(Seq(AllNames))
        BY <3>2 DEF Cover
      <4> QED BY <4>1
    <3> QED BY <2>2, <3>1, <3>2 DEF Fits
  <2>5. ASSUME NEW b PROVE Words(target.type, b, ConfigOf(i)) = Words(target.type, b, Resolve(tpx))
    <3>1. /\ ConfigOf(i).policy = Resolve(tpx).policy /\ ConfigOf(i).extra = Resolve(tpx).extra
          /\ ConfigOf(i).runFormat = Resolve(tpx).runFormat /\ ConfigOf(i).direct = Resolve(tpx).direct
      BY DEF ConfigOf, Resolve
    <3> QED BY <3>1 DEF Words
  <2>6. ASSUME NEW j \in DOMAIN rs
        PROVE  /\ rs[j].batch = All \/ rs[j].batch \in Seq(AllNames)
               /\ rs[j].words = Words(target.type, rs[j].batch, Resolve(tpx))
    <3> DEFINE at == (j - 1) \div R + 1
               b == bs[at]
    <3>1. j \in 1 .. Len(bs) * R
      BY <2>2
    <3>2. at \in 1 .. Len(bs)
      <4> HIDE DEF R
      <4> QED BY <2>3, <2>4, <3>1, BlockFacts
    <3>3. rs[j].batch = b /\ rs[j].words = Words(target.type, b, ConfigOf(i))
      BY <2>2, <3>1 DEF Request
    <3> HIDE DEF at
    <3> QED BY <2>4, <2>5, <3>2, <3>3
  <2> QED BY <2>6 DEF Worded, rs
<1> QED BY <1>1, <1>2

\* The requests of a planned session are the shards', and each shard is whole.
LEMMA PlannedFacts ==
    ASSUME PlanInv, stage = "planned"
    PROVE  LET count == Resolve(tpx).shard.count
           IN /\ count \in Nat \ {0} /\ DOMAIN requests = 0 .. count - 1
              /\ \E hash \in Hashes : \A i \in 0 .. count - 1 :
                   /\ WholeShard(requests[i], ToSet(MineOf(i, hash))) /\ Honours(requests[i])
                   /\ Worded(requests[i])
<1> DEFINE count == Resolve(tpx).shard.count
<1>1. Chosen /\ Listed /\ Planned
  BY DEF PlanInv
<1>2. count \in Nat \ {0}
  BY <1>1, ResolveFacts
<1>3. PICK hash \in Hashes, databases \in [0 .. count - 1 -> Databases] :
        requests = [i \in 0 .. count - 1 |-> Actions(i, hash, databases[i])]
  BY <1>1 DEF Planned
<1>4. ASSUME NEW i \in 0 .. count - 1
      PROVE  /\ WholeShard(requests[i], ToSet(MineOf(i, hash))) /\ Honours(requests[i])
             /\ Worded(requests[i])
  <2>1. requests[i] = Actions(i, hash, databases[i]) /\ databases[i] \in Databases
    BY <1>3
  <2>2. WholeShard(Actions(i, hash, databases[i]), ToSet(MineOf(i, hash)))
    BY <1>1, <2>1, ShardIsWhole
  <2>3. Honours(Actions(i, hash, databases[i]))
    BY <1>1, <2>1, ShardHonours
  <2>4. Worded(Actions(i, hash, databases[i]))
    BY <1>1, <2>1, ShardWorded
  <2> QED BY <2>1, <2>2, <2>3, <2>4
<1> QED BY <1>2, <1>3, <1>4

LEMMA PlanIsWhole == ASSUME PlanInv, stage = "planned" PROVE PlannedOnce
<1> DEFINE config == Resolve(tpx)
           count == config.shard.count
           R == Repeats(target.labels, config)
           members(r) == IF r.batch = All THEN kept ELSE r.batch
           places(n) == UNION {{<<i, k>> : k \in {j \in DOMAIN requests[i] :
                                                    n \in ToSet(members(requests[i][j]))}} :
                               i \in DOMAIN requests}
<1>1. count \in Nat \ {0} /\ DOMAIN requests = 0 .. count - 1
  BY PlannedFacts
<1>2. PICK hash \in Hashes :
        \A i \in 0 .. count - 1 : WholeShard(requests[i], ToSet(MineOf(i, hash)))
  BY PlannedFacts
<1>3. Chosen /\ Listed
  BY DEF PlanInv
<1>4. /\ \A i \in 0 .. count - 1 : ToSet(MineOf(i, hash)) \subseteq ToSet(kept)
      /\ \A n \in ToSet(kept) : \E h \in 0 .. count - 1 : \A i \in 0 .. count - 1 :
           n \in ToSet(MineOf(i, hash)) <=> i = h
  <2>1. kept \in Seq(AllNames) /\ IsInjective(kept) /\ hash \in [AllNames -> Nat]
    BY <1>3, InputsAssumption DEF Listed, AllNames
  <2> DEFINE of(i) == ShardOf(kept, count, hash, i)
  <2>2. \A i : MineOf(i, hash) = of(i)
    BY <1>3, ResolveFacts DEF MineOf, ShardOf
  <2>3. /\ \A i \in 0 .. count - 1 : ToSet(of(i)) \subseteq ToSet(kept)
        /\ \A n \in ToSet(kept) : \E h \in 0 .. count - 1 : \A i \in 0 .. count - 1 :
             n \in ToSet(of(i)) <=> i = h
    <3>1. count \in Nat \ {0}
      BY <1>1
    <3> HIDE DEF count
    <3>2. \A i \in 0 .. count - 1 : ToSet(ShardOf(kept, count, hash, i)) \subseteq ToSet(kept)
      BY <2>1, <3>1, ShardFacts
    <3>3. \A n \in ToSet(kept) : \E h \in 0 .. count - 1 : \A i \in 0 .. count - 1 :
            n \in ToSet(ShardOf(kept, count, hash, i)) <=> i = h
      <4>1. \A n \in ToSet(kept) : InOneShard(n, kept, count, hash)
        BY <2>1, <3>1, ShardFacts
      <4> QED BY <4>1 DEF InOneShard
    <3> QED BY <3>2, <3>3
  <2> HIDE DEF of
  <2> QED BY <2>2, <2>3
<1>5. ASSUME NEW n \in ToSet(kept)
      PROVE  /\ Cardinality(places(n)) = R
             /\ IsStress(target.labels, config) =>
                  {requests[p[1]][p[2]].repeat : p \in places(n)} = 0 .. R - 1
  <2>1. PICK h \in 0 .. count - 1 : \A i \in 0 .. count - 1 : n \in ToSet(MineOf(i, hash)) <=> i = h
    BY <1>4
  <2> DEFINE B == About(requests[h], n)
  <2>2. /\ IsFiniteSet(B) /\ Cardinality(B) = R
        /\ IsStress(target.labels, config) => {requests[h][k].repeat : k \in B} = 0 .. R - 1
    BY <1>2, <2>1 DEF WholeShard
  <2>3. ASSUME NEW i \in 0 .. count - 1, i # h PROVE About(requests[i], n) = {}
    <3>1. n \notin ToSet(MineOf(i, hash))
      BY <2>1, <2>3
    <3>2. \A j \in DOMAIN requests[i] : ToSet(Members(requests[i][j])) \subseteq ToSet(MineOf(i, hash))
      BY <1>2 DEF WholeShard
    <3> QED BY <3>1, <3>2 DEF About
  <2>4. places(n) = UNION {{<<i, k>> : k \in About(requests[i], n)} : i \in DOMAIN requests}
    BY DEF About, Members
  <2>5. places(n) = {h} \X B
    <3>1. ASSUME NEW p PROVE p \in places(n) <=> p \in {h} \X B
      <4>1. p \in places(n) <=>
              \E i \in 0 .. count - 1 : \E k \in About(requests[i], n) : p = <<i, k>>
        BY <1>1, <2>4
      <4>2. p \in {h} \X B <=> \E k \in About(requests[h], n) : p = <<h, k>>
        OBVIOUS
      <4> QED BY <2>1, <2>3, <4>1, <4>2
    <3> HIDE DEF places
    <3> QED BY <3>1
  <2>6. Cardinality({h} \X B) = R
    <3> HIDE DEF B
    <3> DEFINE A == {h}
    <3>1. IsFiniteSet(A) /\ Cardinality(A) = 1
      BY FS_Singleton
    <3> HIDE DEF A
    <3>2. Cardinality(A \X B) = Cardinality(A) * Cardinality(B)
      BY <2>2, <3>1, FS_Product
    <3>3. R \in Nat
      BY <2>2, FS_CardinalityType
    <3> HIDE DEF R
    <3>4. Cardinality(A \X B) = R
      BY <2>2, <3>1, <3>2, <3>3
    <3> QED BY <3>4 DEF A
  <2>7. {requests[p[1]][p[2]].repeat : p \in {h} \X B} = {requests[h][k].repeat : k \in B}
    <3> HIDE DEF B
    <3>1. \A p \in {h} \X B : p[1] = h /\ p[2] \in B
      OBVIOUS
    <3>2. \A k \in B : <<h, k>> \in {h} \X B /\ <<h, k>>[1] = h /\ <<h, k>>[2] = k
      OBVIOUS
    <3>3. \A p \in {h} \X B : \E k \in B : requests[p[1]][p[2]].repeat = requests[h][k].repeat
      BY <3>1
    <3>4. \A k \in B : \E p \in {h} \X B : requests[h][k].repeat = requests[p[1]][p[2]].repeat
      BY <3>2
    <3> DEFINE P == {requests[p[1]][p[2]].repeat : p \in {h} \X B}
               Q == {requests[h][k].repeat : k \in B}
    <3>5. P \subseteq Q
      BY <3>3
    <3>6. Q \subseteq P
      BY <3>4
    <3> HIDE DEF P, Q
    <3>7. P = Q
      BY <3>5, <3>6
    <3> QED BY <3>7 DEF P, Q
  <2> HIDE DEF places, B, R
  <2> QED BY <2>2, <2>5, <2>6, <2>7
<1>6. ASSUME NEW r \in AllRequests
      PROVE  /\ members(r) # <<>> /\ ToSet(members(r)) \subseteq ToSet(kept)
             /\ IsInjective(members(r)) /\ Sized(members(r), config)
  <2>1. PICK i \in 0 .. count - 1 : r \in ToSet(requests[i])
    BY <1>1 DEF AllRequests
  <2>2. PICK j \in DOMAIN requests[i] : r = requests[i][j]
    BY <2>1 DEF ToSet
  <2>3. members(r) = Members(r)
    BY DEF Members
  <2> HIDE DEF members
  <2>4. LET m == Members(requests[i][j])
        IN m # <<>> /\ ToSet(m) \subseteq ToSet(MineOf(i, hash)) /\ IsInjective(m) /\ Sized(m, config)
    BY <1>2 DEF WholeShard
  <2> QED BY <1>4, <2>2, <2>3, <2>4
<1> QED BY <1>5, <1>6 DEF PlannedOnce, Sized

LEMMA PlanHonours == ASSUME PlanInv, stage = "planned" PROVE LabelsHonoured
<1>1. ASSUME NEW r \in AllRequests
      PROVE  \E i \in DOMAIN requests : \E j \in DOMAIN requests[i] :
               Honours(requests[i]) /\ r = requests[i][j]
  <2>1. PICK i \in DOMAIN requests : r \in ToSet(requests[i])
    BY DEF AllRequests
  <2>2. PICK j \in DOMAIN requests[i] : r = requests[i][j]
    BY <2>1 DEF ToSet
  <2>3. Honours(requests[i])
    BY PlannedFacts
  <2> QED BY <2>2, <2>3
<1> QED BY <1>1 DEF LabelsHonoured, Honours

-------------------------------------------------------------------------------
(* What the harness says and what is read.                                   *)

Spoken == {"ok", "failed", "ignored"}
Quiet == {"started", "slow", "noise"}

\* Lines as a run prints them: once the harness gave a test its verdict, neither the harness nor
\* the test says more of it.
Verdict(l) == l.by = "harness" /\ l.event \in Spoken
Account(s) ==
    /\ s \in Seq(Line) /\ \A i \in DOMAIN s : s[i].by = "harness" => s[i].event \in Spoken \cup Quiet
    /\ \A i, j \in DOMAIN s :
          i < j /\ Verdict(s[i]) =>
            s[j].by # s[i].name /\ ~(s[j].by = "harness" /\ s[j].name = s[i].name)

LEMMA TwoAre == ASSUME NEW U, NEW s \in Seq(U), Len(s) = 2 PROVE s = <<s[1], s[2]>>
  OBVIOUS

LEMMA ThreeAre == ASSUME NEW U, NEW s \in Seq(U), Len(s) = 3 PROVE s = <<s[1], s[2], s[3]>>
  OBVIOUS

LEMMA JoinedAt ==
    ASSUME NEW U, NEW a \in Seq(U), NEW b \in Seq(U)
    PROVE  \A i \in DOMAIN (a \o b) : \/ i \in DOMAIN a /\ (a \o b)[i] = a[i]
                                      \/ i - Len(a) \in DOMAIN b /\ (a \o b)[i] = b[i - Len(a)]
  OBVIOUS

LEMMA LinesOfFacts ==
    ASSUME NEW n \in Names, NEW ignored \in BOOLEAN, NEW outcome, NEW meanwhile, NEW garbled,
           ~ignored => outcome[n] \in {"ok", "failed"} /\ meanwhile[n] \in Seq(Event \cup {Notice})
    PROVE  LET w == LinesOf(n, ignored, outcome, meanwhile, garbled)
           IN /\ Account(w)
              /\ \A i \in DOMAIN w : w[i].by = n \/ (w[i].by = "harness" /\ w[i].name = n)
<1> DEFINE w == LinesOf(n, ignored, outcome, meanwhile, garbled)
           say(e) == [name |-> n, event |-> e, by |-> "harness"]
           heard(e) == IF e = Notice THEN say("slow")
                       ELSE [name |-> e.name, event |-> e.event, by |-> n]
           talk == [i \in DOMAIN meanwhile[n] |-> heard(meanwhile[n][i])]
           last == IF n \in garbled THEN "noise" ELSE outcome[n]
           Mine(l) == l.by = n \/ (l.by = "harness" /\ l.name = n /\ l.event \in Spoken \cup Quiet)
           L == {l \in Line : Mine(l) /\ ~Verdict(l)}
           Good(x) == /\ Account(x)
                      /\ \A i \in DOMAIN x : x[i].by = n \/ (x[i].by = "harness" /\ x[i].name = n)
<1>1. \A e \in Spoken \cup Quiet : say(e) \in Line /\ Mine(say(e))
  BY DEF Spoken, Quiet, Line
<1>2. \A e \in Quiet : say(e) \in L
  BY <1>1 DEF Spoken, Quiet, Verdict
<1>3. \A e \in Event \cup {Notice} : heard(e) \in L
  <2>1. ASSUME NEW e \in Event \cup {Notice}, e = Notice PROVE heard(e) \in L
    BY <1>2, <2>1 DEF Quiet
  <2>2. ASSUME NEW e \in Event \cup {Notice}, e # Notice PROVE heard(e) \in L
    <3> DEFINE h == [name |-> e.name, event |-> e.event, by |-> n]
    <3>1. e \in Event
      BY <2>2
    <3>2. h \in Line
      BY <3>1 DEF Event, Line
    <3>3. h.by = n /\ n # "harness"
      BY InputsAssumption
    <3>4. h \in L
      <4> HIDE DEF h
      <4> QED BY <3>2, <3>3 DEF Verdict
    <3> QED BY <2>2, <3>4
  <2> QED BY <2>1, <2>2
<1>4. ASSUME NEW u \in Seq(L), NEW l \in Line, Mine(l), w = u \o <<l>>
      PROVE  Good(w)
  <2> HIDE DEF w, Mine
  <2>1. u \in Seq(Line) /\ \A i \in DOMAIN u : Mine(u[i]) /\ ~Verdict(u[i])
    <3>1. \A i \in DOMAIN u : u[i] \in L
      OBVIOUS
    <3>2. L \subseteq Line
      OBVIOUS
    <3> HIDE DEF L
    <3>3. u \in Seq(Line)
      BY <3>2
    <3> QED BY <3>1, <3>3 DEF L
  <2>2. /\ w \in Seq(Line) /\ DOMAIN w = 1 .. Len(u) + 1 /\ Len(u) \in Nat /\ DOMAIN u = 1 .. Len(u)
        /\ \A i \in DOMAIN w : w[i] = IF i \in DOMAIN u THEN u[i] ELSE l
    BY <1>4, <2>1
  <2>3. \A i \in DOMAIN w : Mine(w[i])
    BY <1>4, <2>1, <2>2
  <2>4. ASSUME NEW i \in DOMAIN w, NEW j \in DOMAIN w, i < j PROVE ~Verdict(w[i])
    <3>1. i \in DOMAIN u
      BY <2>2, <2>4
    <3> QED BY <2>1, <2>2, <3>1
  <2>5. \A i \in DOMAIN w : /\ w[i].by = "harness" => w[i].event \in Spoken \cup Quiet
                            /\ w[i].by = n \/ (w[i].by = "harness" /\ w[i].name = n)
    BY <2>3, InputsAssumption DEF Mine
  <2>6. Account(w)
    BY <2>2, <2>4, <2>5 DEF Account
  <2> QED BY <2>5, <2>6
<1>5. ASSUME ignored PROVE Good(w)
  <2> DEFINE u == <<>>
  <2>1. w = <<say("ignored")>>
    BY <1>5 DEF LinesOf
  <2> DEFINE l == say("ignored")
  <2>2. l \in Line /\ Mine(l)
    BY <1>1 DEF Spoken
  <2>3. u \in Seq(L) /\ w = u \o <<l>>
    <3>1. w = <<l>>
      BY <2>1
    <3> HIDE DEF w, l, L
    <3> QED BY <3>1
  <2> HIDE DEF u, l, w, L, Mine, Good
  <2> QED BY <1>4, <2>2, <2>3
<1>6. ASSUME ~ignored PROVE Good(w)
  <2> DEFINE u == <<say("started")>> \o talk
             l == say(last)
  <2>1. w = u \o <<l>>
    BY <1>6 DEF LinesOf
  <2>2. last \in Spoken \cup Quiet
    BY <1>6 DEF Spoken, Quiet
  <2>3. l \in Line /\ Mine(l)
    BY <1>1, <2>2
  <2>4. say("started") \in L
    BY <1>2 DEF Quiet
  <2>5. talk \in Seq(L)
    <3>1. meanwhile[n] \in Seq(Event \cup {Notice})
      BY <1>6
    <3> DEFINE t == meanwhile[n]
               E == Event \cup {Notice}
    <3>2. t \in Seq(E) /\ \A i \in DOMAIN t : heard(t[i]) \in L
      BY <1>3, <3>1
    <3> HIDE DEF t, E, heard, L
    <3>3. [i \in DOMAIN t |-> heard(t[i])] \in Seq(L)
      BY <3>2
    <3> QED BY <3>3 DEF t
  <2> HIDE DEF talk, say, L, last
  <2>6. u \in Seq(L)
    BY <2>4, <2>5
  <2> HIDE DEF u, w, l, Mine, Good
  <2> QED BY <1>4, <2>1, <2>3, <2>6
<1> QED BY <1>5, <1>6

LEMMA AccountJoined ==
    ASSUME NEW a, NEW b, Account(a), Account(b),
           \A i \in DOMAIN a, j \in DOMAIN b :
              Verdict(a[i]) =>
                b[j].by # a[i].name /\ ~(b[j].by = "harness" /\ b[j].name = a[i].name)
    PROVE  Account(a \o b)
<1> DEFINE c == a \o b
<1>1. a \in Seq(Line) /\ b \in Seq(Line)
  BY DEF Account
<1>2. /\ c \in Seq(Line) /\ DOMAIN a = 1 .. Len(a) /\ DOMAIN b = 1 .. Len(b)
      /\ Len(a) \in Nat /\ Len(b) \in Nat /\ DOMAIN c = 1 .. Len(a) + Len(b)
      /\ \A i \in DOMAIN c : c[i] = IF i <= Len(a) THEN a[i] ELSE b[i - Len(a)]
  BY <1>1
<1> HIDE DEF c
<1>3. \A i \in DOMAIN c : \/ i \in DOMAIN a /\ c[i] = a[i]
                          \/ i - Len(a) \in DOMAIN b /\ i > Len(a) /\ c[i] = b[i - Len(a)]
  BY <1>2
<1>4. \A i \in DOMAIN c : c[i].by = "harness" => c[i].event \in Spoken \cup Quiet
  BY <1>3 DEF Account
<1>5. ASSUME NEW i \in DOMAIN c, NEW j \in DOMAIN c, i < j, Verdict(c[i])
      PROVE  c[j].by # c[i].name /\ ~(c[j].by = "harness" /\ c[j].name = c[i].name)
  <2>1. CASE j \in DOMAIN a /\ c[j] = a[j]
    <3>1. i \in DOMAIN a /\ c[i] = a[i]
      BY <1>2, <1>5, <2>1
    <3> QED BY <1>5, <2>1, <3>1 DEF Account
  <2>2. CASE j - Len(a) \in DOMAIN b /\ c[j] = b[j - Len(a)] /\ i \in DOMAIN a /\ c[i] = a[i]
    BY <1>5, <2>2
  <2>3. CASE j - Len(a) \in DOMAIN b /\ c[j] = b[j - Len(a)]
             /\ i - Len(a) \in DOMAIN b /\ c[i] = b[i - Len(a)]
    <3>1. i - Len(a) < j - Len(a)
      BY <1>2, <1>5
    <3> QED BY <1>5, <2>3, <3>1 DEF Account
  <2> QED BY <1>3, <2>1, <2>2, <2>3
<1> QED BY <1>2, <1>4, <1>5 DEF Account, c

\* Printed goes through the tests one by one.
Prints(g, order, ran, outcome, meanwhile, garbled) ==
    /\ g[0] = <<>> /\ g[Len(order)] = Printed(order, ran, outcome, meanwhile, garbled)
    /\ \A k \in 0 .. Len(order) - 1 :
          g[k + 1] = g[k] \o LinesOf(order[k + 1], order[k + 1] \notin ran, outcome, meanwhile, garbled)

LEMMA PrintSteps ==
    ASSUME NEW order \in Seq(Names), NEW ran, NEW outcome \in [ran -> {"ok", "failed"}],
           NEW meanwhile \in [ran -> Meanwhile], NEW garbled
    PROVE  \E g \in [0 .. Len(order) -> Seq(Line)] : Prints(g, order, ran, outcome, meanwhile, garbled)
<1> DEFINE n == Len(order)
           V == Seq(Line)
           nil == <<>>
           op(a, k) == a \o LinesOf(order[k], order[k] \notin ran, outcome, meanwhile, garbled)
           Folds(it) == it = [t \in SUBSET (1 .. n) |->
                                IF t = {} THEN nil ELSE op(it[t \ {Greatest(t)}], Greatest(t))]
           iter == CHOOSE it : Folds(it)
           f == [p \in V \X (1 .. n) |-> op(p[1], p[2])]
<1>1. n \in Nat /\ DOMAIN order = 1 .. n /\ (\A k \in 1 .. n : order[k] \in Names) /\ nil \in V
  OBVIOUS
<1>2. Printed(order, ran, outcome, meanwhile, garbled) = iter[1 .. n]
  BY <1>1 DEF Printed, FoldLeft, MapThenFoldSet, Max, Greatest
<1>3. \A a \in V, k \in 1 .. n : op(a, k) \in V
  <2>1. ASSUME NEW k \in 1 .. n
        PROVE  LinesOf(order[k], order[k] \notin ran, outcome, meanwhile, garbled) \in V
    <3> DEFINE x == order[k]
    <3>1. x \in Names /\ (x \in ran => /\ outcome[x] \in {"ok", "failed"}
                                       /\ meanwhile[x] \in Seq(Event \cup {Notice}))
      <4>1. x \in Names
        BY <1>1
      <4>2. x \in ran => outcome[x] \in {"ok", "failed"} /\ meanwhile[x] \in Meanwhile
        OBVIOUS
      <4>3. Meanwhile \subseteq Seq(Event \cup {Notice})
        BY InputsAssumption
      <4> QED BY <4>1, <4>2, <4>3
    <3>2. Account(LinesOf(order[k], order[k] \notin ran, outcome, meanwhile, garbled))
      BY <3>1, LinesOfFacts
    <3> QED BY <3>2 DEF Account
  <2> QED BY <2>1
<1> HIDE DEF n, V, nil, op
<1>4. f \in [V \X (1 .. n) -> V]
  BY <1>3
<1>5. \A a \in V, k \in 1 .. n : f[<<a, k>>] = op(a, k)
  BY <1>3
<1> HIDE DEF f
<1>6. \E it : Folds(it)
  <2>1. PICK it \in [SUBSET (1 .. n) -> V] : Typed(it, n, V, nil, f)
    BY <1>1, <1>4, TypedIterates
  <2>2. \A t \in SUBSET (1 .. n) :
          it[t] = IF t = {} THEN nil ELSE op(it[t \ {Greatest(t)}], Greatest(t))
    BY <1>5, <2>1 DEF Typed
  <2> QED BY <2>2
<1>7. Folds(iter)
  BY <1>6
<1> HIDE DEF iter
<1>8. StepsAs(iter, n, V, nil, f)
  BY <1>1, <1>5, <1>7, GreatestIsThere DEF StepsAs
<1>9. PICK g \in [0 .. n -> V] : Chain(g, n, nil, f, iter[1 .. n])
  BY <1>1, <1>4, <1>8, FoldChain
<1>10. \A k \in 0 .. n - 1 : g[k + 1] = op(g[k], k + 1)
  <2>1. \A k \in 0 .. n - 1 : k \in 0 .. n /\ k + 1 \in 1 .. n
    BY <1>1
  <2>2. \A k \in 0 .. n - 1 : g[k] \in V /\ g[k + 1] = f[<<g[k], k + 1>>]
    BY <1>9, <2>1 DEF Chain
  <2> QED BY <1>5, <2>1, <2>2
<1> QED BY <1>2, <1>9, <1>10 DEF n, V, nil, op, Chain, Prints

LEMMA PrintedFacts ==
    ASSUME NEW order \in Seq(Names), IsInjective(order), NEW ran,
           NEW outcome \in [ran -> {"ok", "failed"}], NEW meanwhile \in [ran -> Meanwhile], NEW garbled
    PROVE  Account(Printed(order, ran, outcome, meanwhile, garbled))
<1> DEFINE n == Len(order)
<1>1. PICK g \in [0 .. n -> Seq(Line)] : Prints(g, order, ran, outcome, meanwhile, garbled)
  BY PrintSteps
<1>2. /\ g[0] = <<>> /\ g[n] = Printed(order, ran, outcome, meanwhile, garbled)
      /\ \A k \in 0 .. n - 1 :
            g[k + 1] = g[k] \o LinesOf(order[k + 1], order[k + 1] \notin ran, outcome, meanwhile, garbled)
  BY <1>1 DEF Prints
<1>3. n \in Nat
  OBVIOUS
<1> HIDE DEF n
<1> DEFINE T == {k \in 0 .. n : /\ Account(g[k])
                                /\ \A i \in DOMAIN g[k] :
                                      g[k][i].by = "harness" => g[k][i].name \in Firsts(order, k)}
<1>4. 0 \in T
  <2>1. Account(<<>>) /\ DOMAIN <<>> = {}
    BY DEF Account
  <2> QED BY <1>2, <1>3, <2>1
<1>5. ASSUME NEW k \in 0 .. n - 1, k \in T PROVE k + 1 \in T
  <2> DEFINE x == order[k + 1]
             w == LinesOf(x, x \notin ran, outcome, meanwhile, garbled)
  <2>1. /\ x \in Names /\ k \in 0 .. n /\ k + 1 \in 0 .. n
        /\ Firsts(order, k + 1) = Firsts(order, k) \cup {x} /\ x \notin Firsts(order, k)
    BY <1>3, FirstsFacts DEF n
  <2>2. x \in ran => /\ outcome[x] \in {"ok", "failed"}
                     /\ meanwhile[x] \in Seq(Event \cup {Notice})
    <3>1. x \in ran => outcome[x] \in {"ok", "failed"} /\ meanwhile[x] \in Meanwhile
      OBVIOUS
    <3>2. Meanwhile \subseteq Seq(Event \cup {Notice})
      BY InputsAssumption
    <3> QED BY <3>1, <3>2
  <2>3. g[k + 1] = g[k] \o w /\ g[k] \in Seq(Line) /\ Account(g[k])
        /\ \A i \in DOMAIN g[k] : g[k][i].by = "harness" => g[k][i].name \in Firsts(order, k)
    BY <1>2, <1>5, <2>1
  <2> HIDE DEF x
  <2>4. Account(w) /\ \A i \in DOMAIN w : w[i].by = x \/ (w[i].by = "harness" /\ w[i].name = x)
    <3> DEFINE ignored == x \notin ran
    <3>1. /\ ignored \in BOOLEAN
          /\ ~ignored => /\ outcome[x] \in {"ok", "failed"}
                         /\ meanwhile[x] \in Seq(Event \cup {Notice})
      BY <2>2
    <3>2. w = LinesOf(x, ignored, outcome, meanwhile, garbled)
      OBVIOUS
    <3> HIDE DEF ignored, w
    <3> QED BY <2>1, <3>1, <3>2, LinesOfFacts
  <2> HIDE DEF w
  <2>5. \A i \in DOMAIN g[k], j \in DOMAIN w :
           Verdict(g[k][i]) =>
             w[j].by # g[k][i].name /\ ~(w[j].by = "harness" /\ w[j].name = g[k][i].name)
    <3>1. \A i \in DOMAIN g[k] : g[k][i] \in Line
      BY <2>3
    <3>2. "harness" \notin Names
      BY InputsAssumption
    <3>3. ASSUME NEW i \in DOMAIN g[k], NEW j \in DOMAIN w, Verdict(g[k][i])
          PROVE  /\ w[j].by # g[k][i].name
                 /\ ~(w[j].by = "harness" /\ w[j].name = g[k][i].name)
      <4>1. g[k][i].name \in Names
        BY <3>1 DEF Line
      <4>2. g[k][i].name \in Firsts(order, k)
        BY <2>3, <3>3 DEF Verdict
      <4>3. g[k][i].name # x
        BY <2>1, <4>2
      <4>4. x # "harness"
        BY <2>1, <3>2
      <4> QED BY <2>4, <3>2, <4>1, <4>3, <4>4
    <3> QED BY <3>3
  <2>6. Account(g[k + 1])
    BY <2>3, <2>4, <2>5, AccountJoined
  <2>7. \A i \in DOMAIN g[k + 1] :
           g[k + 1][i].by = "harness" => g[k + 1][i].name \in Firsts(order, k + 1)
    <3>1. w \in Seq(Line)
      BY <2>4 DEF Account
    <3>2. ASSUME NEW i \in DOMAIN (g[k] \o w)
          PROVE  \/ i \in DOMAIN g[k] /\ (g[k] \o w)[i] = g[k][i]
                 \/ i - Len(g[k]) \in DOMAIN w /\ (g[k] \o w)[i] = w[i - Len(g[k])]
      <4>1. g[k] \in Seq(Line)
        BY <2>3
      <4> QED BY <3>1, <4>1, JoinedAt
    <3>3. x # "harness"
      BY <2>1, InputsAssumption
    <3> QED BY <2>1, <2>3, <2>4, <3>2, <3>3
  <2> QED BY <2>1, <2>6, <2>7
<1> HIDE DEF T
<1>6. n \in T
  <2>1. \A k \in 0 .. n : k \in T
    BY <1>3, <1>4, <1>5, UpTo
  <2> QED BY <1>3, <2>1
<1> QED BY <1>2, <1>6 DEF T

Readings == {"none", "PASS", "FAIL", "SKIP", "FATAL"}

\* What a line makes of what was read before it.
Reading(format, seen, l) ==
    IF Reads(format, l.event) = "none" THEN seen ELSE [seen EXCEPT ![l.name] = Reads(format, l.event)]

\* Decode goes through the lines one by one.
Decodes(g, format, lines) ==
    /\ g[0] = [n \in Names |-> "none"] /\ g[Len(lines)] = Decode(format, lines)
    /\ \A k \in 0 .. Len(lines) - 1 : g[k + 1] = Reading(format, g[k], lines[k + 1])

LEMMA DecodeSteps ==
    ASSUME NEW format, NEW lines \in Seq(Line)
    PROVE  \E g \in [0 .. Len(lines) -> [Names -> Readings]] : Decodes(g, format, lines)
<1> DEFINE n == Len(lines)
           V == [Names -> Readings]
           nil == [x \in Names |-> "none"]
           op(a, k) == Reading(format, a, lines[k])
           Folds(it) == it = [t \in SUBSET (1 .. n) |->
                                IF t = {} THEN nil ELSE op(it[t \ {Greatest(t)}], Greatest(t))]
           iter == CHOOSE it : Folds(it)
           f == [p \in V \X (1 .. n) |-> op(p[1], p[2])]
<1>1. n \in Nat /\ DOMAIN lines = 1 .. n /\ (\A k \in 1 .. n : lines[k] \in Line) /\ nil \in V
  BY DEF Readings
<1>2. Decode(format, lines) = iter[1 .. n]
  BY <1>1 DEF Decode, Reading, FoldLeft, MapThenFoldSet, Max, Greatest
<1>3. \A a \in V, k \in 1 .. n : op(a, k) \in V
  <2>1. \A e : Reads(format, e) \in Readings
    BY DEF Reads, Readings
  <2> QED BY <2>1 DEF Reading
<1> HIDE DEF n, V, nil, op
<1>4. f \in [V \X (1 .. n) -> V]
  BY <1>3
<1>5. \A a \in V, k \in 1 .. n : f[<<a, k>>] = op(a, k)
  BY <1>3
<1> HIDE DEF f
<1>6. \E it : Folds(it)
  <2>1. PICK it \in [SUBSET (1 .. n) -> V] : Typed(it, n, V, nil, f)
    BY <1>1, <1>4, TypedIterates
  <2>2. \A t \in SUBSET (1 .. n) :
          it[t] = IF t = {} THEN nil ELSE op(it[t \ {Greatest(t)}], Greatest(t))
    BY <1>5, <2>1 DEF Typed
  <2> QED BY <2>2
<1>7. Folds(iter)
  BY <1>6
<1> HIDE DEF iter
<1>8. StepsAs(iter, n, V, nil, f)
  BY <1>1, <1>5, <1>7, GreatestIsThere DEF StepsAs
<1>9. PICK g \in [0 .. n -> V] : Chain(g, n, nil, f, iter[1 .. n])
  BY <1>1, <1>4, <1>8, FoldChain
<1>10. \A k \in 0 .. n - 1 : g[k + 1] = op(g[k], k + 1)
  <2>1. \A k \in 0 .. n - 1 : k \in 0 .. n /\ k + 1 \in 1 .. n
    BY <1>1
  <2>2. \A k \in 0 .. n - 1 : g[k] \in V /\ g[k + 1] = f[<<g[k], k + 1>>]
    BY <1>9, <2>1 DEF Chain
  <2> QED BY <1>5, <2>1, <2>2
<1> QED BY <1>2, <1>9, <1>10 DEF n, V, nil, op, Chain, Decodes

\* An account is read as the harness says of a test that nobody else speaks of: its verdict if it
\* has one; and no verdict, if the test itself has not printed one either.
LEMMA DecodeFacts ==
    ASSUME NEW format, NEW s, Account(s), NEW n \in Names,
           \A i \in DOMAIN s :
              s[i].name = n /\ Reads(format, s[i].event) # "none" => s[i].by \in {n, "harness"}
    PROVE  LET v == Decode(format, s)[n]
               about == {i \in DOMAIN s : s[i].name = n /\ Verdict(s[i])}
               silent == \A i \in DOMAIN s :
                           s[i].name = n /\ s[i].by = n => Reads(format, s[i].event) = "none"
           IN \/ about = {} /\ (silent => v \in {"none", "FATAL"})
              \/ \E i \in about : about = {i} /\ v = Reads(format, s[i].event)
<1> DEFINE m == Len(s)
           Tells(k) == {i \in 1 .. k : s[i].name = n /\ Verdict(s[i])}
           silent == \A i \in DOMAIN s :
                       s[i].name = n /\ s[i].by = n => Reads(format, s[i].event) = "none"
<1>1. /\ s \in Seq(Line)
      /\ \A i \in DOMAIN s : s[i].by = "harness" => s[i].event \in Spoken \cup Quiet
      /\ \A i, j \in DOMAIN s :
            i < j /\ Verdict(s[i]) =>
              s[j].by # s[i].name /\ ~(s[j].by = "harness" /\ s[j].name = s[i].name)
  BY DEF Account
<1>2. PICK g \in [0 .. m -> [Names -> Readings]] : Decodes(g, format, s)
  BY <1>1, DecodeSteps
<1>3. /\ m \in Nat /\ DOMAIN s = 1 .. m /\ g[0] = [x \in Names |-> "none"] /\ g[m] = Decode(format, s)
      /\ \A k \in 0 .. m - 1 : g[k + 1] = Reading(format, g[k], s[k + 1])
  BY <1>1, <1>2 DEF Decodes
<1> HIDE DEF m
<1> DEFINE Right(k) == \/ Tells(k) = {} /\ (silent => g[k][n] \in {"none", "FATAL"})
                       \/ \E i \in Tells(k) : Tells(k) = {i} /\ g[k][n] = Reads(format, s[i].event)
           T == {k \in 0 .. m : Right(k)}
<1>4. 0 \in T
  <2>1. Tells(0) = {}
    OBVIOUS
  <2> QED BY <1>3, <2>1
<1>5. ASSUME NEW k \in 0 .. m - 1, k \in T PROVE k + 1 \in T
  <2> DEFINE l == s[k + 1]
             r == Reads(format, l.event)
  <2>1. /\ k \in 0 .. m /\ k + 1 \in 0 .. m /\ k + 1 \in DOMAIN s /\ l \in Line /\ Right(k)
        /\ g[k] \in [Names -> Readings] /\ l.name \in Names
        /\ l.by = "harness" => l.event \in Spoken \cup Quiet
        /\ g[k + 1] = IF r = "none" THEN g[k] ELSE [g[k] EXCEPT ![l.name] = r]
    <3>1. k \in 0 .. m /\ k + 1 \in 0 .. m /\ k + 1 \in DOMAIN s /\ Right(k)
      <4>1. m \in Nat /\ DOMAIN s = 1 .. m
        BY <1>3
      <4>2. k \in 0 .. m /\ k + 1 \in 0 .. m /\ k + 1 \in 1 .. m
        BY <4>1
      <4>3. Right(k)
        BY <1>5
      <4> QED BY <4>1, <4>2, <4>3
    <3>2. g[k] \in [Names -> Readings]
      BY <1>2, <3>1
    <3>3. l \in Line /\ (l.by = "harness" => l.event \in Spoken \cup Quiet)
      BY <1>1, <3>1
    <3>4. l.name \in Names
      BY <3>3 DEF Line
    <3>5. g[k + 1] = IF r = "none" THEN g[k] ELSE [g[k] EXCEPT ![l.name] = r]
      BY <1>3 DEF Reading
    <3> QED BY <3>1, <3>2, <3>3, <3>4, <3>5
  <2>2. l.event \in Quiet => r \in {"none", "FATAL"}
    BY DEF Reads, Quiet
  <2>3. Verdict(l) => r # "none"
    BY DEF Reads, Spoken, Verdict
  <2>4. l.name = n /\ r # "none" => l.by \in {n, "harness"}
    BY <2>1
  <2>5. l.name = n /\ r # "none" => Tells(k) = {}
    <3>1. ASSUME l.name = n, r # "none", NEW i \in Tells(k) PROVE FALSE
      <4>1. i \in DOMAIN s /\ i < k + 1 /\ s[i].name = n /\ Verdict(s[i])
        BY <1>3, <2>1, <3>1
      <4>2. l.by # n /\ l.by # "harness"
        BY <1>1, <2>1, <3>1, <4>1
      <4> QED BY <2>4, <3>1, <4>2
    <3> QED BY <3>1
  <2>6. Tells(k + 1) = IF l.name = n /\ Verdict(l) THEN Tells(k) \cup {k + 1} ELSE Tells(k)
    <3>1. \A i : i \in 1 .. k + 1 <=> i \in 1 .. k \/ i = k + 1
      BY <2>1
    <3> QED BY <3>1
  <2>7. l.name = n /\ r # "none" /\ l.by = n => ~silent
    BY <2>1
  <2> HIDE DEF r, silent
  <2>8. CASE l.name # n \/ r = "none"
    <3>1. g[k + 1][n] = g[k][n] /\ Tells(k + 1) = Tells(k)
      BY <2>1, <2>3, <2>6, <2>8
    <3> QED BY <2>1, <3>1
  <2>9. CASE l.name = n /\ r # "none" /\ ~Verdict(l)
    <3>1. Tells(k + 1) = {} /\ g[k + 1][n] = r
      BY <2>1, <2>5, <2>6, <2>9
    <3>2. l.by = n \/ l.event \in Quiet
      BY <2>1, <2>4, <2>9 DEF Verdict
    <3>3. silent => r \in {"none", "FATAL"}
      BY <2>2, <2>7, <2>9, <3>2
    <3> QED BY <2>1, <3>1, <3>3
  <2>10. CASE l.name = n /\ Verdict(l)
    <3>1. Tells(k + 1) = {k + 1} /\ g[k + 1][n] = r
      BY <2>1, <2>3, <2>5, <2>6, <2>10
    <3>2. Right(k + 1)
      BY <3>1 DEF r
    <3> QED BY <2>1, <3>2
  <2> QED BY <2>8, <2>9, <2>10
<1>6. m \in T
  <2> HIDE DEF T
  <2>1. \A k \in 0 .. m : k \in T
    BY <1>3, <1>4, <1>5, UpTo
  <2> QED BY <1>3, <2>1
<1>7. Right(m)
  BY <1>6
<1> QED BY <1>3, <1>7

LEMMA AccountCut ==
    ASSUME NEW s, Account(s), NEW cut \in 0 .. Len(s)
    PROVE  Account(SubSeq(s, 1, cut))
<1> DEFINE c == SubSeq(s, 1, cut)
<1>1. s \in Seq(Line)
  BY DEF Account
<1>2. c \in Seq(Line) /\ \A i \in DOMAIN c : i \in DOMAIN s /\ c[i] = s[i]
  BY <1>1
<1> HIDE DEF c
<1> QED BY <1>2 DEF Account, c

LEMMA ExecutedIsRead ==
    ASSUME NEW r, Execute(r)
    PROVE  DecodesHarness'
<1> DEFINE reported == {t.name : t \in HarnessSelects(r.words, suite)}
           ran == {t.name : t \in HarnessRuns(r.words, suite)}
<1>1. PICK outcome \in [ran -> {"ok", "failed"}], meanwhile \in [ran -> Meanwhile],
           garbled \in SUBSET ran :
        LET full == Printed(Keep(NameOrder, reported), ran, outcome, meanwhile, garbled)
        IN \E cut \in 0 .. Len(full) :
            LET lines == SubSeq(full, 1, cut)
            IN run' = [batch |-> r.batch, format |-> r.format, decoded |-> Decode(r.format, lines),
                       truth |-> [n \in Names |-> Told(lines, n)],
                       voices |-> [n \in Names |-> Voices(r.format, lines, n)]]
  BY Zenon DEF Execute
<1> HIDE DEF reported, ran
<1> DEFINE full == Printed(Keep(NameOrder, reported), ran, outcome, meanwhile, garbled)
           format == r.format
<1>2. Account(full)
  BY InputsAssumption, KeepFacts, PrintedFacts
<1> HIDE DEF full
<1>3. PICK cut \in 0 .. Len(full) :
        LET lines == SubSeq(full, 1, cut)
        IN run' = [batch |-> r.batch, format |-> r.format, decoded |-> Decode(r.format, lines),
                   truth |-> [n \in Names |-> Told(lines, n)],
                   voices |-> [n \in Names |-> Voices(r.format, lines, n)]]
  BY <1>1, Zenon DEF full
<1> DEFINE s == SubSeq(full, 1, cut)
<1>4. Account(s)
  BY <1>2, AccountCut
<1>5. /\ run'.decoded = Decode(format, s) /\ run'.truth = [n \in Names |-> Told(s, n)]
      /\ run'.voices = [n \in Names |-> Voices(format, s, n)]
  BY <1>3
<1> HIDE DEF s, format
<1>6. ASSUME NEW n \in Names, run'.voices[n] \subseteq {n}
      PROVE  \/ run'.truth[n] = {}
                /\ (run'.voices[n] = {} => run'.decoded[n] \in {"none", "FATAL"})
             \/ run'.truth[n] = {"ok"} /\ run'.decoded[n] = "PASS"
             \/ run'.truth[n] = {"failed"} /\ run'.decoded[n] = "FAIL"
             \/ run'.truth[n] = {"ignored"} /\ run'.decoded[n] = "SKIP"
  <2> DEFINE about == {i \in DOMAIN s : s[i].name = n /\ Verdict(s[i])}
             silent == \A i \in DOMAIN s :
                         s[i].name = n /\ s[i].by = n => Reads(format, s[i].event) = "none"
  <2>1. \A v : v \in run'.voices[n] <=>
          /\ v # "harness"
          /\ \E i \in DOMAIN s : v = s[i].by /\ s[i].name = n /\ Reads(format, s[i].event) # "none"
    BY <1>5 DEF Voices, ToSet
  <2>2. \A i \in DOMAIN s :
           s[i].name = n /\ Reads(format, s[i].event) # "none" => s[i].by \in {n, "harness"}
    BY <1>6, <2>1
  <2>3. run'.voices[n] = {} => silent
    <3>1. n # "harness"
      BY InputsAssumption
    <3> QED BY <2>1, <3>1
  <2>4. run'.truth[n] = {s[i].event : i \in about}
    <3>1. \A e \in Spoken \cup Quiet : e \in Spoken <=> e \notin {"started", "slow", "noise"}
      BY DEF Spoken, Quiet
    <3>2. \A i \in DOMAIN s : s[i].by = "harness" => s[i].event \in Spoken \cup Quiet
      BY <1>4 DEF Account
    <3> HIDE DEF Spoken
    <3>3. Told(s, n) = {s[i].event : i \in about}
      BY <3>1, <3>2 DEF ToSet, Told, Verdict
    <3> QED BY <1>5, <3>3
  <2>5. \/ about = {} /\ (silent => run'.decoded[n] \in {"none", "FATAL"})
        \/ \E i \in about : about = {i} /\ run'.decoded[n] = Reads(format, s[i].event)
    BY <1>4, <1>5, <2>2, DecodeFacts
  <2> HIDE DEF silent
  <2>6. CASE about = {} /\ (silent => run'.decoded[n] \in {"none", "FATAL"})
    BY <2>3, <2>4, <2>6
  <2>7. CASE \E i \in about : about = {i} /\ run'.decoded[n] = Reads(format, s[i].event)
    <3>1. PICK i \in about : about = {i} /\ run'.decoded[n] = Reads(format, s[i].event)
      BY <2>7
    <3>2. run'.truth[n] = {s[i].event} /\ s[i].event \in {"ok", "failed", "ignored"}
      BY <2>4, <3>1 DEF Spoken, Verdict
    <3> QED BY <3>1, <3>2 DEF Reads
  <2> QED BY <2>5, <2>6, <2>7
<1>7. {"ok"} # {"failed"} /\ {"ok"} # {"ignored"} /\ {"failed"} # {"ignored"}
      /\ \A e : {e} # {}
  OBVIOUS
<1> QED BY <1>6, <1>7 DEF DecodesHarness

-------------------------------------------------------------------------------
(* Words: a step of the harness, and what it makes of one word more.         *)

\* The words that quokka itself says, or goes by.  (They are strings, which tlapm cannot know.)
OwnWords ==
    {"", "pretty", "json", "--list", "--exact", "--test-threads", "1", "--color", "never",
     "--include-ignored", "--ignored", "-Z", "unstable-options", "--format", "--skip", "--filter",
     "--logfile", "--shuffle-seed", "--exclude-should-panic", "only", "include", "terse"}
Word == STRING \cup Names \cup OwnWords
HarnessState ==
    [filters : SUBSET Word, skips : SUBSET Word, flags : Seq(Word), format : Word,
     unstable : BOOLEAN, awaits : Word, literal : BOOLEAN]

TakesValue(h, flag, w) ==
    CASE flag = "--skip" -> [h EXCEPT !.skips = @ \cup {w}]
      [] flag = "-Z" -> [h EXCEPT !.unstable = @ \/ w = "unstable-options"]
      [] flag = "--format" -> [h EXCEPT !.format = w, !.flags = Append(@, flag)]
      [] OTHER -> [h EXCEPT !.flags = Append(@, flag)]

Takes(h, w) ==
    IF h.literal \/ (h.awaits = "" /\ w \in Patterns)
    THEN [h EXCEPT !.filters = @ \cup {w}]
    ELSE IF h.awaits # "" THEN TakesValue([h EXCEPT !.awaits = ""], h.awaits, w)
    ELSE IF w \in ValuedFlags THEN [h EXCEPT !.awaits = w]
    ELSE IF w = "--" THEN [h EXCEPT !.literal = TRUE]
    ELSE [h EXCEPT !.flags = Append(@, w)]

LEMMA TakesType ==
    ASSUME NEW h \in HarnessState, NEW w \in Word
    PROVE  Takes(h, w) \in HarnessState
<1>0. ASSUME NEW g \in HarnessState, NEW flag \in Word
      PROVE  [g EXCEPT !.flags = Append(@, flag)] \in HarnessState
  <2>1. g.flags \in Seq(Word)
    BY DEF HarnessState
  <2>2. Append(g.flags, flag) \in Seq(Word)
    BY <2>1
  <2> HIDE DEF Word
  <2> QED BY <2>2 DEF HarnessState
<1>1. ASSUME NEW g \in HarnessState, NEW flag \in Word
      PROVE  TakesValue(g, flag, w) \in HarnessState
  <2>1. CASE flag = "--skip"
    BY <1>1, <2>1 DEF TakesValue, HarnessState
  <2>2. CASE flag = "-Z"
    BY <1>1, <2>2 DEF TakesValue, HarnessState
  <2>3. CASE flag = "--format"
    <3>1. [g EXCEPT !.format = w] \in HarnessState
      BY DEF HarnessState
    <3>2. TakesValue(g, flag, w) = [[g EXCEPT !.format = w] EXCEPT !.flags = Append(@, flag)]
      BY <2>3 DEF TakesValue, HarnessState
    <3> QED BY <1>0, <3>1, <3>2
  <2>4. CASE flag \notin {"--skip", "-Z", "--format"}
    BY <1>0, <2>4 DEF TakesValue
  <2> QED BY <2>1, <2>2, <2>3, <2>4
<1>2. [h EXCEPT !.awaits = ""] \in HarnessState /\ h.awaits \in Word
  <2>1. "" \in Word
    BY DEF Word, OwnWords
  <2> QED BY <2>1 DEF HarnessState
<1>3. TakesValue([h EXCEPT !.awaits = ""], h.awaits, w) \in HarnessState
  BY <1>1, <1>2
<1>4. [h EXCEPT !.filters = @ \cup {w}] \in HarnessState
  BY DEF HarnessState
<1>5. [h EXCEPT !.awaits = w] \in HarnessState
  BY DEF HarnessState
<1>6. [h EXCEPT !.literal = TRUE] \in HarnessState
  BY DEF HarnessState
<1>7. [h EXCEPT !.flags = Append(@, w)] \in HarnessState
  BY <1>0
<1> QED BY <1>3, <1>4, <1>5, <1>6, <1>7 DEF Takes

\* HarnessOptions goes through the words one by one.
Harnesses(g, words) ==
    /\ g[0] = Harness0 /\ g[Len(words)] = HarnessOptions(words)
    /\ \A k \in 0 .. Len(words) - 1 : g[k + 1] = Takes(g[k], words[k + 1])

LEMMA HarnessSteps ==
    ASSUME NEW words \in Seq(Word)
    PROVE  \E g \in [0 .. Len(words) -> HarnessState] : Harnesses(g, words)
<1> DEFINE n == Len(words)
           V == HarnessState
           nil == Harness0
           op(a, k) == Takes(a, words[k])
           Folds(it) == it = [t \in SUBSET (1 .. n) |->
                                IF t = {} THEN nil ELSE op(it[t \ {Greatest(t)}], Greatest(t))]
           iter == CHOOSE it : Folds(it)
           f == [p \in V \X (1 .. n) |-> op(p[1], p[2])]
<1>1. n \in Nat /\ DOMAIN words = 1 .. n /\ (\A k \in 1 .. n : words[k] \in Word) /\ nil \in V
  <2>1. "" \in Word /\ "pretty" \in Word
    BY DEF Word, OwnWords
  <2>2. <<>> \in Seq(Word)
    OBVIOUS
  <2>3. Harness0 \in HarnessState
    BY <2>1, <2>2 DEF Harness0, HarnessState
  <2> QED BY <2>3
<1>2. HarnessOptions(words) = iter[1 .. n]
  BY <1>1 DEF HarnessOptions, Takes, TakesValue, FoldLeft, MapThenFoldSet, Max, Greatest
<1>3. \A a \in V, k \in 1 .. n : op(a, k) \in V
  BY <1>1, TakesType
<1> HIDE DEF n, V, nil, op
<1>4. f \in [V \X (1 .. n) -> V]
  BY <1>3
<1>5. \A a \in V, k \in 1 .. n : f[<<a, k>>] = op(a, k)
  BY <1>3
<1> HIDE DEF f
<1>6. \E it : Folds(it)
  <2>1. PICK it \in [SUBSET (1 .. n) -> V] : Typed(it, n, V, nil, f)
    BY <1>1, <1>4, TypedIterates
  <2>2. \A t \in SUBSET (1 .. n) :
          it[t] = IF t = {} THEN nil ELSE op(it[t \ {Greatest(t)}], Greatest(t))
    BY <1>5, <2>1 DEF Typed
  <2> QED BY <2>2
<1>7. Folds(iter)
  BY <1>6
<1> HIDE DEF iter
<1>8. StepsAs(iter, n, V, nil, f)
  BY <1>1, <1>5, <1>7, GreatestIsThere DEF StepsAs
<1>9. PICK g \in [0 .. n -> V] : Chain(g, n, nil, f, iter[1 .. n])
  BY <1>1, <1>4, <1>8, FoldChain
<1>10. \A k \in 0 .. n - 1 : g[k + 1] = op(g[k], k + 1)
  <2>1. \A k \in 0 .. n - 1 : k \in 0 .. n /\ k + 1 \in 1 .. n
    BY <1>1
  <2>2. \A k \in 0 .. n - 1 : g[k] \in V /\ g[k + 1] = f[<<g[k], k + 1>>]
    BY <1>9, <2>1 DEF Chain
  <2> QED BY <1>5, <2>1, <2>2
<1> QED BY <1>2, <1>9, <1>10 DEF n, V, nil, op, Chain, Harnesses

LEMMA HarnessType == ASSUME NEW words \in Seq(Word) PROVE HarnessOptions(words) \in HarnessState
<1>1. PICK g \in [0 .. Len(words) -> HarnessState] : Harnesses(g, words)
  BY HarnessSteps
<1>2. Len(words) \in 0 .. Len(words)
  OBVIOUS
<1> QED BY <1>1, <1>2 DEF Harnesses

LEMMA NoWords == HarnessOptions(<<>>) = Harness0
<1>1. <<>> \in Seq(Word) /\ Len(<<>>) = 0
  OBVIOUS
<1>2. PICK g \in [0 .. 0 -> HarnessState] : Harnesses(g, <<>>)
  BY <1>1, HarnessSteps
<1> QED BY <1>1, <1>2 DEF Harnesses

LEMMA OneWordMore ==
    ASSUME NEW words \in Seq(Word), NEW w \in Word
    PROVE  HarnessOptions(Append(words, w)) = Takes(HarnessOptions(words), w)
<1> DEFINE n == Len(words)
           more == Append(words, w)
<1>1. /\ n \in Nat /\ more \in Seq(Word) /\ Len(more) = n + 1 /\ more[n + 1] = w
      /\ \A k \in 1 .. n : more[k] = words[k]
  OBVIOUS
<1>2. PICK g \in [0 .. n -> HarnessState] : Harnesses(g, words)
  BY HarnessSteps
<1>3. PICK h \in [0 .. n + 1 -> HarnessState] : Harnesses(h, more)
  BY <1>1, HarnessSteps
<1>4. /\ g[0] = Harness0 /\ g[n] = HarnessOptions(words)
      /\ \A k \in 0 .. n - 1 : g[k + 1] = Takes(g[k], words[k + 1])
  BY <1>2 DEF Harnesses
<1>5. /\ h[0] = Harness0 /\ h[n + 1] = HarnessOptions(more)
      /\ \A k \in 0 .. n : h[k + 1] = Takes(h[k], more[k + 1])
  BY <1>1, <1>3 DEF Harnesses
<1> HIDE DEF n, more
<1> DEFINE T == {k \in 0 .. n : g[k] = h[k]}
<1>6. 0 \in T
  BY <1>1, <1>4, <1>5
<1>7. ASSUME NEW k \in 0 .. n - 1, k \in T PROVE k + 1 \in T
  <2>1. k \in 0 .. n /\ k + 1 \in 0 .. n /\ k + 1 \in 1 .. n
    BY <1>1
  <2> QED BY <1>1, <1>4, <1>5, <1>7, <2>1
<1> HIDE DEF T
<1>8. n \in T
  <2>1. \A k \in 0 .. n : k \in T
    BY <1>1, <1>6, <1>7, UpTo
  <2> QED BY <1>1, <2>1
<1>9. n \in 0 .. n
  BY <1>1
<1> QED BY <1>1, <1>4, <1>5, <1>8, <1>9 DEF T, more

\* Sequences of the same elements are the same.
LEMMA SameElements ==
    ASSUME NEW U, NEW a \in Seq(U), NEW b \in Seq(U), Len(a) = Len(b),
           \A i \in 1 .. Len(a) : a[i] = b[i]
    PROVE  a = b
  OBVIOUS

LEMMA Associates ==
    ASSUME NEW U, NEW a \in Seq(U), NEW b \in Seq(U), NEW c \in Seq(U)
    PROVE  (a \o b) \o c = a \o (b \o c) /\ a \o b \in Seq(U) /\ a \o <<>> = a
<1>1. a \o b \in Seq(U) /\ b \o c \in Seq(U) /\ (a \o b) \o c \in Seq(U) /\ a \o (b \o c) \in Seq(U)
  OBVIOUS
<1>2. Len((a \o b) \o c) = Len(a \o (b \o c))
  OBVIOUS
<1>3. \A i \in 1 .. Len((a \o b) \o c) : ((a \o b) \o c)[i] = (a \o (b \o c))[i]
  OBVIOUS
<1>4. (a \o b) \o c = a \o (b \o c)
  BY <1>1, <1>2, <1>3, SameElements
<1>5. a \o <<>> \in Seq(U) /\ Len(a \o <<>>) = Len(a) /\ \A i \in 1 .. Len(a) : (a \o <<>>)[i] = a[i]
  OBVIOUS
<1>6. a \o <<>> = a
  BY <1>5, SameElements
<1> QED BY <1>1, <1>4, <1>6

LEMMA AppendJoins ==
    ASSUME NEW U, NEW a \in Seq(U), NEW b \in Seq(U), NEW x \in U
    PROVE  a \o Append(b, x) = Append(a \o b, x) /\ b \o <<x>> = Append(b, x)
<1>1. /\ a \o b \in Seq(U) /\ Append(b, x) \in Seq(U) /\ a \o Append(b, x) \in Seq(U)
      /\ Append(a \o b, x) \in Seq(U)
  OBVIOUS
<1>2. Len(a \o Append(b, x)) = Len(Append(a \o b, x))
  OBVIOUS
<1>3. \A i \in 1 .. Len(a \o Append(b, x)) : (a \o Append(b, x))[i] = Append(a \o b, x)[i]
  OBVIOUS
<1>4. a \o Append(b, x) = Append(a \o b, x)
  BY <1>1, <1>2, <1>3, SameElements
<1>5. /\ b \o <<x>> \in Seq(U) /\ Len(b \o <<x>>) = Len(Append(b, x))
      /\ \A i \in 1 .. Len(b \o <<x>>) : (b \o <<x>>)[i] = Append(b, x)[i]
  OBVIOUS
<1>6. b \o <<x>> = Append(b, x)
  BY <1>1, <1>5, SameElements
<1> QED BY <1>4, <1>6

\* The state of LibtestUserArgs::parse, and a step of it.
ParseState ==
    [listing : Seq(Word), perTest : Seq(Word), whole : Seq(Word), policies : Seq(Word),
     format : Word, formatError : BOOLEAN, unstable : BOOLEAN, listingOnly : BOOLEAN,
     help : BOOLEAN, listingUnstable : BOOLEAN, runUnstable : BOOLEAN,
     awaits : ValuedFlags \cup {""}, literal : BOOLEAN]

Parses(p, w) ==
    IF p.literal \/ (p.awaits = "" /\ w \in Patterns) THEN PushFilter(p, <<w>>)
    ELSE IF p.awaits # "" THEN Value([p EXCEPT !.awaits = ""], p.awaits, w)
    ELSE IF w \in ValuedFlags THEN [p EXCEPT !.awaits = w]
    ELSE Flag(p, w)

LEMMA PushType ==
    ASSUME NEW p \in ParseState, NEW ws \in Seq(Word)
    PROVE  /\ PushFilter(p, ws) \in ParseState /\ PushRun(p, ws) \in ParseState
           /\ PushFilter(p, ws) = [p EXCEPT !.listing = p.listing \o ws, !.whole = p.whole \o ws]
           /\ PushRun(p, ws) = [p EXCEPT !.perTest = p.perTest \o ws, !.whole = p.whole \o ws]
<1>1. p.listing \in Seq(Word) /\ p.perTest \in Seq(Word) /\ p.whole \in Seq(Word)
  BY DEF ParseState
<1>2. p.listing \o ws \in Seq(Word) /\ p.perTest \o ws \in Seq(Word) /\ p.whole \o ws \in Seq(Word)
  BY <1>1
<1>3. PushFilter(p, ws) = [p EXCEPT !.listing = p.listing \o ws, !.whole = p.whole \o ws]
  BY DEF PushFilter, ParseState
<1>4. PushRun(p, ws) = [p EXCEPT !.perTest = p.perTest \o ws, !.whole = p.whole \o ws]
  BY DEF PushRun, ParseState
<1> HIDE DEF Word
<1>5. [p EXCEPT !.listing = p.listing \o ws, !.whole = p.whole \o ws] \in ParseState
  BY <1>2 DEF ParseState
<1>6. [p EXCEPT !.perTest = p.perTest \o ws, !.whole = p.whole \o ws] \in ParseState
  BY <1>2 DEF ParseState
<1> QED BY <1>3, <1>4, <1>5, <1>6

\* What a flag's value changes of the rest.
ValueElse(p, flag, w, r) ==
    /\ r.whole = IF flag = "--filter" THEN p.whole \o <<w>>
                 ELSE IF flag \in {"--skip", "--logfile", "--shuffle-seed"} THEN p.whole \o <<flag, w>>
                 ELSE p.whole
    /\ r.policies = p.policies /\ r.listingUnstable = p.listingUnstable
    /\ p.runUnstable \/ flag = "--shuffle-seed" => r.runUnstable

LEMMA ValueFacts ==
    ASSUME NEW p \in ParseState, NEW flag \in ValuedFlags, NEW w \in Word
    PROVE  LET r == Value(p, flag, w)
           IN /\ r \in ParseState /\ r.awaits = p.awaits /\ r.literal = p.literal
              /\ r.listing = IF flag = "--skip" THEN p.listing \o <<"--skip", w>>
                             ELSE IF flag = "--filter" THEN p.listing \o <<w>> ELSE p.listing
              /\ r.perTest = IF flag \in {"--logfile", "--shuffle-seed"} THEN p.perTest \o <<flag, w>>
                             ELSE p.perTest
              /\ ValueElse(p, flag, w, r)
<1> DEFINE r == Value(p, flag, w)
<1>1. /\ <<w>> \in Seq(Word) /\ (flag \in Word => <<flag, w>> \in Seq(Word))
  OBVIOUS
<1>2. "--skip" \in Word /\ "--logfile" \in Word /\ "--shuffle-seed" \in Word
  BY DEF Word, OwnWords
<1>3. p.listing \in Seq(Word) /\ p.perTest \in Seq(Word) /\ p.whole \in Seq(Word)
  BY DEF ParseState
<1>4. CASE flag = "--skip"
  <2>1. r = [p EXCEPT !.listing = p.listing \o <<"--skip", w>>, !.whole = p.whole \o <<"--skip", w>>]
        /\ r \in ParseState
    BY <1>1, <1>2, <1>4, PushType DEF Value
  <2> QED BY <1>4, <2>1 DEF ParseState, ValueElse
<1>5. CASE flag = "--filter"
  <2>1. r = [p EXCEPT !.listing = p.listing \o <<w>>, !.whole = p.whole \o <<w>>] /\ r \in ParseState
    BY <1>1, <1>5, PushType DEF Value
  <2> QED BY <1>5, <2>1 DEF ParseState, ValueElse
<1>6. CASE flag = "--logfile"
  <2>1. r = [p EXCEPT !.perTest = p.perTest \o <<flag, w>>, !.whole = p.whole \o <<flag, w>>]
        /\ r \in ParseState
    BY <1>1, <1>2, <1>6, PushType DEF Value
  <2> QED BY <1>6, <2>1 DEF ParseState, ValueElse
<1>7. CASE flag = "--shuffle-seed"
  <2> DEFINE q == [p EXCEPT !.runUnstable = TRUE]
  <2>1. q \in ParseState /\ q.perTest = p.perTest /\ q.whole = p.whole /\ q.listing = p.listing
        /\ q.awaits = p.awaits /\ q.literal = p.literal /\ q.policies = p.policies
        /\ q.listingUnstable = p.listingUnstable /\ q.runUnstable = TRUE
    BY DEF ParseState
  <2>2. r = PushRun(q, <<flag, w>>)
    BY <1>7 DEF Value
  <2> HIDE DEF q
  <2>3. r = [q EXCEPT !.perTest = q.perTest \o <<flag, w>>, !.whole = q.whole \o <<flag, w>>]
        /\ r \in ParseState
    <3>1. <<flag, w>> \in Seq(Word)
      BY <1>1, <1>2, <1>7
    <3> HIDE DEF r
    <3> QED BY <2>1, <2>2, <3>1, PushType
  <2> HIDE DEF r
  <2>4. /\ r.awaits = q.awaits /\ r.literal = q.literal /\ r.listing = q.listing
        /\ r.perTest = q.perTest \o <<flag, w>> /\ r.whole = q.whole \o <<flag, w>>
        /\ r.policies = q.policies /\ r.listingUnstable = q.listingUnstable
        /\ r.runUnstable = q.runUnstable
    BY <2>1, <2>3 DEF ParseState
  <2> QED BY <1>7, <2>1, <2>3, <2>4 DEF ValueElse, r
<1>8. CASE flag = "-Z"
  <2>1. r = [p EXCEPT !.runUnstable = TRUE, !.unstable = p.unstable \/ w = "unstable-options"]
    BY <1>8 DEF Value, ParseState
  <2>2. (p.unstable \/ w = "unstable-options") \in BOOLEAN
    OBVIOUS
  <2> QED BY <1>8, <2>1, <2>2 DEF ParseState, ValueElse
<1>9. CASE flag = "--format"
  <2>1. CASE w \in {"pretty", "terse", "json", "junit"}
    <3>1. r = [p EXCEPT !.format = w]
      BY <1>9, <2>1 DEF Value
    <3> QED BY <1>9, <3>1 DEF ParseState, ValueElse
  <2>2. CASE w \notin {"pretty", "terse", "json", "junit"}
    <3>1. r = [p EXCEPT !.formatError = TRUE]
      BY <1>9, <2>2 DEF Value
    <3> QED BY <1>9, <3>1 DEF ParseState, ValueElse
  <2> QED BY <2>1, <2>2
<1>10. CASE flag \in {"--test-threads", "--color"}
  <2>1. r = p
    BY <1>10 DEF Value
  <2>2. ValueElse(p, flag, w, p)
    BY <1>10 DEF ValueElse
  <2> QED BY <1>10, <2>1, <2>2
<1> QED BY <1>4, <1>5, <1>6, <1>7, <1>8, <1>9, <1>10 DEF ValuedFlags

\* What a flag changes of the rest.
FlagElse(p, w, r) ==
    /\ r.whole = IF w \in OwnFlags \ {"--exact"} THEN p.whole ELSE Append(p.whole, w)
    /\ r.policies = p.policies \o (CASE w = "--ignored" -> <<"only">>
                                     [] w = "--include-ignored" -> <<"include">>
                                     [] OTHER -> <<>>)
    /\ p.listingUnstable \/ w = "--exclude-should-panic" => r.listingUnstable
    /\ p.runUnstable \/ w \in UnstableFlags \cup {"--exclude-should-panic"} => r.runUnstable

LEMMA FlagFacts ==
    ASSUME NEW p \in ParseState, NEW w \in Word
    PROVE  LET r == Flag(p, w)
           IN /\ r \in ParseState /\ r.awaits = p.awaits /\ r.literal = (w = "--")
              /\ r.listing = IF w \in ListingFlags \cup {"--exact"} THEN Append(p.listing, w) ELSE p.listing
              /\ r.perTest = IF w \in OwnFlags THEN p.perTest ELSE Append(p.perTest, w)
              /\ FlagElse(p, w, r)
<1> DEFINE policies == p.policies \o (CASE w = "--ignored" -> <<"only">>
                                        [] w = "--include-ignored" -> <<"include">>
                                        [] OTHER -> <<>>)
           listing == IF w \in ListingFlags \cup {"--exact"} THEN Append(p.listing, w) ELSE p.listing
           perTest == IF w \in OwnFlags THEN p.perTest ELSE Append(p.perTest, w)
           whole == IF w \in OwnFlags \ {"--exact"} THEN p.whole ELSE Append(p.whole, w)
           format == IF w \in {"-q", "--quiet"} THEN "terse" ELSE p.format
           listingOnly == p.listingOnly \/ w = "--list"
           help == p.help \/ w \in {"-h", "--help"}
           listingUnstable == p.listingUnstable \/ w = "--exclude-should-panic"
           runUnstable == p.runUnstable \/ w \in UnstableFlags \cup {"--exclude-should-panic"}
           literal == (w = "--")
<1>1. Flag(p, w) = [p EXCEPT !.literal = literal, !.policies = policies, !.listingOnly = listingOnly,
                             !.help = help, !.format = format, !.listingUnstable = listingUnstable,
                             !.runUnstable = runUnstable, !.listing = listing, !.perTest = perTest,
                             !.whole = whole]
  BY DEF Flag, ParseState
<1>2. /\ p.listing \in Seq(Word) /\ p.perTest \in Seq(Word) /\ p.whole \in Seq(Word)
      /\ p.policies \in Seq(Word) /\ p.format \in Word
  BY DEF ParseState
<1>3. "only" \in Word /\ "include" \in Word /\ "terse" \in Word
  BY DEF Word, OwnWords
<1>4. policies \in Seq(Word)
  <2>1. <<"only">> \in Seq(Word) /\ <<"include">> \in Seq(Word) /\ <<>> \in Seq(Word)
    BY <1>3
  <2>2. \A x \in Seq(Word) : p.policies \o x \in Seq(Word)
    BY <1>2
  <2> QED BY <2>1, <2>2
<1>5. listing \in Seq(Word) /\ perTest \in Seq(Word) /\ whole \in Seq(Word) /\ format \in Word
  BY <1>2, <1>3
<1>6. /\ listingOnly \in BOOLEAN /\ help \in BOOLEAN /\ listingUnstable \in BOOLEAN
      /\ runUnstable \in BOOLEAN /\ literal \in BOOLEAN
  OBVIOUS
<1> HIDE DEF policies, listing, perTest, whole, format, listingOnly, help, listingUnstable, runUnstable,
             literal
<1> DEFINE r == Flag(p, w)
<1> HIDE DEF r
<1>7. /\ r.awaits = p.awaits /\ r.literal = literal /\ r.listing = listing /\ r.perTest = perTest
      /\ r.whole = whole /\ r.policies = policies /\ r.listingUnstable = listingUnstable
      /\ r.runUnstable = runUnstable
  BY <1>1 DEF ParseState, r
<1>8. r \in ParseState
  <2>1. [p EXCEPT !.literal = literal, !.policies = policies, !.listingOnly = listingOnly] \in ParseState
    BY <1>4, <1>6 DEF ParseState
  <2> DEFINE q == [p EXCEPT !.literal = literal, !.policies = policies, !.listingOnly = listingOnly]
  <2>2. r = [q EXCEPT !.help = help, !.format = format, !.listingUnstable = listingUnstable,
                      !.runUnstable = runUnstable, !.listing = listing, !.perTest = perTest,
                      !.whole = whole]
    BY <1>1 DEF r
  <2> HIDE DEF q
  <2> DEFINE o == [q EXCEPT !.help = help, !.format = format, !.listingUnstable = listingUnstable,
                            !.runUnstable = runUnstable]
  <2>3. o \in ParseState
    BY <1>5, <1>6, <2>1 DEF ParseState, q
  <2>4. r = [o EXCEPT !.listing = listing, !.perTest = perTest, !.whole = whole]
    BY <2>2
  <2> HIDE DEF o
  <2> QED BY <1>5, <2>3, <2>4 DEF ParseState
<1> QED BY <1>7, <1>8 DEF listing, perTest, whole, policies, listingUnstable, runUnstable, literal, r, FlagElse

LEMMA ParsesType ==
    ASSUME NEW p \in ParseState, NEW w \in Word
    PROVE  Parses(p, w) \in ParseState
<1>1. <<w>> \in Seq(Word)
  OBVIOUS
<1>2. PushFilter(p, <<w>>) \in ParseState
  BY <1>1, PushType
<1>3. ASSUME p.awaits # "" PROVE Value([p EXCEPT !.awaits = ""], p.awaits, w) \in ParseState
  <2>1. [p EXCEPT !.awaits = ""] \in ParseState /\ p.awaits \in ValuedFlags
    BY <1>3 DEF ParseState
  <2> QED BY <2>1, ValueFacts
<1>4. ASSUME w \in ValuedFlags PROVE [p EXCEPT !.awaits = w] \in ParseState
  BY <1>4 DEF ParseState
<1>5. Flag(p, w) \in ParseState
  BY FlagFacts
<1> QED BY <1>2, <1>3, <1>4, <1>5 DEF Parses

\* Parse goes through the words one by one.
ParsesAll(g, words) ==
    /\ g[0] = Parsed0 /\ g[Len(words)] = Parse(words)
    /\ \A k \in 0 .. Len(words) - 1 : g[k + 1] = Parses(g[k], words[k + 1])

LEMMA ParseSteps ==
    ASSUME NEW words \in Seq(Word)
    PROVE  \E g \in [0 .. Len(words) -> ParseState] : ParsesAll(g, words)
<1> DEFINE n == Len(words)
           V == ParseState
           nil == Parsed0
           op(a, k) == Parses(a, words[k])
           Folds(it) == it = [t \in SUBSET (1 .. n) |->
                                IF t = {} THEN nil ELSE op(it[t \ {Greatest(t)}], Greatest(t))]
           iter == CHOOSE it : Folds(it)
           f == [p \in V \X (1 .. n) |-> op(p[1], p[2])]
<1>1. n \in Nat /\ DOMAIN words = 1 .. n /\ (\A k \in 1 .. n : words[k] \in Word) /\ nil \in V
  <2>1. "pretty" \in Word
    BY DEF Word, OwnWords
  <2>2. <<>> \in Seq(Word)
    OBVIOUS
  <2>3. Parsed0 \in ParseState
    BY <2>1, <2>2 DEF Parsed0, ParseState
  <2> QED BY <2>3
<1>2. Parse(words) = iter[1 .. n]
  BY <1>1 DEF Parse, Parses, FoldLeft, MapThenFoldSet, Max, Greatest
<1>3. \A a \in V, k \in 1 .. n : op(a, k) \in V
  BY <1>1, ParsesType
<1> HIDE DEF n, V, nil, op
<1>4. f \in [V \X (1 .. n) -> V]
  BY <1>3
<1>5. \A a \in V, k \in 1 .. n : f[<<a, k>>] = op(a, k)
  BY <1>3
<1> HIDE DEF f
<1>6. \E it : Folds(it)
  <2>1. PICK it \in [SUBSET (1 .. n) -> V] : Typed(it, n, V, nil, f)
    BY <1>1, <1>4, TypedIterates
  <2>2. \A t \in SUBSET (1 .. n) :
          it[t] = IF t = {} THEN nil ELSE op(it[t \ {Greatest(t)}], Greatest(t))
    BY <1>5, <2>1 DEF Typed
  <2> QED BY <2>2
<1>7. Folds(iter)
  BY <1>6
<1> HIDE DEF iter
<1>8. StepsAs(iter, n, V, nil, f)
  BY <1>1, <1>5, <1>7, GreatestIsThere DEF StepsAs
<1>9. PICK g \in [0 .. n -> V] : Chain(g, n, nil, f, iter[1 .. n])
  BY <1>1, <1>4, <1>8, FoldChain
<1>10. \A k \in 0 .. n - 1 : g[k + 1] = op(g[k], k + 1)
  <2>1. \A k \in 0 .. n - 1 : k \in 0 .. n /\ k + 1 \in 1 .. n
    BY <1>1
  <2>2. \A k \in 0 .. n - 1 : g[k] \in V /\ g[k + 1] = f[<<g[k], k + 1>>]
    BY <1>9, <2>1 DEF Chain
  <2> QED BY <1>5, <2>1, <2>2
<1> QED BY <1>2, <1>9, <1>10 DEF n, V, nil, op, Chain, ParsesAll

\* The harness is between two options, and what it makes of one more.
Ready(h) == h.awaits = "" /\ h.literal = FALSE
SameFormat(h, t) == t.format = h.format /\ t.unstable = h.unstable

LEMMA TakesFacts ==
    ASSUME NEW h \in HarnessState, Ready(h), NEW w \in Word
    PROVE  LET t == Takes(h, w)
           IN /\ w \in Patterns =>
                   /\ Ready(t) /\ t.filters = h.filters \cup {w} /\ t.skips = h.skips
                   /\ t.flags = h.flags /\ SameFormat(h, t)
              /\ w \notin Patterns \cup ValuedFlags \cup {"--"} =>
                   /\ Ready(t) /\ t.filters = h.filters /\ t.skips = h.skips
                   /\ t.flags = Append(h.flags, w) /\ SameFormat(h, t)
<1> DEFINE t == Takes(h, w)
<1>1. CASE w \in Patterns
  <2>1. t = [h EXCEPT !.filters = @ \cup {w}]
    BY <1>1 DEF Takes, Ready
  <2> HIDE DEF t
  <2> QED BY <1>1, <2>1 DEF HarnessState, Ready, SameFormat, t
<1>2. CASE w \notin Patterns \cup ValuedFlags \cup {"--"}
  <2>1. t = [h EXCEPT !.flags = Append(@, w)]
    BY <1>2 DEF Takes, Ready
  <2> HIDE DEF t
  <2> QED BY <1>2, <2>1 DEF HarnessState, Ready, SameFormat, t
<1> QED BY <1>1, <1>2

\* What a flag and its value change of the format.
PairFormat(h, flag, w, t) ==
    /\ flag \notin {"-Z", "--format"} => SameFormat(h, t)
    /\ flag = "--format" => t.format = w /\ t.unstable = h.unstable
    /\ flag = "-Z" => t.format = h.format /\ (h.unstable \/ w = "unstable-options" => t.unstable)

LEMMA TakesPair ==
    ASSUME NEW h \in HarnessState, Ready(h), NEW flag \in ValuedFlags, NEW w \in Word
    PROVE  LET t == Takes(Takes(h, flag), w)
           IN /\ Ready(t) /\ t.filters = h.filters
              /\ t.skips = IF flag = "--skip" THEN h.skips \cup {w} ELSE h.skips
              /\ t.flags = IF flag \in {"--skip", "-Z"} THEN h.flags ELSE Append(h.flags, flag)
              /\ PairFormat(h, flag, w, t)
<1> DEFINE t == Takes(Takes(h, flag), w)
           a == [h EXCEPT !.awaits = flag]
<1>1. flag \notin Patterns /\ flag # ""
  BY PatternsAssumption DEF ValuedFlags
<1>2. Takes(h, flag) = a
  BY <1>1 DEF Takes, Ready
<1>3. a.awaits = flag /\ a.literal = FALSE /\ [a EXCEPT !.awaits = ""] = h
  BY DEF HarnessState, Ready
<1> HIDE DEF a
<1>4. t = TakesValue(h, flag, w)
  BY <1>1, <1>2, <1>3 DEF Takes
<1> HIDE DEF t
<1>5. CASE flag = "--skip"
  <2>1. t = [h EXCEPT !.skips = @ \cup {w}]
    BY <1>4, <1>5 DEF TakesValue
  <2> QED BY <1>5, <2>1 DEF HarnessState, Ready, PairFormat, SameFormat, t
<1>6. CASE flag = "-Z"
  <2>1. t = [h EXCEPT !.unstable = @ \/ w = "unstable-options"]
    BY <1>4, <1>6 DEF TakesValue
  <2> QED BY <1>6, <2>1 DEF HarnessState, Ready, PairFormat, SameFormat, t
<1>7. CASE flag = "--format"
  <2>1. t = [h EXCEPT !.format = w, !.flags = Append(@, flag)]
    BY <1>4, <1>7 DEF TakesValue
  <2> QED BY <1>7, <2>1 DEF HarnessState, Ready, PairFormat, SameFormat, t
<1>8. CASE flag \notin {"--skip", "-Z", "--format"}
  <2>1. t = [h EXCEPT !.flags = Append(@, flag)]
    BY <1>4, <1>8 DEF TakesValue
  <2> QED BY <1>8, <2>1 DEF HarnessState, Ready, PairFormat, SameFormat, t
<1> QED BY <1>5, <1>6, <1>7, <1>8

\* What the harness makes of words that follow others.
Sees(pre, words) == HarnessOptions(pre \o words)

LEMMA SeesFacts ==
    ASSUME NEW pre \in Seq(Word), NEW words \in Seq(Word), NEW v \in Word, NEW w \in Word
    PROVE  /\ Sees(pre, words) \in HarnessState /\ Sees(pre, <<>>) = HarnessOptions(pre)
           /\ Sees(pre, Append(words, w)) = Takes(Sees(pre, words), w)
           /\ Sees(pre, words \o <<w>>) = Takes(Sees(pre, words), w)
           /\ Sees(pre, words \o <<v, w>>) = Takes(Takes(Sees(pre, words), v), w)
<1>1. pre \o words \in Seq(Word) /\ Append(words, v) \in Seq(Word)
  OBVIOUS
<1>2. Sees(pre, words) \in HarnessState
  BY <1>1, HarnessType DEF Sees
<1>3. ASSUME NEW a \in Seq(Word), NEW x \in Word
      PROVE  Sees(pre, Append(a, x)) = Takes(Sees(pre, a), x)
  <2>1. pre \o Append(a, x) = Append(pre \o a, x) /\ pre \o a \in Seq(Word)
    BY AppendJoins
  <2> QED BY <2>1, OneWordMore DEF Sees
<1>4. words \o <<w>> = Append(words, w) /\ Append(words, v) \o <<w>> = Append(Append(words, v), w)
      /\ words \o <<v>> = Append(words, v)
  BY <1>1, AppendJoins
<1>5. words \o <<v, w>> = Append(Append(words, v), w)
  <2>1. <<v>> \in Seq(Word) /\ <<w>> \in Seq(Word) /\ <<v>> \o <<w>> = <<v, w>>
    <3> DEFINE c == <<v>> \o <<w>>
    <3>1. <<v>> \in Seq(Word) /\ <<w>> \in Seq(Word)
      OBVIOUS
    <3>2. c \in Seq(Word) /\ Len(c) = 2 /\ c[1] = v /\ c[2] = w
      BY <3>1
    <3> HIDE DEF c
    <3>3. c = <<v, w>>
      BY <3>2, TwoAre
    <3> QED BY <3>1, <3>3 DEF c
  <2>2. (words \o <<v>>) \o <<w>> = words \o (<<v>> \o <<w>>)
    BY <2>1, Associates
  <2> QED BY <1>4, <2>1, <2>2
<1>6. pre \o <<>> = pre
  BY Associates
<1> QED BY <1>1, <1>2, <1>3, <1>4, <1>5, <1>6 DEF Sees

LEMMA NamesRead ==
    ASSUME NEW names \in Seq(Names)
    PROVE  LET h == HarnessOptions(names)
           IN /\ names \in Seq(Word) /\ Ready(h) /\ h.filters = ToSet(names) /\ h.skips = {}
              /\ h.flags = <<>> /\ h.format = "pretty"
<1> DEFINE n == Len(names)
<1>1. names \in Seq(Word) /\ n \in Nat /\ \A k \in 1 .. n : names[k] \in Patterns /\ names[k] \in Word
  <2>1. Names \subseteq Word
    BY DEF Word
  <2>2. \A k \in 1 .. n : names[k] \in Names
    OBVIOUS
  <2>3. names \in Seq(Word)
    BY <2>1
  <2> QED BY <2>1, <2>2, <2>3, NamesAssumption
<1>2. PICK g \in [0 .. n -> HarnessState] : Harnesses(g, names)
  BY <1>1, HarnessSteps
<1>3. /\ g[0] = Harness0 /\ g[n] = HarnessOptions(names)
      /\ \A k \in 0 .. n - 1 : g[k + 1] = Takes(g[k], names[k + 1])
  BY <1>2 DEF Harnesses
<1>4. Firsts(names, 0) = {} /\ Firsts(names, n) = ToSet(names)
      /\ \A k \in 0 .. n - 1 : Firsts(names, k + 1) = Firsts(names, k) \cup {names[k + 1]}
  BY FirstsFacts
<1> HIDE DEF n
<1> DEFINE T == {k \in 0 .. n : /\ Ready(g[k]) /\ g[k].filters = Firsts(names, k)
                                /\ g[k].skips = {} /\ g[k].flags = <<>>
                                /\ g[k].format = "pretty"}
<1>5. 0 \in T
  <2>1. 0 \in 0 .. n
    BY <1>1
  <2>2. Ready(Harness0) /\ Harness0.filters = {} /\ Harness0.skips = {} /\ Harness0.flags = <<>>
        /\ Harness0.format = "pretty"
    BY DEF Harness0, Ready
  <2> QED BY <1>3, <1>4, <2>1, <2>2
<1>6. ASSUME NEW k \in 0 .. n - 1, k \in T PROVE k + 1 \in T
  <2>1. k \in 0 .. n /\ k + 1 \in 0 .. n /\ k + 1 \in 1 .. n
    BY <1>1
  <2> DEFINE h == g[k]
             w == names[k + 1]
             t == Takes(h, w)
  <2>2. h \in HarnessState /\ w \in Word /\ w \in Patterns
    BY <1>1, <2>1
  <2>3. Ready(h) /\ h.filters = Firsts(names, k) /\ h.skips = {} /\ h.flags = <<>>
        /\ h.format = "pretty"
    BY <1>6
  <2>4. g[k + 1] = t /\ Firsts(names, k + 1) = Firsts(names, k) \cup {w}
    BY <1>3, <1>4
  <2> HIDE DEF h, w, T
  <2>5. Ready(t) /\ t.filters = h.filters \cup {w} /\ t.skips = h.skips /\ t.flags = h.flags
        /\ SameFormat(h, t)
    BY <2>2, <2>3, TakesFacts
  <2> HIDE DEF t
  <2>6. /\ Ready(g[k + 1]) /\ g[k + 1].filters = Firsts(names, k + 1)
        /\ g[k + 1].skips = {} /\ g[k + 1].flags = <<>>
        /\ g[k + 1].format = "pretty"
    BY <2>3, <2>4, <2>5 DEF SameFormat
  <2> QED BY <2>1, <2>6 DEF T
<1>7. n \in T
  <2> HIDE DEF T
  <2>1. \A k \in 0 .. n : k \in T
    BY <1>1, <1>5, <1>6, UpTo
  <2>2. n \in 0 .. n
    BY <1>1
  <2> QED BY <2>1, <2>2
<1> QED BY <1>1, <1>3, <1>4, <1>7

LEMMA ParseType == ASSUME NEW words \in Seq(Word) PROVE Parse(words) \in ParseState
<1>1. PICK g \in [0 .. Len(words) -> ParseState] : ParsesAll(g, words)
  BY ParseSteps
<1>2. Len(words) \in 0 .. Len(words)
  OBVIOUS
<1> QED BY <1>1, <1>2 DEF ParsesAll

LEMMA PairJoined ==
    ASSUME NEW w, NEW x, NEW y, NEW z
    PROVE  <<x>> \o <<y, z>> = <<x, y, z>> /\ <<w, x>> \o <<y, z>> = <<w, x, y, z>>
<1> DEFINE U == {w, x, y, z}
           s == <<x>> \o <<y, z>>
           t == <<w, x>> \o <<y, z>>
           u == <<w, x, y, z>>
<1>1. <<x>> \in Seq(U) /\ <<y, z>> \in Seq(U) /\ <<w, x>> \in Seq(U) /\ <<w, x, y, z>> \in Seq(U)
  OBVIOUS
<1>2. s \in Seq(U) /\ Len(s) = 3 /\ s[1] = x /\ s[2] = y /\ s[3] = z
  BY <1>1
<1>3. t \in Seq(U) /\ Len(t) = 4 /\ t[1] = w /\ t[2] = x /\ t[3] = y /\ t[4] = z
  BY <1>1
<1>4. u \in Seq(U) /\ Len(u) = 4 /\ u[1] = w /\ u[2] = x /\ u[3] = y /\ u[4] = z
  BY <1>1
<1> HIDE DEF s, t, u, U
<1>5. s = <<x, y, z>>
  BY <1>2, ThreeAre
<1>6. \A i \in 1 .. 4 : t[i] = u[i]
  BY <1>3, <1>4
<1>7. t = u
  BY <1>3, <1>4, <1>6, SameElements
<1> QED BY <1>5, <1>7 DEF s, t, u

LEMMA JoinedTwice ==
    ASSUME NEW U, NEW a \in Seq(U), NEW b \in Seq(U), NEW c \in Seq(U)
    PROVE  a \o (b \o c) = (a \o b) \o c
  BY Associates

\* Five sequences joined from the right to the left are joined from the left to the right.
Reassociates(a, b, c, d, e) ==
    a \o (((b \o c) \o d) \o e) = (((a \o b) \o c) \o d) \o e

LEMMA JoinedThroughout ==
    ASSUME NEW U, NEW a, NEW b, NEW c, NEW d, NEW e
    PROVE  (/\ a \in Seq(U) /\ b \in Seq(U) /\ c \in Seq(U) /\ d \in Seq(U) /\ e \in Seq(U))
           => Reassociates(a, b, c, d, e)
<1> DEFINE bc == b \o c
           bcd == bc \o d
<1>1. SUFFICES ASSUME /\ a \in Seq(U) /\ b \in Seq(U) /\ c \in Seq(U)
                      /\ d \in Seq(U) /\ e \in Seq(U)
               PROVE  a \o (bcd \o e) = (((a \o b) \o c) \o d) \o e
  BY DEF Reassociates
<1>2. a \in Seq(U) /\ b \in Seq(U) /\ c \in Seq(U)
  BY <1>1
<1>3. bc \in Seq(U)
  BY <1>2
<1>4. a \o (b \o c) = (a \o b) \o c
  BY <1>2, JoinedTwice
<1>5. a \o bc = (a \o b) \o c
  BY <1>4
<1> HIDE DEF bc
<1>6. a \in Seq(U) /\ bc \in Seq(U) /\ d \in Seq(U)
  BY <1>1, <1>3
<1>7. bcd \in Seq(U)
  BY <1>6
<1>8. a \o (bc \o d) = (a \o bc) \o d
  BY <1>6, JoinedTwice
<1>9. a \o bcd = (a \o bc) \o d
  BY <1>8
<1> HIDE DEF bcd
<1>10. a \in Seq(U) /\ bcd \in Seq(U) /\ e \in Seq(U)
  BY <1>1, <1>7
<1>11. a \o (bcd \o e) = (a \o bcd) \o e
  BY <1>10, JoinedTwice
<1> QED BY <1>5, <1>9, <1>11

\* The flags of a user's words that a listing, a run of named tests and a run of the whole target
\* are given.
ListingPass == ListingFlags \cup {"--exact"}
RunPass == Word \ (OwnFlags \cup (ValuedFlags \ {"--logfile", "--shuffle-seed"}))
WholePass == RunPass \cup {"--exact"}

LEMMA OneWord == ASSUME NEW w \in Word PROVE <<w>> \in Seq(Word)
  OBVIOUS

LEMMA InjectiveAppend ==
    ASSUME NEW U, NEW a \in Seq(U), NEW x \in U, IsInjective(Append(a, x))
    PROVE  IsInjective(a) /\ x \notin ToSet(a)
<1> DEFINE r == Append(a, x)
           n == Len(a)
<1>1. /\ n \in Nat /\ DOMAIN a = 1 .. n /\ DOMAIN r = 1 .. n + 1
      /\ r[n + 1] = x /\ \A i \in 1 .. n : r[i] = a[i]
  OBVIOUS
<1>2. \A i, j \in 1 .. n + 1 : r[i] = r[j] => i = j
  BY <1>1 DEF IsInjective
<1> HIDE DEF r, n
<1>3. \A i, j \in 1 .. n : a[i] = a[j] => i = j
  BY <1>1, <1>2
<1>4. ASSUME NEW i \in 1 .. n, a[i] = x PROVE FALSE
  <2>1. r[i] = r[n + 1] /\ i \in 1 .. n + 1 /\ n + 1 \in 1 .. n + 1 /\ i # n + 1
    BY <1>1, <1>4
  <2> QED BY <1>2, <2>1
<1>5. IsInjective(a)
  BY <1>1, <1>3 DEF IsInjective
<1>6. x \notin ToSet(a)
  BY <1>1, <1>4 DEF ToSet
<1> QED BY <1>5, <1>6

\* What the harness H, which was H0 before, has of the flags that U has of the user's words: those
\* of S, and none twice unless the user has.
Heard(H, U, H0, S) ==
    /\ Ready(H) /\ SameFormat(H0, H)
    /\ ToSet(H.flags) = ToSet(H0.flags) \cup (ToSet(U.flags) \cap S)
    /\ IsInjective(U.flags) /\ IsInjective(H0.flags) /\ ToSet(H0.flags) \cap S = {} =>
         IsInjective(H.flags)

LEMMA HeardMore ==
    ASSUME NEW H \in HarnessState, NEW U \in HarnessState, NEW H0, NEW S, Heard(H, U, H0, S),
           NEW f \in Word, NEW V, V.flags = Append(U.flags, f),
           NEW t, Ready(t), SameFormat(H, t),
           t.flags = IF f \in S THEN Append(H.flags, f) ELSE H.flags
    PROVE  Heard(t, V, H0, S)
<1>1. H.flags \in Seq(Word) /\ U.flags \in Seq(Word)
  BY DEF HarnessState
<1>2. ToSet(V.flags) = ToSet(U.flags) \cup {f}
  BY <1>1, AppendFacts
<1>3. IsInjective(V.flags) => IsInjective(U.flags) /\ f \notin ToSet(U.flags)
  BY <1>1, InjectiveAppend
<1>4. SameFormat(H0, t)
  BY DEF Heard, SameFormat
<1>5. CASE f \in S
  <2>1. t.flags = Append(H.flags, f)
    BY <1>5
  <2>2. /\ ToSet(t.flags) = ToSet(H.flags) \cup {f}
        /\ IsInjective(H.flags) /\ f \notin ToSet(H.flags) => IsInjective(t.flags)
    BY <1>1, <2>1, AppendFacts
  <2> QED BY <1>2, <1>3, <1>4, <1>5, <2>2 DEF Heard
<1>6. CASE f \notin S
  <2>1. t.flags = H.flags
    BY <1>6
  <2> QED BY <1>2, <1>3, <1>4, <1>6, <2>1 DEF Heard
<1> QED BY <1>5, <1>6

\* One channel: the words out, of the user's words, after words of quokka's.
Channel(pre, out, U, S) == Heard(Sees(pre, out), U, HarnessOptions(pre), S)
\* Its filters are quokka's own and no others; or those of the user's words, too.
Alone(pre, out) ==
    LET H == Sees(pre, out)
        H0 == HarnessOptions(pre)
    IN H.filters = H0.filters /\ H.skips = H0.skips
Follows(pre, out, U) ==
    LET H == Sees(pre, out)
        H0 == HarnessOptions(pre)
    IN H.filters = H0.filters \cup U.filters /\ H.skips = H0.skips \cup U.skips

LEMMA ChannelQuiet ==
    ASSUME NEW pre, NEW out, NEW U, NEW S, Channel(pre, out, U, S), NEW V, V.flags = U.flags
    PROVE  /\ Channel(pre, out, V, S)
           /\ Follows(pre, out, U) /\ V.filters = U.filters /\ V.skips = U.skips => Follows(pre, out, V)
  BY DEF Channel, Heard, Follows

LEMMA ChannelFilter ==
    ASSUME NEW pre \in Seq(Word), NEW out \in Seq(Word), NEW U, NEW S, Channel(pre, out, U, S),
           NEW w \in Word, w \in Patterns, NEW V, V.flags = U.flags
    PROVE  /\ Channel(pre, out \o <<w>>, V, S)
           /\ Follows(pre, out, U) /\ V.filters = U.filters \cup {w} /\ V.skips = U.skips =>
                Follows(pre, out \o <<w>>, V)
<1> DEFINE H == Sees(pre, out)
           t == Takes(H, w)
<1>1. Sees(pre, out \o <<w>>) = t /\ H \in HarnessState
  BY SeesFacts
<1>2. Ready(H)
  BY DEF Channel, Heard
<1> HIDE DEF H
<1>3. Ready(t) /\ t.filters = H.filters \cup {w} /\ t.skips = H.skips /\ t.flags = H.flags
      /\ SameFormat(H, t)
  BY <1>1, <1>2, TakesFacts
<1> HIDE DEF t
<1> QED BY <1>1, <1>3 DEF Channel, Heard, Follows, SameFormat, H

LEMMA ChannelSkip ==
    ASSUME NEW pre \in Seq(Word), NEW out \in Seq(Word), NEW U, NEW S, Channel(pre, out, U, S),
           NEW w \in Word, NEW V, V.flags = U.flags
    PROVE  /\ Channel(pre, out \o <<"--skip", w>>, V, S)
           /\ Follows(pre, out, U) /\ V.filters = U.filters /\ V.skips = U.skips \cup {w} =>
                Follows(pre, out \o <<"--skip", w>>, V)
<1> DEFINE H == Sees(pre, out)
           t == Takes(Takes(H, "--skip"), w)
<1>1. "--skip" \in Word /\ "--skip" \in ValuedFlags
  BY DEF Word, OwnWords, ValuedFlags
<1>2. Sees(pre, out \o <<"--skip", w>>) = t /\ H \in HarnessState
  BY <1>1, SeesFacts
<1>3. Ready(H)
  BY DEF Channel, Heard
<1> HIDE DEF H
<1>4. /\ Ready(t) /\ t.filters = H.filters /\ t.skips = H.skips \cup {w} /\ t.flags = H.flags
      /\ PairFormat(H, "--skip", w, t)
  BY <1>1, <1>2, <1>3, TakesPair
<1> HIDE DEF t
<1>6. SameFormat(H, t)
  BY <1>4 DEF PairFormat
<1> QED BY <1>2, <1>4, <1>6 DEF Channel, Heard, Follows, SameFormat, H

\* A flag, which is passed on if it is one of S.
LEMMA ChannelFlag ==
    ASSUME NEW pre \in Seq(Word), NEW out \in Seq(Word), NEW U \in HarnessState, NEW S,
           Channel(pre, out, U, S), NEW w \in Word, w \notin Patterns \cup ValuedFlags \cup {"--"},
           NEW V, V.flags = Append(U.flags, w),
           NEW new, new = IF w \in S THEN Append(out, w) ELSE out
    PROVE  /\ Channel(pre, new, V, S)
           /\ Alone(pre, out) => Alone(pre, new)
           /\ Follows(pre, out, U) /\ V.filters = U.filters /\ V.skips = U.skips => Follows(pre, new, V)
<1> DEFINE H == Sees(pre, out)
           t == Sees(pre, new)
<1>1. Sees(pre, Append(out, w)) = Takes(H, w) /\ H \in HarnessState
  BY SeesFacts
<1>2. Heard(H, U, HarnessOptions(pre), S) /\ Ready(H)
  BY DEF Channel, Heard
<1> HIDE DEF H
<1>3. /\ Ready(Takes(H, w)) /\ Takes(H, w).filters = H.filters /\ Takes(H, w).skips = H.skips
      /\ Takes(H, w).flags = Append(H.flags, w) /\ SameFormat(H, Takes(H, w))
  BY <1>1, <1>2, TakesFacts
<1>4. /\ Ready(t) /\ t.filters = H.filters /\ t.skips = H.skips /\ SameFormat(H, t)
      /\ t.flags = IF w \in S THEN Append(H.flags, w) ELSE H.flags
  <2>1. CASE w \in S
    BY <1>1, <1>3, <2>1
  <2>2. CASE w \notin S
    BY <1>2, <2>2 DEF H, SameFormat
  <2> QED BY <2>1, <2>2
<1> HIDE DEF t
<1>5. Heard(t, V, HarnessOptions(pre), S)
  BY <1>1, <1>2, <1>4, HeardMore
<1> QED BY <1>4, <1>5 DEF Channel, Alone, Follows, H, t

\* A flag and its value.
LEMMA ChannelValue ==
    ASSUME NEW pre \in Seq(Word), NEW out \in Seq(Word), NEW U \in HarnessState, NEW S,
           Channel(pre, out, U, S), NEW w \in Word, NEW flag \in ValuedFlags, flag \in Word,
           flag \in S => flag \notin {"--skip", "-Z", "--format"},
           NEW V, V.flags = Append(U.flags, flag),
           NEW new, new = IF flag \in S THEN out \o <<flag, w>> ELSE out
    PROVE  /\ Channel(pre, new, V, S)
           /\ Alone(pre, out) => Alone(pre, new)
           /\ Follows(pre, out, U) /\ V.filters = U.filters /\ V.skips = U.skips => Follows(pre, new, V)
<1> DEFINE H == Sees(pre, out)
           a == Takes(Takes(H, flag), w)
           t == Sees(pre, new)
<1>1. Sees(pre, out \o <<flag, w>>) = a /\ H \in HarnessState
  BY SeesFacts
<1>2. Heard(H, U, HarnessOptions(pre), S) /\ Ready(H)
  BY DEF Channel, Heard
<1> HIDE DEF H
<1>3. ASSUME flag \in S
      PROVE  /\ Ready(a) /\ a.filters = H.filters /\ a.skips = H.skips
             /\ a.flags = Append(H.flags, flag) /\ SameFormat(H, a)
  <2>1. flag \notin {"--skip", "-Z", "--format"}
    BY <1>3
  <2>2. /\ Ready(a) /\ a.filters = H.filters
        /\ a.skips = IF flag = "--skip" THEN H.skips \cup {w} ELSE H.skips
        /\ a.flags = IF flag \in {"--skip", "-Z"} THEN H.flags ELSE Append(H.flags, flag)
        /\ PairFormat(H, flag, w, a)
    BY <1>1, <1>2, TakesPair
  <2> HIDE DEF a
  <2> QED BY <2>1, <2>2 DEF PairFormat
<1> HIDE DEF a
<1>4. /\ Ready(t) /\ t.filters = H.filters /\ t.skips = H.skips /\ SameFormat(H, t)
      /\ t.flags = IF flag \in S THEN Append(H.flags, flag) ELSE H.flags
  <2>1. CASE flag \in S
    BY <1>1, <1>3, <2>1
  <2>2. CASE flag \notin S
    BY <1>2, <2>2 DEF H, SameFormat
  <2> QED BY <2>1, <2>2
<1> HIDE DEF t
<1>5. Heard(t, V, HarnessOptions(pre), S)
  BY <1>1, <1>2, <1>4, HeardMore
<1> QED BY <1>4, <1>5 DEF Channel, Alone, Follows, H, t

LEMMA JoinedElements ==
    ASSUME NEW U, NEW a \in Seq(U), NEW b \in Seq(U)
    PROVE  ToSet(a) \subseteq ToSet(a \o b) /\ ToSet(b) \subseteq ToSet(a \o b)
<1>1. DOMAIN a = 1 .. Len(a) /\ DOMAIN b = 1 .. Len(b) /\ DOMAIN (a \o b) = 1 .. Len(a) + Len(b)
      /\ Len(a) \in Nat /\ Len(b) \in Nat
  OBVIOUS
<1>2. ASSUME NEW i \in 1 .. Len(a) PROVE i \in 1 .. Len(a) + Len(b) /\ (a \o b)[i] = a[i]
  BY <1>1
<1>3. ASSUME NEW i \in 1 .. Len(b)
      PROVE  Len(a) + i \in 1 .. Len(a) + Len(b) /\ (a \o b)[Len(a) + i] = b[i]
  BY <1>1
<1> QED BY <1>1, <1>2, <1>3 DEF ToSet

\* A word of the user, as libtest takes it.
LEMMA UserFacts ==
    ASSUME NEW U \in HarnessState, NEW w \in Word
    PROVE  LET V == Takes(U, w)
           IN /\ U.literal \/ (U.awaits = "" /\ w \in Patterns) =>
                   /\ V.filters = U.filters \cup {w} /\ V.skips = U.skips /\ V.flags = U.flags
                   /\ V.awaits = U.awaits /\ V.literal = U.literal
              /\ ~U.literal /\ U.awaits # "" =>
                   /\ V.filters = U.filters /\ V.awaits = "" /\ V.literal = U.literal
                   /\ V.skips = IF U.awaits = "--skip" THEN U.skips \cup {w} ELSE U.skips
                   /\ V.flags = IF U.awaits \in {"--skip", "-Z"} THEN U.flags
                                ELSE Append(U.flags, U.awaits)
              /\ ~U.literal /\ U.awaits = "" /\ w \notin Patterns =>
                   /\ V.filters = U.filters /\ V.skips = U.skips
                   /\ V.awaits = IF w \in ValuedFlags THEN w ELSE ""
                   /\ V.literal = IF w \in ValuedFlags THEN U.literal ELSE w = "--"
                   /\ V.flags = IF w \in ValuedFlags \cup {"--"} THEN U.flags ELSE Append(U.flags, w)
<1> DEFINE V == Takes(U, w)
<1>1. CASE U.literal \/ (U.awaits = "" /\ w \in Patterns)
  <2>1. V = [U EXCEPT !.filters = @ \cup {w}]
    BY <1>1 DEF Takes
  <2> HIDE DEF V
  <2>2. V.filters = U.filters \cup {w} /\ V.skips = U.skips /\ V.flags = U.flags
        /\ V.awaits = U.awaits /\ V.literal = U.literal
    BY <2>1 DEF HarnessState
  <2> QED BY <1>1, <2>2 DEF V
<1>2. CASE ~U.literal /\ U.awaits # ""
  <2> DEFINE o == [U EXCEPT !.awaits = ""]
             f == U.awaits
  <2>1. V = TakesValue(o, f, w)
    BY <1>2 DEF Takes
  <2>2. /\ o \in HarnessState /\ o.filters = U.filters /\ o.skips = U.skips /\ o.flags = U.flags
        /\ o.awaits = "" /\ o.literal = U.literal
    <3>1. "" \in Word
      BY DEF Word, OwnWords
    <3> QED BY <3>1 DEF HarnessState
  <2> HIDE DEF V, o, f
  <2>3. CASE f = "--skip"
    <3>1. V = [o EXCEPT !.skips = @ \cup {w}]
      BY <2>1, <2>3 DEF TakesValue
    <3>2. V.filters = o.filters /\ V.awaits = o.awaits /\ V.literal = o.literal
          /\ V.skips = o.skips \cup {w} /\ V.flags = o.flags
      BY <2>2, <3>1 DEF HarnessState
    <3> QED BY <1>2, <2>2, <2>3, <3>2 DEF V, f
  <2>4. CASE f = "-Z"
    <3>1. V = [o EXCEPT !.unstable = @ \/ w = "unstable-options"]
      BY <2>1, <2>4 DEF TakesValue
    <3>2. V.filters = o.filters /\ V.awaits = o.awaits /\ V.literal = o.literal
          /\ V.skips = o.skips /\ V.flags = o.flags
      BY <2>2, <3>1 DEF HarnessState
    <3> QED BY <1>2, <2>2, <2>4, <3>2 DEF V, f
  <2>5. CASE f \notin {"--skip", "-Z"}
    <3>1. V = [o EXCEPT !.format = w, !.flags = Append(o.flags, f)]
          \/ V = [o EXCEPT !.flags = Append(o.flags, f)]
      BY <2>1, <2>5 DEF TakesValue
    <3>2. V.filters = o.filters /\ V.awaits = o.awaits /\ V.literal = o.literal
          /\ V.skips = o.skips /\ V.flags = Append(o.flags, f)
      BY <2>2, <3>1 DEF HarnessState
    <3> QED BY <1>2, <2>2, <2>5, <3>2 DEF V, f
  <2> QED BY <2>3, <2>4, <2>5
<1>3. CASE ~U.literal /\ U.awaits = "" /\ w \notin Patterns
  <2>0. U.literal = FALSE
    BY <1>3 DEF HarnessState
  <2>1. CASE w \in ValuedFlags
    <3>1. V = [U EXCEPT !.awaits = w]
      BY <1>3, <2>1 DEF Takes
    <3> HIDE DEF V
    <3>2. V.filters = U.filters /\ V.skips = U.skips /\ V.awaits = w /\ V.literal = U.literal
          /\ V.flags = U.flags
      BY <3>1 DEF HarnessState
    <3> QED BY <1>3, <2>1, <3>2 DEF V
  <2>2. CASE w = "--"
    <3>0. w \notin ValuedFlags
      BY <2>2 DEF ValuedFlags
    <3>1. V = [U EXCEPT !.literal = TRUE]
      BY <1>3, <2>2, <3>0 DEF Takes
    <3> HIDE DEF V
    <3>2. V.filters = U.filters /\ V.skips = U.skips /\ V.awaits = U.awaits /\ V.literal = TRUE
          /\ V.flags = U.flags
      BY <3>1 DEF HarnessState
    <3> QED BY <1>3, <2>2, <3>0, <3>2 DEF V
  <2>3. CASE w \notin ValuedFlags \cup {"--"}
    <3>1. V = [U EXCEPT !.flags = Append(@, w)]
      BY <1>3, <2>3 DEF Takes
    <3> HIDE DEF V
    <3>2. V.filters = U.filters /\ V.skips = U.skips /\ V.awaits = U.awaits /\ V.literal = U.literal
          /\ V.flags = Append(U.flags, w)
      BY <3>1 DEF HarnessState
    <3> QED BY <1>3, <2>0, <2>3, <3>2 DEF V
  <2> QED BY <2>1, <2>2, <2>3
<1> QED BY <1>1, <1>2, <1>3

\* What quokka knows of the words that libtest would have taken.
Learns(p, U) ==
    LET F == ToSet(U.flags)
    IN /\ p.awaits = U.awaits /\ p.literal = U.literal
       /\ "--ignored" \in F => "only" \in ToSet(p.policies)
       /\ "--include-ignored" \in F => "include" \in ToSet(p.policies)
       /\ "--exclude-should-panic" \in F => p.listingUnstable
       /\ F \cap (UnstableFlags \cup {"--exclude-should-panic", "--shuffle-seed"}) # {} => p.runUnstable

LEMMA LearnsValue ==
    ASSUME NEW p \in ParseState, NEW U \in HarnessState, Learns(p, U), NEW flag \in ValuedFlags,
           flag \in Word, NEW w, NEW q, ValueElse(p, flag, w, q), NEW V, q.awaits = V.awaits,
           q.literal = V.literal,
           V.flags = IF flag \in {"--skip", "-Z"} THEN U.flags ELSE Append(U.flags, flag)
    PROVE  Learns(q, V)
<1>1. U.flags \in Seq(Word)
  BY DEF HarnessState
<1>2. ToSet(V.flags) = IF flag \in {"--skip", "-Z"} THEN ToSet(U.flags) ELSE ToSet(U.flags) \cup {flag}
  <2>1. ToSet(Append(U.flags, flag)) = ToSet(U.flags) \cup {flag}
    BY <1>1, AppendFacts
  <2> QED BY <2>1
<1>3. flag \notin {"--ignored", "--include-ignored", "--exclude-should-panic"} \cup UnstableFlags
  BY DEF ValuedFlags, UnstableFlags
<1>4. /\ q.policies = p.policies /\ q.listingUnstable = p.listingUnstable
      /\ p.runUnstable \/ flag = "--shuffle-seed" => q.runUnstable
  BY DEF ValueElse
<1> QED BY <1>2, <1>3, <1>4 DEF Learns

LEMMA LearnsFlag ==
    ASSUME NEW p \in ParseState, NEW U \in HarnessState, Learns(p, U), NEW w \in Word, NEW q,
           FlagElse(p, w, q), NEW V, q.awaits = V.awaits, q.literal = V.literal,
           V.flags = IF w = "--" THEN U.flags ELSE Append(U.flags, w), w \notin ValuedFlags
    PROVE  Learns(q, V)
<1>1. U.flags \in Seq(Word) /\ p.policies \in Seq(Word)
  BY DEF HarnessState, ParseState
<1>2. ToSet(V.flags) \subseteq ToSet(U.flags) \cup {w}
  <2>1. ToSet(Append(U.flags, w)) = ToSet(U.flags) \cup {w}
    BY <1>1, AppendFacts
  <2> QED BY <2>1
<1> DEFINE more == CASE w = "--ignored" -> <<"only">>
                     [] w = "--include-ignored" -> <<"include">>
                     [] OTHER -> <<>>
<1>3. /\ q.policies = p.policies \o more
      /\ p.listingUnstable \/ w = "--exclude-should-panic" => q.listingUnstable
      /\ p.runUnstable \/ w \in UnstableFlags \cup {"--exclude-should-panic"} => q.runUnstable
  BY DEF FlagElse
<1>4. more \in Seq(Word) /\ (w = "--ignored" => "only" \in ToSet(more))
      /\ (w = "--include-ignored" => "include" \in ToSet(more))
  <2>1. "only" \in Word /\ "include" \in Word
    BY DEF Word, OwnWords
  <2>2. <<"only">> \in Seq(Word) /\ <<"include">> \in Seq(Word) /\ <<>> \in Seq(Word)
    BY <2>1
  <2>3. "only" \in ToSet(<<"only">>) /\ "include" \in ToSet(<<"include">>)
    BY SingleFacts
  <2> QED BY <2>2, <2>3
<1> HIDE DEF more
<1>5. ToSet(p.policies) \subseteq ToSet(q.policies) /\ ToSet(more) \subseteq ToSet(q.policies)
  BY <1>1, <1>3, <1>4, JoinedElements
<1>6. w # "--shuffle-seed"
  BY DEF ValuedFlags
<1> QED BY <1>2, <1>3, <1>4, <1>5, <1>6 DEF Learns

\* The user's words so far: what quokka knows of them, U, and what the harness would have of them as a
\* listing, as a run of named tests and as a run of the whole target.  Without a --filter, the first
\* and the last choose by the user's filters.
Passed(p, U, preL, preR, preD, ok) ==
    /\ Learns(p, U)
    /\ Channel(preL, p.listing, U, ListingPass) /\ Channel(preR, p.perTest, U, RunPass)
    /\ Channel(preD, p.whole, U, WholePass) /\ Alone(preR, p.perTest)
    /\ ok => Follows(preL, p.listing, U) /\ Follows(preD, p.whole, U)

LEMMA PassedFilter ==
    ASSUME NEW p \in ParseState, NEW U \in HarnessState, NEW ok \in BOOLEAN,
           NEW preL \in Seq(Word), NEW preR \in Seq(Word), NEW preD \in Seq(Word),
           Passed(p, U, preL, preR, preD, ok), NEW w \in Word, w \in Patterns,
           p.literal \/ p.awaits = ""
    PROVE  Passed(Parses(p, w), Takes(U, w), preL, preR, preD, ok)
<1> DEFINE q == Parses(p, w)
           V == Takes(U, w)
           ws == <<w>>
<1>1. p.listing \in Seq(Word) /\ p.perTest \in Seq(Word) /\ p.whole \in Seq(Word)
  BY DEF ParseState
<1>2. q = [p EXCEPT !.listing = p.listing \o ws, !.whole = p.whole \o ws]
  <2>1. ws \in Seq(Word)
    BY OneWord
  <2>2. q = PushFilter(p, ws)
    BY DEF Parses
  <2> HIDE DEF q, ws
  <2> QED BY <2>1, <2>2, PushType
<1>3. /\ q.listing = p.listing \o ws /\ q.whole = p.whole \o ws /\ q.perTest = p.perTest
      /\ q.awaits = p.awaits /\ q.literal = p.literal /\ q.policies = p.policies
      /\ q.listingUnstable = p.listingUnstable /\ q.runUnstable = p.runUnstable
  <2> HIDE DEF q, ws
  <2> QED BY <1>2 DEF ParseState
<1>4. Learns(p, U)
  BY DEF Passed
<1>5. /\ V.filters = U.filters \cup {w} /\ V.skips = U.skips /\ V.flags = U.flags
      /\ V.awaits = U.awaits /\ V.literal = U.literal
  <2>1. U.literal \/ (U.awaits = "" /\ w \in Patterns)
    BY <1>4 DEF Learns
  <2> QED BY <2>1, UserFacts
<1> HIDE DEF q, V
<1>6. Learns(q, V)
  BY <1>3, <1>4, <1>5 DEF Learns
<1> HIDE DEF q, V
<1>12. /\ Channel(preL, p.listing, U, ListingPass) /\ Channel(preR, p.perTest, U, RunPass)
       /\ Channel(preD, p.whole, U, WholePass)
  BY DEF Passed
<1>13. w \in Word /\ w \in Patterns
  OBVIOUS
<1>7. /\ Channel(preL, q.listing, V, ListingPass)
      /\ Follows(preL, p.listing, U) => Follows(preL, q.listing, V)
  <2> DEFINE out == p.listing
  <2>1. out \in Seq(Word) /\ Channel(preL, out, U, ListingPass) /\ V.flags = U.flags
    BY <1>1, <1>5, <1>12
  <2> HIDE DEF out
  <2>2. /\ Channel(preL, out \o <<w>>, V, ListingPass)
        /\ Follows(preL, out, U) /\ V.filters = U.filters \cup {w} /\ V.skips = U.skips =>
             Follows(preL, out \o <<w>>, V)
    BY <1>13, <2>1, ChannelFilter
  <2> QED BY <1>3, <1>5, <2>2 DEF out
<1>8. /\ Channel(preD, q.whole, V, WholePass)
      /\ Follows(preD, p.whole, U) => Follows(preD, q.whole, V)
  <2> DEFINE out == p.whole
  <2>1. out \in Seq(Word) /\ Channel(preD, out, U, WholePass) /\ V.flags = U.flags
    BY <1>1, <1>5, <1>12
  <2> HIDE DEF out
  <2>2. /\ Channel(preD, out \o <<w>>, V, WholePass)
        /\ Follows(preD, out, U) /\ V.filters = U.filters \cup {w} /\ V.skips = U.skips =>
             Follows(preD, out \o <<w>>, V)
    BY <1>13, <2>1, ChannelFilter
  <2> QED BY <1>3, <1>5, <2>2 DEF out
<1>9. Channel(preR, q.perTest, V, RunPass)
  BY <1>3, <1>5, ChannelQuiet DEF Passed
<1>10. Passed(q, V, preL, preR, preD, ok)
  BY <1>3, <1>6, <1>7, <1>8, <1>9 DEF Passed
<1> QED BY <1>10 DEF q, V

LEMMA PassedFlag ==
    ASSUME NEW p \in ParseState, NEW U \in HarnessState, NEW ok \in BOOLEAN,
           NEW preL \in Seq(Word), NEW preR \in Seq(Word), NEW preD \in Seq(Word),
           Passed(p, U, preL, preR, preD, ok), NEW w \in Word, w \notin Patterns,
           ~p.literal, p.awaits = ""
    PROVE  Passed(Parses(p, w), Takes(U, w), preL, preR, preD, ok)
<1> DEFINE q == Parses(p, w)
           V == Takes(U, w)
<1>1. /\ p.listing \in Seq(Word) /\ p.perTest \in Seq(Word) /\ p.whole \in Seq(Word)
      /\ Learns(p, U) /\ p.literal = FALSE
  BY DEF ParseState, Passed
<1>2. /\ V.filters = U.filters /\ V.skips = U.skips
      /\ V.awaits = IF w \in ValuedFlags THEN w ELSE ""
      /\ V.literal = IF w \in ValuedFlags THEN U.literal ELSE w = "--"
      /\ V.flags = IF w \in ValuedFlags \cup {"--"} THEN U.flags ELSE Append(U.flags, w)
  <2>1. ~U.literal /\ U.awaits = "" /\ w \notin Patterns
    BY <1>1 DEF Learns
  <2> QED BY <2>1, UserFacts
<1> HIDE DEF V
<1>3. CASE w \in ValuedFlags
  <2>1. q = [p EXCEPT !.awaits = w]
    BY <1>1, <1>3 DEF Parses
  <2> HIDE DEF q
  <2>2. /\ q.listing = p.listing /\ q.whole = p.whole /\ q.perTest = p.perTest
        /\ q.awaits = w /\ q.literal = p.literal /\ q.policies = p.policies
        /\ q.listingUnstable = p.listingUnstable /\ q.runUnstable = p.runUnstable
    BY <2>1 DEF ParseState
  <2>3. V.flags = U.flags /\ V.awaits = w /\ V.literal = U.literal
    BY <1>2, <1>3
  <2>4. Learns(q, V)
    BY <1>1, <2>2, <2>3 DEF Learns
  <2>5. /\ Channel(preL, q.listing, V, ListingPass) /\ Channel(preR, q.perTest, V, RunPass)
        /\ Channel(preD, q.whole, V, WholePass)
        /\ Follows(preL, p.listing, U) => Follows(preL, q.listing, V)
        /\ Follows(preD, p.whole, U) => Follows(preD, q.whole, V)
    BY <1>2, <2>2, <2>3, ChannelQuiet DEF Passed
  <2>6. Passed(q, V, preL, preR, preD, ok)
    BY <2>2, <2>4, <2>5 DEF Passed
  <2> QED BY <2>6 DEF q, V
<1>4. CASE w \notin ValuedFlags
  <2>1. q = Flag(p, w)
    BY <1>1, <1>4 DEF Parses
  <2> HIDE DEF q
  <2>2. /\ q.awaits = p.awaits /\ q.literal = (w = "--")
        /\ q.listing = IF w \in ListingFlags \cup {"--exact"} THEN Append(p.listing, w) ELSE p.listing
        /\ q.perTest = IF w \in OwnFlags THEN p.perTest ELSE Append(p.perTest, w)
        /\ FlagElse(p, w, q)
    BY <2>1, FlagFacts
  <2>3. /\ V.awaits = "" /\ V.literal = (w = "--")
        /\ V.flags = IF w = "--" THEN U.flags ELSE Append(U.flags, w)
    BY <1>2, <1>4
  <2>4. Learns(q, V)
    <3>1. q.awaits = V.awaits /\ q.literal = V.literal
      BY <2>2, <2>3
    <3> QED BY <1>1, <1>4, <2>2, <2>3, <3>1, LearnsFlag
  <2>5. /\ w \in ListingFlags \cup {"--exact"} <=> w \in ListingPass
        /\ w \in OwnFlags <=> w \notin RunPass
        /\ w \in OwnFlags \ {"--exact"} <=> w \notin WholePass
    BY <1>4 DEF ListingPass, RunPass, WholePass, OwnFlags
  <2>6. /\ q.listing = IF w \in ListingPass THEN Append(p.listing, w) ELSE p.listing
        /\ q.perTest = IF w \in RunPass THEN Append(p.perTest, w) ELSE p.perTest
        /\ q.whole = IF w \in WholePass THEN Append(p.whole, w) ELSE p.whole
    BY <2>2, <2>5 DEF FlagElse
  <2>7. CASE w = "--"
    <3>1. w \notin ListingPass /\ w \notin RunPass /\ w \notin WholePass
      BY <2>5, <2>7 DEF OwnFlags, ListingFlags
    <3>2. q.listing = p.listing /\ q.perTest = p.perTest /\ q.whole = p.whole /\ V.flags = U.flags
      BY <2>3, <2>6, <2>7, <3>1
    <3>3. /\ Channel(preL, q.listing, V, ListingPass) /\ Channel(preR, q.perTest, V, RunPass)
          /\ Channel(preD, q.whole, V, WholePass)
          /\ Follows(preL, p.listing, U) => Follows(preL, q.listing, V)
          /\ Follows(preD, p.whole, U) => Follows(preD, q.whole, V)
      BY <1>2, <3>2, ChannelQuiet DEF Passed
    <3>4. Passed(q, V, preL, preR, preD, ok)
      BY <2>4, <3>2, <3>3 DEF Passed
    <3> QED BY <3>4 DEF q, V
  <2>8. CASE w # "--"
    <3>1. w \notin Patterns \cup ValuedFlags \cup {"--"} /\ V.flags = Append(U.flags, w)
      BY <1>4, <2>3, <2>8
    <3>2. /\ Channel(preL, p.listing, U, ListingPass) /\ Channel(preR, p.perTest, U, RunPass)
          /\ Channel(preD, p.whole, U, WholePass)
      BY DEF Passed
    <3>3. /\ Channel(preL, q.listing, V, ListingPass)
          /\ Follows(preL, p.listing, U) => Follows(preL, q.listing, V)
      <4> DEFINE out == p.listing
                 new == q.listing
      <4>1. /\ out \in Seq(Word) /\ Channel(preL, out, U, ListingPass)
            /\ new = IF w \in ListingPass THEN Append(out, w) ELSE out
        BY <1>1, <2>6, <3>2
      <4> HIDE DEF out, new
      <4>2. /\ Channel(preL, new, V, ListingPass)
            /\ Alone(preL, out) => Alone(preL, new)
            /\ Follows(preL, out, U) /\ V.filters = U.filters /\ V.skips = U.skips =>
                 Follows(preL, new, V)
        BY <3>1, <4>1, ChannelFlag
      <4> QED BY <1>2, <4>2 DEF out, new
    <3>4. /\ Channel(preR, q.perTest, V, RunPass)
          /\ Alone(preR, p.perTest) => Alone(preR, q.perTest)
      <4> DEFINE out == p.perTest
                 new == q.perTest
      <4>1. /\ out \in Seq(Word) /\ Channel(preR, out, U, RunPass)
            /\ new = IF w \in RunPass THEN Append(out, w) ELSE out
        BY <1>1, <2>6, <3>2
      <4> HIDE DEF out, new
      <4>2. /\ Channel(preR, new, V, RunPass)
            /\ Alone(preR, out) => Alone(preR, new)
            /\ Follows(preR, out, U) /\ V.filters = U.filters /\ V.skips = U.skips =>
                 Follows(preR, new, V)
        BY <3>1, <4>1, ChannelFlag
      <4> QED BY <1>2, <4>2 DEF out, new
    <3>5. /\ Channel(preD, q.whole, V, WholePass)
          /\ Follows(preD, p.whole, U) => Follows(preD, q.whole, V)
      <4> DEFINE out == p.whole
                 new == q.whole
      <4>1. /\ out \in Seq(Word) /\ Channel(preD, out, U, WholePass)
            /\ new = IF w \in WholePass THEN Append(out, w) ELSE out
        BY <1>1, <2>6, <3>2
      <4> HIDE DEF out, new
      <4>2. /\ Channel(preD, new, V, WholePass)
            /\ Alone(preD, out) => Alone(preD, new)
            /\ Follows(preD, out, U) /\ V.filters = U.filters /\ V.skips = U.skips =>
                 Follows(preD, new, V)
        BY <3>1, <4>1, ChannelFlag
      <4> QED BY <1>2, <4>2 DEF out, new
    <3>6. Passed(q, V, preL, preR, preD, ok)
      BY <2>4, <3>3, <3>4, <3>5 DEF Passed
    <3> QED BY <3>6 DEF q, V
  <2> QED BY <2>7, <2>8
<1> QED BY <1>3, <1>4

\* The harness after a flag and its value, and a channel that has the user's filters.
Heeds(U, V, flag, w) ==
    /\ V.flags = IF flag \in {"--skip", "-Z"} THEN U.flags ELSE Append(U.flags, flag)
    /\ V.filters = U.filters
    /\ V.skips = IF flag = "--skip" THEN U.skips \cup {w} ELSE U.skips
Filtering(out, new, S, flag, w) ==
    new = IF flag = "--skip" THEN out \o <<"--skip", w>>
          ELSE IF flag = "--filter" THEN out \o <<w>>
          ELSE IF flag \in S THEN out \o <<flag, w>> ELSE out

\* A flag and its value, in such a channel.
LEMMA FilteringValue ==
    ASSUME NEW pre \in Seq(Word), NEW out \in Seq(Word), NEW U \in HarnessState, NEW S,
           Channel(pre, out, U, S), NEW w \in Word, NEW flag \in ValuedFlags, flag \in Word,
           S \cap {"--skip", "--filter", "-Z", "--format"} = {}, flag = "--filter" => w \in Patterns,
           NEW V, Heeds(U, V, flag, w), NEW new, Filtering(out, new, S, flag, w)
    PROVE  /\ Channel(pre, new, V, S)
           /\ flag # "--filter" /\ Follows(pre, out, U) => Follows(pre, new, V)
<1>1. CASE flag = "--skip"
  <2>1. V.flags = U.flags /\ V.filters = U.filters /\ V.skips = U.skips \cup {w} /\ new = out \o <<"--skip", w>>
    BY <1>1 DEF Heeds, Filtering
  <2>2. /\ Channel(pre, out \o <<"--skip", w>>, V, S)
        /\ Follows(pre, out, U) /\ V.filters = U.filters /\ V.skips = U.skips \cup {w} =>
             Follows(pre, out \o <<"--skip", w>>, V)
    BY <2>1, ChannelSkip
  <2> QED BY <2>1, <2>2
<1>2. CASE flag = "-Z"
  <2>1. V.flags = U.flags /\ V.filters = U.filters /\ V.skips = U.skips /\ new = out
    BY <1>2 DEF Heeds, Filtering
  <2> QED BY <2>1, ChannelQuiet
<1>3. CASE flag = "--filter"
  <2>1. V.flags = Append(U.flags, flag) /\ new = out \o <<w>> /\ flag \notin S /\ w \in Patterns
    BY <1>3 DEF Heeds, Filtering
  <2>2. Channel(pre, out, V, S)
    <3> DEFINE old == out
    <3>1. old = IF flag \in S THEN out \o <<flag, w>> ELSE out
      BY <2>1
    <3>2. flag \in S => flag \notin {"--skip", "-Z", "--format"}
      BY <2>1
    <3> HIDE DEF old
    <3>3. Channel(pre, old, V, S)
      BY <2>1, <3>1, <3>2, ChannelValue
    <3> QED BY <3>3 DEF old
  <2>3. Channel(pre, out \o <<w>>, V, S)
    BY <2>1, <2>2, ChannelFilter
  <2> QED BY <1>3, <2>1, <2>3
<1>4. CASE flag \notin {"--skip", "-Z", "--filter"}
  <2>1. V.flags = Append(U.flags, flag) /\ V.filters = U.filters /\ V.skips = U.skips
        /\ new = IF flag \in S THEN out \o <<flag, w>> ELSE out
    BY <1>4 DEF Heeds, Filtering
  <2>2. flag \in S => flag \notin {"--skip", "-Z", "--format"}
    OBVIOUS
  <2> QED BY <2>1, <2>2, ChannelValue
<1> QED BY <1>1, <1>2, <1>3, <1>4

\* And in the one that has not.
LEMMA RunningValue ==
    ASSUME NEW pre \in Seq(Word), NEW out \in Seq(Word), NEW U \in HarnessState, NEW S,
           Channel(pre, out, U, S), NEW w \in Word, NEW flag \in ValuedFlags, flag \in Word,
           S \cap {"--skip", "-Z", "--format"} = {},
           NEW V, Heeds(U, V, flag, w),
           NEW new, new = IF flag \in S THEN out \o <<flag, w>> ELSE out
    PROVE  Channel(pre, new, V, S) /\ (Alone(pre, out) => Alone(pre, new))
<1>1. CASE flag \in {"--skip", "-Z"}
  <2>1. V.flags = U.flags /\ new = out
    BY <1>1 DEF Heeds, Filtering
  <2> QED BY <2>1, ChannelQuiet
<1>2. CASE flag \notin {"--skip", "-Z"}
  <2>1. V.flags = Append(U.flags, flag) /\ (flag \in S => flag \notin {"--skip", "-Z", "--format"})
    BY <1>2 DEF Heeds
  <2> QED BY <2>1, ChannelValue
<1> QED BY <1>1, <1>2

LEMMA PassedValue ==
    ASSUME NEW p \in ParseState, NEW U \in HarnessState, NEW ok \in BOOLEAN,
           NEW preL \in Seq(Word), NEW preR \in Seq(Word), NEW preD \in Seq(Word),
           Passed(p, U, preL, preR, preD, ok), NEW w \in Word,
           ~p.literal, p.awaits # "", p.awaits = "--filter" => w \in Patterns,
           ok => p.awaits # "--filter"
    PROVE  Passed(Parses(p, w), Takes(U, w), preL, preR, preD, ok)
<1> DEFINE q == Parses(p, w)
           V == Takes(U, w)
           o == [p EXCEPT !.awaits = ""]
           flag == p.awaits
<1>1. /\ p.listing \in Seq(Word) /\ p.perTest \in Seq(Word) /\ p.whole \in Seq(Word)
      /\ Learns(p, U) /\ p.literal = FALSE /\ flag \in ValuedFlags
  BY DEF ParseState, Passed
<1>2. flag \in Word
  BY <1>1 DEF Word, OwnWords, ValuedFlags
<1>3. /\ o \in ParseState /\ o.listing = p.listing /\ o.perTest = p.perTest /\ o.whole = p.whole
      /\ o.policies = p.policies /\ o.listingUnstable = p.listingUnstable
      /\ o.runUnstable = p.runUnstable /\ o.awaits = "" /\ o.literal = FALSE
  BY <1>1 DEF ParseState
<1>4. q = Value(o, flag, w)
  BY DEF Parses
<1>5. Heeds(U, V, flag, w) /\ V.awaits = "" /\ V.literal = U.literal
  <2>1. ~U.literal /\ U.awaits = flag /\ U.awaits # ""
    BY <1>1 DEF Learns
  <2> HIDE DEF V, flag
  <2>2. /\ V.filters = U.filters /\ V.awaits = "" /\ V.literal = U.literal
        /\ V.skips = IF U.awaits = "--skip" THEN U.skips \cup {w} ELSE U.skips
        /\ V.flags = IF U.awaits \in {"--skip", "-Z"} THEN U.flags ELSE Append(U.flags, U.awaits)
    BY <2>1, UserFacts DEF V
  <2> QED BY <2>1, <2>2 DEF Heeds
<1>a. U.literal = FALSE
  BY <1>1 DEF Learns
<1> HIDE DEF q, V, o, flag
<1>6. /\ q.awaits = o.awaits /\ q.literal = o.literal
      /\ q.listing = IF flag = "--skip" THEN o.listing \o <<"--skip", w>>
                     ELSE IF flag = "--filter" THEN o.listing \o <<w>> ELSE o.listing
      /\ q.perTest = IF flag \in {"--logfile", "--shuffle-seed"} THEN o.perTest \o <<flag, w>>
                     ELSE o.perTest
      /\ ValueElse(o, flag, w, q)
  BY <1>1, <1>3, <1>4, ValueFacts
<1>7. ValueElse(p, flag, w, q)
  BY <1>3, <1>6 DEF ValueElse
<1>8. Learns(q, V)
  <2>1. q.awaits = V.awaits /\ q.literal = V.literal
    BY <1>3, <1>5, <1>6, <1>a
  <2> QED BY <1>1, <1>2, <1>5, <1>7, <2>1, LearnsValue DEF Heeds
<1>9. /\ Channel(preL, p.listing, U, ListingPass) /\ Channel(preR, p.perTest, U, RunPass)
      /\ Channel(preD, p.whole, U, WholePass)
  BY DEF Passed
<1>10. flag = "--filter" => w \in Patterns
  BY DEF flag
<1>11. /\ Channel(preL, q.listing, V, ListingPass)
       /\ flag # "--filter" /\ Follows(preL, p.listing, U) => Follows(preL, q.listing, V)
  <2> DEFINE out == p.listing
             new == q.listing
  <2>1. out \in Seq(Word) /\ Channel(preL, out, U, ListingPass)
    BY <1>1, <1>9
  <2>2. ListingPass \cap {"--skip", "--filter", "-Z", "--format"} = {} /\ flag \notin ListingPass
    BY <1>1 DEF ListingPass, ListingFlags, ValuedFlags
  <2>3. new = IF flag = "--skip" THEN out \o <<"--skip", w>>
              ELSE IF flag = "--filter" THEN out \o <<w>>
              ELSE IF flag \in ListingPass THEN out \o <<flag, w>> ELSE out
    BY <1>3, <1>6, <2>2
  <2>5. Filtering(out, new, ListingPass, flag, w)
    BY <2>3 DEF Filtering
  <2> HIDE DEF out, new
  <2>4. /\ Channel(preL, new, V, ListingPass)
        /\ flag # "--filter" /\ Follows(preL, out, U) => Follows(preL, new, V)
    BY <1>1, <1>2, <1>5, <1>10, <2>1, <2>2, <2>5, FilteringValue
  <2> QED BY <2>4 DEF out, new
<1>12. /\ Channel(preD, q.whole, V, WholePass)
       /\ flag # "--filter" /\ Follows(preD, p.whole, U) => Follows(preD, q.whole, V)
  <2> DEFINE out == p.whole
             new == q.whole
  <2>1. out \in Seq(Word) /\ Channel(preD, out, U, WholePass)
    BY <1>1, <1>9
  <2>2. WholePass \cap {"--skip", "--filter", "-Z", "--format"} = {}
        /\ (flag \in WholePass <=> flag \in {"--logfile", "--shuffle-seed"})
    BY <1>1, <1>2 DEF WholePass, RunPass, OwnFlags, ValuedFlags
  <2>3. new = IF flag = "--skip" THEN out \o <<"--skip", w>>
              ELSE IF flag = "--filter" THEN out \o <<w>>
              ELSE IF flag \in WholePass THEN out \o <<flag, w>> ELSE out
    <3>1. new = IF flag = "--filter" THEN out \o <<w>>
                 ELSE IF flag \in {"--skip", "--logfile", "--shuffle-seed"} THEN out \o <<flag, w>>
                 ELSE out
      BY <1>7 DEF ValueElse
    <3> HIDE DEF new, out
    <3>2. CASE flag = "--skip"
      BY <3>1, <3>2
    <3>3. CASE flag # "--skip"
      BY <2>2, <3>1, <3>3
    <3> QED BY <3>2, <3>3
  <2>5. Filtering(out, new, WholePass, flag, w)
    BY <2>3 DEF Filtering
  <2> HIDE DEF out, new
  <2>4. /\ Channel(preD, new, V, WholePass)
        /\ flag # "--filter" /\ Follows(preD, out, U) => Follows(preD, new, V)
    BY <1>1, <1>2, <1>5, <1>10, <2>1, <2>2, <2>5, FilteringValue
  <2> QED BY <2>4 DEF out, new
<1>13. Channel(preR, q.perTest, V, RunPass) /\ (Alone(preR, p.perTest) => Alone(preR, q.perTest))
  <2> DEFINE out == p.perTest
             new == q.perTest
  <2>1. out \in Seq(Word) /\ Channel(preR, out, U, RunPass)
    BY <1>1, <1>9
  <2>2. RunPass \cap {"--skip", "-Z", "--format"} = {}
        /\ (flag \in RunPass <=> flag \in {"--logfile", "--shuffle-seed"})
    BY <1>1, <1>2 DEF RunPass, OwnFlags, ValuedFlags
  <2>3. new = IF flag \in RunPass THEN out \o <<flag, w>> ELSE out
    BY <1>3, <1>6, <2>2
  <2> HIDE DEF out, new
  <2>4. Channel(preR, new, V, RunPass) /\ (Alone(preR, out) => Alone(preR, new))
    BY <1>1, <1>2, <1>5, <2>1, <2>2, <2>3, RunningValue
  <2> QED BY <2>4 DEF out, new
<1>14. Passed(q, V, preL, preR, preD, ok)
  <2>1. ok => flag # "--filter"
    BY DEF flag
  <2> QED BY <1>8, <1>11, <1>12, <1>13, <2>1 DEF Passed
<1> QED BY <1>14 DEF q, V

LEMMA PassedStep ==
    ASSUME NEW p \in ParseState, NEW U \in HarnessState, NEW ok \in BOOLEAN,
           NEW preL \in Seq(Word), NEW preR \in Seq(Word), NEW preD \in Seq(Word),
           Passed(p, U, preL, preR, preD, ok), NEW w \in Word,
           p.literal => p.awaits = "" /\ w \in Patterns, p.awaits = "--filter" => w \in Patterns,
           ok => p.awaits # "--filter"
    PROVE  Passed(Parses(p, w), Takes(U, w), preL, preR, preD, ok)
<1>1. CASE w \in Patterns /\ (p.literal \/ p.awaits = "")
  BY <1>1, PassedFilter
<1>2. CASE w \notin Patterns /\ ~p.literal /\ p.awaits = ""
  BY <1>2, PassedFlag
<1>3. CASE ~p.literal /\ p.awaits # ""
  BY <1>3, PassedValue
<1> QED BY <1>1, <1>2, <1>3

\* What quokka knows, after all the words, and what the harness is given.
LEMMA PassedAll ==
    ASSUME NEW words \in Seq(Word), PlainFilters(words),
           NEW preL \in Seq(Word), NEW preR \in Seq(Word), NEW preD \in Seq(Word),
           Ready(HarnessOptions(preL)), Ready(HarnessOptions(preR)), Ready(HarnessOptions(preD))
    PROVE  Passed(Parse(words), HarnessOptions(words), preL, preR, preD, "--filter" \notin ToSet(words))
<1> DEFINE n == Len(words)
           ok == "--filter" \notin ToSet(words)
<1>1. PICK g \in [0 .. n -> ParseState] : ParsesAll(g, words)
  BY ParseSteps
<1>2. /\ g[0] = Parsed0 /\ g[n] = Parse(words)
      /\ \A k \in 0 .. n - 1 : g[k + 1] = Parses(g[k], words[k + 1])
  BY <1>1 DEF ParsesAll
<1>3. n \in Nat /\ DOMAIN words = 1 .. n /\ \A k \in 1 .. n : words[k] \in Word
  OBVIOUS
<1>7. PICK h \in [0 .. n -> HarnessState] : Harnesses(h, words)
  BY HarnessSteps
<1>8. /\ h[0] = Harness0 /\ h[n] = HarnessOptions(words)
      /\ \A k \in 0 .. n - 1 : h[k + 1] = Takes(h[k], words[k + 1])
  BY <1>7 DEF Harnesses
<1>9. ok \in BOOLEAN /\ \A k \in 1 .. n : ok => words[k] # "--filter"
  BY <1>3 DEF ToSet
<1> HIDE DEF n, ok
<1> DEFINE T == {k \in 0 .. n :
                   /\ Passed(g[k], h[k], preL, preR, preD, ok)
                   /\ g[k].literal => g[k].awaits = "" /\ \E i \in 1 .. k : words[i] = "--"
                   /\ g[k].awaits = "--filter" => k >= 1 /\ words[k] = "--filter"}
<1>4. 0 \in T
  <2>1. /\ Parsed0.listing = <<>> /\ Parsed0.perTest = <<>> /\ Parsed0.whole = <<>>
        /\ Parsed0.literal = FALSE /\ Parsed0.awaits = ""
    BY DEF Parsed0
  <2>2. /\ Sees(preL, <<>>) = HarnessOptions(preL) /\ Sees(preR, <<>>) = HarnessOptions(preR)
        /\ Sees(preD, <<>>) = HarnessOptions(preD)
    BY Associates DEF Sees
  <2>3. /\ Harness0.filters = {} /\ Harness0.skips = {} /\ ToSet(Harness0.flags) = {}
        /\ Harness0.awaits = "" /\ Harness0.literal = FALSE
    BY EmptyFacts DEF Harness0
  <2>4. ASSUME NEW pre \in Seq(Word), Ready(HarnessOptions(pre)), NEW S,
               Sees(pre, <<>>) = HarnessOptions(pre)
        PROVE  /\ Channel(pre, <<>>, Harness0, S) /\ Alone(pre, <<>>)
               /\ Follows(pre, <<>>, Harness0)
    BY <2>3, <2>4 DEF Channel, Heard, SameFormat, Alone, Follows
  <2>5. Learns(Parsed0, Harness0)
    BY <2>1, <2>3 DEF Learns
  <2>6. Passed(Parsed0, Harness0, preL, preR, preD, ok)
    BY <2>1, <2>2, <2>4, <2>5 DEF Passed
  <2>7. g[0].literal = FALSE /\ g[0].awaits # "--filter"
    BY <1>2, <2>1
  <2>8. 0 \in 0 .. n
    BY <1>3
  <2> QED BY <1>2, <1>8, <2>6, <2>7, <2>8
<1>5. ASSUME NEW k \in 0 .. n - 1, k \in T PROVE k + 1 \in T
  <2> DEFINE p == g[k]
             U == h[k]
             w == words[k + 1]
             q == g[k + 1]
             V == h[k + 1]
  <2>10. k \in Nat /\ k \in 0 .. n /\ k + 1 \in 1 .. n /\ k + 1 \in 0 .. n
    BY <1>3
  <2>11. p \in ParseState /\ w \in Word /\ q = Parses(p, w) /\ U \in HarnessState /\ V = Takes(U, w)
    BY <1>1, <1>2, <1>3, <1>7, <1>8, <2>10
  <2>12. /\ Passed(p, U, preL, preR, preD, ok)
         /\ p.literal => p.awaits = "" /\ \E i \in 1 .. k : words[i] = "--"
         /\ p.awaits = "--filter" => k >= 1 /\ words[k] = "--filter"
    BY <1>5
  <2>13. w = words[k + 1] /\ q = g[k + 1] /\ V = h[k + 1]
    OBVIOUS
  <2>14. n = Len(words) /\ n \in Nat /\ DOMAIN words = 1 .. n
    BY <1>3 DEF n
  <2> HIDE DEF p, U, w, q, V, T
  <2>2. p.literal => w \in Patterns
    <3>1. ASSUME NEW i \in 1 .. k, words[i] = "--" PROVE w \in Patterns
      <4>1. i \in DOMAIN words /\ k + 1 \in i + 1 .. Len(words)
        BY <2>10, <2>14, <3>1
      <4> QED BY <2>13, <3>1, <4>1 DEF PlainFilters
    <3> QED BY <2>12, <3>1
  <2>3. p.awaits = "--filter" => w \in Patterns
    <3>1. ASSUME k >= 1, words[k] = "--filter" PROVE w \in Patterns
      <4>1. k \in DOMAIN words /\ k < Len(words)
        BY <2>10, <2>14, <3>1
      <4> QED BY <2>13, <3>1, <4>1 DEF PlainFilters
    <3> QED BY <2>12, <3>1
  <2>15. ok => p.awaits # "--filter"
    <3>1. ASSUME ok, p.awaits = "--filter" PROVE FALSE
      <4>1. k \in 1 .. n /\ words[k] = "--filter"
        BY <2>10, <2>12, <2>14, <3>1
      <4> QED BY <1>9, <3>1, <4>1
    <3> QED BY <3>1
  <2>4. Passed(q, V, preL, preR, preD, ok)
    BY <1>9, <2>11, <2>12, <2>15, <2>2, <2>3, PassedStep
  <2>5. /\ q.literal => q.awaits = "" /\ (p.literal \/ w = "--")
        /\ q.awaits = "--filter" => w = "--filter"
    <3>1. CASE p.literal \/ (p.awaits = "" /\ w \in Patterns)
      <4>1. <<w>> \in Seq(Word)
        BY <2>11
      <4>2. q = [p EXCEPT !.listing = p.listing \o <<w>>, !.whole = p.whole \o <<w>>]
        BY <2>11, <2>12, <3>1, <4>1, PushType DEF Parses
      <4>3. q.literal = p.literal /\ q.awaits = p.awaits
        BY <2>11, <2>12, <4>2 DEF ParseState
      <4> QED BY <2>11, <2>12, <3>1, <4>3
    <3>2. CASE ~(p.literal \/ (p.awaits = "" /\ w \in Patterns)) /\ p.awaits # ""
      <4> DEFINE o == [p EXCEPT !.awaits = ""]
      <4>1. o \in ParseState /\ o.literal = p.literal /\ o.awaits = "" /\ p.awaits \in ValuedFlags
        BY <2>11, <2>12, <3>2 DEF ParseState
      <4>2. q = Value(o, p.awaits, w)
        BY <2>11, <2>12, <3>2 DEF Parses
      <4> HIDE DEF o
      <4> DEFINE flag == p.awaits
      <4>4. flag \in ValuedFlags /\ q = Value(o, flag, w)
        BY <4>1, <4>2
      <4> HIDE DEF flag
      <4>3. q.literal = o.literal /\ q.awaits = o.awaits
        <5>1. w \in Word
          BY <2>11
        <5>2. o \in ParseState /\ flag \in ValuedFlags
          BY <4>1, <4>4
        <5>3. Value(o, flag, w).literal = o.literal /\ Value(o, flag, w).awaits = o.awaits
          BY <5>1, <5>2, ValueFacts
        <5> QED BY <4>4, <5>3
      <4> QED BY <3>2, <4>1, <4>3
    <3>3. CASE ~(p.literal \/ (p.awaits = "" /\ w \in Patterns)) /\ p.awaits = "" /\ w \in ValuedFlags
      <4>1. q = [p EXCEPT !.awaits = w]
        BY <2>11, <2>12, <3>3 DEF Parses
      <4>2. q.awaits = w /\ q.literal = p.literal
        BY <2>11, <2>12, <4>1 DEF ParseState
      <4> QED BY <3>3, <4>2
    <3>4. CASE ~(p.literal \/ (p.awaits = "" /\ w \in Patterns)) /\ p.awaits = "" /\ w \notin ValuedFlags
      <4>1. q = Flag(p, w)
        BY <2>11, <2>12, <3>4 DEF Parses
      <4>2. q.literal = (w = "--") /\ q.awaits = p.awaits
        BY <2>11, <4>1, FlagFacts
      <4> QED BY <3>4, <4>2
    <3> QED BY <3>1, <3>2, <3>3, <3>4
  <2>6. q.literal => \E i \in 1 .. k + 1 : words[i] = "--"
    <3>1. ASSUME NEW i \in 1 .. k, words[i] = "--" PROVE \E j \in 1 .. k + 1 : words[j] = "--"
      BY <2>10, <3>1
    <3>2. ASSUME w = "--" PROVE \E j \in 1 .. k + 1 : words[j] = "--"
      <4>1. k + 1 \in 1 .. k + 1
        BY <2>10
      <4>2. words[k + 1] = "--"
        BY <2>13, <3>2
      <4> QED BY <4>1, <4>2
    <3> QED BY <2>11, <2>12, <2>5, <3>1, <3>2
  <2>7. q.awaits = "--filter" => k + 1 >= 1 /\ words[k + 1] = "--filter"
    BY <2>10, <2>13, <2>5
  <2>8. /\ Passed(g[k + 1], h[k + 1], preL, preR, preD, ok)
        /\ g[k + 1].literal => g[k + 1].awaits = "" /\ \E i \in 1 .. k + 1 : words[i] = "--"
        /\ g[k + 1].awaits = "--filter" => k + 1 >= 1 /\ words[k + 1] = "--filter"
    BY <2>13, <2>4, <2>5, <2>6, <2>7
  <2> QED BY <2>10, <2>8 DEF T
<1> HIDE DEF T
<1>6. n \in T
  <2>1. \A k \in 0 .. n : k \in T
    BY <1>3, <1>4, <1>5, UpTo
  <2> QED BY <1>3, <2>1
<1> QED BY <1>2, <1>8, <1>6 DEF T, ok


\* After the words of b, the harness has what it had after those of a, and the flags F.
Adds(a, b, F) ==
    LET g == HarnessOptions(a)
        h == HarnessOptions(b)
    IN /\ b \in Seq(Word) /\ Ready(h) /\ h.filters = g.filters /\ h.skips = g.skips
       /\ ToSet(h.flags) = ToSet(g.flags) \cup F
       /\ IsInjective(g.flags) /\ ToSet(g.flags) \cap F = {} => IsInjective(h.flags)
       /\ g.unstable => h.unstable
       /\ "--format" \notin F => h.format = g.format

LEMMA AddsFlag ==
    ASSUME NEW a \in Seq(Word), Ready(HarnessOptions(a)),
           NEW w \in Word, w \in OwnFlags \ {"--"}
    PROVE  Adds(a, a \o <<w>>, {w})
<1> DEFINE g == HarnessOptions(a)
           t == Takes(g, w)
<1>1. g \in HarnessState /\ g.flags \in Seq(Word)
  BY HarnessType DEF HarnessState
<1>2. a \o <<w>> = Append(a, w) /\ Append(a, w) \in Seq(Word)
  BY AppendJoins
<1>3. HarnessOptions(a \o <<w>>) = t
  BY <1>2, OneWordMore
<1>4. w \notin Patterns \cup ValuedFlags \cup {"--"}
  BY PatternsAssumption DEF OwnFlags, ValuedFlags
<1> HIDE DEF g
<1>5. /\ Ready(t) /\ t.filters = g.filters /\ t.skips = g.skips /\ t.flags = Append(g.flags, w)
      /\ SameFormat(g, t)
  BY <1>1, <1>4, TakesFacts DEF g
<1> HIDE DEF t
<1>6. /\ ToSet(t.flags) = ToSet(g.flags) \cup {w}
      /\ IsInjective(g.flags) /\ w \notin ToSet(g.flags) => IsInjective(t.flags)
  BY <1>1, <1>5, AppendFacts
<1>7. t.format = g.format /\ (g.unstable => t.unstable)
  BY <1>5 DEF SameFormat
<1> QED BY <1>2, <1>3, <1>5, <1>6, <1>7 DEF Adds, g

LEMMA AddsPair ==
    ASSUME NEW a \in Seq(Word), Ready(HarnessOptions(a)),
           NEW flag \in ValuedFlags \ {"--skip"}, flag \in Word, NEW w \in Word
    PROVE  /\ Adds(a, a \o <<flag, w>>, IF flag = "-Z" THEN {} ELSE {flag})
           /\ flag = "-Z" /\ w = "unstable-options" => HarnessOptions(a \o <<flag, w>>).unstable
<1> DEFINE g == HarnessOptions(a)
           t == Takes(Takes(g, flag), w)
           F == IF flag = "-Z" THEN {} ELSE {flag}
<1>1. g \in HarnessState /\ g.flags \in Seq(Word)
  BY HarnessType DEF HarnessState
<1>2. HarnessOptions(a \o <<flag, w>>) = t /\ a \o <<flag, w>> \in Seq(Word)
  <2>1. <<>> \in Seq(Word) /\ <<flag, w>> \in Seq(Word)
    OBVIOUS
  <2>2. a \o <<>> = a /\ a \o <<flag, w>> \in Seq(Word)
    BY <2>1, Associates
  <2>3. Append(a, flag) \in Seq(Word) /\ Append(Append(a, flag), w) \in Seq(Word)
        /\ a \o <<flag>> = Append(a, flag)
    BY AppendJoins
  <2>4. <<flag, w>> = Append(<<flag>>, w)
    OBVIOUS
  <2>5. <<flag>> \in Seq(Word)
    OBVIOUS
  <2>6. a \o Append(<<flag>>, w) = Append(a \o <<flag>>, w)
    BY <2>5, AppendJoins
  <2>7. HarnessOptions(Append(Append(a, flag), w)) = t
    BY <2>3, OneWordMore
  <2> QED BY <2>2, <2>3, <2>4, <2>6, <2>7
<1> HIDE DEF g
<1>3. /\ Ready(t) /\ t.filters = g.filters /\ t.skips = g.skips
      /\ t.flags = IF flag = "-Z" THEN g.flags ELSE Append(g.flags, flag)
      /\ PairFormat(g, flag, w, t)
  <2>1. flag \in ValuedFlags /\ flag # "--skip" /\ Ready(g)
    BY DEF g
  <2>2. /\ Ready(t) /\ t.filters = g.filters
        /\ t.skips = IF flag = "--skip" THEN g.skips \cup {w} ELSE g.skips
        /\ t.flags = IF flag \in {"--skip", "-Z"} THEN g.flags ELSE Append(g.flags, flag)
        /\ PairFormat(g, flag, w, t)
    BY <1>1, <2>1, TakesPair
  <2> HIDE DEF t
  <2> QED BY <2>1, <2>2
<1> HIDE DEF t
<1>4. /\ ToSet(t.flags) = ToSet(g.flags) \cup F
      /\ IsInjective(g.flags) /\ ToSet(g.flags) \cap F = {} => IsInjective(t.flags)
  <2>1. /\ ToSet(Append(g.flags, flag)) = ToSet(g.flags) \cup {flag}
        /\ IsInjective(g.flags) /\ flag \notin ToSet(g.flags) => IsInjective(Append(g.flags, flag))
    BY <1>1, AppendFacts
  <2>2. CASE flag = "-Z"
    BY <1>3, <2>2
  <2>3. CASE flag # "-Z"
    <3>1. F = {flag} /\ t.flags = Append(g.flags, flag)
      BY <1>3, <2>3
    <3> QED BY <2>1, <3>1
  <2> QED BY <2>2, <2>3
<1>5. /\ g.unstable => t.unstable
      /\ "--format" \notin F => t.format = g.format
      /\ flag = "-Z" /\ w = "unstable-options" => t.unstable
  <2>1. CASE flag = "-Z"
    BY <1>3, <2>1 DEF PairFormat
  <2>2. CASE flag = "--format"
    BY <1>3, <2>2 DEF PairFormat
  <2>3. CASE flag \notin {"-Z", "--format"}
    BY <1>3, <2>3 DEF PairFormat, SameFormat
  <2> QED BY <2>1, <2>2, <2>3
<1> HIDE DEF F
<1>6. Adds(a, a \o <<flag, w>>, F)
  BY <1>2, <1>3, <1>4, <1>5 DEF Adds, g
<1> QED BY <1>2, <1>5, <1>6 DEF F

LEMMA AddsMore ==
    ASSUME NEW a, NEW b, NEW c, NEW F, NEW G, Adds(a, b, F), Adds(b, c, G), F \cap G = {}
    PROVE  Adds(a, c, F \cup G)
  BY DEF Adds

LEMMA AddsNone ==
    ASSUME NEW a \in Seq(Word), Ready(HarnessOptions(a))
    PROVE  Adds(a, a \o <<>>, {})
<1>1. a \o <<>> = a
  BY Associates
<1> QED BY <1>1 DEF Adds

\* Words that quokka adds.
LEMMA AddsPolicy ==
    ASSUME NEW a \in Seq(Word), Ready(HarnessOptions(a)), NEW policy \in Policies
    PROVE  /\ Adds(a, a \o PolicyFlag[policy], CASE policy = "only" -> {"--ignored"}
                                                 [] policy = "include" -> {"--include-ignored"}
                                                 [] policy = "exclude" -> {})
           /\ PolicyFlag[policy] \in Seq(Word)
<1>1. "--ignored" \in Word /\ "--include-ignored" \in Word
  BY DEF Word, OwnWords
<1>2. "--ignored" \in OwnFlags \ {"--"} /\ "--include-ignored" \in OwnFlags \ {"--"}
  BY DEF OwnFlags
<1>3. /\ <<"--ignored">> \in Seq(Word) /\ <<"--include-ignored">> \in Seq(Word) /\ <<>> \in Seq(Word)
  BY <1>1
<1>4. CASE policy = "only"
  <2>1. PolicyFlag[policy] = <<"--ignored">>
    BY <1>4 DEF PolicyFlag
  <2>2. Adds(a, a \o <<"--ignored">>, {"--ignored"})
    BY <1>1, <1>2, AddsFlag
  <2> QED BY <1>3, <1>4, <2>1, <2>2
<1>5. CASE policy = "include"
  <2>1. PolicyFlag[policy] = <<"--include-ignored">>
    BY <1>5 DEF PolicyFlag
  <2>2. Adds(a, a \o <<"--include-ignored">>, {"--include-ignored"})
    BY <1>1, <1>2, AddsFlag
  <2> QED BY <1>3, <1>5, <2>1, <2>2
<1>6. CASE policy = "exclude"
  <2>1. PolicyFlag[policy] = <<>>
    BY <1>6 DEF PolicyFlag
  <2>2. Adds(a, a \o <<>>, {})
    BY AddsNone
  <2> QED BY <1>3, <1>6, <2>1, <2>2
<1> QED BY <1>4, <1>5, <1>6 DEF Policies

\* What it asks of the format: an unstable one only with the unstable options, and these if unstable.
Formatted(a, x, unstable) ==
    \E F \in SUBSET {"--format"} :
        /\ Adds(a, a \o x, F)
        /\ unstable \/ F # {} => HarnessOptions(a \o x).unstable

LEMMA AddsFormat ==
    ASSUME NEW a \in Seq(Word), Ready(HarnessOptions(a))
    PROVE  /\ Formatted(a, <<>>, FALSE) /\ Formatted(a, Unstable, TRUE)
           /\ Formatted(a, Unstable \o <<"--format", "json">>, TRUE)
           /\ Unstable \in Seq(Word) /\ Unstable \o <<"--format", "json">> \in Seq(Word)
           /\ Adds(a, a \o Unstable, {})
<1>1. /\ "-Z" \in Word /\ "unstable-options" \in Word /\ "--format" \in Word /\ "json" \in Word
      /\ "-Z" \in ValuedFlags \ {"--skip"} /\ "--format" \in ValuedFlags \ {"--skip"}
  BY DEF Word, OwnWords, ValuedFlags
<1>2. Unstable \in Seq(Word) /\ <<"--format", "json">> \in Seq(Word)
  BY <1>1 DEF Unstable
<1>3. Adds(a, a \o Unstable, {}) /\ HarnessOptions(a \o Unstable).unstable
  BY <1>1, AddsPair DEF Unstable
<1>4. Formatted(a, <<>>, FALSE)
  BY AddsNone DEF Formatted
<1>5. Formatted(a, Unstable, TRUE)
  BY <1>3 DEF Formatted
<1> DEFINE b == a \o Unstable
           c == b \o <<"--format", "json">>
<1>6. b \in Seq(Word) /\ Ready(HarnessOptions(b))
  BY <1>3 DEF Adds
<1>7. c = a \o (Unstable \o <<"--format", "json">>) /\ Unstable \o <<"--format", "json">> \in Seq(Word)
  BY <1>2, Associates
<1>8. Adds(a, b, {}) /\ HarnessOptions(b).unstable
  BY <1>3
<1> HIDE DEF b
<1>9. Adds(b, c, {"--format"})
  <2>1. Adds(b, c, IF "--format" = "-Z" THEN {} ELSE {"--format"})
    BY <1>1, <1>6, AddsPair
  <2> QED BY <2>1
<1> HIDE DEF c
<1>10. Adds(a, c, {"--format"})
  <2>1. Adds(a, c, {} \cup {"--format"})
    BY <1>8, <1>9, AddsMore
  <2> QED BY <2>1
<1>11. HarnessOptions(c).unstable
  BY <1>8, <1>9 DEF Adds
<1>12. Formatted(a, Unstable \o <<"--format", "json">>, TRUE)
  BY <1>7, <1>10, <1>11 DEF Formatted
<1> QED BY <1>2, <1>3, <1>4, <1>5, <1>7, <1>12

\* What quokka's own words make of a command: filters, its flags, and one policy.
Begun(pre, filters, own, policy, unstable) ==
    LET h == HarnessOptions(pre)
        F == ToSet(h.flags)
    IN /\ pre \in Seq(Word) /\ Ready(h) /\ h.filters = filters /\ h.skips = {}
       /\ own \subseteq F /\ F \subseteq own \cup {"--format", "--ignored", "--include-ignored"}
       /\ "--ignored" \in F <=> policy = "only"
       /\ "--include-ignored" \in F <=> policy = "include"
       /\ IsInjective(h.flags)
       /\ h.format = "pretty" \/ h.unstable
       /\ unstable => h.unstable

\* From some words, a policy and a format are added in this order, or in the other one.
LEMMA Begins ==
    ASSUME NEW a \in Seq(Word), Ready(HarnessOptions(a)), HarnessOptions(a).skips = {},
           HarnessOptions(a).format = "pretty", IsInjective(HarnessOptions(a).flags),
           NEW b, NEW policy \in Policies, NEW own, NEW F, F \in SUBSET {"--format"},
           NEW P, P = CASE policy = "only" -> {"--ignored"} [] policy = "include" -> {"--include-ignored"}
                        [] policy = "exclude" -> {},
           Adds(a, b, (own \cup P) \cup F), NEW unstable,
           unstable \/ F # {} => HarnessOptions(b).unstable,
           ToSet(HarnessOptions(a).flags) = {},
           own \cap {"--format", "--ignored", "--include-ignored"} = {}
    PROVE  Begun(b, HarnessOptions(a).filters, own, policy, unstable)
<1> DEFINE g == HarnessOptions(a)
           h == HarnessOptions(b)
           G == ToSet(h.flags)
<1>1. /\ b \in Seq(Word) /\ Ready(h) /\ h.filters = g.filters /\ h.skips = {}
      /\ G = (own \cup P) \cup F /\ IsInjective(h.flags)
      /\ F = {} => h.format = "pretty"
      /\ unstable \/ F # {} => h.unstable
  <2>1. /\ b \in Seq(Word) /\ Ready(h) /\ h.filters = g.filters /\ h.skips = {} /\ IsInjective(h.flags)
        /\ G = (own \cup P) \cup F
    BY DEF Adds
  <2>2. F = {} => "--format" \notin (own \cup P) \cup F
    BY DEF Policies
  <2>3. F = {} => h.format = "pretty"
    BY <2>2 DEF Adds
  <2> QED BY <2>1, <2>3
<1> HIDE DEF g, h
<1>2. /\ own \subseteq G /\ G \subseteq own \cup {"--format", "--ignored", "--include-ignored"}
      /\ "--ignored" \in G <=> policy = "only"
      /\ "--include-ignored" \in G <=> policy = "include"
  <2> HIDE DEF G
  <2> QED BY <1>1 DEF Policies
<1> QED BY <1>1, <1>2 DEF Begun, g, h

\* A listing is asked for, in a format.
Starts(x, unstable) ==
    \E F \in SUBSET {"--format"} :
        /\ Adds(<<>>, x, {"--list"} \cup F)
        /\ unstable \/ F # {} => HarnessOptions(x).unstable

LEMMA ListingStarts ==
    /\ Starts(<<"--list">>, FALSE) /\ Starts(<<"--list">> \o Unstable, TRUE)
    /\ Starts(Unstable \o <<"--list", "--format", "json">>, TRUE)
<1>1. /\ "--list" \in Word /\ "--list" \in OwnFlags \ {"--"}
      /\ "--format" \in Word /\ "json" \in Word /\ "--format" \in ValuedFlags \ {"--skip"}
  BY DEF Word, OwnWords, OwnFlags, ValuedFlags
<1>2. /\ <<>> \in Seq(Word) /\ <<"--list">> \in Seq(Word) /\ <<"--format", "json">> \in Seq(Word)
  BY <1>1
<1>3. Ready(HarnessOptions(<<>>))
  <2>1. Ready(Harness0)
    BY DEF Ready, Harness0
  <2> QED BY <2>1, NoWords
<1>4. \A w \in Seq(Word) : <<>> \o w = w
  OBVIOUS
<1>5. Adds(<<>>, <<"--list">>, {"--list"})
  <2>1. Adds(<<>>, <<>> \o <<"--list">>, {"--list"})
    BY <1>1, <1>2, <1>3, AddsFlag
  <2> QED BY <1>2, <1>4, <2>1
<1>6. Unstable \in Seq(Word) /\ Adds(<<>>, Unstable, {})
  <2>1. Unstable \in Seq(Word) /\ Adds(<<>>, <<>> \o Unstable, {})
    BY <1>2, <1>3, AddsFormat
  <2> QED BY <1>4, <2>1
<1>a. HarnessOptions(Unstable).unstable
  <2>1. <<>> \o Unstable = Unstable
    BY <1>4, <1>6
  <2>2. Formatted(<<>>, Unstable, TRUE)
    BY <1>2, <1>3, AddsFormat
  <2> QED BY <2>1, <2>2 DEF Formatted
<1>7. Starts(<<"--list">>, FALSE)
  <2>1. {"--list"} \cup {} = {"--list"}
    OBVIOUS
  <2> QED BY <1>5, <2>1 DEF Starts
<1>8. Starts(<<"--list">> \o Unstable, TRUE)
  <2> DEFINE b == <<"--list">>
  <2>1. b \in Seq(Word) /\ Ready(HarnessOptions(b)) /\ Adds(<<>>, b, {"--list"})
    BY <1>5 DEF Adds
  <2> HIDE DEF b
  <2>2. Formatted(b, Unstable, TRUE)
    BY <2>1, AddsFormat
  <2>3. PICK F \in SUBSET {"--format"} : Adds(b, b \o Unstable, F) /\ HarnessOptions(b \o Unstable).unstable
    BY <2>2 DEF Formatted
  <2>4. Adds(<<>>, b \o Unstable, {"--list"} \cup F)
    <3>1. {"--list"} \cap F = {}
      BY <2>3
    <3> QED BY <2>1, <2>3, <3>1, AddsMore
  <2> QED BY <2>3, <2>4 DEF Starts, b
<1>9. Starts(Unstable \o <<"--list", "--format", "json">>, TRUE)
  <2> DEFINE b == Unstable \o <<"--list">>
             c == b \o <<"--format", "json">>
  <2>1. Ready(HarnessOptions(Unstable))
    BY <1>6 DEF Adds
  <2>2. Adds(Unstable, b, {"--list"})
    BY <1>1, <1>6, <2>1, AddsFlag
  <2>3. b \in Seq(Word) /\ Ready(HarnessOptions(b)) /\ HarnessOptions(b).unstable
    BY <1>a, <2>2 DEF Adds
  <2>4. c = Unstable \o (<<"--list">> \o <<"--format", "json">>)
    BY <1>2, <1>6, Associates
  <2>5. Adds(<<>>, b, {"--list"})
    <3>1. Adds(<<>>, b, {} \cup {"--list"})
      BY <1>6, <2>2, AddsMore
    <3> QED BY <3>1
  <2> HIDE DEF b
  <2>6. Adds(b, c, {"--format"})
    <3>1. Adds(b, c, IF "--format" = "-Z" THEN {} ELSE {"--format"})
      BY <1>1, <2>3, AddsPair
    <3> QED BY <3>1
  <2>7. <<"--list">> \o <<"--format", "json">> = <<"--list", "--format", "json">>
    BY PairJoined
  <2>8. c = Unstable \o <<"--list", "--format", "json">>
    BY <2>4, <2>7
  <2> HIDE DEF c
  <2>9. Adds(<<>>, c, {"--list"} \cup {"--format"}) /\ HarnessOptions(c).unstable
    <3>1. {"--list"} \cap {"--format"} = {}
      OBVIOUS
    <3>2. HarnessOptions(c).unstable
      BY <2>3, <2>6 DEF Adds
    <3> QED BY <2>5, <2>6, <3>1, <3>2, AddsMore
  <2> QED BY <2>8, <2>9 DEF Starts
<1> QED BY <1>7, <1>8, <1>9

\* A listing's words are quokka's and then the user's.
LEMMA ListingRead ==
    ASSUME NEW words \in Seq(Word), NEW policy \in Policies, NEW format \in Formats
    PROVE  \E pre : /\ ListingArgs(policy, format, words) = pre \o Parse(words).listing
                    /\ Begun(pre, {}, {"--list"}, policy, Parse(words).listingUnstable)
<1> DEFINE p == Parse(words)
           x == CASE format = "json" -> Unstable \o <<"--list", "--format", "json">>
                  [] format = "text" /\ p.listingUnstable -> <<"--list">> \o Unstable
                  [] format = "text" /\ ~p.listingUnstable -> <<"--list">>
           pre == x \o PolicyFlag[policy]
           P == CASE policy = "only" -> {"--ignored"}
                  [] policy = "include" -> {"--include-ignored"}
                  [] policy = "exclude" -> {}
           u == p.listingUnstable
<1>1. Starts(x, u)
  <2>0. u \in BOOLEAN
    BY ParseType DEF ParseState
  <2>1. Starts(x, u) \/ Starts(x, TRUE)
    <3>1. CASE format = "json"
      <4>1. x = Unstable \o <<"--list", "--format", "json">>
        BY <3>1
      <4> QED BY <4>1, ListingStarts
    <3>2. CASE format = "text" /\ u
      <4>1. x = <<"--list">> \o Unstable
        BY <3>2
      <4> QED BY <4>1, ListingStarts
    <3>3. CASE format = "text" /\ ~u
      <4>1. x = <<"--list">> /\ u = FALSE
        BY <2>0, <3>3
      <4> QED BY <4>1, ListingStarts
    <3> QED BY <3>1, <3>2, <3>3 DEF Formats
  <2> QED BY <2>1 DEF Starts
<1>2. ListingArgs(policy, format, words) = pre \o p.listing
  BY DEF ListingArgs
<1> HIDE DEF x, u
<1>3. PICK F \in SUBSET {"--format"} :
        /\ Adds(<<>>, x, {"--list"} \cup F)
        /\ u \/ F # {} => HarnessOptions(x).unstable
  BY <1>1 DEF Starts
<1>4. x \in Seq(Word) /\ Ready(HarnessOptions(x))
  BY <1>3 DEF Adds
<1>5. Adds(x, pre, P)
  BY <1>4, AddsPolicy
<1>6. P \subseteq {"--ignored", "--include-ignored"}
  BY DEF Policies
<1> HIDE DEF p, pre
<1>7. Adds(<<>>, pre, ({"--list"} \cup P) \cup F)
  <2> HIDE DEF P
  <2>1. ({"--list"} \cup F) \cap P = {}
    BY <1>6
  <2>2. Adds(<<>>, pre, ({"--list"} \cup F) \cup P)
    BY <1>3, <1>5, <2>1, AddsMore
  <2>3. ({"--list"} \cup F) \cup P = ({"--list"} \cup P) \cup F
    OBVIOUS
  <2> QED BY <2>2, <2>3
<1>8. u \/ F # {} => HarnessOptions(pre).unstable
  <2> HIDE DEF P
  <2> QED BY <1>3, <1>5 DEF Adds
<1>9. /\ <<>> \in Seq(Word) /\ HarnessOptions(<<>>) = Harness0 /\ Ready(Harness0)
      /\ Harness0.skips = {} /\ Harness0.format = "pretty" /\ Harness0.filters = {}
      /\ IsInjective(Harness0.flags) /\ ToSet(Harness0.flags) = {}
  <2>1. <<>> \in Seq(Word)
    OBVIOUS
  <2>2. Ready(Harness0) /\ Harness0.skips = {} /\ Harness0.format = "pretty" /\ Harness0.filters = {}
        /\ Harness0.flags = <<>>
    BY DEF Harness0, Ready
  <2> QED BY <2>1, <2>2, EmptyFacts, NoWords
<1>10. Begun(pre, HarnessOptions(<<>>).filters, {"--list"}, policy, u)
  <2>1. {"--list"} \cap {"--format", "--ignored", "--include-ignored"} = {}
    OBVIOUS
  <2> DEFINE own == {"--list"}
  <2>2. own \cap {"--format", "--ignored", "--include-ignored"} = {}
    BY <2>1
  <2>3. Adds(<<>>, pre, (own \cup P) \cup F)
    BY <1>7
  <2> HIDE DEF own
  <2>5. ASSUME NEW Q, Q = P PROVE Begun(pre, HarnessOptions(<<>>).filters, own, policy, u)
    <3>1. Q = CASE policy = "only" -> {"--ignored"} [] policy = "include" -> {"--include-ignored"}
                [] policy = "exclude" -> {}
      BY <2>5
    <3>2. Adds(<<>>, pre, (own \cup Q) \cup F)
      BY <2>3, <2>5
    <3> HIDE DEF P
    <3> QED BY <1>8, <1>9, <2>2, <3>1, <3>2, Begins
  <2>4. Begun(pre, HarnessOptions(<<>>).filters, own, policy, u)
    BY <2>5
  <2> QED BY <2>4 DEF own
<1>11. Begun(pre, {}, {"--list"}, policy, u)
  BY <1>9, <1>10
<1> QED BY <1>2, <1>11 DEF p, u

\* The harness has filters at most.
Untouched(h) == Ready(h) /\ h.skips = {} /\ h.format = "pretty" /\ h.flags = <<>>

\* After some words, the words that every execution ends with, and the user's.
Ends(s, a, more, policy, format, p, rest) ==
    \E pre : /\ a \o RunArgs(policy, format, p, rest) = pre \o rest
             /\ Begun(pre, HarnessOptions(s).filters, more \cup {"--test-threads", "--color"},
                      policy, p.runUnstable)

LEMMA EndRead ==
    ASSUME NEW p \in ParseState, NEW rest \in Seq(Word), NEW policy \in Policies,
           NEW format \in Formats, NEW s \in Seq(Word), NEW a, NEW more,
           Untouched(HarnessOptions(s)), Adds(s, a, more), more \subseteq {"--exact"}
    PROVE  Ends(s, a, more, policy, format, p, rest)
<1> DEFINE x == CASE format = "json" -> Unstable \o <<"--format", "json">>
                  [] format = "text" /\ p.runUnstable -> Unstable
                  [] format = "text" /\ ~p.runUnstable -> <<>>
           fixed == <<"--test-threads", "1", "--color", "never">>
           P == CASE policy = "only" -> {"--ignored"}
                  [] policy = "include" -> {"--include-ignored"}
                  [] policy = "exclude" -> {}
           b == a \o <<"--test-threads", "1">>
           c == b \o <<"--color", "never">>
           d == c \o PolicyFlag[policy]
           pre == d \o x
           unst == p.runUnstable
<1>2. a \o RunArgs(policy, format, p, rest)
        = a \o (((fixed \o PolicyFlag[policy]) \o x) \o rest)
  BY DEF RunArgs
<1>3. unst \in BOOLEAN
  BY DEF ParseState
<1>4. /\ "--test-threads" \in Word /\ "1" \in Word /\ "--color" \in Word /\ "never" \in Word
      /\ "--test-threads" \in ValuedFlags \ {"--skip"} /\ "--color" \in ValuedFlags \ {"--skip"}
  BY DEF Word, OwnWords, ValuedFlags
<1>7. a \in Seq(Word) /\ Ready(HarnessOptions(a))
  BY DEF Adds
<1>8. Adds(a, b, {"--test-threads"})
  <2>1. Adds(a, b, IF "--test-threads" = "-Z" THEN {} ELSE {"--test-threads"})
    BY <1>4, <1>7, AddsPair
  <2> QED BY <2>1
<1>9. b \in Seq(Word) /\ Ready(HarnessOptions(b))
  BY <1>8 DEF Adds
<1>10. b = a \o <<"--test-threads", "1">>
  OBVIOUS
<1> HIDE DEF b
<1>11. Adds(b, c, {"--color"})
  <2>1. Adds(b, c, IF "--color" = "-Z" THEN {} ELSE {"--color"})
    BY <1>4, <1>9, AddsPair
  <2> QED BY <2>1
<1>12. c \in Seq(Word) /\ Ready(HarnessOptions(c))
  BY <1>11 DEF Adds
<1>13. c = b \o <<"--color", "never">>
  OBVIOUS
<1> HIDE DEF c
<1>14. Adds(c, d, P) /\ PolicyFlag[policy] \in Seq(Word)
  BY <1>12, AddsPolicy
<1>15. d \in Seq(Word) /\ Ready(HarnessOptions(d)) /\ d = c \o PolicyFlag[policy]
  BY <1>14 DEF Adds
<1> HIDE DEF d
<1>16. x \in Seq(Word) /\ (Formatted(d, x, unst) \/ Formatted(d, x, TRUE))
  <2>1. /\ Formatted(d, <<>>, FALSE) /\ Formatted(d, Unstable, TRUE)
        /\ Formatted(d, Unstable \o <<"--format", "json">>, TRUE)
        /\ Unstable \in Seq(Word) /\ Unstable \o <<"--format", "json">> \in Seq(Word)
    BY <1>15, AddsFormat
  <2>2. CASE format = "json"
    <3>1. x = Unstable \o <<"--format", "json">>
      BY <2>2
    <3> QED BY <2>1, <3>1
  <2>3. CASE format = "text" /\ unst
    <3>1. x = Unstable
      BY <2>3
    <3> QED BY <2>1, <3>1
  <2>4. CASE format = "text" /\ ~unst
    <3>1. x = <<>> /\ unst = FALSE
      BY <1>3, <2>4
    <3>2. <<>> \in Seq(Word)
      OBVIOUS
    <3> QED BY <2>1, <3>1, <3>2
  <2> QED BY <2>2, <2>3, <2>4 DEF Formats
<1> HIDE DEF x
<1>17. PICK F \in SUBSET {"--format"} :
         /\ Adds(d, pre, F)
         /\ unst \/ F # {} => HarnessOptions(pre).unstable
  BY <1>16 DEF Formatted
<1>18. a \o (((fixed \o PolicyFlag[policy]) \o x) \o rest) = pre \o rest
  <2> DEFINE u == <<"--test-threads", "1">>
             v == <<"--color", "never">>
  <2>1. u \in Seq(Word) /\ v \in Seq(Word)
    BY <1>4
  <2>2. fixed = u \o v
    BY PairJoined
  <2>3. fixed \in Seq(Word)
    BY <1>4
  <2> HIDE DEF fixed
  <2>4. a \o (((fixed \o PolicyFlag[policy]) \o x) \o rest)
          = (((a \o fixed) \o PolicyFlag[policy]) \o x) \o rest
    <3>1. /\ a \in Seq(Word) /\ fixed \in Seq(Word) /\ PolicyFlag[policy] \in Seq(Word)
          /\ x \in Seq(Word) /\ rest \in Seq(Word)
      BY <1>7, <1>14, <1>16, <2>3
    <3>2. Reassociates(a, fixed, PolicyFlag[policy], x, rest)
      BY <3>1, JoinedThroughout
    <3> QED BY <3>2 DEF Reassociates
  <2>5. a \o (u \o v) = (a \o u) \o v
    BY <1>7, <2>1, Associates
  <2> QED BY <1>10, <1>13, <1>15, <2>2, <2>4, <2>5
<1> HIDE DEF pre, fixed, unst
<1> DEFINE own == more \cup {"--test-threads", "--color"}
<1>20. Adds(s, pre, (own \cup P) \cup F)
  <2>1. Adds(s, b, more \cup {"--test-threads"})
    <3>1. more \cap {"--test-threads"} = {}
      OBVIOUS
    <3> QED BY <1>8, <3>1, AddsMore
  <2>2. Adds(s, c, own)
    <3>1. (more \cup {"--test-threads"}) \cap {"--color"} = {}
      OBVIOUS
    <3>2. Adds(s, c, (more \cup {"--test-threads"}) \cup {"--color"})
      BY <1>11, <2>1, <3>1, AddsMore
    <3>3. (more \cup {"--test-threads"}) \cup {"--color"} = own
      OBVIOUS
    <3> QED BY <3>2, <3>3
  <2>3. P \subseteq {"--ignored", "--include-ignored"}
    BY DEF Policies
  <2> HIDE DEF P
  <2>4. own \cap P = {} /\ (own \cup P) \cap F = {}
    BY <1>17, <2>3
  <2> HIDE DEF own
  <2>5. Adds(s, d, own \cup P)
    BY <1>14, <2>2, <2>4, AddsMore
  <2> QED BY <1>17, <2>4, <2>5, AddsMore
<1>21. own \cap {"--format", "--ignored", "--include-ignored"} = {}
  OBVIOUS
<1>22. /\ IsInjective(HarnessOptions(s).flags) /\ ToSet(HarnessOptions(s).flags) = {}
       /\ Ready(HarnessOptions(s)) /\ HarnessOptions(s).skips = {}
       /\ HarnessOptions(s).format = "pretty"
  BY EmptyFacts DEF Untouched
<1>23. Begun(pre, HarnessOptions(s).filters, own, policy, unst)
  <2> HIDE DEF own
  <2>5. ASSUME NEW Q, Q = P PROVE Begun(pre, HarnessOptions(s).filters, own, policy, unst)
    <3>1. Q = CASE policy = "only" -> {"--ignored"} [] policy = "include" -> {"--include-ignored"}
                [] policy = "exclude" -> {}
      BY <2>5
    <3>2. Adds(s, pre, (own \cup Q) \cup F)
      BY <1>20, <2>5
    <3> HIDE DEF P
    <3> QED BY <1>17, <1>21, <1>22, <3>1, <3>2, Begins
  <2> QED BY <2>5
<1> QED BY <1>2, <1>18, <1>23 DEF unst, Ends

\* A run of named tests, and one of the whole target.
LEMMA RunRead ==
    ASSUME NEW words \in Seq(Word), NEW policy \in Policies, NEW format \in Formats,
           NEW names \in Seq(Names)
    PROVE  \E pre : /\ ExecutionArgs(names, policy, format, words) = pre \o Parse(words).perTest
                    /\ Begun(pre, ToSet(names), {"--exact", "--test-threads", "--color"}, policy,
                             Parse(words).runUnstable)
<1> DEFINE p == Parse(words)
           rest == p.perTest
           a == names \o <<"--exact">>
<1>1. p \in ParseState /\ rest \in Seq(Word)
  BY ParseType DEF ParseState
<1>2. ExecutionArgs(names, policy, format, words) = a \o RunArgs(policy, format, p, rest)
  BY DEF ExecutionArgs
<1> HIDE DEF p, rest
<1>3. "--exact" \in Word /\ "--exact" \in OwnFlags \ {"--"}
  BY DEF Word, OwnWords, OwnFlags
<1>4. /\ names \in Seq(Word) /\ Ready(HarnessOptions(names))
      /\ HarnessOptions(names).filters = ToSet(names) /\ HarnessOptions(names).skips = {}
      /\ HarnessOptions(names).flags = <<>> /\ HarnessOptions(names).format = "pretty"
  BY NamesRead
<1>5. Adds(names, a, {"--exact"})
  BY <1>3, <1>4, AddsFlag
<1> HIDE DEF a
<1> DEFINE more == {"--exact"}
<1>6. Adds(names, a, more) /\ more \subseteq {"--exact"}
  BY <1>5
<1>7. more \cup {"--test-threads", "--color"} = {"--exact", "--test-threads", "--color"}
  OBVIOUS
<1> HIDE DEF more
<1>9. Untouched(HarnessOptions(names))
  BY <1>4 DEF Untouched
<1>10. Ends(names, a, more, policy, format, p, rest)
  BY <1>1, <1>4, <1>6, <1>9, EndRead
<1>8. PICK pre :
        /\ a \o RunArgs(policy, format, p, rest) = pre \o rest
        /\ Begun(pre, HarnessOptions(names).filters, more \cup {"--test-threads", "--color"},
                 policy, p.runUnstable)
  BY <1>10 DEF Ends
<1> QED BY <1>2, <1>4, <1>7, <1>8 DEF p, rest

LEMMA WholeRead ==
    ASSUME NEW words \in Seq(Word), NEW policy \in Policies, NEW format \in Formats
    PROVE  \E pre : /\ DoctestArgs(policy, format, words) = pre \o Parse(words).whole
                    /\ Begun(pre, {}, {"--test-threads", "--color"}, policy, Parse(words).runUnstable)
<1> DEFINE p == Parse(words)
           rest == p.whole
           args == RunArgs(policy, format, p, rest)
           no == <<>>
<1>1. p \in ParseState /\ rest \in Seq(Word)
  BY ParseType DEF ParseState
<1>2. DoctestArgs(policy, format, words) = args
  BY DEF DoctestArgs
<1> HIDE DEF p, rest
<1>3. no \in Seq(Word) /\ HarnessOptions(no) = Harness0
  BY NoWords
<1>4. /\ Ready(Harness0) /\ Harness0.filters = {} /\ Harness0.skips = {} /\ Harness0.flags = <<>>
      /\ Harness0.format = "pretty"
  BY DEF Harness0, Ready
<1>5. Adds(no, no, {})
  BY <1>3, <1>4 DEF Adds
<1>6. args \in Seq(Word) => no \o args = args
  OBVIOUS
<1> HIDE DEF no
<1> DEFINE more == {}
<1>7. Adds(no, no, more) /\ more \subseteq {"--exact"}
  BY <1>5
<1>8. more \cup {"--test-threads", "--color"} = {"--test-threads", "--color"}
  OBVIOUS
<1> HIDE DEF more
<1>11. Untouched(HarnessOptions(no))
  BY <1>3, <1>4 DEF Untouched
<1>12. Ends(no, no, more, policy, format, p, rest)
  BY <1>1, <1>3, <1>7, <1>11, EndRead
<1>9. PICK pre :
        /\ no \o args = pre \o rest
        /\ Begun(pre, HarnessOptions(no).filters, more \cup {"--test-threads", "--color"},
                 policy, p.runUnstable)
  BY <1>12 DEF Ends
<1>10. args \in Seq(Word)
  <2>1. /\ <<"--test-threads", "1", "--color", "never">> \in Seq(Word)
        /\ Unstable \in Seq(Word) /\ <<"--format", "json">> \in Seq(Word)
    <3>1. /\ "--test-threads" \in Word /\ "1" \in Word /\ "--color" \in Word /\ "never" \in Word
          /\ "--format" \in Word /\ "json" \in Word
      BY DEF Word, OwnWords
    <3>2. Unstable \in Seq(Word)
      BY <1>3, <1>4, AddsFormat
    <3> QED BY <3>1, <3>2
  <2>2. PolicyFlag[policy] \in Seq(Word)
    BY <1>3, <1>4, AddsPolicy
  <2>3. <<>> \in Seq(Word)
    OBVIOUS
  <2>4. \A v, w \in Seq(Word) : v \o w \in Seq(Word)
    OBVIOUS
  <2> HIDE DEF args
  <2> QED BY <1>1, <2>1, <2>2, <2>3, <2>4 DEF args, RunArgs, Formats
<1> QED BY <1>2, <1>3, <1>4, <1>6, <1>8, <1>9, <1>10 DEF p, rest

\* What the harness makes of a whole command: quokka's flags, those of S of the user's, one policy.
Given(h, U, own, S, policy, unstable) ==
    LET F == ToSet(h.flags)
    IN /\ h.awaits = ""
       /\ F \ {"--format", "--ignored", "--include-ignored"} = own \cup (ToSet(U.flags) \cap S)
       /\ "--ignored" \in F <=> policy = "only"
       /\ "--include-ignored" \in F <=> policy = "include"
       /\ IsInjective(U.flags) => IsInjective(h.flags)
       /\ h.format = "pretty" \/ h.unstable
       /\ unstable => h.unstable

LEMMA GivenFacts ==
    ASSUME NEW pre, NEW filters, NEW own, NEW policy, NEW unstable,
           Begun(pre, filters, own, policy, unstable), NEW out, NEW U, NEW S, Channel(pre, out, U, S),
           (own \cup {"--format", "--ignored", "--include-ignored"}) \cap S = {},
           own \cap {"--format", "--ignored", "--include-ignored"} = {}
    PROVE  Given(Sees(pre, out), U, own, S, policy, unstable)
<1> DEFINE h0 == HarnessOptions(pre)
           h == Sees(pre, out)
           F == ToSet(h0.flags)
<1>1. /\ own \subseteq F /\ F \subseteq own \cup {"--format", "--ignored", "--include-ignored"}
      /\ "--ignored" \in F <=> policy = "only"
      /\ "--include-ignored" \in F <=> policy = "include"
      /\ IsInjective(h0.flags) /\ (h0.format = "pretty" \/ h0.unstable)
      /\ unstable => h0.unstable
  BY DEF Begun
<1>2. /\ h.awaits = "" /\ h.format = h0.format /\ h.unstable = h0.unstable
      /\ ToSet(h.flags) = F \cup (ToSet(U.flags) \cap S)
      /\ IsInjective(U.flags) /\ IsInjective(h0.flags) /\ F \cap S = {} => IsInjective(h.flags)
  BY DEF Channel, Heard, Ready, SameFormat
<1> HIDE DEF h, h0, F
<1>3. F \cap S = {}
  BY <1>1
<1>4. /\ ToSet(h.flags) \ {"--format", "--ignored", "--include-ignored"} = own \cup (ToSet(U.flags) \cap S)
      /\ "--ignored" \in ToSet(h.flags) <=> "--ignored" \in F
      /\ "--include-ignored" \in ToSet(h.flags) <=> "--include-ignored" \in F
  BY <1>1, <1>2
<1> QED BY <1>1, <1>2, <1>3, <1>4 DEF Given, h

\* The three commands that quokka makes of the user's words, and what the harness makes of them.
Commanded(words, policy, lf, rf, names) ==
    LET p == Parse(words)
        U == HarnessOptions(words)
        L == HarnessOptions(ListingArgs(policy, lf, words))
        R == HarnessOptions(ExecutionArgs(names, policy, rf, words))
        D == HarnessOptions(DoctestArgs(policy, rf, words))
    IN /\ Learns(p, U)
       /\ Given(L, U, {"--list"}, ListingPass, policy, p.listingUnstable)
       /\ Given(R, U, {"--exact", "--test-threads", "--color"}, RunPass, policy, p.runUnstable)
       /\ Given(D, U, {"--test-threads", "--color"}, WholePass, policy, p.runUnstable)
       /\ R.filters = ToSet(names) /\ R.skips = {}
       /\ "--filter" \notin ToSet(words) =>
            L.filters = U.filters /\ L.skips = U.skips /\ D.filters = U.filters /\ D.skips = U.skips

LEMMA CommandsRead ==
    ASSUME NEW words \in Seq(Word), PlainFilters(words), NEW policy \in Policies,
           NEW lf \in Formats, NEW rf \in Formats, NEW names \in Seq(Names)
    PROVE  Commanded(words, policy, lf, rf, names)
<1> DEFINE p == Parse(words)
           U == HarnessOptions(words)
           ok == "--filter" \notin ToSet(words)
           ownR == {"--exact", "--test-threads", "--color"}
           ownD == {"--test-threads", "--color"}
<1>1. PICK preL : /\ ListingArgs(policy, lf, words) = preL \o p.listing
                  /\ Begun(preL, {}, {"--list"}, policy, p.listingUnstable)
  BY ListingRead
<1>2. PICK preR : /\ ExecutionArgs(names, policy, rf, words) = preR \o p.perTest
                  /\ Begun(preR, ToSet(names), ownR, policy, p.runUnstable)
  BY RunRead
<1>3. PICK preD : /\ DoctestArgs(policy, rf, words) = preD \o p.whole
                  /\ Begun(preD, {}, ownD, policy, p.runUnstable)
  BY WholeRead
<1>4. Passed(p, U, preL, preR, preD, ok)
  <2>1. /\ preL \in Seq(Word) /\ Ready(HarnessOptions(preL))
        /\ preR \in Seq(Word) /\ Ready(HarnessOptions(preR))
        /\ preD \in Seq(Word) /\ Ready(HarnessOptions(preD))
    BY <1>1, <1>2, <1>3 DEF Begun
  <2> QED BY <2>1, PassedAll
<1> DEFINE L == Sees(preL, p.listing)
           R == Sees(preR, p.perTest)
           D == Sees(preD, p.whole)
<1>5. /\ L = HarnessOptions(ListingArgs(policy, lf, words))
      /\ R = HarnessOptions(ExecutionArgs(names, policy, rf, words))
      /\ D = HarnessOptions(DoctestArgs(policy, rf, words))
  BY <1>1, <1>2, <1>3 DEF Sees
<1> HIDE DEF p, U, ok
<1>6. Given(L, U, {"--list"}, ListingPass, policy, p.listingUnstable)
  <2> DEFINE own == {"--list"}
  <2>1. Begun(preL, {}, own, policy, p.listingUnstable) /\ Channel(preL, p.listing, U, ListingPass)
    BY <1>1, <1>4 DEF Passed
  <2>2. /\ (own \cup {"--format", "--ignored", "--include-ignored"}) \cap ListingPass = {}
        /\ own \cap {"--format", "--ignored", "--include-ignored"} = {}
    BY DEF ListingPass, ListingFlags
  <2> HIDE DEF own, L
  <2>3. Given(Sees(preL, p.listing), U, own, ListingPass, policy, p.listingUnstable)
    BY <2>1, <2>2, GivenFacts
  <2> QED BY <2>3 DEF own, L
<1>7. Given(R, U, ownR, RunPass, policy, p.runUnstable)
  <2>1. Begun(preR, ToSet(names), ownR, policy, p.runUnstable) /\ Channel(preR, p.perTest, U, RunPass)
    BY <1>2, <1>4 DEF Passed
  <2>2. /\ (ownR \cup {"--format", "--ignored", "--include-ignored"}) \cap RunPass = {}
        /\ ownR \cap {"--format", "--ignored", "--include-ignored"} = {}
    BY DEF RunPass, OwnFlags, ValuedFlags
  <2> HIDE DEF ownR, R
  <2>3. Given(Sees(preR, p.perTest), U, ownR, RunPass, policy, p.runUnstable)
    BY <2>1, <2>2, GivenFacts
  <2> QED BY <2>3 DEF R
<1>8. Given(D, U, ownD, WholePass, policy, p.runUnstable)
  <2>1. Begun(preD, {}, ownD, policy, p.runUnstable) /\ Channel(preD, p.whole, U, WholePass)
    BY <1>3, <1>4 DEF Passed
  <2>2. /\ (ownD \cup {"--format", "--ignored", "--include-ignored"}) \cap WholePass = {}
        /\ ownD \cap {"--format", "--ignored", "--include-ignored"} = {}
    BY DEF WholePass, RunPass, OwnFlags, ValuedFlags
  <2> HIDE DEF ownD, D
  <2>3. Given(Sees(preD, p.whole), U, ownD, WholePass, policy, p.runUnstable)
    BY <2>1, <2>2, GivenFacts
  <2> QED BY <2>3 DEF D
<1>9. /\ R.filters = ToSet(names) /\ R.skips = {}
      /\ ok => L.filters = U.filters /\ L.skips = U.skips /\ D.filters = U.filters /\ D.skips = U.skips
  <2>1. /\ Alone(preR, p.perTest)
        /\ ok => Follows(preL, p.listing, U) /\ Follows(preD, p.whole, U)
    BY <1>4 DEF Passed
  <2>2. /\ HarnessOptions(preL).filters = {} /\ HarnessOptions(preL).skips = {}
        /\ HarnessOptions(preD).filters = {} /\ HarnessOptions(preD).skips = {}
        /\ HarnessOptions(preR).filters = ToSet(names) /\ HarnessOptions(preR).skips = {}
    BY <1>1, <1>2, <1>3 DEF Begun
  <2>3. \A S : {} \cup S = S
    OBVIOUS
  <2> QED BY <2>1, <2>2, <2>3 DEF Alone, Follows
<1>10. Learns(p, U)
  BY <1>4 DEF Passed
<1> HIDE DEF L, R, D, ownR, ownD
<1> QED BY <1>5, <1>6, <1>7, <1>8, <1>9, <1>10 DEF Commanded, p, U, ok, ownR, ownD

\* What was listed, and is named, is what a run reports.
LEMMA NamedIsReported ==
    ASSUME NEW words \in Seq(Word), PlainFilters(words), NEW policy \in Policies,
           NEW lf \in Formats, NEW rf \in Formats, NEW names \in Seq(Names), NEW tests
    PROVE  LET listed == Shows(ListingArgs(policy, lf, words), tests)
               reported == Shows(ExecutionArgs(names, policy, rf, words), tests)
           IN /\ names = <<>> => listed \subseteq reported
              /\ names # <<>> /\ ToSet(names) \subseteq listed => reported = ToSet(names)
<1> DEFINE lw == ListingArgs(policy, lf, words)
           rw == ExecutionArgs(names, policy, rf, words)
           U == HarnessOptions(words)
           L == HarnessOptions(lw)
           R == HarnessOptions(rw)
<1>1. Commanded(words, policy, lf, rf, names)
  BY CommandsRead
<1>2. /\ Given(L, U, {"--list"}, ListingPass, policy, Parse(words).listingUnstable)
      /\ Given(R, U, {"--exact", "--test-threads", "--color"}, RunPass, policy, Parse(words).runUnstable)
      /\ R.filters = ToSet(names) /\ R.skips = {}
  BY <1>1 DEF Commanded
<1> HIDE DEF L, R, U
<1>5. /\ R.filters = ToSet(names) /\ R.skips = {} /\ "--exact" \in ToSet(R.flags)
      /\ "--ignored" \in ToSet(R.flags) => "--ignored" \in ToSet(L.flags)
      /\ "--exclude-should-panic" \in ToSet(R.flags) => "--exclude-should-panic" \in ToSet(L.flags)
  BY <1>2 DEF Given, ListingPass, ListingFlags
<1>6. ASSUME NEW t \in HarnessSelects(lw, tests)
      PROVE  /\ t \in tests /\ ~("--exclude-should-panic" \in ToSet(L.flags) /\ t.panics)
             /\ "--ignored" \in ToSet(L.flags) => t.ignored
  BY DEF HarnessSelects, HarnessPolicy, L
<1>7. ASSUME NEW t
      PROVE  t \in HarnessSelects(rw, tests) <=>
               /\ t \in tests /\ (ToSet(names) = {} \/ t.name \in ToSet(names))
               /\ ~("--exclude-should-panic" \in ToSet(R.flags) /\ t.panics)
               /\ "--ignored" \in ToSet(R.flags) => t.ignored
  <2>1. HarnessPolicy(rw) = "only" <=> "--ignored" \in ToSet(R.flags)
    BY DEF HarnessPolicy, R
  <2>2. t \in HarnessSelects(rw, tests) <=>
          /\ t \in tests
          /\ R.filters = {} \/ \E f \in R.filters : f = t.name
          /\ \A s \in R.skips : s # t.name
          /\ ~("--exclude-should-panic" \in ToSet(R.flags) /\ t.panics)
          /\ HarnessPolicy(rw) = "only" => t.ignored
    BY <1>5 DEF HarnessSelects, R
  <2> QED BY <1>5, <2>1, <2>2
<1> HIDE DEF lw, rw
<1>8. ASSUME names = <<>>, NEW t \in HarnessSelects(lw, tests) PROVE t \in HarnessSelects(rw, tests)
  <2>1. ToSet(names) = {}
    BY <1>8, EmptyFacts
  <2> QED BY <1>5, <1>6, <1>7, <1>8, <2>1
<1> DEFINE listed == {t.name : t \in HarnessSelects(lw, tests)}
           reported == {t.name : t \in HarnessSelects(rw, tests)}
<1>9. names = <<>> => listed \subseteq reported
  BY <1>8
<1>10. ASSUME names # <<>>, ToSet(names) \subseteq listed PROVE reported = ToSet(names)
  <2>1. ToSet(names) # {}
    BY <1>10, NonEmptyFacts
  <2>2. reported \subseteq ToSet(names)
    BY <1>7, <2>1
  <2>3. ASSUME NEW n \in ToSet(names) PROVE n \in reported
    <3>1. PICK t \in HarnessSelects(lw, tests) : n = t.name
      BY <1>10
    <3>2. t \in HarnessSelects(rw, tests)
      BY <1>5, <1>6, <1>7, <3>1
    <3> QED BY <3>1, <3>2
  <2> HIDE DEF reported
  <2> QED BY <2>2, <2>3
<1> QED BY <1>9, <1>10 DEF lw, rw, Shows

\* The flags that the harness knows, and those of them that are unstable.
Known == RunFlags \cup OwnFlags \cup (ValuedFlags \ {"--filter"})
AreUnstable == UnstableFlags \cup {"--exclude-should-panic", "--shuffle-seed"}

LEMMA GivenIsAccepted ==
    ASSUME NEW words, NEW U, NEW own, NEW S, NEW policy, NEW unstable,
           Given(HarnessOptions(words), U, own, S, policy, unstable),
           IsInjective(U.flags), ToSet(U.flags) \subseteq Known, own \subseteq Known \ AreUnstable,
           ToSet(U.flags) \cap S \cap AreUnstable # {} => unstable
    PROVE  HarnessAccepts(words)
<1> DEFINE h == HarnessOptions(words)
           F == ToSet(h.flags)
           three == {"--format", "--ignored", "--include-ignored"}
<1>1. /\ h.awaits = "" /\ F \ three = own \cup (ToSet(U.flags) \cap S)
      /\ ~("--ignored" \in F /\ "--include-ignored" \in F)
      /\ IsInjective(h.flags)
      /\ h.format = "pretty" \/ h.unstable
      /\ unstable => h.unstable
  BY DEF Given
<1>2. three \subseteq Known /\ three \cap AreUnstable = {}
  BY DEF Known, AreUnstable, UnstableFlags, OwnFlags, ValuedFlags
<1> HIDE DEF h, three
<1>3. F \subseteq Known
  BY <1>1, <1>2
<1>4. ASSUME F \cap AreUnstable # {} \/ h.format \in {"json", "junit"} PROVE h.unstable
  <2>1. CASE F \cap AreUnstable # {}
    <3>1. PICK x \in F : x \in AreUnstable
      BY <2>1
    <3>2. x \in ToSet(U.flags) \cap S
      BY <1>1, <1>2, <3>1
    <3> QED BY <1>1, <3>1, <3>2
  <2>2. CASE h.format \in {"json", "junit"}
    BY <1>1, <2>2
  <2> QED BY <1>4, <2>1, <2>2
<1> HIDE DEF F
<1>5. ~({"--ignored", "--include-ignored"} \subseteq F)
  BY <1>1
<1> QED BY <1>1, <1>3, <1>4, <1>5 DEF HarnessAccepts, Known, AreUnstable, F, h

\* One word more does not make the harness forget a flag.
LEMMA NoneForgotten ==
    ASSUME NEW words \in Seq(Word), NEW w \in Word
    PROVE  LET U == HarnessOptions(words)
               V == HarnessOptions(Append(words, w))
           IN ToSet(U.flags) \subseteq ToSet(V.flags) /\ (IsInjective(V.flags) => IsInjective(U.flags))
<1> DEFINE U == HarnessOptions(words)
           V == Takes(U, w)
<1>1. HarnessOptions(Append(words, w)) = V /\ U \in HarnessState
  BY OneWordMore, HarnessType
<1> HIDE DEF U
<1>2. U.flags \in Seq(Word) /\ U.awaits \in Word
  BY <1>1 DEF HarnessState, Word, OwnWords, ValuedFlags
<1>3. V.flags = U.flags \/ \E x \in Word : V.flags = Append(U.flags, x)
  <2>1. CASE U.literal \/ (U.awaits = "" /\ w \in Patterns)
    BY <1>1, <2>1, UserFacts
  <2>2. CASE ~U.literal /\ U.awaits # ""
    <3>1. V.flags = IF U.awaits \in {"--skip", "-Z"} THEN U.flags ELSE Append(U.flags, U.awaits)
      BY <1>1, <2>2, UserFacts
    <3> HIDE DEF V
    <3> QED BY <1>2, <3>1
  <2>3. CASE ~U.literal /\ U.awaits = "" /\ w \notin Patterns
    <3>1. V.flags = IF w \in ValuedFlags \cup {"--"} THEN U.flags ELSE Append(U.flags, w)
      BY <1>1, <2>3, UserFacts
    <3> HIDE DEF V
    <3> QED BY <3>1
  <2> QED BY <2>1, <2>2, <2>3
<1> HIDE DEF V
<1>4. ToSet(U.flags) \subseteq ToSet(V.flags) /\ (IsInjective(V.flags) => IsInjective(U.flags))
  <2>1. ASSUME NEW x \in Word, V.flags = Append(U.flags, x)
        PROVE  ToSet(U.flags) \subseteq ToSet(V.flags) /\ (IsInjective(V.flags) => IsInjective(U.flags))
    <3>1. ToSet(Append(U.flags, x)) = ToSet(U.flags) \cup {x}
      BY <1>2, AppendFacts
    <3>2. IsInjective(Append(U.flags, x)) => IsInjective(U.flags)
      BY <1>2, InjectiveAppend
    <3> QED BY <2>1, <3>1, <3>2
  <2> QED BY <1>3, <2>1
<1> QED BY <1>1, <1>4 DEF U

\* If libtest takes the user's words, with its unstable options, these words themselves give it
\* flags that it knows, and none twice.
LEMMA UserIsAccepted ==
    ASSUME NEW words \in Seq(Word), HarnessAccepts(words \o Unstable)
    PROVE  LET U == HarnessOptions(words)
           IN IsInjective(U.flags) /\ ToSet(U.flags) \subseteq Known
<1> DEFINE a == Append(words, "-Z")
           b == Append(a, "unstable-options")
<1>1. "-Z" \in Word /\ "unstable-options" \in Word
  BY DEF Word, OwnWords
<1>2. words \o Unstable = b /\ a \in Seq(Word)
  <2>1. words \o Unstable = words \o <<"-Z", "unstable-options">> /\ words \in Seq(Word)
    BY DEF Unstable
  <2>2. <<"-Z", "unstable-options">> = Append(<<"-Z">>, "unstable-options") /\ <<"-Z">> \in Seq(Word)
    BY <1>1
  <2>3. words \o Append(<<"-Z">>, "unstable-options") = Append(words \o <<"-Z">>, "unstable-options")
    BY <1>1, <2>2, AppendJoins
  <2>4. words \o <<"-Z">> = a /\ a \in Seq(Word)
    BY <1>1, AppendJoins
  <2> QED BY <2>1, <2>2, <2>3, <2>4
<1> HIDE DEF a, b
<1>3. LET V == HarnessOptions(b) IN IsInjective(V.flags) /\ ToSet(V.flags) \subseteq Known
  BY <1>2 DEF HarnessAccepts, Known
<1>4. LET V == HarnessOptions(a) IN IsInjective(V.flags) /\ ToSet(V.flags) \subseteq Known
  BY <1>1, <1>2, <1>3, NoneForgotten DEF b
<1> QED BY <1>1, <1>4, NoneForgotten DEF a

\* And then the harness takes the words that quokka makes of them.
LEMMA CommandsAccepted ==
    ASSUME NEW words \in Seq(Word), PlainFilters(words), HarnessAccepts(words \o Unstable),
           NEW policy \in Policies, NEW lf \in Formats, NEW rf \in Formats, NEW names \in Seq(Names)
    PROVE  /\ HarnessAccepts(ListingArgs(policy, lf, words))
           /\ HarnessAccepts(ExecutionArgs(names, policy, rf, words))
           /\ HarnessAccepts(DoctestArgs(policy, rf, words))
<1> DEFINE p == Parse(words)
           U == HarnessOptions(words)
           lw == ListingArgs(policy, lf, words)
           rw == ExecutionArgs(names, policy, rf, words)
           dw == DoctestArgs(policy, rf, words)
           ownR == {"--exact", "--test-threads", "--color"}
           ownD == {"--test-threads", "--color"}
           ownL == {"--list"}
<1>1. /\ Learns(p, U)
      /\ Given(HarnessOptions(lw), U, ownL, ListingPass, policy, p.listingUnstable)
      /\ Given(HarnessOptions(rw), U, ownR, RunPass, policy, p.runUnstable)
      /\ Given(HarnessOptions(dw), U, ownD, WholePass, policy, p.runUnstable)
  BY CommandsRead DEF Commanded
<1>2. IsInjective(U.flags) /\ ToSet(U.flags) \subseteq Known
  BY UserIsAccepted
<1>3. ownL \subseteq Known \ AreUnstable /\ ownR \subseteq Known \ AreUnstable /\ ownD \subseteq Known \ AreUnstable
  BY DEF Known, AreUnstable, UnstableFlags, OwnFlags, ValuedFlags
<1> HIDE DEF p, U, ownR, ownD, ownL, lw, rw, dw
<1>4. ToSet(U.flags) \cap ListingPass \cap AreUnstable # {} => p.listingUnstable
  <2>1. ListingPass \cap AreUnstable \subseteq {"--exclude-should-panic"}
    BY DEF ListingPass, ListingFlags, AreUnstable, UnstableFlags
  <2> QED BY <1>1, <2>1 DEF Learns
<1>5. ToSet(U.flags) \cap AreUnstable # {} => p.runUnstable
  BY <1>1 DEF Learns, AreUnstable
<1>6. HarnessAccepts(lw)
  BY <1>1, <1>2, <1>3, <1>4, GivenIsAccepted
<1>7. ASSUME NEW x, NEW S, NEW own, own \subseteq Known \ AreUnstable,
             Given(HarnessOptions(x), U, own, S, policy, p.runUnstable)
      PROVE  HarnessAccepts(x)
  <2>1. ToSet(U.flags) \cap S \cap AreUnstable # {} => p.runUnstable
    BY <1>5
  <2> QED BY <1>2, <1>7, <2>1, GivenIsAccepted
<1> QED BY <1>1, <1>3, <1>6, <1>7 DEF lw, rw, dw

\* A name passes the filters.
Passes(h, n) ==
    LET matches(f) == IF "--exact" \in ToSet(h.flags) THEN f = n ELSE <<f, n>> \in Substring
    IN /\ h.filters = {} \/ \E f \in h.filters : matches(f)
       /\ \A s \in h.skips : ~matches(s)

LEMMA SelectsFacts ==
    ASSUME NEW words, NEW tests, NEW t
    PROVE  LET h == HarnessOptions(words)
           IN t \in HarnessSelects(words, tests) <=>
                /\ t \in tests /\ Passes(h, t.name)
                /\ ~("--exclude-should-panic" \in ToSet(h.flags) /\ t.panics)
                /\ "--ignored" \in ToSet(h.flags) => t.ignored
<1> DEFINE h == HarnessOptions(words)
           matches(f) == IF "--exact" \in ToSet(h.flags) THEN f = t.name ELSE <<f, t.name>> \in Substring
<1>1. HarnessPolicy(words) = "only" <=> "--ignored" \in ToSet(h.flags)
  BY DEF HarnessPolicy
<1>2. t \in HarnessSelects(words, tests) <=>
        /\ t \in tests
        /\ h.filters = {} \/ \E f \in h.filters : matches(f)
        /\ \A s \in h.skips : ~matches(s)
        /\ ~("--exclude-should-panic" \in ToSet(h.flags) /\ t.panics)
        /\ HarnessPolicy(words) = "only" => t.ignored
  BY DEF HarnessSelects
<1>3. Passes(h, t.name) <=> /\ h.filters = {} \/ \E f \in h.filters : matches(f)
                            /\ \A s \in h.skips : ~matches(s)
  BY DEF Passes
<1> HIDE DEF h, matches
<1>4. t \in HarnessSelects(words, tests) <=>
        /\ t \in tests /\ Passes(h, t.name)
        /\ ~("--exclude-should-panic" \in ToSet(h.flags) /\ t.panics)
        /\ "--ignored" \in ToSet(h.flags) => t.ignored
  BY <1>1, <1>2, <1>3
<1> QED BY <1>4 DEF h

LEMMA GivenPolicy ==
    ASSUME NEW words, NEW U, NEW own, NEW S, NEW policy \in Policies, NEW unstable,
           Given(HarnessOptions(words), U, own, S, policy, unstable)
    PROVE  HarnessPolicy(words) = policy
  BY DEF Given, HarnessPolicy, Policies

\* Given a policy, what the harness runs of what it selects; all of it, if the words say so too.
LEMMA GivenRuns ==
    ASSUME NEW words, NEW U, NEW own, NEW S, NEW policy \in Policies, NEW unstable,
           Given(HarnessOptions(words), U, own, S, policy, unstable), NEW tests, NEW t
    PROVE  LET h == HarnessOptions(words)
           IN t \in HarnessRuns(words, tests) <=>
                /\ t \in tests /\ Passes(h, t.name)
                /\ ~("--exclude-should-panic" \in ToSet(h.flags) /\ t.panics)
                /\ Selects(policy, t.ignored)
<1> DEFINE h == HarnessOptions(words)
<1>1. HarnessPolicy(words) = policy /\ ("--ignored" \in ToSet(h.flags) => policy = "only")
  BY GivenPolicy DEF Given
<1>2. t \in HarnessRuns(words, tests) <=> t \in HarnessSelects(words, tests) /\ Selects(policy, t.ignored)
  BY <1>1 DEF HarnessRuns
<1>3. policy = "only" /\ Selects(policy, t.ignored) => t.ignored
  BY DEF Selects
<1>4. t \in HarnessSelects(words, tests) <=>
        /\ t \in tests /\ Passes(h, t.name)
        /\ ~("--exclude-should-panic" \in ToSet(h.flags) /\ t.panics)
        /\ "--ignored" \in ToSet(h.flags) => t.ignored
  BY SelectsFacts
<1> HIDE DEF h
<1>5. t \in HarnessRuns(words, tests) <=>
        /\ t \in tests /\ Passes(h, t.name)
        /\ ~("--exclude-should-panic" \in ToSet(h.flags) /\ t.panics)
        /\ Selects(policy, t.ignored)
  BY <1>1, <1>2, <1>3, <1>4
<1> QED BY <1>5 DEF h

\* The tests that libtest would run of the user's words, under a policy.
UserAsks(words, policy, tests) == {t \in HarnessSelects(words, tests) : Selects(policy, t.ignored)}

\* What the policy has of the user's words, and what a listing can say of it.
Agreed(words, policy, lf) ==
    /\ "--ignored" \in ToSet(HarnessOptions(words).flags) => policy = "only"
    /\ policy = "only" => lf = "json"
    /\ "--filter" \notin ToSet(words)

LEMMA AskedOfUser ==
    ASSUME NEW words, NEW policy, NEW lf, Agreed(words, policy, lf), NEW tests, NEW t
    PROVE  LET U == HarnessOptions(words)
           IN t \in UserAsks(words, policy, tests) <=>
                /\ t \in tests /\ Passes(U, t.name)
                /\ ~("--exclude-should-panic" \in ToSet(U.flags) /\ t.panics)
                /\ Selects(policy, t.ignored)
<1> DEFINE U == HarnessOptions(words)
<1>1. t \in HarnessSelects(words, tests) <=>
        /\ t \in tests /\ Passes(U, t.name)
        /\ ~("--exclude-should-panic" \in ToSet(U.flags) /\ t.panics)
        /\ "--ignored" \in ToSet(U.flags) => t.ignored
  BY SelectsFacts
<1>2. "--ignored" \in ToSet(U.flags) => policy = "only"
  BY DEF Agreed
<1>3. policy = "only" /\ Selects(policy, t.ignored) => t.ignored
  BY DEF Selects
<1>4. t \in UserAsks(words, policy, tests) <=> t \in HarnessSelects(words, tests) /\ Selects(policy, t.ignored)
  BY DEF UserAsks
<1> HIDE DEF U
<1>5. t \in UserAsks(words, policy, tests) <=>
        /\ t \in tests /\ Passes(U, t.name)
        /\ ~("--exclude-should-panic" \in ToSet(U.flags) /\ t.panics)
        /\ Selects(policy, t.ignored)
  BY <1>1, <1>2, <1>3, <1>4
<1> QED BY <1>5 DEF U

\* A run of the whole target runs what the user asked for.
LEMMA WholeRuns ==
    ASSUME NEW words \in Seq(Word), PlainFilters(words), NEW policy \in Policies,
           NEW lf \in Formats, NEW rf \in Formats, Agreed(words, policy, lf), NEW tests, NEW t
    PROVE  t \in HarnessRuns(DoctestArgs(policy, rf, words), tests) <=> t \in UserAsks(words, policy, tests)
<1> DEFINE U == HarnessOptions(words)
           dw == DoctestArgs(policy, rf, words)
           D == HarnessOptions(dw)
           no == <<>>
<1>1. /\ Given(D, U, {"--test-threads", "--color"}, WholePass, policy, Parse(words).runUnstable)
      /\ D.filters = U.filters /\ D.skips = U.skips
  <2>1. no \in Seq(Names)
    OBVIOUS
  <2> HIDE DEF no
  <2>2. Commanded(words, policy, lf, rf, no)
    BY <2>1, CommandsRead
  <2> QED BY <2>2 DEF Commanded, Agreed
<1>2. t \in HarnessRuns(dw, tests) <=>
        /\ t \in tests /\ Passes(D, t.name)
        /\ ~("--exclude-should-panic" \in ToSet(D.flags) /\ t.panics)
        /\ Selects(policy, t.ignored)
  BY <1>1, GivenRuns
<1>3. t \in UserAsks(words, policy, tests) <=>
        /\ t \in tests /\ Passes(U, t.name)
        /\ ~("--exclude-should-panic" \in ToSet(U.flags) /\ t.panics)
        /\ Selects(policy, t.ignored)
  BY AskedOfUser
<1>4. {"--exclude-should-panic", "--exact"} \subseteq WholePass
  BY DEF WholePass, RunPass, Word, OwnWords, OwnFlags, ValuedFlags
<1> HIDE DEF U, dw, D
<1>5. /\ "--exclude-should-panic" \in ToSet(D.flags) <=> "--exclude-should-panic" \in ToSet(U.flags)
      /\ "--exact" \in ToSet(D.flags) <=> "--exact" \in ToSet(U.flags)
  BY <1>1, <1>4 DEF Given
<1>6. Passes(D, t.name) <=> Passes(U, t.name)
  BY <1>1, <1>5 DEF Passes
<1> QED BY <1>2, <1>3, <1>5, <1>6 DEF dw

\* A run of named tests runs those of them that the user asked for.
LEMMA NamedRuns ==
    ASSUME NEW words \in Seq(Word), PlainFilters(words), NEW policy \in Policies,
           NEW rf \in Formats, NEW names \in Seq(Names), names # <<>>, NEW tests, NEW t
    PROVE  LET U == HarnessOptions(words)
           IN t \in HarnessRuns(ExecutionArgs(names, policy, rf, words), tests) <=>
                /\ t \in tests /\ t.name \in ToSet(names)
                /\ ~("--exclude-should-panic" \in ToSet(U.flags) /\ t.panics)
                /\ Selects(policy, t.ignored)
<1> DEFINE U == HarnessOptions(words)
           rw == ExecutionArgs(names, policy, rf, words)
           R == HarnessOptions(rw)
<1>1. /\ Given(R, U, {"--exact", "--test-threads", "--color"}, RunPass, policy, Parse(words).runUnstable)
      /\ R.filters = ToSet(names) /\ R.skips = {}
  BY CommandsRead DEF Commanded
<1>2. t \in HarnessRuns(rw, tests) <=>
        /\ t \in tests /\ Passes(R, t.name)
        /\ ~("--exclude-should-panic" \in ToSet(R.flags) /\ t.panics)
        /\ Selects(policy, t.ignored)
  BY <1>1, GivenRuns
<1>3. "--exclude-should-panic" \in RunPass
  BY DEF RunPass, Word, OwnWords, OwnFlags, ValuedFlags
<1>4. ToSet(names) # {}
  BY NonEmptyFacts
<1> HIDE DEF U, rw, R
<1>5. /\ "--exclude-should-panic" \in ToSet(R.flags) <=> "--exclude-should-panic" \in ToSet(U.flags)
      /\ "--exact" \in ToSet(R.flags)
  BY <1>1, <1>3 DEF Given
<1>6. Passes(R, t.name) <=> t.name \in ToSet(names)
  BY <1>1, <1>4, <1>5 DEF Passes
<1>7. t \in HarnessRuns(rw, tests) <=>
        /\ t \in tests /\ t.name \in ToSet(names)
        /\ ~("--exclude-should-panic" \in ToSet(U.flags) /\ t.panics)
        /\ Selects(policy, t.ignored)
  BY <1>2, <1>5, <1>6
<1> QED BY <1>7 DEF U, rw

\* A listing lists all that the user asked for, and nothing that the user's filters exclude.
LEMMA ListingLists ==
    ASSUME NEW words \in Seq(Word), PlainFilters(words), NEW policy \in Policies,
           NEW lf \in Formats, Agreed(words, policy, lf), NEW tests
    PROVE  LET listed == ParseListing(lf, HarnessSelects(ListingArgs(policy, lf, words), tests), policy)
           IN /\ \A n \in listed : Passes(HarnessOptions(words), n)
              /\ \A t \in UserAsks(words, policy, tests) : t.name \in listed
<1> DEFINE U == HarnessOptions(words)
           lw == ListingArgs(policy, lf, words)
           L == HarnessOptions(lw)
           no == <<>>
           listed == ParseListing(lf, HarnessSelects(lw, tests), policy)
<1>1. /\ Given(L, U, {"--list"}, ListingPass, policy, Parse(words).listingUnstable)
      /\ L.filters = U.filters /\ L.skips = U.skips
  <2>1. no \in Seq(Names)
    OBVIOUS
  <2> HIDE DEF no
  <2>2. Commanded(words, policy, lf, lf, no)
    BY <2>1, CommandsRead
  <2> QED BY <2>2 DEF Commanded, Agreed
<1>2. ASSUME NEW t
      PROVE  t \in HarnessSelects(lw, tests) <=>
               /\ t \in tests /\ Passes(L, t.name)
               /\ ~("--exclude-should-panic" \in ToSet(L.flags) /\ t.panics)
               /\ "--ignored" \in ToSet(L.flags) => t.ignored
  BY SelectsFacts
<1>3. ASSUME NEW t
      PROVE  t \in UserAsks(words, policy, tests) <=>
               /\ t \in tests /\ Passes(U, t.name)
               /\ ~("--exclude-should-panic" \in ToSet(U.flags) /\ t.panics)
               /\ Selects(policy, t.ignored)
  BY AskedOfUser
<1>4. {"--exclude-should-panic", "--exact"} \subseteq ListingPass
  BY DEF ListingPass, ListingFlags
<1>5. listed = {t.name : t \in {u \in HarnessSelects(lw, tests) : Selects(policy, u.ignored /\ lf = "json")}}
  BY DEF ParseListing
<1> HIDE DEF U, lw, L, listed
<1>6. /\ "--exclude-should-panic" \in ToSet(L.flags) <=> "--exclude-should-panic" \in ToSet(U.flags)
      /\ "--exact" \in ToSet(L.flags) <=> "--exact" \in ToSet(U.flags)
      /\ "--ignored" \in ToSet(L.flags) => policy = "only"
  BY <1>1, <1>4 DEF Given
<1>7. \A n : Passes(L, n) <=> Passes(U, n)
  BY <1>1, <1>6 DEF Passes
<1>8. \A n \in listed : Passes(U, n)
  BY <1>2, <1>5, <1>7
<1>9. ASSUME NEW t \in UserAsks(words, policy, tests) PROVE t.name \in listed
  <2>1. /\ t \in tests /\ Passes(U, t.name) /\ Selects(policy, t.ignored)
        /\ ~("--exclude-should-panic" \in ToSet(U.flags) /\ t.panics)
    BY <1>3
  <2>2. t \in HarnessSelects(lw, tests)
    <3>1. policy = "only" => t.ignored
      BY <2>1 DEF Selects
    <3> QED BY <1>2, <1>6, <1>7, <2>1, <3>1
  <2>3. Selects(policy, t.ignored /\ lf = "json")
    <3>1. policy = "only" => lf = "json"
      BY DEF Agreed
    <3> QED BY <2>1, <3>1 DEF Selects, Policies
  <2> QED BY <1>5, <2>2, <2>3
<1> QED BY <1>8, <1>9 DEF U, lw, listed

LEMMA OfMore == ASSUME NEW U, NEW V, U \subseteq V, NEW s \in Seq(U) PROVE s \in Seq(V)
  OBVIOUS

\* What the commands are made of.
LEMMA InputFacts ==
    ASSUME Chosen
    PROVE  /\ Effective(tpx) \in Seq(Word) /\ Policy(tpx) \in Policies
           /\ tpx.choices["list-format"] \in Formats /\ tpx.choices["run-format"] \in Formats
<1> DEFINE words == Effective(tpx)
<1>1. words \in Seq(STRING)
  BY ChosenFacts
<1>2. STRING \subseteq Word
  BY DEF Word
<1> HIDE DEF words
<1>3. words \in Seq(Word)
  BY <1>1, <1>2, OfMore
<1>4. Policy(tpx) \in Policies
  BY DEF Policy, Policies
<1> QED BY <1>3, <1>4, ChosenFacts DEF words

\* Each listed test has a request.
LEMMA EachIsPlanned ==
    ASSUME PlanInv, stage = "planned", NEW n \in ToSet(kept)
    PROVE  \E r \in AllRequests : n \in ToSet(Members(r))
<1> DEFINE R == Repeats(target.labels, Resolve(tpx))
           places == UNION {{<<i, k>> : k \in {j \in DOMAIN requests[i] :
                                                 n \in ToSet(Members(requests[i][j]))}} :
                            i \in DOMAIN requests}
<1>1. Cardinality(places) = R
  BY PlanIsWhole DEF PlannedOnce, Members
<1>2. R \in Nat \ {0}
  BY PlanFacts DEF PlanInv
<1>3. places # {}
  <2> HIDE DEF places, R
  <2> QED BY <1>1, <1>2, FS_EmptySet
<1>4. PICK i \in DOMAIN requests : \E k \in DOMAIN requests[i] : n \in ToSet(Members(requests[i][k]))
  BY <1>3
<1>5. PICK k \in DOMAIN requests[i] : n \in ToSet(Members(requests[i][k]))
  BY <1>4
<1>6. requests[i][k] \in ToSet(requests[i])
  BY <1>5 DEF ToSet
<1>7. requests[i][k] \in AllRequests
  BY <1>6 DEF AllRequests
<1> QED BY <1>5, <1>7

\* A request gives the harness the names of its batch, which are listed ones.
NamesOf(r) == IF r.batch = All THEN <<>> ELSE r.batch

LEMMA RequestFacts ==
    ASSUME PlanInv, stage = "planned", NEW r \in AllRequests
    PROVE  LET words == Effective(tpx)
               policy == Policy(tpx)
               rf == tpx.choices["run-format"]
           IN /\ target.type = "rust" => NamesOf(r) \in Seq(Names)
              /\ target.type = "rust" => r.words = ExecutionArgs(NamesOf(r), policy, rf, words)
              /\ target.type = "rust_doctest_v1" => r.words = DoctestArgs(policy, rf, words)
              /\ Members(r) # <<>> /\ ToSet(Members(r)) \subseteq ToSet(kept)
<1> DEFINE words == Effective(tpx)
           policy == Policy(tpx)
           rf == tpx.choices["run-format"]
<1>1. Chosen /\ Listed /\ FromListing
  BY DEF PlanInv
<1>3. PICK i \in DOMAIN requests : r \in ToSet(requests[i])
  BY DEF AllRequests
<1>4. PICK j \in DOMAIN requests[i] : r = requests[i][j]
  BY <1>3 DEF ToSet
<1>5. Worded(requests[i])
  BY PlannedFacts
<1>6. /\ r.batch = All \/ r.batch \in Seq(AllNames)
      /\ r.words = Words(target.type, r.batch, Resolve(tpx))
  BY <1>4, <1>5 DEF Worded
<1>7. /\ target.type = "rust" => r.words = ExecutionArgs(NamesOf(r), policy, rf, words)
      /\ target.type = "rust_doctest_v1" => r.words = DoctestArgs(policy, rf, words)
  <2>1. /\ Resolve(tpx).policy = policy /\ Resolve(tpx).runFormat = rf
        /\ Resolve(tpx).extra \o Resolve(tpx).direct = words
    BY DEF Resolve, Effective
  <2> QED BY <1>6, <2>1 DEF Words, NamesOf
<1>8. Members(r) # <<>> /\ ToSet(Members(r)) \subseteq ToSet(kept)
  BY PlanIsWhole DEF PlannedOnce, Members
<1> HIDE DEF words, policy, rf
<1>9. ASSUME target.type = "rust" PROVE NamesOf(r) \in Seq(Names)
  <2>1. CASE r.batch = All
    BY <2>1 DEF NamesOf
  <2>2. CASE r.batch # All
    <3> DEFINE b == r.batch
    <3>1. b \in Seq(AllNames) /\ ToSet(b) \subseteq ToSet(kept)
      BY <1>6, <1>8, <2>2 DEF Members
    <3>2. ToSet(kept) \subseteq Names
      BY <1>1, <1>9 DEF FromListing, ToSet
    <3> HIDE DEF b
    <3>3. \A k \in 1 .. Len(b) : b[k] \in Names
      BY <3>1, <3>2 DEF ToSet
    <3>4. b \in Seq(Names)
      BY <3>1, <3>3
    <3> QED BY <2>2, <3>4 DEF b, NamesOf
  <2> QED BY <2>1, <2>2
<1> QED BY <1>7, <1>8, <1>9 DEF words, policy, rf

LEMMA PlanRunsListed == ASSUME PlanInv, stage = "planned" PROVE RunsWhatWasListed
<1> DEFINE words == Effective(tpx)
           policy == Policy(tpx)
           lf == tpx.choices["list-format"]
           rf == tpx.choices["run-format"]
           listed == Shows(ListingArgs(policy, lf, words), suite)
           reported(r) == Shows(r.words, suite)
<1> SUFFICES ASSUME target.type = "rust", PlainFilters(words), NEW r \in AllRequests
             PROVE  IF r.batch = All THEN ToSet(kept) \subseteq reported(r)
                                     ELSE reported(r) = ToSet(r.batch)
  BY DEF RunsWhatWasListed, Shows
<1>0. PlainFilters(words)
  OBVIOUS
<1>1. Chosen /\ FromListing
  BY DEF PlanInv
<1>2. words \in Seq(Word) /\ lf \in Formats /\ rf \in Formats /\ policy \in Policies
  BY <1>1, InputFacts
<1> DEFINE names == NamesOf(r)
<1>6. /\ names \in Seq(Names) /\ r.words = ExecutionArgs(names, policy, rf, words)
      /\ Members(r) # <<>> /\ ToSet(Members(r)) \subseteq ToSet(kept)
  BY RequestFacts
<1>8. ToSet(kept) \subseteq listed
  BY <1>1 DEF FromListing, ListedNames, ParseListing, Shows
<1> HIDE DEF words, policy, lf, rf
<1>10. /\ names = <<>> => listed \subseteq reported(r)
       /\ names # <<>> /\ ToSet(names) \subseteq listed => reported(r) = ToSet(names)
  <2> DEFINE more == Shows(ExecutionArgs(names, policy, rf, words), suite)
  <2>1. reported(r) = more
    BY <1>6
  <2> HIDE DEF names, reported
  <2>2. /\ names = <<>> => listed \subseteq more
        /\ names # <<>> /\ ToSet(names) \subseteq listed => more = ToSet(names)
    BY <1>0, <1>2, <1>6, NamedIsReported
  <2> QED BY <2>1, <2>2
<1> HIDE DEF listed, reported
<1>11. CASE r.batch = All
  BY <1>8, <1>10, <1>11 DEF NamesOf
<1>12. CASE r.batch # All
  BY <1>6, <1>8, <1>10, <1>12 DEF NamesOf, Members
<1> QED BY <1>11, <1>12

\* The policy is the one that the user's words ask for, and the listing can tell it.
LEMMA PolicyAgrees ==
    ASSUME Chosen, PlainFilters(Effective(tpx)), "--filter" \notin ToSet(Effective(tpx))
    PROVE  Agreed(Effective(tpx), Policy(tpx), tpx.choices["list-format"])
<1> DEFINE words == Effective(tpx)
           lf == tpx.choices["list-format"]
           no == <<>>
<1>1. words \in Seq(Word) /\ Policy(tpx) \in Policies /\ lf \in Formats
  BY InputFacts
<1>2. ~Conflicts(tpx) /\ ~(Policy(tpx) = "only" /\ lf = "text")
  <2>1. Errors(tpx) = {}
    BY DEF Chosen
  <2> QED BY <2>1 DEF Errors
<1>3. Learns(Parse(words), HarnessOptions(words))
  <2>1. no \in Seq(Names)
    OBVIOUS
  <2>2. PlainFilters(words)
    OBVIOUS
  <2> HIDE DEF no, words, lf
  <2>3. Commanded(words, Policy(tpx), lf, lf, no)
    BY <1>1, <2>1, <2>2, CommandsRead
  <2> QED BY <2>3 DEF Commanded
<1>4. "--ignored" \in ToSet(HarnessOptions(words).flags) => Policy(tpx) = "only"
  <2>1. "only" \in ToSet(Parse(words).policies) => "only" \in PoliciesAsked(tpx)
    BY DEF PoliciesAsked
  <2>2. "only" \in PoliciesAsked(tpx) => Policy(tpx) = "only"
    BY <1>2 DEF Conflicts, Policy
  <2> QED BY <1>3, <2>1, <2>2 DEF Learns
<1>5. Policy(tpx) = "only" => lf = "json"
  BY <1>1, <1>2 DEF Formats
<1> QED BY <1>4, <1>5 DEF Agreed

LEMMA PlanSelects == ASSUME PlanInv, stage = "planned" PROVE SelectionIsLibtests
<1> DEFINE words == Effective(tpx)
           policy == Policy(tpx)
           lf == tpx.choices["list-format"]
           rf == tpx.choices["run-format"]
           asks == UserAsks(words, policy, suite)
           U == HarnessOptions(words)
<1> SUFFICES ASSUME target.type # "custom_test_v1", PlainFilters(words), "--filter" \notin ToSet(words),
                    \A r \in AllRequests : r.batch # All \/ target.type # "rust"
             PROVE  UNION {{t.name : t \in HarnessRuns(r.words, suite)} : r \in AllRequests}
                      = history.wanted
  BY DEF SelectionIsLibtests
<1>0. PlainFilters(words)
  OBVIOUS
<1>1. Chosen /\ FromListing /\ Remembered /\ suite \subseteq Test
  BY InputsAssumption DEF PlanInv
<1>2. words \in Seq(Word) /\ lf \in Formats /\ rf \in Formats /\ policy \in Policies
  BY <1>1, InputFacts
<1>3. Agreed(words, policy, lf)
  BY <1>1, PolicyAgrees
<1>4. history.wanted = {t.name : t \in asks}
  BY <1>1 DEF Remembered, Plainly, UserAsks
<1>5. target.type \in {"rust", "rust_doctest_v1"}
  BY <1>1, ChosenFacts DEF TargetTypes
<1>6. ASSUME NEW r \in AllRequests
      PROVE  /\ target.type = "rust" =>
                  /\ r.batch \in Seq(Names) /\ r.batch # <<>> /\ ToSet(r.batch) \subseteq ToSet(kept)
                  /\ Members(r) = r.batch /\ r.words = ExecutionArgs(r.batch, policy, rf, words)
             /\ target.type = "rust_doctest_v1" => r.words = DoctestArgs(policy, rf, words)
  <2>1. target.type = "rust" => NamesOf(r) = r.batch /\ Members(r) = r.batch
    BY DEF NamesOf, Members
  <2> QED BY <2>1, RequestFacts
<1>7. target.type = "rust" => ToSet(kept) = Names \cap ListedNames
  BY <1>1 DEF FromListing
<1>8. (\A n \in ListedNames : Passes(U, n)) /\ \A t \in asks : t.name \in ListedNames
  <2>1. ListedNames = ParseListing(lf, HarnessSelects(ListingArgs(policy, lf, words), suite), policy)
    BY DEF ListedNames
  <2> HIDE DEF words, policy, lf
  <2> QED BY <1>0, <1>2, <1>3, <2>1, ListingLists
<1>9. ASSUME NEW t
      PROVE  t \in asks <=> /\ t \in suite /\ Passes(U, t.name)
                            /\ ~("--exclude-should-panic" \in ToSet(U.flags) /\ t.panics)
                            /\ Selects(policy, t.ignored)
  <2> HIDE DEF words, policy, lf
  <2> QED BY <1>3, AskedOfUser
<1>10. ASSUME target.type = "rust", NEW r \in AllRequests, NEW t
       PROVE  t \in HarnessRuns(r.words, suite) <=>
                /\ t \in suite /\ t.name \in ToSet(r.batch)
                /\ ~("--exclude-should-panic" \in ToSet(U.flags) /\ t.panics)
                /\ Selects(policy, t.ignored)
  <2> DEFINE names == r.batch
  <2>1. names \in Seq(Names) /\ names # <<>> /\ r.words = ExecutionArgs(names, policy, rf, words)
    BY <1>6, <1>10
  <2> HIDE DEF words, policy, rf
  <2>2. t \in HarnessRuns(ExecutionArgs(names, policy, rf, words), suite) <=>
          /\ t \in suite /\ t.name \in ToSet(names)
          /\ ~("--exclude-should-panic" \in ToSet(U.flags) /\ t.panics)
          /\ Selects(policy, t.ignored)
    <3> HIDE DEF names
    <3> QED BY <1>0, <1>2, <2>1, NamedRuns
  <2> QED BY <2>1, <2>2
<1>11. ASSUME target.type = "rust_doctest_v1", NEW r \in AllRequests, NEW t
       PROVE  t \in HarnessRuns(r.words, suite) <=> t \in asks
  <2>1. r.words = DoctestArgs(policy, rf, words)
    BY <1>6, <1>11
  <2> HIDE DEF words, policy, rf, lf
  <2> QED BY <1>0, <1>2, <1>3, <2>1, WholeRuns
<1>d. target.type = "rust_doctest_v1" => kept = <<Whole>>
  BY <1>1 DEF FromListing
<1> HIDE DEF words, policy, lf, rf, asks, U
<1>12. ASSUME NEW r \in AllRequests, NEW t \in HarnessRuns(r.words, suite) PROVE t \in asks
  <2>1. CASE target.type = "rust"
    <3>1. /\ t \in suite /\ t.name \in ToSet(r.batch) /\ Selects(policy, t.ignored)
          /\ ~("--exclude-should-panic" \in ToSet(U.flags) /\ t.panics)
      BY <1>10, <1>12, <2>1
    <3>2. t.name \in ListedNames
      BY <1>6, <1>7, <2>1, <3>1
    <3> QED BY <1>8, <1>9, <3>1, <3>2
  <2>2. CASE target.type = "rust_doctest_v1"
    BY <1>11, <1>12, <2>2
  <2> QED BY <1>5, <2>1, <2>2
<1>13. ASSUME NEW t \in asks PROVE \E r \in AllRequests : t \in HarnessRuns(r.words, suite)
  <2>1. CASE target.type = "rust"
    <3>1. /\ t \in suite /\ Selects(policy, t.ignored)
          /\ ~("--exclude-should-panic" \in ToSet(U.flags) /\ t.panics)
      BY <1>9
    <3>2. t.name \in Names
      BY <1>1, <3>1 DEF Test
    <3>3. t.name \in ToSet(kept)
      BY <1>7, <1>8, <2>1, <3>2
    <3>4. PICK r \in AllRequests : t.name \in ToSet(Members(r))
      BY <3>3, EachIsPlanned
    <3>5. t.name \in ToSet(r.batch)
      BY <1>6, <2>1, <3>4
    <3> QED BY <1>10, <2>1, <3>1, <3>5
  <2>2. CASE target.type = "rust_doctest_v1"
    <3>1. Whole \in ToSet(kept)
      <4>1. kept = <<Whole>>
        BY <1>d, <2>2
      <4> QED BY <4>1, SingleFacts
    <3>2. PICK r \in AllRequests : Whole \in ToSet(Members(r))
      BY <3>1, EachIsPlanned
    <3> QED BY <1>11, <2>2
  <2> QED BY <1>5, <2>1, <2>2
<1> DEFINE runs == UNION {{t.name : t \in HarnessRuns(r.words, suite)} : r \in AllRequests}
           want == {t.name : t \in asks}
<1>14. runs \subseteq want
  BY <1>12
<1>15. want \subseteq runs
  BY <1>13
<1> HIDE DEF runs, want
<1>16. runs = want
  BY <1>14, <1>15
<1> QED BY <1>4, <1>16 DEF runs, want

LEMMA PlanIsAccepted ==
    ASSUME PlanInv, stage = "planned", history.sensible, PlainFilters(Effective(tpx)),
           NEW r \in AllRequests, target.type # "custom_test_v1"
    PROVE  HarnessAccepts(r.words)
<1> DEFINE words == Effective(tpx)
           policy == Policy(tpx)
           rf == tpx.choices["run-format"]
           no == <<>>
<1>1. Chosen /\ Remembered
  BY DEF PlanInv
<1>2. words \in Seq(Word) /\ rf \in Formats /\ policy \in Policies
  BY <1>1, InputFacts
<1>3. HarnessAccepts(words \o Unstable) /\ PlainFilters(words)
  BY <1>1 DEF Remembered
<1>4. target.type \in {"rust", "rust_doctest_v1"}
  BY <1>1, ChosenFacts DEF TargetTypes
<1>5. /\ target.type = "rust" => NamesOf(r) \in Seq(Names)
      /\ target.type = "rust" => r.words = ExecutionArgs(NamesOf(r), policy, rf, words)
      /\ target.type = "rust_doctest_v1" => r.words = DoctestArgs(policy, rf, words)
  BY RequestFacts
<1>6. no \in Seq(Names)
  OBVIOUS
<1> HIDE DEF words, policy, rf, no
<1>7. CASE target.type = "rust"
  BY <1>2, <1>3, <1>5, <1>7, CommandsAccepted
<1>8. CASE target.type = "rust_doctest_v1"
  <2>1. HarnessAccepts(DoctestArgs(policy, rf, words))
    BY <1>2, <1>3, <1>6, CommandsAccepted
  <2> QED BY <1>5, <1>8, <2>1
<1> QED BY <1>4, <1>7, <1>8
-------------------------------------------------------------------------------
(* The invariant.                                                            *)

LEMMA PlanInvInit == Init => PlanInv
  BY DEF Init, PlanInv

LEMMA PlanInvStep == PlanInv /\ [Next]_vars => PlanInv'
<1> SUFFICES ASSUME PlanInv, [Next]_vars PROVE PlanInv'
  OBVIOUS
<1>1. ASSUME UNCHANGED <<tpx, target>>, Chosen PROVE Chosen'
  BY <1>1 DEF Chosen
<1>2. ASSUME UNCHANGED <<tpx, target, kept>>, Listed PROVE Listed'
  BY <1>2 DEF Listed
<1>a. suite' = suite
  BY DEF Next, Configure, ListTests, PlanShards, Run, vars
<1>b. suite' \in Suites
  BY <1>a DEF PlanInv
<1>9. ASSUME UNCHANGED <<tpx, target, kept>>, FromListing PROVE FromListing'
  <2>1. ListedNames' = ListedNames
    BY <1>9, <1>a DEF ListedNames
  <2> QED BY <1>9, <2>1 DEF FromListing
<1>c. ASSUME UNCHANGED <<tpx, history>>, Remembered PROVE Remembered'
  <2>1. Plainly(tpx)' = Plainly(tpx)
    BY <1>a, <1>c DEF Plainly
  <2>2. Effective(tpx)' = Effective(tpx)
    BY <1>c
  <2> QED BY <1>c, <2>1, <2>2 DEF Remembered
<1>3. ASSUME UNCHANGED <<tpx, target, kept>>, NEW i, NEW hash, NEW database
      PROVE  Actions(i, hash, database)' = Actions(i, hash, database)
  BY <1>3 DEF Actions, Request
<1>4. CASE Configure
  <2>1. CASE stage' = "refused"
    BY <1>b, <2>1 DEF PlanInv
  <2>2. CASE stage' # "refused"
    <3>1. PICK s \in Scenarios :
            /\ stage' = "configured" /\ tpx' = s.tpx /\ target' = s.target /\ Errors(s.tpx) = {}
            /\ history' = [wanted |-> Plainly(s.tpx),
                           sensible |-> HarnessAccepts(Effective(s.tpx) \o Unstable)]
      BY <1>4, <2>2 DEF Configure
    <3>2. Chosen'
      BY <3>1 DEF Chosen
    <3>3. Plainly(tpx)' = Plainly(s.tpx)
      BY <1>a, <3>1 DEF Plainly
    <3>4. Remembered'
      BY <3>1, <3>3 DEF Remembered
    <3> QED BY <1>b, <3>1, <3>2, <3>4 DEF PlanInv
  <2> QED BY <2>1, <2>2
<1>5. CASE ListTests
  <2>1. stage = "configured" /\ UNCHANGED <<tpx, target, suite, history>>
    BY <1>5 DEF ListTests
  <2>2. Chosen' /\ Remembered'
    BY <1>1, <1>c, <2>1 DEF PlanInv
  <2>3. stage' \in {"rejected", "invalid", "printed", "listed"}
    BY <1>5 DEF ListTests
  <2>4. ASSUME stage' = "listed" PROVE Listed'
    <3>1. PICK listed :
            LET names == IF target.type = "rust" THEN Keep(NameOrder, listed) ELSE <<Whole>>
            IN kept' = names /\ OverridesValid(target, Resolve(tpx).overrides, names)
      BY <1>5, <2>4 DEF ListTests
    <3>2. Keep(NameOrder, listed) \in Seq(Names) /\ IsInjective(Keep(NameOrder, listed))
      BY InputsAssumption, KeepFacts
    <3>3. <<Whole>> \in Seq(AllNames) /\ IsInjective(<<Whole>>)
      BY SingleFacts DEF AllNames
    <3>4. Keep(NameOrder, listed) \in Seq(AllNames)
      <4>1. Names \subseteq AllNames
        BY DEF AllNames
      <4> QED BY <3>2, <4>1
    <3>5. /\ kept' \in Seq(AllNames) /\ IsInjective(kept')
          /\ OverridesValid(target, Resolve(tpx).overrides, kept')
      BY <3>1, <3>2, <3>3, <3>4
    <3> QED BY <2>1, <3>5 DEF Listed
  <2>5. ASSUME stage' = "listed" PROVE FromListing'
    <3>1. Resolve(tpx).policy = Policy(tpx) /\ Resolve(tpx).listFormat = tpx.choices["list-format"]
      BY DEF Resolve
    <3>2. kept' = IF target.type = "rust" THEN Keep(NameOrder, ListedNames) ELSE <<Whole>>
      BY <1>5, <2>5, <3>1 DEF ListTests, ListedNames
    <3>3. /\ Keep(NameOrder, ListedNames) \in Seq(Names)
          /\ ToSet(Keep(NameOrder, ListedNames)) = Names \cap ListedNames
      BY InputsAssumption, KeepFacts
    <3>4. ListedNames' = ListedNames
      BY <2>1 DEF ListedNames
    <3> QED BY <2>1, <3>2, <3>3, <3>4 DEF FromListing
  <2>6. ASSUME stage' = "rejected", history.sensible, PlainFilters(Effective(tpx)) PROVE FALSE
    <3> DEFINE words == Effective(tpx)
               policy == Policy(tpx)
               lf == tpx.choices["list-format"]
               no == <<>>
    <3>1. ~HarnessAccepts(ListingArgs(policy, lf, words))
      <4>1. Resolve(tpx).policy = policy /\ Resolve(tpx).listFormat = lf
        BY DEF Resolve
      <4> QED BY <1>5, <2>6, <4>1 DEF ListTests
    <3>2. Chosen /\ Remembered
      BY <2>1 DEF PlanInv
    <3>3. words \in Seq(Word) /\ policy \in Policies /\ lf \in Formats
      BY <3>2, InputFacts
    <3>4. HarnessAccepts(words \o Unstable) /\ PlainFilters(words)
      BY <2>6, <3>2 DEF Remembered
    <3>5. no \in Seq(Names)
      OBVIOUS
    <3> HIDE DEF words, policy, lf, no
    <3> QED BY <3>1, <3>3, <3>4, <3>5, CommandsAccepted
  <2>7. Effective(tpx)' = Effective(tpx)
    BY <2>1
  <2>8. stage' = "rejected" => ~(history.sensible /\ PlainFilters(Effective(tpx)))'
    BY <2>1, <2>6, <2>7
  <2> QED BY <1>b, <2>2, <2>3, <2>4, <2>5, <2>8 DEF PlanInv
<1>6. CASE PlanShards
  <2>1. stage = "listed" /\ stage' = "planned" /\ UNCHANGED <<tpx, target, kept, history>>
    BY <1>6 DEF PlanShards
  <2>2. Chosen' /\ Remembered' /\ Listed' /\ FromListing'
    BY <1>1, <1>2, <1>9, <1>c, <2>1 DEF PlanInv
  <2>3. Planned'
    <3> DEFINE count == Resolve(tpx).shard.count
    <3>1. PICK hash \in Hashes, databases \in [0 .. count - 1 -> Databases] :
            requests' = [i \in 0 .. count - 1 |-> Actions(i, hash, databases[i])]
      BY <1>6 DEF PlanShards
    <3>2. ASSUME NEW i PROVE Actions(i, hash, databases[i])' = Actions(i, hash, databases[i])
      <4> DEFINE d == databases[i]
      <4> HIDE DEF d
      <4>1. Actions(i, hash, d)' = Actions(i, hash, d)
        BY <1>3, <2>1
      <4> QED BY <4>1 DEF d
    <3>3. Resolve(tpx') = Resolve(tpx)
      BY <2>1
    <3> QED BY <3>1, <3>2, <3>3 DEF Planned
  <2> QED BY <1>b, <2>1, <2>2, <2>3 DEF PlanInv
<1>7. CASE Run
  BY <1>7, <1>b DEF Run, PlanInv
<1>8. CASE UNCHANGED vars
  <2>1. UNCHANGED <<stage, tpx, target, kept, requests, history>>
    BY <1>8 DEF vars
  <2>2. ASSUME Planned PROVE Planned'
    <3> DEFINE count == Resolve(tpx).shard.count
    <3>1. PICK hash \in Hashes, databases \in [0 .. count - 1 -> Databases] :
            requests = [i \in 0 .. count - 1 |-> Actions(i, hash, databases[i])]
      BY <2>2 DEF Planned
    <3>2. ASSUME NEW i PROVE Actions(i, hash, databases[i])' = Actions(i, hash, databases[i])
      <4> DEFINE d == databases[i]
      <4> HIDE DEF d
      <4>1. Actions(i, hash, d)' = Actions(i, hash, d)
        BY <1>3, <2>1
      <4> QED BY <4>1 DEF d
    <3>3. Resolve(tpx') = Resolve(tpx)
      BY <2>1
    <3>4. requests' = [i \in 0 .. count - 1 |-> Actions(i, hash, databases[i])]
      BY <2>1, <3>1
    <3> QED BY <3>2, <3>3, <3>4 DEF Planned
  <2>3. Effective(tpx)' = Effective(tpx)
    BY <2>1
  <2>4. stage' = "rejected" => ~(history.sensible /\ PlainFilters(Effective(tpx)))'
    BY <2>1, <2>3 DEF PlanInv
  <2> QED BY <1>1, <1>2, <1>9, <1>b, <1>c, <2>1, <2>2, <2>4 DEF PlanInv
<1> QED BY <1>4, <1>5, <1>6, <1>7, <1>8 DEF Next

LEMMA PlanInvHolds == Spec => []PlanInv
  BY PlanInvInit, PlanInvStep, PTL DEF Spec

\* Whatever the databases of the shards say and whatever the hash of a name is, each listed test
\* is planned once, by one shard, for each repetition.
THEOREM PlansAreWhole == Spec => []PlannedOnce
<1>1. PlanInv => PlannedOnce
  <2>1. CASE stage = "planned"
    BY <2>1, PlanIsWhole
  <2>2. CASE stage # "planned"
    BY <2>2 DEF PlannedOnce
  <2> QED BY <2>1, <2>2
<1> QED BY <1>1, PlanInvHolds, PTL

\* Exclusivity and memory overrides reach the requests they are meant for, and no others.
THEOREM LabelsAreHonoured == Spec => []LabelsHonoured
<1>1. PlanInv => LabelsHonoured
  <2>1. CASE stage = "planned"
    BY <2>1, PlanHonours
  <2>2. CASE stage # "planned"
    BY <2>2 DEF LabelsHonoured
  <2> QED BY <2>1, <2>2
<1> QED BY <1>1, PlanInvHolds, PTL

\* Whatever the user's words, in whatever order and whatever they mean to a listing or to a run, a
\* run that names its tests reports those, and one that does not at least those that were listed.
THEOREM ListedIsRun == Spec => []RunsWhatWasListed
<1>1. PlanInv => RunsWhatWasListed
  <2>1. CASE stage = "planned"
    BY <2>1, PlanRunsListed
  <2>2. CASE stage # "planned"
    BY <2>2 DEF RunsWhatWasListed
  <2> QED BY <2>1, <2>2
<1> QED BY <1>1, PlanInvHolds, PTL

\* Whatever the user's words, the listing and the names that the requests carry lose no test that
\* the words would make libtest run, and add none: together the shards run the user's choice.
THEOREM UsersChoiceIsRun == Spec => []SelectionIsLibtests
<1>1. PlanInv => SelectionIsLibtests
  <2>1. CASE stage = "planned"
    BY <2>1, PlanSelects
  <2>2. CASE stage # "planned"
    BY <2>2 DEF SelectionIsLibtests
  <2> QED BY <2>1, <2>2
<1> QED BY <1>1, PlanInvHolds, PTL

\* Words that libtest takes are not refused behind quokka's own: neither the listing nor a request
\* has an unknown option, one twice or without its value, both modes of ignored tests, or an
\* unstable option that is not allowed.
THEOREM WordsAreAccepted == Spec => []ArgsAccepted
<1>1. PlanInv => ArgsAccepted
  <2>1. CASE stage = "planned"
    BY <2>1, PlanIsAccepted DEF ArgsAccepted
  <2>2. CASE stage # "planned"
    BY <2>2 DEF ArgsAccepted, PlanInv
  <2> QED BY <2>1, <2>2
<1> QED BY <1>1, PlanInvHolds, PTL

\* After a crash at any line, in either format and whatever is printed while tests run: of a test
\* that no other test talks about, what is decoded is the verdict the harness gave, and no verdict
\* if the harness gave none and the test has not printed one itself.
THEOREM DecodingIsRight == Spec => []DecodesHarness
<1>1. Init => DecodesHarness
  BY DEF Init, DecodesHarness
<1>2. DecodesHarness /\ [Next]_vars => DecodesHarness'
  <2> SUFFICES ASSUME DecodesHarness, [Next]_vars PROVE DecodesHarness'
    OBVIOUS
  <2>1. CASE Configure
    <3>1. stage' \in {"refused", "configured"}
      BY <2>1 DEF Configure
    <3> QED BY <3>1 DEF DecodesHarness
  <2>2. CASE ListTests
    <3>1. stage' \in {"rejected", "invalid", "printed", "listed"}
      BY <2>2 DEF ListTests
    <3> QED BY <3>1 DEF DecodesHarness
  <2>3. CASE PlanShards
    BY <2>3 DEF PlanShards, DecodesHarness
  <2>4. CASE Run
    BY <2>4, ExecutedIsRead DEF Run
  <2>5. CASE UNCHANGED vars
    BY <2>5 DEF vars, DecodesHarness
  <2> QED BY <2>1, <2>2, <2>3, <2>4, <2>5 DEF Next
<1> QED BY <1>1, <1>2, PTL DEF Spec

===============================================================================
