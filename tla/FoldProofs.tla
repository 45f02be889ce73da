------------------------------- MODULE FoldProofs ------------------------------
(***************************************************************************)
(* What the components' proofs need of a fold over a sequence: FoldLeft    *)
(* is a function of sets of positions that takes the last one off, chosen  *)
(* by its equation.  That there is one, of values in a set V and for a     *)
(* step that stays in V, is proved by induction on the number of           *)
(* positions: there is no least one for which there is none.               *)
(***************************************************************************)
EXTENDS Integers, WellFoundedInduction, TLAPS

\* Induction on the naturals: a set without a least element that misses it is empty.
LEMMA EveryNatural ==
    ASSUME NEW T \in SUBSET Nat, 0 \in T, \A k \in T : k + 1 \in T
    PROVE  T = Nat
  <1> SUFFICES ASSUME Nat \ T # {} PROVE FALSE
    OBVIOUS
  <1>1. IsWellFoundedOn(OpToRel(<, Nat), Nat)
    BY NatLessThanWellFounded
  <1>2. PICK n \in Nat \ T : \A m \in Nat \ T : ~(<<m, n>> \in OpToRel(<, Nat))
    BY <1>1, WFMin
  <1>3. \A m \in Nat \ T : ~(m < n)
    BY <1>2 DEF OpToRel
  <1>4. n # 0 /\ n - 1 \in Nat /\ (n - 1) + 1 = n
    OBVIOUS
  <1>5. n - 1 \in T
    BY <1>3, <1>4
  <1> QED
    BY <1>4, <1>5

\* The greatest member of a set of positions.
Greatest(t) == CHOOSE x \in t : \A y \in t : x >= y

LEMMA GreatestOne == ASSUME NEW n \in Nat, NEW t \in SUBSET (1 .. n), n \in t PROVE Greatest(t) = n
  <1>1. \A y \in t : n >= y
    OBVIOUS
  <1>2. \A x \in t : (\A y \in t : x >= y) => x = n
    OBVIOUS
  <1> QED
    BY <1>1, <1>2 DEF Greatest

LEMMA GreatestIsThere ==
    ASSUME NEW n \in Nat
    PROVE  \A t \in SUBSET (1 .. n) : t # {} => Greatest(t) \in t
  <1> DEFINE T == {k \in Nat : \A t \in SUBSET (1 .. k) : t # {} => Greatest(t) \in t}
  <1>1. 0 \in T
    <2>1. \A t \in SUBSET (1 .. 0) : t = {}
      OBVIOUS
    <2> QED
      BY <2>1
  <1>2. ASSUME NEW k \in T PROVE k + 1 \in T
    <2>1. SUFFICES ASSUME NEW t \in SUBSET (1 .. k + 1), t # {} PROVE Greatest(t) \in t
      OBVIOUS
    <2>2. CASE k + 1 \in t
      BY <2>2, GreatestOne
    <2>3. CASE k + 1 \notin t
      <3>1. t \in SUBSET (1 .. k)
        BY <2>3
      <3> QED
        BY <2>1, <3>1
    <2> QED
      BY <2>2, <2>3
  <1>3. T = Nat
    <2> HIDE DEF T
    <2>1. T \in SUBSET Nat
      BY DEF T
    <2> QED
      BY <1>1, <1>2, <2>1, EveryNatural
  <1> QED
    BY <1>3

\* iter folds f over the positions up to n, as MapThenFoldSet does.
Iterates(iter, n, base, f) ==
    iter = [t \in SUBSET (1 .. n) |->
              IF t = {} THEN base ELSE f[<<iter[t \ {Greatest(t)}], Greatest(t)>>]]

\* There is such a function, and its values are those of the fold's steps.
LEMMA IteratesExist ==
    ASSUME NEW V, NEW base \in V
    PROVE  \A n \in Nat : \A f \in [V \X (1 .. n) -> V] :
              \E iter \in [SUBSET (1 .. n) -> V] : Iterates(iter, n, base, f)
  <1> DEFINE P(n) == \A f \in [V \X (1 .. n) -> V] :
                        \E iter \in [SUBSET (1 .. n) -> V] : Iterates(iter, n, base, f)
             T == {n \in Nat : P(n)}
  <1>1. 0 \in T
    <2>1. SUFFICES ASSUME NEW f \in [V \X (1 .. 0) -> V]
                   PROVE  \E iter \in [SUBSET (1 .. 0) -> V] : Iterates(iter, 0, base, f)
      OBVIOUS
    <2>2. \A t \in SUBSET (1 .. 0) : t = {}
      OBVIOUS
    <2>3. Iterates([t \in SUBSET (1 .. 0) |-> base], 0, base, f)
      BY <2>2 DEF Iterates
    <2> QED
      BY <2>3
  <1>2. ASSUME NEW k \in T PROVE k + 1 \in T
    <2> DEFINE n == k + 1
    <2>1. P(n) => n \in T
      <3> HIDE DEF P
      <3> QED
        OBVIOUS
    <2> SUFFICES ASSUME NEW f \in [V \X (1 .. n) -> V]
                 PROVE  \E iter \in [SUBSET (1 .. n) -> V] : Iterates(iter, n, base, f)
      BY <2>1
    <2> DEFINE e == [p \in V \X (1 .. k) |-> f[p]]
    <2>2. k \in Nat /\ n \in Nat /\ n \notin 1 .. k /\ n \in 1 .. n /\ 1 .. k \subseteq 1 .. n
          /\ \A x \in 1 .. n : x # n => x \in 1 .. k
      OBVIOUS
    <2> HIDE DEF n
    <2>3. e \in [V \X (1 .. k) -> V]
      BY <2>2
    <2>4. PICK iter \in [SUBSET (1 .. k) -> V] : Iterates(iter, k, base, e)
      BY <2>3
    <2> HIDE DEF e
    <2> DEFINE next == [t \in SUBSET (1 .. n) |-> IF n \in t THEN f[<<iter[t \ {n}], n>>] ELSE iter[t]]
    <2>5. ASSUME NEW t \in SUBSET (1 .. n) PROVE t \ {n} \in SUBSET (1 .. k) /\ t \ {n} \in SUBSET (1 .. n)
      BY <2>2
    <2>6. ASSUME NEW t \in SUBSET (1 .. n), n \notin t PROVE t \in SUBSET (1 .. k)
      BY <2>2, <2>6
    <2>7. next \in [SUBSET (1 .. n) -> V]
      <3>1. ASSUME NEW t \in SUBSET (1 .. n)
            PROVE  (IF n \in t THEN f[<<iter[t \ {n}], n>>] ELSE iter[t]) \in V
        <4>1. CASE n \in t
          <5>1. <<iter[t \ {n}], n>> \in V \X (1 .. n)
            BY <2>2, <2>5
          <5> QED
            BY <4>1, <5>1
        <4>2. CASE n \notin t
          BY <2>6, <4>2
        <4> QED
          BY <4>1, <4>2
      <3> QED
        BY <3>1
    <2>8. ASSUME NEW t \in SUBSET (1 .. n)
          PROVE  next[t] = IF t = {} THEN base ELSE f[<<next[t \ {Greatest(t)}], Greatest(t)>>]
      <3>1. CASE n \in t
        <4>1. Greatest(t) = n
          BY <2>2, <3>1, GreatestOne
        <4>2. next[t \ {n}] = iter[t \ {n}]
          BY <2>5
        <4> QED
          BY <3>1, <4>1, <4>2
      <3>2. CASE n \notin t /\ t = {}
        <4>1. {} \in SUBSET (1 .. k)
          OBVIOUS
        <4> QED
          BY <2>4, <3>2, <4>1 DEF Iterates
      <3>3. CASE n \notin t /\ t # {}
        <4>1. t \in SUBSET (1 .. k)
          BY <2>6, <3>3
        <4>2. Greatest(t) \in t
          BY <2>2, <3>3, <4>1, GreatestIsThere
        <4>3. t \ {Greatest(t)} \in SUBSET (1 .. k) /\ t \ {Greatest(t)} \in SUBSET (1 .. n) /\ n \notin t \ {Greatest(t)}
          BY <3>3, <4>1
        <4>4. iter[t] = e[<<iter[t \ {Greatest(t)}], Greatest(t)>>]
          BY <2>4, <3>3, <4>1 DEF Iterates
        <4>5. <<iter[t \ {Greatest(t)}], Greatest(t)>> \in V \X (1 .. k)
          BY <4>1, <4>2, <4>3
        <4>6. next[t \ {Greatest(t)}] = iter[t \ {Greatest(t)}] /\ next[t] = iter[t]
          BY <3>3, <4>3
        <4> QED
          BY <3>3, <4>4, <4>5, <4>6 DEF e
      <3> QED
        BY <3>1, <3>2, <3>3
    <2>9. Iterates(next, n, base, f)
      <3> HIDE DEF next
      <3>1. next = [t \in SUBSET (1 .. n) |-> next[t]]
        BY <2>7
      <3> QED
        BY <2>8, <3>1 DEF Iterates
    <2> QED
      BY <2>7, <2>9
  <1>3. T = Nat
    <2> HIDE DEF T
    <2>1. T \in SUBSET Nat
      BY DEF T
    <2> QED
      BY <1>1, <1>2, <2>1, EveryNatural
  <1> QED
    BY <1>3

\* The sets of positions that a fold over n of them comes to, in order.
LEMMA Leading ==
    ASSUME NEW n \in Nat, NEW k \in 0 .. n - 1
    PROVE  /\ 1 .. k + 1 \in SUBSET (1 .. n) /\ 1 .. k + 1 # {} /\ 1 .. 0 = {}
           /\ Greatest(1 .. k + 1) = k + 1 /\ (1 .. k + 1) \ {Greatest(1 .. k + 1)} = 1 .. k
  <1>1. 1 .. k + 1 \in SUBSET (1 .. n) /\ k + 1 \in 1 .. k + 1 /\ k + 1 \in Nat
    OBVIOUS
  <1>2. \A x : x \in (1 .. k + 1) \ {k + 1} <=> x \in 1 .. k
    OBVIOUS
  <1>3. Greatest(1 .. k + 1) = k + 1
    BY <1>1, GreatestOne
  <1>4. 1 .. 0 = {}
    OBVIOUS
  <1> QED
    BY <1>1, <1>2, <1>3, <1>4

\* iter steps as f does, and stays in V.
Typed(iter, n, V, base, f) ==
    \A t \in SUBSET (1 .. n) :
        /\ t = {} => iter[t] = base
        /\ t # {} => /\ Greatest(t) \in 1 .. n /\ iter[t \ {Greatest(t)}] \in V
                     /\ iter[t] = f[<<iter[t \ {Greatest(t)}], Greatest(t)>>]

LEMMA TypedIterates ==
    ASSUME NEW n \in Nat, NEW V, NEW base \in V, NEW f \in [V \X (1 .. n) -> V]
    PROVE  \E iter \in [SUBSET (1 .. n) -> V] : Typed(iter, n, V, base, f)
  <1>1. PICK iter \in [SUBSET (1 .. n) -> V] : Iterates(iter, n, base, f)
    BY IteratesExist
  <1>2. ASSUME NEW t \in SUBSET (1 .. n), t # {} PROVE Greatest(t) \in t
    BY <1>2, GreatestIsThere
  <1>3. ASSUME NEW t \in SUBSET (1 .. n)
        PROVE  iter[t] = IF t = {} THEN base ELSE f[<<iter[t \ {Greatest(t)}], Greatest(t)>>]
    BY <1>1 DEF Iterates
  <1> QED
    BY <1>2, <1>3 DEF Typed

\* Induction up to n.
LEMMA UpTo ==
    ASSUME NEW n \in Nat, NEW T, 0 \in T, \A k \in 0 .. n - 1 : k \in T => k + 1 \in T
    PROVE  \A k \in 0 .. n : k \in T
  <1> DEFINE N == {k \in Nat : k <= n => k \in T}
  <1>1. 0 \in N
    OBVIOUS
  <1>2. ASSUME NEW k \in N PROVE k + 1 \in N
    <2>1. k + 1 <= n => k \in T /\ k \in 0 .. n - 1
      OBVIOUS
    <2> QED
      BY <2>1
  <1>3. N \in SUBSET Nat
    OBVIOUS
  <1> HIDE DEF N
  <1>4. N = Nat
    BY <1>1, <1>2, <1>3, EveryNatural
  <1> QED
    BY <1>4 DEF N

\* iter steps as f does where its argument is in V.
StepsAs(iter, n, V, base, f) ==
    \A t \in SUBSET (1 .. n) :
        /\ t = {} => iter[t] = base
        /\ t # {} /\ iter[t \ {Greatest(t)}] \in V =>
              iter[t] = f[<<iter[t \ {Greatest(t)}], Greatest(t)>>]

\* g goes from base to end by f.
Chain(g, n, base, f, end) ==
    /\ g[0] = base /\ g[n] = end
    /\ \A k \in 0 .. n - 1 : g[k + 1] = f[<<g[k], k + 1>>]

\* What steps as f does goes through values in V.
LEMMA FoldChain ==
    ASSUME NEW n \in Nat, NEW V, NEW base \in V, NEW f \in [V \X (1 .. n) -> V], NEW iter,
           StepsAs(iter, n, V, base, f)
    PROVE  \E g \in [0 .. n -> V] : Chain(g, n, base, f, iter[1 .. n])
  <1> DEFINE g == [k \in 0 .. n |-> iter[1 .. k]]
  <1>1. g[0] = base
    <2>1. 1 .. 0 = {} /\ {} \in SUBSET (1 .. n) /\ 0 \in 0 .. n
      OBVIOUS
    <2> QED
      BY <2>1 DEF StepsAs
  <1>2. ASSUME NEW k \in 0 .. n - 1, g[k] \in V PROVE g[k + 1] = f[<<g[k], k + 1>>]
    <2> DEFINE t == 1 .. k + 1
    <2>1. t \in SUBSET (1 .. n) /\ t # {} /\ Greatest(t) = k + 1 /\ t \ {Greatest(t)} = 1 .. k
      BY Leading
    <2>2. g[k] = iter[1 .. k] /\ g[k + 1] = iter[t]
      OBVIOUS
    <2> HIDE DEF t, g
    <2> QED
      BY <1>2, <2>1, <2>2 DEF StepsAs
  <1>3. g[n] = iter[1 .. n]
    OBVIOUS
  <1>4. \A k \in 0 .. n : g[k] \in V
    <2> DEFINE T == {k \in 0 .. n : g[k] \in V}
    <2> HIDE DEF g
    <2>1. 0 \in T
      BY <1>1
    <2>2. ASSUME NEW k \in 0 .. n - 1, k \in T PROVE k + 1 \in T
      <3>1. g[k + 1] = f[<<g[k], k + 1>>] /\ g[k] \in V
        BY <1>2, <2>2
      <3>2. k + 1 \in 0 .. n /\ k + 1 \in 1 .. n
        OBVIOUS
      <3> QED
        BY <3>1, <3>2
    <2> HIDE DEF T
    <2>3. \A k \in 0 .. n : k \in T
      BY <2>1, <2>2, UpTo
    <2> QED
      BY <2>3 DEF T
  <1>5. g \in [0 .. n -> V]
    BY <1>4
  <1>6. \A k \in 0 .. n - 1 : g[k + 1] = f[<<g[k], k + 1>>]
    <2> HIDE DEF g
    <2> QED
      BY <1>2, <1>4
  <1> HIDE DEF g
  <1> QED
    BY <1>1, <1>3, <1>5, <1>6 DEF Chain
===============================================================================
