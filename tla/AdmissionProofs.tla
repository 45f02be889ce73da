----------------------------- MODULE AdmissionProofs ----------------------------
(***************************************************************************)
(* Admission is sound and fair for any number of targets, actions and      *)
(* permits.  The argument is about the queues: whoever waits at a gate     *)
(* stands in its queue exactly once, a queue is empty or its gate has no   *)
(* free permit, and an action in the global queue holds its target's       *)
(* permit.  So at most MaxPerTarget of a target's actions stand there, and *)
(* whoever overtakes a waiting action stood before it.                     *)
(***************************************************************************)
EXTENDS Admission, FiniteSetTheorems, TLAPS

Typed ==
    /\ pc \in [Actions -> Pc] /\ attempt \in [Actions -> Nat]
    /\ free \in [Gates -> Nat] /\ queue \in [Gates -> Seq(Actions)]
    /\ passed \in [Actions -> [Targets -> Nat]]

\* The queue of a gate holds actions that wait there, each once.
Lined(g) ==
    /\ \A i, j \in 1..Len(queue[g]) : queue[g][i] = queue[g][j] => i = j
    /\ \A i \in 1..Len(queue[g]) :
         pc[queue[g][i]] = Waiting(g) /\ (g # Global => Of[queue[g][i]] = g)

Conserved(g) ==
    /\ free[g] + Cardinality(Holders(g)) = Limit(g)
    /\ queue[g] # <<>> => free[g] = 0

\* What concerns the permits alone.
Permits == Typed /\ \A g \in Gates : Lined(g) /\ Conserved(g)

\* The actions of target t before place i of the global queue.
Before(t, i) == {b \in Actions : Of[b] = t /\ \E j \in 1..i - 1 : queue[Global][j] = b}

\* Who waits for the global bound stands in its queue, and nobody else has been passed.
InQueue ==
    \A a \in Actions :
        IF pc[a] = "queued" THEN \E i \in 1..Len(queue[Global]) : queue[Global][i] = a
                            ELSE \A t \in Targets : passed[a][t] = 0

\* Those that have passed a waiting action, and those that still may, are few.
Gap ==
    \A i \in 1..Len(queue[Global]), t \in Targets :
        passed[queue[Global][i]][t] + Cardinality(Before(t, i)) <= MaxPerTarget

Inv == Permits /\ InQueue /\ Gap

-------------------------------------------------------------------------------
(* Facts about the gates and their holders.                                  *)

USE DEF Global, Waiting, Through, Pc

LEMMA GateFacts ==
    /\ Global \in Gates /\ Targets \subseteq Gates /\ Global \notin Targets
    /\ \A a \in Actions : Of[a] \in Targets
    /\ \A g \in Gates : Limit(g) \in Nat \ {0}
BY ConstantsAssumption DEF Gates, Limit

\* Sets of actions are finite, and so are their cardinalities numbers.
LEMMA Finite ==
    ASSUME NEW S \in SUBSET Actions
    PROVE  IsFiniteSet(S) /\ Cardinality(S) \in Nat
BY ConstantsAssumption, FS_Subset, FS_CardinalityType

\* A queue of which each stands once, with one more and with one less.
LEMMA Appended ==
    ASSUME NEW q \in Seq(Actions), NEW a \in Actions, \A i \in 1..Len(q) : q[i] # a
    PROVE  /\ Len(Append(q, a)) = Len(q) + 1 /\ Append(q, a)[Len(q) + 1] = a
           /\ \A i \in 1..Len(q) : Append(q, a)[i] = q[i]
           /\ \A i \in 1..Len(Append(q, a)) :
                Append(q, a)[i] = a \/ \E k \in 1..Len(q) : Append(q, a)[i] = q[k]
           /\ (\A i, j \in 1..Len(q) : q[i] = q[j] => i = j) =>
                \A i, j \in 1..Len(Append(q, a)) : Append(q, a)[i] = Append(q, a)[j] => i = j
<1>1. /\ Len(Append(q, a)) = Len(q) + 1 /\ Append(q, a)[Len(q) + 1] = a /\ Len(q) \in Nat
      /\ \A i \in 1..Len(q) : Append(q, a)[i] = q[i]
  OBVIOUS
<1>2. \A i \in 1..Len(Append(q, a)) : i \in 1..Len(q) \/ i = Len(q) + 1
  BY <1>1
<1> QED BY <1>1, <1>2

LEMMA Shifted ==
    ASSUME NEW q \in Seq(Actions), q # <<>>
    PROVE  /\ Head(q) = q[1] /\ 1 \in 1..Len(q) /\ Tail(q) \in Seq(Actions)
           /\ Len(Tail(q)) = Len(q) - 1 /\ Len(q) \in Nat
           /\ \A i \in 1..Len(Tail(q)) : Tail(q)[i] = q[i + 1] /\ i + 1 \in 1..Len(q)
OBVIOUS

\* Adding an element, and exchanging one for another.
LEMMA AddOne ==
    ASSUME NEW S \in SUBSET Actions, NEW x \in Actions, x \notin S
    PROVE  Cardinality(S \cup {x}) = Cardinality(S) + 1
BY Finite, FS_AddElement

LEMMA RemoveOne ==
    ASSUME NEW S \in SUBSET Actions, NEW x \in S
    PROVE  Cardinality(S \ {x}) = Cardinality(S) - 1
BY Finite, FS_RemoveElement

LEMMA Exchange ==
    ASSUME NEW S \in SUBSET Actions, NEW x \in S, NEW y \in Actions, y \notin S
    PROVE  Cardinality((S \ {x}) \cup {y}) = Cardinality(S)
<1>1. Cardinality(S \ {x}) = Cardinality(S) - 1 /\ Cardinality(S) \in Nat
  BY RemoveOne, Finite
<1>2. Cardinality((S \ {x}) \cup {y}) = Cardinality(S \ {x}) + 1
  BY AddOne
<1> QED BY <1>1, <1>2

LEMMA HoldersAreActions == \A g : Holders(g) \subseteq Actions
BY DEF Holders

\* Whoever stands in a queue waits there.
LEMMA QueueFacts ==
    ASSUME Permits, NEW h \in Gates
    PROVE  /\ queue[h] \in Seq(Actions) /\ Len(queue[h]) \in Nat
           /\ \A i \in 1..Len(queue[h]) :
                queue[h][i] \in Actions /\ pc[queue[h][i]] \in {"queued", "parked"}
<1>1. queue[h] \in Seq(Actions)
  BY DEF Permits, Typed
<1>2. Len(queue[h]) \in Nat /\ \A i \in 1..Len(queue[h]) : queue[h][i] \in Actions
  BY <1>1
<1>3. \A i \in 1..Len(queue[h]) : pc[queue[h][i]] \in {"queued", "parked"}
  BY DEF Permits, Lined
<1> QED BY <1>1, <1>2, <1>3

-------------------------------------------------------------------------------
(* Asking for a permit.                                                      *)

\* Where an action stands when it asks for a permit of g.
Asks(a, g) ==
    \/ g = Global /\ pc[a] = "preparing"
    \/ g = Of[a] /\ pc[a] = "ready"

LEMMA AskKeeps ==
    ASSUME Permits, NEW a \in Actions, NEW g \in Gates, Asks(a, g), Ask(a, g),
           attempt' \in [Actions -> Nat], passed' \in [Actions -> [Targets -> Nat]]
    PROVE  Permits'
<1> USE GateFacts
<1>1. CASE free[g] > 0
  <2>1. /\ free' = [free EXCEPT ![g] = @ - 1] /\ pc' = [pc EXCEPT ![a] = Through(g)]
        /\ queue' = queue
    BY <1>1 DEF Ask
  <2>2. Typed'
    BY <1>1, <2>1 DEF Permits, Typed
  <2>3. queue[g] = <<>>
    BY <1>1 DEF Permits, Conserved
  <2>4. ASSUME NEW h \in Gates PROVE Lined(h)'
    <3>1. \A i \in 1..Len(queue[h]) : queue[h][i] \in Actions /\ queue[h][i] # a
      BY QueueFacts DEF Asks
    <3>2. \A i \in 1..Len(queue[h]) : pc'[queue[h][i]] = pc[queue[h][i]]
      BY <2>1, <3>1 DEF Permits, Typed
    <3>3. Lined(h)
      BY DEF Permits
    <3> QED BY <2>1, <3>2, <3>3 DEF Lined
  <2>5. Conserved(g)'
    <3>1. Holders(g)' = Holders(g) \cup {a} /\ a \notin Holders(g)
      BY <2>1 DEF Holders, Asks, Permits, Typed
    <3>2. Cardinality(Holders(g)') = Cardinality(Holders(g)) + 1 /\ Cardinality(Holders(g)) \in Nat
      BY <3>1, AddOne, Finite, HoldersAreActions
    <3>3. free'[g] = free[g] - 1 /\ queue'[g] = <<>>
      BY <2>1, <2>3 DEF Permits, Typed
    <3> QED BY <3>2, <3>3 DEF Permits, Conserved, Typed, Limit
  <2>6. ASSUME NEW h \in Gates, h # g PROVE Conserved(h)'
    <3>1. Holders(h)' = Holders(h)
      BY <2>1, <2>6 DEF Holders, Asks, Permits, Typed
    <3>2. free'[h] = free[h] /\ queue'[h] = queue[h]
      BY <2>1, <2>6 DEF Permits, Typed
    <3> QED BY <3>1, <3>2 DEF Permits, Conserved, Limit
  <2> QED BY <2>2, <2>4, <2>5, <2>6 DEF Permits
<1>2. CASE ~(free[g] > 0)
  <2>1. /\ queue' = [queue EXCEPT ![g] = Append(@, a)] /\ pc' = [pc EXCEPT ![a] = Waiting(g)]
        /\ free' = free
    BY <1>2 DEF Ask
  <2>2. Typed'
    BY <2>1 DEF Permits, Typed
  <2>3. \A h \in Gates : \A i \in 1..Len(queue[h]) : queue[h][i] \in Actions /\ queue[h][i] # a
    BY QueueFacts DEF Asks
  <2>4. ASSUME NEW h \in Gates PROVE Lined(h)'
    <3>0. Lined(h) /\ \A i \in 1..Len(queue[h]) : pc'[queue[h][i]] = pc[queue[h][i]]
      BY <2>1, <2>3 DEF Permits, Typed
    <3>1. CASE h # g
      <4>1. queue'[h] = queue[h]
        BY <2>1, <3>1 DEF Permits, Typed
      <4> QED BY <3>0, <4>1 DEF Lined
    <3>2. CASE h = g
      <4>1. queue'[g] = Append(queue[g], a) /\ queue[g] \in Seq(Actions)
        BY <2>1 DEF Permits, Typed
      <4>2. \A i \in 1..Len(queue[g]) : queue[g][i] # a
        BY <2>3
      <4>3. pc'[a] = Waiting(g) /\ (g # Global => Of[a] = g)
        BY <2>1 DEF Permits, Typed, Asks
      <4>4. \A i \in 1..Len(queue'[g]) :
              queue'[g][i] = a \/ \E k \in 1..Len(queue[g]) : queue'[g][i] = queue[g][k]
        BY <4>1, <4>2, Appended
      <4>5. \A i, j \in 1..Len(queue'[g]) : queue'[g][i] = queue'[g][j] => i = j
        BY <3>0, <3>2, <4>1, <4>2, Appended, SMTT(30) DEF Lined
      <4>6. \A i \in 1..Len(queue'[g]) :
              pc'[queue'[g][i]] = Waiting(g) /\ (g # Global => Of[queue'[g][i]] = g)
        <5> TAKE i \in 1..Len(queue'[g])
        <5>1. CASE queue'[g][i] = a
          BY <4>3, <5>1
        <5>2. CASE \E k \in 1..Len(queue[g]) : queue'[g][i] = queue[g][k]
          <6>1. PICK k \in 1..Len(queue[g]) : queue'[g][i] = queue[g][k]
            BY <5>2
          <6>2. pc[queue[g][k]] = Waiting(g) /\ (g # Global => Of[queue[g][k]] = g)
            BY <3>0, <3>2 DEF Lined
          <6> QED BY <3>0, <3>2, <6>1, <6>2
        <5> QED BY <4>4, <5>1, <5>2
      <4> QED BY <3>2, <4>5, <4>6 DEF Lined
    <3> QED BY <3>1, <3>2
  <2>5. ASSUME NEW h \in Gates PROVE Conserved(h)'
    <3>1. Holders(h)' = Holders(h)
      BY <2>1 DEF Holders, Asks, Permits, Typed
    <3>2. free'[h] = free[h] /\ (h # g => queue'[h] = queue[h])
      BY <2>1 DEF Permits, Typed
    <3>3. free[g] = 0
      BY <1>2 DEF Permits, Typed
    <3> QED BY <3>1, <3>2, <3>3 DEF Permits, Conserved, Limit
  <2> QED BY <2>2, <2>4, <2>5 DEF Permits
<1> QED BY <1>1, <1>2

-------------------------------------------------------------------------------
(* Giving a permit back.                                                     *)

\* Where an action stands when it gives a permit of g back, and where it goes.
Gives(a, to, g) ==
    \/ g = Global /\ pc[a] = "executing" /\ to = "answered"
    \/ g = Of[a] /\ pc[a] \in {"preparing", "answered"} /\ to \in {"ready", "done"}

\* Nobody waits: the permit is free again.
LEMMA LeaveEmpty ==
    ASSUME Permits, NEW a \in Actions, NEW g \in Gates, NEW to, Gives(a, to, g), Leave(a, to, g),
           queue[g] = <<>>,
           attempt' \in [Actions -> Nat], passed' \in [Actions -> [Targets -> Nat]]
    PROVE  Permits' /\ pc' = [pc EXCEPT ![a] = to] /\ queue' = queue
<1> USE GateFacts
<1>1. /\ pc' = [pc EXCEPT ![a] = to] /\ queue' = queue
      /\ free' = [free EXCEPT ![g] = free[g] + 1]
  BY DEF Leave, HandOver, Permits, Typed
<1>2. Typed'
  BY <1>1 DEF Permits, Typed, Gives
<1>3. ASSUME NEW h \in Gates PROVE Lined(h)'
  <2>1. \A i \in 1..Len(queue[h]) : queue[h][i] \in Actions /\ queue[h][i] # a
    BY QueueFacts DEF Gives
  <2>2. \A i \in 1..Len(queue[h]) : pc'[queue[h][i]] = pc[queue[h][i]]
    BY <1>1, <2>1 DEF Permits, Typed
  <2> QED BY <1>1, <2>2 DEF Permits, Lined
<1>4. Conserved(g)'
  <2>1. Holders(g)' = Holders(g) \ {a} /\ a \in Holders(g)
    BY <1>1 DEF Holders, Gives, Permits, Typed
  <2>2. Cardinality(Holders(g)') = Cardinality(Holders(g)) - 1 /\ Cardinality(Holders(g)) \in Nat
    BY <2>1, RemoveOne, Finite, HoldersAreActions
  <2>3. free'[g] = free[g] + 1 /\ queue'[g] = <<>> /\ free[g] \in Nat
    BY <1>1 DEF Permits, Typed
  <2>4. free[g] + Cardinality(Holders(g)) = Limit(g)
    BY DEF Permits, Conserved
  <2>5. free'[g] + Cardinality(Holders(g)') = Limit(g)
    BY <2>2, <2>3, <2>4
  <2> QED BY <2>3, <2>5 DEF Conserved, Limit
<1>5. ASSUME NEW h \in Gates, h # g PROVE Conserved(h)'
  <2>1. Holders(h)' = Holders(h)
    BY <1>1, <1>5 DEF Holders, Gives, Permits, Typed
  <2>2. free'[h] = free[h] /\ queue'[h] = queue[h]
    BY <1>1, <1>5 DEF Permits, Typed
  <2> QED BY <2>1, <2>2 DEF Permits, Conserved, Limit
<1> QED BY <1>1, <1>2, <1>3, <1>4, <1>5 DEF Permits

\* The head of the queue takes the permit over.
LEMMA LeaveQueued ==
    ASSUME Permits, NEW a \in Actions, NEW g \in Gates, NEW to, Gives(a, to, g), Leave(a, to, g),
           queue[g] # <<>>,
           attempt' \in [Actions -> Nat], passed' \in [Actions -> [Targets -> Nat]]
    PROVE  /\ Permits' /\ Head(queue[g]) \in Actions /\ Head(queue[g]) # a
           /\ pc[Head(queue[g])] = Waiting(g)
           /\ pc' = [pc EXCEPT ![a] = to, ![Head(queue[g])] = Through(g)]
           /\ queue' = [queue EXCEPT ![g] = Tail(@)]
<1> USE GateFacts
<1> DEFINE b == Head(queue[g])
<1>1. /\ b = queue[g][1] /\ 1 \in 1..Len(queue[g]) /\ Tail(queue[g]) \in Seq(Actions)
      /\ Len(Tail(queue[g])) = Len(queue[g]) - 1 /\ Len(queue[g]) \in Nat
      /\ \A i \in 1..Len(Tail(queue[g])) :
           Tail(queue[g])[i] = queue[g][i + 1] /\ i + 1 \in 1..Len(queue[g])
  BY Shifted, QueueFacts
<1>2. /\ b \in Actions /\ pc[b] = Waiting(g) /\ (g # Global => Of[b] = g) /\ a # b
  BY <1>1, QueueFacts DEF Permits, Lined, Gives
<1>3. /\ pc' = [pc EXCEPT ![a] = to, ![b] = Through(g)]
      /\ queue' = [queue EXCEPT ![g] = Tail(@)] /\ free' = free
  BY <1>2 DEF Leave, HandOver, Permits, Typed
<1> HIDE DEF b
<1>4. Typed'
  BY <1>1, <1>2, <1>3 DEF Permits, Typed, Gives
<1>5. ASSUME NEW h \in Gates PROVE Lined(h)'
  <2>0. \A i \in 1..Len(queue[h]) :
          queue[h][i] \in Actions /\ queue[h][i] # a /\ (queue[h][i] # b => pc'[queue[h][i]] = pc[queue[h][i]])
    BY <1>2, <1>3, QueueFacts DEF Gives, Permits, Typed
  <2>1. CASE h # g
    <3>1. queue'[h] = queue[h]
      BY <1>3, <2>1 DEF Permits, Typed
    <3>2. \A i \in 1..Len(queue[h]) : queue[h][i] # b
      BY <1>2, <2>1 DEF Permits, Lined, Gates
    <3> QED BY <2>0, <3>1, <3>2 DEF Permits, Lined
  <2>2. CASE h = g
    <3>1. queue'[g] = Tail(queue[g])
      BY <1>3 DEF Permits, Typed
    <3>2. \A i \in 1..Len(Tail(queue[g])) : queue[g][i + 1] # b
      BY <1>1 DEF Permits, Lined
    <3>3. Lined(g)
      BY DEF Permits
    <3>4. \A i \in 1..Len(Tail(queue[g])) :
            /\ pc'[queue[g][i + 1]] = Waiting(g)
            /\ g # Global => Of[queue[g][i + 1]] = g
      BY <1>1, <2>0, <2>2, <3>2, <3>3 DEF Lined
    <3>5. \A i, j \in 1..Len(Tail(queue[g])) : Tail(queue[g])[i] = Tail(queue[g])[j] => i = j
      <4>1. SUFFICES ASSUME NEW i \in 1..Len(Tail(queue[g])), NEW j \in 1..Len(Tail(queue[g])),
                            Tail(queue[g])[i] = Tail(queue[g])[j]
                     PROVE  i = j
        OBVIOUS
      <4>2. /\ queue[g][i + 1] = queue[g][j + 1]
            /\ i + 1 \in 1..Len(queue[g]) /\ j + 1 \in 1..Len(queue[g])
        BY <1>1, <4>1
      <4>3. i + 1 = j + 1
        BY <3>3, <4>2 DEF Lined
      <4> QED BY <4>1, <4>3
    <3> QED BY <1>1, <2>2, <3>1, <3>4, <3>5 DEF Lined
  <2> QED BY <2>1, <2>2
<1>6. Conserved(g)'
  <2>1. Holders(g)' = (Holders(g) \ {a}) \cup {b} /\ a \in Holders(g) /\ b \notin Holders(g)
    BY <1>2, <1>3 DEF Holders, Gives, Permits, Typed
  <2>2. Cardinality(Holders(g)') = Cardinality(Holders(g))
    <3>1. Holders(g) \in SUBSET Actions
      BY HoldersAreActions
    <3>2. Cardinality((Holders(g) \ {a}) \cup {b}) = Cardinality(Holders(g))
      BY ONLY <1>2, <2>1, <3>1, Exchange
    <3> QED BY <2>1, <3>2
  <2>3. free[g] = 0 /\ free' = free
    BY <1>3 DEF Permits, Conserved
  <2> QED BY <2>2, <2>3 DEF Permits, Conserved, Limit
<1>7. ASSUME NEW h \in Gates, h # g PROVE Conserved(h)'
  <2>1. Holders(h)' = Holders(h)
    BY <1>2, <1>3, <1>7 DEF Holders, Gives, Permits, Typed
  <2>2. free'[h] = free[h] /\ queue'[h] = queue[h]
    BY <1>3, <1>7 DEF Permits, Typed
  <2> QED BY <2>1, <2>2 DEF Permits, Conserved, Limit
<1> QED BY <1>2, <1>3, <1>4, <1>5, <1>6, <1>7 DEF Permits, b

-------------------------------------------------------------------------------
(* Who stands in the global queue, and who passes them.                      *)

\* Actions that stand in the global queue hold their target's permits.
LEMMA FewBefore ==
    ASSUME Permits, NEW t \in Targets, NEW i \in 1..Len(queue[Global]) + 1
    PROVE  Cardinality(Before(t, i)) <= MaxPerTarget
<1> USE GateFacts
<1>1. Before(t, i) \subseteq Holders(t)
  <2> SUFFICES ASSUME NEW b \in Before(t, i) PROVE b \in Holders(t)
    OBVIOUS
  <2>1. PICK j \in 1..i - 1 : queue[Global][j] = b
    BY DEF Before
  <2>2. j \in 1..Len(queue[Global])
    BY QueueFacts
  <2>3. pc[b] = "queued" /\ Of[b] = t /\ b \in Actions
    BY <2>1, <2>2 DEF Before, Permits, Lined
  <2> QED BY <2>3 DEF Holders
<1>2. /\ Cardinality(Before(t, i)) <= Cardinality(Holders(t))
      /\ Cardinality(Holders(t)) \in Nat /\ Cardinality(Before(t, i)) \in Nat
  BY <1>1, Finite, FS_Subset, HoldersAreActions DEF Before
<1>3. free[t] + Cardinality(Holders(t)) = MaxPerTarget /\ free[t] \in Nat
  BY DEF Permits, Typed, Conserved, Limit
<1> QED BY <1>2, <1>3, ConstantsAssumption

\* The executions of target t that a step starts.
Starters(t) == {b \in Actions : Of[b] = t /\ Started(b, pc')}

LEMMA Counted ==
    ASSUME Typed, Count(pc')
    PROVE  /\ passed' \in [Actions -> [Targets -> Nat]]
           /\ \A x \in Actions, t \in Targets :
                passed'[x][t] = IF pc'[x] # "queued" THEN 0
                                ELSE passed[x][t] + Cardinality(Starters(t))
<1>1. \A t \in Targets : Cardinality(Starters(t)) \in Nat
  BY Finite DEF Starters
<1>2. passed' = [x \in Actions |-> [t \in Targets |->
                   IF pc'[x] # "queued" THEN 0 ELSE passed[x][t] + Cardinality(Starters(t))]]
  BY DEF Count, Starters
<1> QED BY <1>1, <1>2 DEF Typed

LEMMA Unpassed ==
    ASSUME Inv, Count(pc'), \A t \in Targets : Starters(t) = {}
    PROVE  \A x \in Actions, t \in Targets :
             passed'[x][t] = IF pc'[x] # "queued" THEN 0 ELSE passed[x][t]
<1>1. \A t \in Targets : Cardinality(Starters(t)) = 0
  BY FS_EmptySet
<1>2. \A x \in Actions, t \in Targets : passed[x][t] \in Nat
  BY DEF Inv, Permits, Typed
<1> QED BY <1>1, <1>2, Counted DEF Inv, Permits

\* A step that starts nothing and leaves the global queue alone.
LEMMA QuietGap ==
    ASSUME Inv, Count(pc'), Permits', queue'[Global] = queue[Global],
           \A x \in Actions : (pc'[x] = "queued" <=> pc[x] = "queued")
                             /\ (pc'[x] = "executing" => pc[x] = "executing")
    PROVE  InQueue' /\ Gap'
<1> USE GateFacts
<1>1. \A t \in Targets : Starters(t) = {}
  BY DEF Starters, Started
<1>2. \A x \in Actions, t \in Targets :
        passed'[x][t] = IF pc[x] # "queued" THEN 0 ELSE passed[x][t]
  BY <1>1, Unpassed
<1>3. InQueue'
  <2> SUFFICES ASSUME NEW x \in Actions
               PROVE  IF pc'[x] = "queued" THEN \E i \in 1..Len(queue[Global]) : queue[Global][i] = x
                                           ELSE \A t \in Targets : passed'[x][t] = 0
    BY DEF InQueue
  <2> QED BY <1>2 DEF Inv, InQueue
<1>4. Gap'
  <2> SUFFICES ASSUME NEW i \in 1..Len(queue[Global]), NEW t \in Targets
               PROVE  passed'[queue[Global][i]][t] + Cardinality(Before(t, i)') <= MaxPerTarget
    BY DEF Gap
  <2>1. Before(t, i)' = Before(t, i)
    BY DEF Before
  <2>2. queue[Global][i] \in Actions /\ pc[queue[Global][i]] = "queued"
    BY QueueFacts DEF Inv, Permits, Lined
  <2>3. passed'[queue[Global][i]][t] = passed[queue[Global][i]][t]
    <3> DEFINE x == queue[Global][i]
    <3>1. x \in Actions /\ pc[x] = "queued"
      BY <2>2
    <3> HIDE DEF x
    <3>2. passed'[x][t] = passed[x][t]
      BY <1>2, <3>1
    <3> QED BY <3>2 DEF x
  <2> QED BY <2>1, <2>3 DEF Inv, Gap
<1> QED BY <1>3, <1>4

\* While nobody waits for the global bound, nobody is passed.
LEMMA EmptyGap ==
    ASSUME Inv, Count(pc'), Permits', queue'[Global] = <<>>,
           \A x \in Actions : pc'[x] # "queued"
    PROVE  InQueue' /\ Gap'
<1>1. \A x \in Actions, t \in Targets : passed'[x][t] = 0
  BY Counted DEF Inv, Permits
<1> QED BY <1>1 DEF InQueue, Gap

\* An action takes the last place of the global queue.
LEMMA JoinGap ==
    ASSUME Inv, NEW a \in Actions, pc[a] = "preparing", Count(pc'), Permits',
           pc' = [pc EXCEPT ![a] = "queued"],
           queue' = [queue EXCEPT ![Global] = Append(@, a)]
    PROVE  InQueue' /\ Gap'
<1> USE GateFacts
<1> DEFINE q == queue[Global]
<1>1. q \in Seq(Actions) /\ Len(q) \in Nat /\ \A i \in 1..Len(q) : q[i] \in Actions /\ q[i] # a
  BY QueueFacts DEF Inv
<1>2. /\ queue'[Global] = Append(q, a) /\ Len(queue'[Global]) = Len(q) + 1
      /\ queue'[Global][Len(q) + 1] = a
      /\ \A i \in 1..Len(q) : queue'[Global][i] = q[i]
  BY <1>1, Appended DEF Inv, Permits, Typed
<1> HIDE DEF q
<1>3. \A t \in Targets : Starters(t) = {}
  BY DEF Starters, Started, Inv, Permits, Typed
<1>4. \A x \in Actions, t \in Targets :
        passed'[x][t] = IF pc'[x] # "queued" THEN 0 ELSE passed[x][t]
  BY <1>3, Unpassed
<1>5. \A x \in Actions : pc'[x] = IF x = a THEN "queued" ELSE pc[x]
  BY DEF Inv, Permits, Typed
<1>6. InQueue'
  <2> SUFFICES ASSUME NEW x \in Actions
               PROVE  IF pc'[x] = "queued" THEN \E i \in 1..Len(queue'[Global]) : queue'[Global][i] = x
                                           ELSE \A t \in Targets : passed'[x][t] = 0
    BY DEF InQueue
  <2>1. CASE x = a
    BY <1>1, <1>2, <1>5, <2>1, SMTT(30)
  <2>2. CASE x # a /\ pc[x] = "queued"
    <3>1. PICK i \in 1..Len(q) : q[i] = x
      BY <2>2 DEF Inv, InQueue, q
    <3> QED BY <1>1, <1>2, <1>5, <2>2, <3>1
  <2>3. CASE x # a /\ pc[x] # "queued"
    BY <1>4, <1>5, <2>3
  <2> QED BY <2>1, <2>2, <2>3
<1>7. Gap'
  <2> SUFFICES ASSUME NEW i \in 1..Len(q) + 1, NEW t \in Targets
               PROVE  passed'[queue'[Global][i]][t] + Cardinality(Before(t, i)') <= MaxPerTarget
    BY <1>2 DEF Gap
  <2>1. Before(t, i)' = Before(t, i)
    BY <1>1, <1>2 DEF Before, q
  <2>2. CASE i \in 1..Len(q)
    <3>1. queue'[Global][i] = q[i] /\ q[i] \in Actions /\ q[i] # a /\ pc[q[i]] = "queued"
      BY <1>1, <1>2, <2>2 DEF Inv, Permits, Lined, q
    <3>2. passed'[q[i]][t] = passed[q[i]][t]
      BY <1>4, <1>5, <3>1
    <3>3. passed[q[i]][t] + Cardinality(Before(t, i)) <= MaxPerTarget
      BY <2>2 DEF Inv, Gap, q
    <3> QED BY <2>1, <3>1, <3>2, <3>3
  <2>3. CASE i = Len(q) + 1
    <3>1. passed'[a][t] = 0
      BY <1>4, <1>5 DEF Inv, InQueue
    <3>2. Cardinality(Before(t, i)) <= MaxPerTarget /\ Cardinality(Before(t, i)) \in Nat
      BY FewBefore, Finite DEF Inv, q, Before
    <3> QED BY <1>2, <2>1, <2>3, <3>1, <3>2
  <2>4. i \in 1..Len(q) \/ i = Len(q) + 1
    BY <1>1
  <2> QED BY <2>2, <2>3, <2>4
<1> QED BY <1>6, <1>7

\* The first of the global queue starts its execution.
LEMMA PassGap ==
    ASSUME Inv, NEW a \in Actions, pc[a] = "executing", Count(pc'), Permits',
           queue[Global] # <<>>, Head(queue[Global]) \in Actions, Head(queue[Global]) # a,
           pc[Head(queue[Global])] = "queued",
           pc' = [pc EXCEPT ![a] = "answered", ![Head(queue[Global])] = "executing"],
           queue' = [queue EXCEPT ![Global] = Tail(@)]
    PROVE  InQueue' /\ Gap'
<1> USE GateFacts
<1> DEFINE q == queue[Global]
           h == Head(queue[Global])
<1>1. /\ q \in Seq(Actions) /\ h = q[1] /\ 1 \in 1..Len(q) /\ Len(q) \in Nat
      /\ queue'[Global] = Tail(q) /\ Len(Tail(q)) = Len(q) - 1
      /\ \A i \in 1..Len(Tail(q)) : Tail(q)[i] = q[i + 1] /\ i + 1 \in 1..Len(q)
  BY QueueFacts, Shifted DEF Inv, Permits, Typed
<1>2. \A i \in 1..Len(q) : q[i] \in Actions /\ pc[q[i]] = "queued" /\ (q[i] = h => i = 1)
  <2>1. Lined(Global)
    BY DEF Inv, Permits
  <2>2. \A i \in 1..Len(q) : q[i] = h => i = 1
    BY <1>1, <2>1 DEF Lined
  <2> QED BY <2>1, <2>2, QueueFacts DEF Inv, Lined
<1>3. h \in Actions /\ h # a /\ pc[h] = "queued"
  OBVIOUS
<1>4. \A x \in Actions : pc'[x] = IF x = h THEN "executing" ELSE IF x = a THEN "answered" ELSE pc[x]
  BY DEF Inv, Permits, Typed
<1> HIDE DEF q, h
<1>5. ASSUME NEW t \in Targets
      PROVE  Starters(t) = IF Of[h] = t THEN {h} ELSE {}
  BY <1>3, <1>4 DEF Starters, Started
<1>6. ASSUME NEW x \in Actions, NEW t \in Targets
      PROVE  /\ pc'[x] # "queued" => passed'[x][t] = 0
             /\ pc'[x] = "queued" =>
                  passed'[x][t] = passed[x][t] + (IF Of[h] = t THEN 1 ELSE 0)
  <2>1. Cardinality(Starters(t)) = IF Of[h] = t THEN 1 ELSE 0
    BY <1>5, FS_EmptySet, FS_Singleton
  <2> QED BY <2>1, Counted, ZenonT(40) DEF Inv, Permits
<1>7. InQueue'
  <2> SUFFICES ASSUME NEW x \in Actions
               PROVE  IF pc'[x] = "queued" THEN \E i \in 1..Len(Tail(q)) : Tail(q)[i] = x
                                           ELSE \A t \in Targets : passed'[x][t] = 0
    BY <1>1 DEF InQueue
  <2>1. CASE pc'[x] = "queued"
    <3>1. pc[x] = "queued" /\ x # h
      BY <1>3, <1>4, <2>1
    <3>2. PICK i \in 1..Len(q) : q[i] = x
      BY <3>1 DEF Inv, InQueue, q
    <3>3. i - 1 \in 1..Len(Tail(q)) /\ Tail(q)[i - 1] = x
      BY <1>1, <3>1, <3>2
    <3> QED BY <2>1, <3>3
  <2> QED BY <2>1, <1>6
<1>8. Gap'
  <2> SUFFICES ASSUME NEW i \in 1..Len(Tail(q)), NEW t \in Targets
               PROVE  passed'[Tail(q)[i]][t] + Cardinality(Before(t, i)') <= MaxPerTarget
    BY <1>1 DEF Gap
  <2>1. i + 1 \in 1..Len(q) /\ Tail(q)[i] = q[i + 1] /\ i \in 1..Len(q)
    BY <1>1
  <2> DEFINE x == q[i + 1]
  <2>2. x \in Actions /\ pc[x] = "queued" /\ x # h /\ x # a
    BY <1>2, <2>1
  <2>3. passed'[x][t] = passed[x][t] + (IF Of[h] = t THEN 1 ELSE 0) /\ passed[x][t] \in Nat
    <3>1. pc'[x] = "queued"
      BY <1>4, <2>2
    <3>2. \A y \in Actions, u \in Targets : passed[y][u] \in Nat
      BY DEF Inv, Permits, Typed
    <3> HIDE DEF x
    <3> QED BY <1>6, <2>2, <3>1, <3>2
  <2>4. passed[x][t] + Cardinality(Before(t, i + 1)) <= MaxPerTarget
    BY <2>1 DEF Inv, Gap, q
  <2>5. /\ Before(t, i)' = Before(t, i + 1) \ {h}
        /\ h \in Before(t, i + 1) <=> Of[h] = t
    <3>1. Before(t, i)' = {b \in Actions : Of[b] = t /\ \E j \in 1..i - 1 : Tail(q)[j] = b}
      BY <1>1 DEF Before
    <3>2. Before(t, i + 1) = {b \in Actions : Of[b] = t /\ \E j \in 1..i : q[j] = b}
      BY DEF Before, q
    <3>3. ASSUME NEW b \in Actions
          PROVE  (\E j \in 1..i - 1 : Tail(q)[j] = b) <=> b # h /\ \E j \in 1..i : q[j] = b
      <4>1. ASSUME NEW j \in 1..i - 1, Tail(q)[j] = b PROVE b # h /\ \E k \in 1..i : q[k] = b
        <5>1. q[j + 1] = b /\ j + 1 \in 1..i /\ j + 1 \in 1..Len(q) /\ j + 1 # 1
          BY <1>1, <4>1, <2>1
        <5> QED BY <1>2, <5>1
      <4>2. ASSUME NEW j \in 1..i, q[j] = b, b # h PROVE \E k \in 1..i - 1 : Tail(q)[k] = b
        <5>1. j # 1 /\ j - 1 \in 1..i - 1 /\ j - 1 \in 1..Len(Tail(q)) /\ (j - 1) + 1 = j
          <6>1. j # 1 /\ i + 1 <= Len(q) /\ i \in Nat
            BY <1>1, <4>2, <2>1
          <6> QED BY <1>1, <6>1, SMTT(30)
        <5>2. Tail(q)[j - 1] = b
          BY <1>1, <4>2, <5>1
        <5> QED BY <5>1, <5>2
      <4> QED BY <4>1, <4>2
    <3>4. q[1] = h /\ 1 \in 1..i
      BY <1>1
    <3> QED BY <1>3, <3>1, <3>2, <3>3, <3>4
  <2>6. Before(t, i + 1) \in SUBSET Actions /\ Cardinality(Before(t, i + 1)) \in Nat
    BY Finite DEF Before
  <2>7. Cardinality(Before(t, i)') = Cardinality(Before(t, i + 1)) - (IF Of[h] = t THEN 1 ELSE 0)
    <3>1. CASE Of[h] = t
      BY <2>5, <2>6, <3>1, RemoveOne
    <3>2. CASE Of[h] # t
      <4>1. Before(t, i)' = Before(t, i + 1)
        BY <2>5, <3>2
      <4> QED BY <2>6, <3>2, <4>1
    <3> QED BY <3>1, <3>2
  <2> HIDE DEF x
  <2>8. passed'[x][t] + Cardinality(Before(t, i)') <= MaxPerTarget
    BY <2>3, <2>4, <2>6, <2>7, ConstantsAssumption
  <2> QED BY <2>1, <2>8 DEF x
<1> QED BY <1>7, <1>8

-------------------------------------------------------------------------------
(* The invariant, action by action.                                          *)

LEMMA InitInv == Init => Inv
<1> SUFFICES ASSUME Init PROVE Inv
  OBVIOUS
<1> USE GateFacts
<1>1. Typed
  BY DEF Init, Typed, Limit
<1>2. ASSUME NEW g \in Gates PROVE Lined(g) /\ Conserved(g)
  <2>1. queue[g] = <<>> /\ free[g] = Limit(g) /\ \A a \in Actions : pc[a] = "ready"
    BY DEF Init
  <2>2. Holders(g) = {}
    BY <2>1 DEF Holders
  <2> QED BY <2>1, <2>2, FS_EmptySet DEF Lined, Conserved
<1>3. InQueue /\ Gap
  BY DEF Init, InQueue, Gap
<1> QED BY <1>1, <1>2, <1>3 DEF Inv, Permits

\* While a global permit is free, nobody waits for one.
LEMMA NobodyQueued ==
    ASSUME Inv, queue[Global] = <<>>
    PROVE  \A x \in Actions : pc[x] # "queued"
BY DEF Inv, InQueue

LEMMA AskTargetInv ==
    ASSUME Inv, NEW a \in Actions, AskTarget(a)
    PROVE  Inv'
<1> USE GateFacts
<1>1. Typed /\ Permits /\ Of[a] \in Gates /\ Of[a] # Global /\ pc[a] = "ready"
  BY DEF Inv, Permits, AskTarget, Gates
<1>2. attempt' \in [Actions -> Nat] /\ Count(pc') /\ Ask(a, Of[a])
  BY <1>1 DEF Typed, AskTarget
<1>3. Permits'
  BY <1>1, <1>2, Counted, AskKeeps DEF Asks
<1>4. \E s \in {"preparing", "parked"} : pc' = [pc EXCEPT ![a] = s]
  BY <1>1, <1>2 DEF Ask
<1>5. queue'[Global] = queue[Global]
  BY <1>1, <1>2 DEF Ask, Typed
<1>6. \A x \in Actions : (pc'[x] = "queued" <=> pc[x] = "queued")
                          /\ (pc'[x] = "executing" => pc[x] = "executing")
  BY <1>1, <1>4 DEF Typed
<1> QED BY <1>2, <1>3, <1>5, <1>6, QuietGap DEF Inv

LEMMA AskGlobalInv ==
    ASSUME Inv, NEW a \in Actions, AskGlobal(a)
    PROVE  Inv'
<1> USE GateFacts
<1>1. Typed /\ Permits /\ pc[a] = "preparing" /\ Ask(a, Global) /\ Count(pc')
  BY DEF Inv, Permits, AskGlobal
<1>2. Permits'
  <2>1. attempt' \in [Actions -> Nat]
    BY <1>1 DEF AskGlobal, Typed
  <2> QED BY <1>1, <2>1, Counted, AskKeeps DEF Asks
<1>3. CASE free[Global] > 0
  <2>1. queue[Global] = <<>>
    BY <1>1, <1>3 DEF Permits, Conserved
  <2>2. queue'[Global] = <<>> /\ pc' = [pc EXCEPT ![a] = "executing"]
    BY <1>1, <1>3, <2>1 DEF Ask
  <2>3. \A x \in Actions : pc'[x] # "queued"
    BY <1>1, <2>1, <2>2, NobodyQueued DEF Typed
  <2> QED BY <1>1, <1>2, <2>2, <2>3, EmptyGap DEF Inv
<1>4. CASE ~ (free[Global] > 0)
  <2>1. pc' = [pc EXCEPT ![a] = "queued"] /\ queue' = [queue EXCEPT ![Global] = Append(@, a)]
    BY <1>1, <1>4 DEF Ask
  <2> QED BY <1>1, <1>2, <2>1, JoinGap DEF Inv
<1> QED BY <1>3, <1>4

LEMMA AnsweredInv ==
    ASSUME Inv, NEW a \in Actions, Answered(a)
    PROVE  Inv'
<1> USE GateFacts
<1>1. /\ Typed /\ Permits /\ pc[a] = "executing" /\ Leave(a, "answered", Global) /\ Count(pc')
      /\ Gives(a, "answered", Global)
  BY DEF Inv, Permits, Answered, Gives
<1>2. attempt' \in [Actions -> Nat] /\ passed' \in [Actions -> [Targets -> Nat]]
  BY <1>1, Counted DEF Answered, Typed
<1>3. CASE queue[Global] = <<>>
  <2>1. Permits' /\ pc' = [pc EXCEPT ![a] = "answered"] /\ queue' = queue
    BY <1>1, <1>2, <1>3, LeaveEmpty
  <2>2. \A x \in Actions : pc'[x] # "queued"
    BY <1>1, <1>3, <2>1, NobodyQueued DEF Typed
  <2> QED BY <1>1, <1>3, <2>1, <2>2, EmptyGap DEF Inv
<1>4. CASE queue[Global] # <<>>
  <2> DEFINE b == Head(queue[Global])
  <2>1. /\ Permits' /\ b \in Actions /\ b # a /\ pc[b] = Waiting(Global)
        /\ pc' = [pc EXCEPT ![a] = "answered", ![b] = Through(Global)]
        /\ queue' = [queue EXCEPT ![Global] = Tail(@)]
    BY <1>1, <1>2, <1>4, LeaveQueued
  <2>2. pc[b] = "queued" /\ pc' = [pc EXCEPT ![a] = "answered", ![b] = "executing"]
    BY <2>1
  <2> QED BY <1>1, <1>4, <2>1, <2>2, PassGap DEF Inv
<1> QED BY <1>3, <1>4

\* An action gives its target's permit back, and the next one may prepare.
LEMMA GivenBack ==
    ASSUME Inv, NEW a \in Actions, pc[a] \in {"preparing", "answered"},
           NEW to \in {"ready", "done"}, Leave(a, to, Of[a]), Count(pc'), attempt' = attempt
    PROVE  Inv'
<1> USE GateFacts
<1> DEFINE g == Of[a]
<1>1. Typed /\ Permits /\ g \in Gates /\ g # Global /\ Gives(a, to, g) /\ Leave(a, to, g)
  BY DEF Inv, Permits, Gives, Gates
<1>2. attempt' \in [Actions -> Nat] /\ passed' \in [Actions -> [Targets -> Nat]]
  BY <1>1, Counted DEF Typed
<1> HIDE DEF g
<1>3. CASE queue[g] = <<>>
  <2>1. Permits' /\ pc' = [pc EXCEPT ![a] = to] /\ queue' = queue
    BY <1>1, <1>2, <1>3, LeaveEmpty
  <2>2. \A x \in Actions : (pc'[x] = "queued" <=> pc[x] = "queued")
                            /\ (pc'[x] = "executing" => pc[x] = "executing")
    BY <1>1, <2>1 DEF Typed
  <2> QED BY <2>1, <2>2, QuietGap DEF Inv
<1>4. CASE queue[g] # <<>>
  <2> DEFINE b == Head(queue[g])
  <2>1. /\ Permits' /\ b \in Actions /\ b # a /\ pc[b] = Waiting(g)
        /\ pc' = [pc EXCEPT ![a] = to, ![b] = Through(g)]
        /\ queue' = [queue EXCEPT ![g] = Tail(@)]
    BY <1>1, <1>2, <1>4, LeaveQueued
  <2> HIDE DEF b
  <2>2. pc[b] = "parked" /\ pc' = [pc EXCEPT ![a] = to, ![b] = "preparing"]
    BY <1>1, <2>1
  <2>3. \A x \in Actions : (pc'[x] = "queued" <=> pc[x] = "queued")
                            /\ (pc'[x] = "executing" => pc[x] = "executing")
    BY <1>1, <2>1, <2>2 DEF Typed
  <2>4. queue'[Global] = queue[Global]
    BY <1>1, <2>1 DEF Typed
  <2> QED BY <2>1, <2>3, <2>4, QuietGap DEF Inv
<1> QED BY <1>3, <1>4

LEMMA StutterInv ==
    ASSUME Inv, UNCHANGED vars
    PROVE  Inv'
<1>1. pc' = pc /\ attempt' = attempt /\ free' = free /\ queue' = queue /\ passed' = passed
  BY DEF vars
<1>2. Typed' /\ InQueue'
  BY <1>1 DEF Inv, Permits, Typed, InQueue
<1>3. \A g \in Gates : Lined(g)' /\ Conserved(g)'
  <2>1. \A g \in Gates : Holders(g)' = Holders(g)
    BY <1>1 DEF Holders
  <2> QED BY <1>1, <2>1 DEF Inv, Permits, Lined, Conserved
<1>4. Gap'
  <2>1. \A t \in Targets, i \in Nat : Before(t, i)' = Before(t, i)
    BY <1>1 DEF Before
  <2>2. Len(queue[Global]) \in Nat
    BY QueueFacts, GateFacts DEF Inv
  <2> QED BY <1>1, <2>1, <2>2 DEF Inv, Gap
<1> QED BY <1>2, <1>3, <1>4 DEF Inv, Permits

LEMMA StepInv == Inv /\ [Next]_vars => Inv'
<1> SUFFICES ASSUME Inv, [Next]_vars PROVE Inv'
  OBVIOUS
<1>1. ASSUME NEW a \in Actions, AskTarget(a) PROVE Inv'
  BY <1>1, AskTargetInv
<1>2. ASSUME NEW a \in Actions, AskGlobal(a) PROVE Inv'
  BY <1>2, AskGlobalInv
<1>3. ASSUME NEW a \in Actions, Answered(a) PROVE Inv'
  BY <1>3, AnsweredInv
<1>4. ASSUME NEW a \in Actions, NEW from \in {"answered", "preparing"}, EndAttempt(a, from)
      PROVE  Inv'
  <2>1. PICK to \in {"ready", "done"} : Leave(a, to, Of[a])
    BY <1>4 DEF EndAttempt
  <2> QED BY <1>4, <2>1, GivenBack DEF EndAttempt
<1>5. ASSUME NEW a \in Actions, Panics(a) PROVE Inv'
  BY <1>5, GivenBack DEF Panics
<1>6. CASE UNCHANGED vars
  BY <1>6, StutterInv
<1> QED BY <1>1, <1>2, <1>3, <1>4, <1>5, <1>6 DEF Next, Step, Drop, Conflict, Over

LEMMA InvHolds == Spec => []Inv
BY InitInv, StepInv, PTL DEF Spec

-------------------------------------------------------------------------------
(* What the invariant gives.                                                 *)

\* No permit of any target or of the session is lost or made up, whatever the
\* number of targets and actions and on every path: handover, conflict, retry, panic.
THEOREM PermitsAreConserved == Spec => []PermitsConserved
<1>1. Inv => PermitsConserved
  BY DEF Inv, Permits, Conserved, PermitsConserved
<1> QED BY <1>1, InvHolds, PTL

\* No target ever fills the global queue: the places its actions hold there are
\* as few as the actions, and those hold the target's permits.
THEOREM QueueIsShared == Spec => []GlobalQueueShared
<1>1. ASSUME Inv, NEW t \in Targets
      PROVE  Cardinality({i \in DOMAIN queue[Global] : Of[queue[Global][i]] = t}) <= MaxPerTarget
  <2> USE GateFacts
  <2> DEFINE q == queue[Global]
             Places == {i \in DOMAIN q : Of[q[i]] = t}
             ahead == Before(t, Len(q) + 1)
             place == [i \in Places |-> q[i]]
  <2>1. q \in Seq(Actions) /\ Len(q) \in Nat /\ DOMAIN q = 1..Len(q)
    BY <1>1, QueueFacts DEF Inv
  <2>2. \A i \in Places : i \in 1..Len(q) /\ q[i] \in ahead
    BY <2>1 DEF Before
  <2>3. \A i, j \in Places : q[i] = q[j] => i = j
    BY <1>1, <2>1 DEF Inv, Permits, Lined
  <2>4. place \in Injection(Places, ahead)
    BY <2>2, <2>3 DEF Injection, IsInjective
  <2>5. IsFiniteSet(ahead) /\ Cardinality(ahead) \in Nat
    BY Finite DEF Before
  <2>6. IsFiniteSet(Places) /\ Cardinality(Places) <= Cardinality(ahead)
    BY <2>4, <2>5, FS_Injection
  <2>7. Cardinality(ahead) <= MaxPerTarget
    BY <1>1, <2>1, FewBefore DEF Inv
  <2>8. Cardinality(Places) \in Nat
    BY <2>6, FS_CardinalityType
  <2> QED BY <2>5, <2>6, <2>7, <2>8, ConstantsAssumption
<1>2. Inv => GlobalQueueShared
  BY <1>1 DEF GlobalQueueShared
<1> QED BY <1>2, InvHolds, PTL

\* Targets interleave with a bounded gap: while an action waits for the global
\* bound, no target starts more executions than it has permits.
THEOREM GapIsBounded == Spec => []BoundedGap
<1>1. ASSUME Inv, NEW a \in Actions, NEW t \in Targets
      PROVE  passed[a][t] <= MaxPerTarget
  <2>1. passed[a][t] \in Nat
    BY <1>1 DEF Inv, Permits, Typed
  <2>2. CASE pc[a] = "queued"
    <3>1. PICK i \in 1..Len(queue[Global]) : queue[Global][i] = a
      BY <1>1, <2>2 DEF Inv, InQueue
    <3>2. passed[a][t] + Cardinality(Before(t, i)) <= MaxPerTarget
      BY <1>1, <3>1 DEF Inv, Gap
    <3>3. Cardinality(Before(t, i)) \in Nat
      BY Finite DEF Before
    <3> QED BY <2>1, <3>2, <3>3, ConstantsAssumption
  <2>3. CASE pc[a] # "queued"
    BY <1>1, <2>3, ConstantsAssumption DEF Inv, InQueue
  <2> QED BY <2>2, <2>3
<1>2. Inv => BoundedGap
  BY <1>1 DEF BoundedGap
<1> QED BY <1>2, InvHolds, PTL
===============================================================================
