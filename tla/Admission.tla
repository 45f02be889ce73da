------------------------------- MODULE Admission -------------------------------
(***************************************************************************)
(* How the actions of all targets are admitted to execution (run_group and *)
(* acquire_per_target_admission of scheduler.rs): a permit of the target's *)
(* own semaphore first, held while the request is prepared and executed,   *)
(* then a permit of the global semaphore, held for the Execute2 call only. *)
(* Both semaphores are tokio's (external): a queue of waiters in the order *)
(* they asked, the head of which takes over a permit that is released.     *)
(***************************************************************************)
EXTENDS Naturals, Sequences, FiniteSets

CONSTANTS
    Targets,
    Actions,       \* the action tasks
    Of,            \* the target of each action
    MaxPerTarget,  \* limits.max_inflight_per_target
    MaxInflight,   \* limits.max_inflight
    MaxAttempts    \* bound on the attempts of one action

ASSUME ConstantsAssumption ==
    /\ IsFiniteSet(Actions) /\ Of \in [Actions -> Targets]
    /\ Targets \cap {"global"} = {}
    /\ MaxPerTarget \in Nat \ {0} /\ MaxInflight \in Nat \ {0} /\ MaxAttempts \in Nat \ {0}

VARIABLES
    pc,       \* where each action stands
    attempt,  \* attempts each action has begun
    free,     \* free permits of each semaphore
    queue,    \* the waiters of each semaphore
    passed    \* history: for each action that waits for a global permit, the
              \* executions of each target started since it asked

vars == <<pc, attempt, free, queue, passed>>

Global == "global"
Gates == Targets \cup {Global}
Limit(g) == IF g = Global THEN MaxInflight ELSE MaxPerTarget

Init ==
    /\ pc = [a \in Actions |-> "ready"]
    /\ attempt = [a \in Actions |-> 0]
    /\ free = [g \in Gates |-> Limit(g)]
    /\ queue = [g \in Gates |-> <<>>]
    /\ passed = [a \in Actions |-> [t \in Targets |-> 0]]

\* Where an action stands while it waits at a gate, and once it is through.
Waiting(g) == IF g = Global THEN "queued" ELSE "parked"
Through(g) == IF g = Global THEN "executing" ELSE "preparing"

Started(a, pcs) == pcs[a] = "executing" /\ pc[a] # "executing"

\* The executions that started between pc and pcs, as those still waiting see them.
Count(pcs) ==
    passed' = [a \in Actions |-> [t \in Targets |->
                 IF pcs[a] # "queued" THEN 0
                 ELSE passed[a][t] + Cardinality({b \in Actions : Of[b] = t /\ Started(b, pcs)})]]

\* A slip: whoever asked last is let through first.
HandOver_Lifo(g, pcs) ==
    IF queue[g] = <<>>
    THEN [pcs |-> pcs, queue |-> <<>>, free |-> free[g] + 1]
    ELSE [pcs |-> [pcs EXCEPT ![queue[g][Len(queue[g])]] = Through(g)],
          queue |-> SubSeq(queue[g], 1, Len(queue[g]) - 1), free |-> free[g]]

\* A slip: a released permit wakes nobody.
HandOver_NoWake(g, pcs) == [pcs |-> pcs, queue |-> queue[g], free |-> free[g] + 1]

\* A permit of g is released, the actions standing at pcs: its first waiter is through.
HandOver(g, pcs) ==
    IF queue[g] = <<>>
    THEN [pcs |-> pcs, queue |-> <<>>, free |-> free[g] + 1]
    ELSE [pcs |-> [pcs EXCEPT ![Head(queue[g])] = Through(g)],
          queue |-> Tail(queue[g]), free |-> free[g]]

\* Semaphore::acquire: a free permit, or a place at the end of the queue.
Ask(a, g) ==
    IF free[g] > 0
    THEN /\ free' = [free EXCEPT ![g] = @ - 1]
         /\ pc' = [pc EXCEPT ![a] = Through(g)]
         /\ UNCHANGED queue
    ELSE /\ queue' = [queue EXCEPT ![g] = Append(@, a)]
         /\ pc' = [pc EXCEPT ![a] = Waiting(g)]
         /\ UNCHANGED free

\* The action moves on and gives a permit of g back.
Leave(a, to, g) ==
    LET h == HandOver(g, [pc EXCEPT ![a] = to]) IN
    /\ pc' = h.pcs
    /\ queue' = [queue EXCEPT ![g] = h.queue]
    /\ free' = [free EXCEPT ![g] = h.free]

-------------------------------------------------------------------------------
\* A slip: the global permit is asked for without the target's.
AskTarget_NoGate(a) ==
    /\ pc[a] = "ready"
    /\ attempt' = [attempt EXCEPT ![a] = @ + 1]
    /\ pc' = [pc EXCEPT ![a] = "preparing"]
    /\ UNCHANGED <<free, queue>>
    /\ Count(pc')

\* acquire_per_target_admission, at the start of an attempt.
AskTarget(a) ==
    /\ pc[a] = "ready"
    /\ attempt' = [attempt EXCEPT ![a] = @ + 1]
    /\ Ask(a, Of[a])
    /\ Count(pc')

\* The request is ready.
AskGlobal(a) == pc[a] = "preparing" /\ Ask(a, Global) /\ Count(pc') /\ UNCHANGED attempt

\* Execute2 returns, and with it the global permit.
Answered(a) ==
    pc[a] = "executing" /\ Leave(a, "answered", Global) /\ Count(pc') /\ UNCHANGED attempt

\* The target's permit is given back; the attempt may be followed by another.
EndAttempt(a, from) ==
    /\ pc[a] = from
    /\ \/ Leave(a, "done", Of[a])
       \/ attempt[a] < MaxAttempts /\ Leave(a, "ready", Of[a])
    /\ Count(pc') /\ UNCHANGED attempt

Drop(a) == EndAttempt(a, "answered")

\* The memory overrides conflict: the attempt ends before it asks for more.
Conflict(a) == EndAttempt(a, "preparing")

\* A slip: a permit is lost with the task that held it.
Panics_PermitLost(a) ==
    /\ pc[a] = "preparing"
    /\ pc' = [pc EXCEPT ![a] = "done"]
    /\ Count(pc') /\ UNCHANGED <<attempt, free, queue>>

\* The action task panics over its request: the permit it holds is dropped.
Panics(a) ==
    /\ pc[a] = "preparing"
    /\ Leave(a, "done", Of[a])
    /\ Count(pc') /\ UNCHANGED attempt

Over == (\A a \in Actions : pc[a] = "done") /\ UNCHANGED vars

Step(a) == AskTarget(a) \/ AskGlobal(a) \/ Answered(a) \/ Drop(a)

Next == (\E a \in Actions : Step(a) \/ Conflict(a) \/ Panics(a)) \/ Over

Spec == Init /\ [][Next]_vars

\* A task that can go on is polled in the end, and buck2 answers every Execute2.
FairSpec == Spec /\ \A a \in Actions : WF_vars(Step(a))

-------------------------------------------------------------------------------
(* Properties.                                                               *)

Pc == {"ready", "parked", "preparing", "queued", "executing", "answered", "done"}

TypeOK ==
    /\ pc \in [Actions -> Pc]
    /\ attempt \in [Actions -> 0 .. MaxAttempts]
    /\ free \in [Gates -> Nat] /\ \A g \in Gates : free[g] <= Limit(g)
    /\ queue \in [Gates -> Seq(Actions)]
    /\ passed \in [Actions -> [Targets -> Nat]]

\* The actions that hold a permit of g.
Holders(g) ==
    IF g = Global THEN {a \in Actions : pc[a] = "executing"}
    ELSE {a \in Actions : Of[a] = g /\ pc[a] \in {"preparing", "queued", "executing", "answered"}}

\* No permit is lost or made up, on any path through handover, conflict, retry
\* and panic; none is idle while somebody waits for it; and the global permits
\* are held by executing actions only, so "the global bound is never pinned by
\* an action parked on a per-target gate".
PermitsConserved ==
    \A g \in Gates :
        /\ free[g] + Cardinality(Holders(g)) = Limit(g)
        /\ queue[g] # <<>> => free[g] = 0

\* "At most max_inflight_per_target actions of any single target are ever queued
\* on the (FIFO) global semaphore at once."
GlobalQueueShared ==
    \A t \in Targets :
        Cardinality({i \in DOMAIN queue[Global] : Of[queue[Global][i]] = t}) <= MaxPerTarget

\* While an action waits for the global bound, no target starts more than
\* max_inflight_per_target executions: targets "interleave with a bounded gap".
BoundedGap == \A a \in Actions, t \in Targets : passed[a][t] <= MaxPerTarget

\* Every action gets its turn and ends.
EachEnds == \A a \in Actions : <>(pc[a] = "done")
===============================================================================
