------------------------------- MODULE TestAction ------------------------------
(***************************************************************************)
(* One action task: execute_test_action with run_group and                 *)
(* isolate_failures of scheduler.rs.  A batch of members runs as one       *)
(* Execute2 request; the attempt is folded into the best observation of    *)
(* each member; members that still fail are retried together; at the end   *)
(* of the budget a batch may rerun them one by one, concurrently, each     *)
(* rerun a TestAction of its own that inherits what the batch knows.       *)
(*                                                                         *)
(* A run is the batch or the rerun of one member.  Permits are left to     *)
(* Admission, and the report of the results to Session.                    *)
(***************************************************************************)
EXTENDS Verdicts, Sequences, FiniteSets

CONSTANTS
    Members,          \* the tests an action may be given
    Cases,            \* the names inside a whole-unit target: its doc tests
    Configs,          \* the configurations considered
    BaseAttempts,     \* plan.retry.max_attempts
    FlakyAttempts,    \* attempts of the flaky_retry configuration, or 0
    InfraMaxAttempts  \* INFRA_MAX_ATTEMPTS

Batch == "batch"

\* members: expected_members; kind: the target's translator; isolate: batch_failure_policy is
\* RerunPerTestToIsolate; logical: cgroup_granularity is LogicalTest, not Action;
\* cacheable: the cache class, unless an unseen test busts the cache; flakes: the
\* members with a failure in the duration database.
Config == [members : (SUBSET Members) \ {{}}, kind : {"listed", "doctest", "binary"},
           isolate : BOOLEAN, logical : BOOLEAN, cacheable : BOOLEAN, flakes : SUBSET Members]

ASSUME ConstantsAssumption ==
    /\ Members # {} /\ IsFiniteSet(Members) /\ Batch \notin Members
    /\ Cases \cap Members = {}
    /\ Configs \subseteq Config
    /\ BaseAttempts \in Nat \ {0} /\ FlakyAttempts \in Nat /\ InfraMaxAttempts \in Nat \ {0}

Runs == Members \cup {Batch}
Names == Members \cup Cases

VARIABLES
    config,     \* what the plan and the command line say, constant
    run,        \* each run's loop state
    finished,   \* the results returned for each member
    seen,       \* history: the kinds of verdict the attempts gave each member
    harness,    \* history: physical attempts that the harness reported it in
    asked,      \* history: members that were run
    spent,      \* history: attempts at each that no action timeout ended, up to the budget
    exits       \* history: how the processes of a whole-unit target ended

history == <<seen, harness, asked, spent, exits>>
vars == <<config, run, finished, history>>

Whole == config.kind \in {"doctest", "binary"}

Expected(x) == IF x = Batch THEN config.members ELSE {x}

Batched(x) == Cardinality(Expected(x)) > 1

MaxAllowed == IF FlakyAttempts > BaseAttempts THEN FlakyAttempts ELSE BaseAttempts

Allowed(n) == IF n \in config.flakes THEN MaxAllowed ELSE BaseAttempts

Unknown == [n \in Names |-> NoObs]

None == [n \in Members |-> 0]

\* A run as execute_test_action starts it.
Start(x, first, best, attempts) ==
    [pc |-> "start", pending |-> Expected(x), failure |-> 0, timeouts |-> 0, execution |-> 0,
     infra |-> 0, first |-> first, best |-> best, attempts |-> attempts, caching |-> FALSE]

Idle == [Start(Batch, 0, Unknown, None) EXCEPT !.pc = "idle", !.pending = {}]

Init ==
    /\ config \in Configs
    /\ (Whole \/ config.logical => Cardinality(config.members) = 1)   \* build_batches
    /\ run = [x \in Runs |-> IF x = Batch THEN Start(Batch, 0, Unknown, None) ELSE Idle]
    /\ finished = [n \in Members |-> <<>>]
    /\ seen = [n \in Members |-> {}]
    /\ harness = None /\ asked = {} /\ spent = None /\ exits = {}

\* One more for the members in S.
Bump(f, S) == [n \in Members |-> IF n \in S THEN f[n] + 1 ELSE f[n]]

-------------------------------------------------------------------------------
(* What follows an attempt.                                                  *)

\* The members that have no pass yet, or no observation at all.
StillFailing(x, best) == {n \in Expected(x) : best[n] = NoObs \/ IsFailure(best[n].status)}

Outcome(r, n) ==
    LET o == IF r.best[n] = NoObs THEN MissingObs ELSE r.best[n]
    IN [status |-> o.status, integrity |-> o.integrity, attempts |-> r.attempts[n]]

\* The results of the members in S, as run r knows them.
Deliver(r, S) ==
    finished' = [n \in Members |-> IF n \in S THEN Append(finished[n], Outcome(r, n))
                                              ELSE finished[n]]

Return(x, r) ==
    /\ Deliver(r, Expected(x))
    /\ run' = [run EXCEPT ![x] = [r EXCEPT !.pc = "done"]]

\* A slip: a rerun starts from nothing.
Rerun_FromNothing(r, n) == Start(n, r.first + r.execution + 1, Unknown, None)

\* A slip: a rerun counts its attempts from the start again.
Rerun_FirstIndex(r, n) ==
    Start(n, 0, [Unknown EXCEPT ![n] = r.best[n]], [None EXCEPT ![n] = r.attempts[n]])

\* The rerun of one member, from what the batch knows of it.
Rerun(r, n) ==
    Start(n, r.first + r.execution + 1,
          [Unknown EXCEPT ![n] = r.best[n]], [None EXCEPT ![n] = r.attempts[n]])

StartReruns(x, r) ==
    run' = [y \in Runs |-> IF y = x THEN [r EXCEPT !.pc = "isolating"]
                           ELSE IF y \in StillFailing(x, r.best) THEN Rerun(r, y) ELSE run[y]]

\* A slip: only the reruns are delivered.
Isolate_DeliverNone(x, r) == UNCHANGED finished /\ StartReruns(x, r)

\* isolate_failures: the rest is delivered, and the failing members rerun.
Isolate(x, r) == Deliver(r, Expected(x) \ StillFailing(x, r.best)) /\ StartReruns(x, r)

\* The members whose flaky-retry budget is not used up.
Retryable(x, r) == {n \in StillFailing(x, r.best) : r.failure + 1 < Allowed(n)}

Again(x, r, pending) ==
    /\ run' = [run EXCEPT ![x] = [r EXCEPT !.pc = "start", !.infra = 0, !.pending = pending,
                                           !.execution = @ + 1]]
    /\ UNCHANGED finished

\* A slip: an action timeout is paid from the flaky-retry budget too.
AfterTimeout_PaidTwice(x, r) ==
    IF r.timeouts + 1 < InfraMaxAttempts
    THEN Again(x, [r EXCEPT !.timeouts = @ + 1, !.failure = @ + 1], StillFailing(x, r.best))
    ELSE Return(x, [r EXCEPT !.timeouts = @ + 1])

\* A slip: one retry too many.
AfterTimeout_OneTooMany(x, r) ==
    IF r.timeouts < InfraMaxAttempts
    THEN Again(x, [r EXCEPT !.timeouts = @ + 1], StillFailing(x, r.best))
    ELSE Return(x, [r EXCEPT !.timeouts = @ + 1])

\* Action timeouts have a budget of their own, and never lead to reruns.
AfterTimeout(x, r) ==
    IF r.timeouts + 1 < InfraMaxAttempts
    THEN Again(x, [r EXCEPT !.timeouts = @ + 1], StillFailing(x, r.best))
    ELSE Return(x, [r EXCEPT !.timeouts = @ + 1])

\* A slip: a retry is not counted against the flaky-retry budget.
AfterFailure_NotCounted(x, r) ==
    IF Retryable(x, r) # {} THEN Again(x, r, Retryable(x, r))
    ELSE IF Batched(x) /\ config.isolate THEN Isolate(x, r)
    ELSE Return(x, r)

\* Retry, rerun one by one, or return.
AfterFailure(x, r) ==
    IF Retryable(x, r) # {} THEN Again(x, [r EXCEPT !.failure = @ + 1], Retryable(x, r))
    ELSE IF Batched(x) /\ config.isolate THEN Isolate(x, r)
    ELSE Return(x, r)

\* The tail of execute_test_action's loop, once the attempt is folded into r.
After(x, r, actionTimeout) ==
    IF StillFailing(x, r.best) = {} THEN Return(x, r)
    ELSE IF actionTimeout THEN AfterTimeout(x, r)
    ELSE AfterFailure(x, r)

\* The observations of one attempt, folded into the best of each name.
FoldBest(best, incoming) ==
    [n \in Names |-> IF n \in DOMAIN incoming THEN MergeBest(best[n], incoming[n]) ELSE best[n]]

\* What the properties remember of an observation.
Class(o) == IF Missing(o) THEN "missing" ELSE IF IsFailure(o.status) THEN "failed" ELSE "passed"

Witness(incoming) ==
    seen' = [n \in Members |-> IF n \in DOMAIN incoming THEN seen[n] \cup {Class(incoming[n])}
                                                         ELSE seen[n]]

Spend(S) == spent' = [n \in Members |-> IF n \in S /\ spent[n] < MaxAllowed THEN spent[n] + 1
                                                                           ELSE spent[n]]

-------------------------------------------------------------------------------
(* run_group.                                                                *)

\* What the command line of the request selects: all members until a failure has
\* been retried, whatever is pending.
Selection(x) == IF run[x].failure = 0 THEN Expected(x) ELSE run[x].pending

\* A slip: an infra retry has the index of the attempt it retries.
AttemptIndex_NoInfra(r) == r.first + r.execution

AttemptIndex(r) == r.first + r.execution + r.infra

\* Execute2 is called.  A stress run or another variant is never cached: cacheable.
Request(x) ==
    /\ run[x].pc = "start"
    /\ run' = [run EXCEPT ![x].pc = "sent",
                          ![x].caching = CachingEnabled(config.cacheable, TRUE, FALSE,
                                                        AttemptIndex(run[x]))]
    /\ asked' = asked \cup Selection(x)
    /\ UNCHANGED <<config, finished, seen, harness, spent, exits>>

\* The end of the process does not decide this attempt.
Unreadable == exits' = IF Whole THEN exits \cup {"none"} ELSE exits

\* A group that failed as a whole, with no terminal result for its members.
Incomplete(x, status) ==
    LET r == run[x]
        incoming == [n \in r.pending |-> [status |-> status,
                                          integrity |-> "MissingTerminalResult"]]
    IN /\ Witness(incoming)
       /\ Spend(r.pending)
       /\ Unreadable /\ After(x, [r EXCEPT !.best = FoldBest(@, incoming)], FALSE)
       /\ UNCHANGED <<config, harness, asked>>

\* The memory overrides that match the members disagree: no request is made.
OverridesConflict(x) ==
    run[x].pc = "start" /\ Incomplete(x, "Fatal")

\* Cancelled, malformed or contradictory answers, and a failed RPC.
GroupFails(x) ==
    run[x].pc = "sent" /\ \E s \in {"Omitted", "InfraFailure", "Fatal"} : Incomplete(x, s)

\* A slip: the queue is tried for ever.
QueueTimesOut_Forever(x) ==
    /\ run[x].pc = "sent"
    /\ run' = [run EXCEPT ![x].pc = "start", ![x].infra = IF @ = 0 THEN 1 ELSE @]
    /\ UNCHANGED <<config, finished, history>>

\* CancelledQueueTimeout: the same group again, while infra attempts last.
QueueTimesOut(x) ==
    /\ run[x].pc = "sent"
    /\ IF run[x].infra + 1 < InfraMaxAttempts
       THEN /\ run' = [run EXCEPT ![x].pc = "start", ![x].infra = @ + 1]
            /\ UNCHANGED <<config, finished, history>>
       ELSE Incomplete(x, "InfraFailure")

\* The supervisor's timeout of the whole action: complete, so it can be retried.
ActionTimesOut(x) ==
    LET r == run[x]
        incoming == [n \in r.pending |-> [status |-> "Timeout", integrity |-> "Complete"]]
    IN /\ r.pc = "sent" /\ ~config.logical
       /\ Witness(incoming)
       /\ Unreadable /\ After(x, [r EXCEPT !.best = FoldBest(@, incoming)], TRUE)
       /\ UNCHANGED <<config, harness, asked, spent>>

\* What the harness may report of the members in S when its process ends as raw
\* did: nothing for a custom binary, the doc tests' own names for a doc-test
\* target, and no failure where the process exited with 0.
Reports(S, raw) ==
    LET names == CASE config.kind = "listed"  -> S
                   [] config.kind = "doctest" -> Cases
                   [] config.kind = "binary"  -> {}
        verdicts == IF raw = "exit0" THEN {"Pass"} ELSE {"Pass", "Fail"}
    IN UNION {[T -> verdicts] : T \in SUBSET names}

\* The names an answer is folded into.
TestNames(r, obs) == IF Whole /\ DOMAIN obs # {} THEN DOMAIN obs ELSE r.pending

Singleton(x, names) == ~Batched(x) \/ Cardinality(names) = 1

\* A slip: synthesized verdicts are recorded as observations of the test.
Fold_RecordAll(x, obs, raw, oom, physical) ==
    LET r == run[x]
        names == TestNames(r, obs)
        incoming == [n \in names |-> Observation(n, obs, raw, oom, Whole, Singleton(x, names))]
    IN /\ Witness(incoming)
       /\ Spend(r.pending)
       /\ After(x, [r EXCEPT !.best = FoldBest(@, incoming),
                             !.attempts = IF physical THEN Bump(@, names) ELSE @], FALSE)
       /\ harness' = IF physical /\ ~oom THEN Bump(harness, DOMAIN obs) ELSE harness
       /\ UNCHANGED <<config, asked>>

\* The fold of an answer that ran to its end; physical: it was not served from
\* the cache, and says where it ran.
Fold(x, obs, raw, oom, physical) ==
    LET r == run[x]
        names == TestNames(r, obs)
        incoming == [n \in names |-> Observation(n, obs, raw, oom, Whole, Singleton(x, names))]
        recorded == IF physical /\ ~oom THEN names \cap DOMAIN obs ELSE {}
    IN /\ Witness(incoming)
       /\ Spend(r.pending)
       /\ After(x, [r EXCEPT !.best = FoldBest(@, incoming),
                             !.attempts = Bump(@, recorded)], FALSE)
       /\ harness' = IF physical /\ ~oom THEN Bump(harness, DOMAIN obs) ELSE harness
       /\ UNCHANGED <<config, asked>>

\* The action ran to its end.
Observed(x) ==
    /\ run[x].pc = "sent"
    /\ \E raw \in ProcessOutcome, physical \in BOOLEAN :
         /\ \E obs \in Reports(Selection(x), raw) : Fold(x, obs, raw, FALSE, physical)
         /\ exits' = IF Whole THEN exits \cup {raw} ELSE exits

\* The supervisor killed it for its memory: the action, or the one test in it.
OutOfMemory(x) ==
    /\ run[x].pc = "sent" /\ ~config.logical
    /\ \E physical \in BOOLEAN :
         \E obs \in Reports(Selection(x), "exitN") : Fold(x, obs, "exitN", TRUE, physical)
    /\ Unreadable

\* The supervisor's verdict on the only test of the action.
LogicalFailure(x) ==
    /\ run[x].pc = "sent" /\ config.logical
    /\ \E physical \in BOOLEAN, v \in {"Timeout", "Fail"} :
         \E obs \in Reports({}, "exitN") :
           Fold(x, [n \in DOMAIN obs \cup run[x].pending |->
                      IF n \in run[x].pending THEN v ELSE obs[n]], "exitN", FALSE, physical)
    /\ Unreadable

\* join_all over the reruns: their results are the batch's.
JoinIsolated ==
    /\ run[Batch].pc = "isolating"
    /\ \A n \in Members : run[n].pc \in {"idle", "done"}
    /\ run' = [run EXCEPT ![Batch].pc = "done"]
    /\ UNCHANGED <<config, finished, history>>

-------------------------------------------------------------------------------
Answer(x) ==
    \/ GroupFails(x) \/ QueueTimesOut(x) \/ ActionTimesOut(x)
    \/ Observed(x) \/ OutOfMemory(x) \/ LogicalFailure(x)

Step(x) == Request(x) \/ OverridesConflict(x) \/ Answer(x)

Returned == run[Batch].pc = "done" /\ UNCHANGED vars

Next == (\E x \in Runs : Step(x)) \/ JoinIsolated \/ Returned

Spec == Init /\ [][Next]_vars

\* buck2 answers every Execute2, and the tasks are polled.
FairSpec == Spec /\ (\A x \in Runs : WF_vars(Step(x))) /\ WF_vars(JoinIsolated)

-------------------------------------------------------------------------------
(* Properties.                                                               *)

Run == [pc : {"idle", "start", "sent", "isolating", "done"}, pending : SUBSET Members,
        failure : Nat, timeouts : Nat, execution : Nat, infra : Nat, first : Nat,
        best : [Names -> Obs \cup {NoObs}], attempts : [Members -> Nat], caching : BOOLEAN]

\* Every variable has its type; a run in flight has something to run.
TypeOK ==
    /\ config \in Config
    /\ run \in [Runs -> Run]
    /\ \A x \in Runs : run[x].pc \in {"start", "sent"} => run[x].pending # {}
    /\ \A n \in Members : seen[n] \subseteq {"missing", "passed", "failed"} /\ Len(finished[n]) <= 1
    /\ asked \subseteq Members /\ exits \subseteq ProcessOutcome \cup {"none"}
    /\ harness \in [Members -> Nat] /\ spent \in [Members -> Nat]

\* execute_test_action "return[s] one result per expected name": none is lost
\* or doubled on any path through retries and reruns.
OneResultEach ==
    /\ \A n \in Members : Len(finished[n]) <= 1
    /\ run[Batch].pc = "done" => \A n \in config.members : Len(finished[n]) = 1

\* The result of a member is missing exactly when an attempt left it without a
\* terminal result, or none mentioned it ("a later singleton pass" cannot
\* "erase an incomplete batch observation"); otherwise it passes exactly when
\* some attempt did, in the batch or in its rerun (pass-if-any-pass).
FaithfulOutcome ==
    \A n \in Members : finished[n] # <<>> =>
        LET f == finished[n][1] IN
        Class(f) = IF seen[n] = {} \/ "missing" \in seen[n] THEN "missing"
                   ELSE IF "passed" \in seen[n] THEN "passed" ELSE "failed"

\* A member that is reported failing was given all the attempts its budget
\* allows, unless action timeouts exhausted theirs: "the action-timeout budget"
\* is not paid from the flaky-retry budget.
FullBudget ==
    \A n \in Members : finished[n] # <<>> /\ IsFailure(finished[n][1].status) =>
        \/ spent[n] >= Allowed(n)
        \/ \E x \in {n, Batch} : run[x].timeouts = InfraMaxAttempts

\* The duration database is told of each physical, harness-attributed attempt at
\* a member once: a synthesized verdict "must not inflate an innocent member's
\* flake rate", and the reruns take the batch's observations over.
ObservationsKept ==
    \A n \in Members : finished[n] # <<>> => finished[n][1].attempts = harness[n]

\* A retry is never answered by the cache: whatever the path to it, a request
\* that runs a member a second time may not be served from an earlier one.
RetriesRunFresh ==
    [][\A x \in Runs : run[x].pc = "start" /\ run'[x].pc = "sent" /\ run'[x].caching =>
         Selection(x) \cap asked = {}]_vars

\* An attempt runs the members it waits for and no other, though the selection
\* is narrowed by the count of failures and the pending members by whatever was
\* retried: "narrows each retry to only the still-failing members".
RetriesNarrowed ==
    \A x \in Runs : run[x].pc \in {"start", "sent"} => Selection(x) = run[x].pending

\* A run makes no more attempts than its budgets add up to, failures and action
\* timeouts together, and no more requests for one attempt than the infra budget.
AttemptsBounded ==
    \A x \in Runs :
        /\ run[x].execution <= MaxAllowed + InfraMaxAttempts - 2
        /\ run[x].infra < InfraMaxAttempts

\* Every action returns its results.
Returns == <>(run[Batch].pc = "done")

\* For a whole-unit target the verdict "IS the process exit code": "reported as
\* a single synthetic test (exit-code verdict)".
WholeUnitVerdict ==
    Whole => \A n \in Members : finished[n] # <<>> =>
        /\ exits = {"exit0"} => finished[n][1].status = "Pass"
        /\ exits = {"exitN"} => finished[n][1].status = "Fail"
===============================================================================
