-------------------------------- MODULE Session --------------------------------
(***************************************************************************)
(* One test session: buck2 streams target specs into the intake, a task    *)
(* per target lists, announces and runs its tests, every task reports over *)
(* one bounded channel to a single reporter, and the exit code the         *)
(* reporter's verdict becomes is sent to buck2 once, last.                 *)
(* scheduler.rs (run, reporter_task, run_target, run_per_test_target),     *)
(* run.rs (drive_to_completion) and executor_server.rs.                    *)
(*                                                                         *)
(* An action task (execute_test_action) is abstracted to the batch of      *)
(* results it ends with; TestAction models its inside and Admission its    *)
(* execution permits.  Faults are steps no fairness covers: a malformed    *)
(* spec, a failed RPC, a panic of a task, of the reporter, of the setup.   *)
(***************************************************************************)
EXTENDS Verdicts, Sequences, FiniteSets

CONSTANTS
    Targets,          \* the targets buck2 may ask for, each at most once
    OverrideTargets,  \* targets named by a cgroup memory override
    Modes,            \* the command lines considered: run, list, help, usage
    MaxActions,       \* bound on the batches (times repeats) of each target
    Batches,          \* the result sequences an action may end with
    MaxReportQueue,   \* limits.max_report_queue
    MaxListings,      \* limits.max_inflight_listings
    InfraMaxAttempts  \* INFRA_MAX_ATTEMPTS

Result == [status : TestVerdict, integrity : Integrity, quarantined : BOOLEAN]

EndOfRequests == "EndOfRequests"   \* the envelope that ends the requests

ASSUME ConstantsAssumption ==
    /\ EndOfRequests \notin Targets
    /\ Modes \subseteq {"run", "list", "help", "usage"}
    /\ OverrideTargets \subseteq Targets
    /\ MaxActions \in [Targets -> Nat \ {0}]
    /\ Batches \subseteq Seq(Result) \ {<<>>}
    /\ MaxReportQueue \in Nat \ {0}
    /\ MaxListings \in Nat \ {0}
    /\ InfraMaxAttempts \in Nat \ {0}

NoExit == 999          \* no exit code yet
NonzeroExit == 32
SchedulerPanicExit == 70
Blocks == UNION {1 .. MaxActions[t] : t \in Targets}

VARIABLES
    mode,       \* what the command line asks for
    buck,       \* buck2's side of the intake: sending, ended, gone
    intake,     \* the unbounded intake channel
    main,       \* where scheduler::run and drive_to_completion stand
    received,   \* override targets seen so far
    missing,    \* override targets still to be reported as not received
    exit,       \* the exit code run returned
    endCalls,   \* calls of end_of_test_results
    task,       \* where each target's task stands
    tries,      \* infra_attempt of each target's listing
    action,     \* each target's action tasks
    announced,  \* targets report_tests_discovered was called for
    chan,       \* the bounded report channel
    rep,        \* where the reporter stands
    cur,        \* the batch the reporter is folding
    verdict,    \* the reporter's verdict
    tally,      \* the reporter's counts
    reported,   \* calls of report_test_result, by target
    tainted,    \* history: targets with something to fail the run for
    fault,      \* history: a failure that belongs to no target
    produced    \* history: results and drops handed to the channel

buckVars == <<buck, intake>>
mainVars == <<mode, main, received, missing, exit, endCalls>>
taskVars == <<task, tries, action, announced>>
repVars  == <<rep, cur, verdict, tally, reported>>
vars == <<buckVars, mainVars, taskVars, repVars, chan, tainted, fault, produced>>

Finished(t, rs) == [kind |-> "Finished", target |-> t, results |-> rs]
Discovered(t)   == [kind |-> "Discovered", target |-> t, results |-> <<>>]
TargetDropped(t) == [kind |-> "TargetDropped", target |-> t, results |-> <<>>]

Batch == [kind : {"Finished"}, target : Targets, results : Seq(Result)]

Message == {m \in Batch : m.results # <<>>}
           \cup [kind : {"Discovered", "TargetDropped"}, target : Targets, results : {<<>>}]

NoBatch == [kind |-> "none"]   \* the reporter has not taken a batch yet

Blocking(r) == ReportDisposition(r.status, r.integrity, r.quarantined) = "Failure"

HasBlocking(rs) == \E i \in DOMAIN rs : Blocking(rs[i])

\* What a result must fail the run for, whatever the reporter makes of it: no
\* terminal result, or a failure that nobody quarantined.
MustFail(r) == Missing(r) \/ (IsFailure(r.status) /\ ~r.quarantined)

\* A message that must turn the verdict.
Bad(m) == m.kind = "TargetDropped" \/ HasBlocking(m.results)

\* The one result of a target that failed as a whole.
TargetFailure(q) == <<[status |-> "Fatal", integrity |-> "MissingTerminalResult",
                       quarantined |-> q]>>

Init ==
    /\ mode \in Modes
    /\ buck = "sending" /\ intake = <<>>
    /\ main = "setup" /\ received = {} /\ missing = {}
    /\ exit = NoExit /\ endCalls = 0
    /\ task = [t \in Targets |-> "absent"]
    /\ tries = [t \in Targets |-> 0]
    /\ action = [t \in Targets |-> [b \in Blocks |-> "none"]]
    /\ announced = {}
    /\ chan = <<>>
    /\ rep = "recv" /\ cur = NoBatch
    /\ verdict = "Pass"
    /\ tally = [total |-> 0, failed |-> 0]
    /\ reported = [t \in Targets |-> 0]
    /\ tainted = {} /\ fault = FALSE /\ produced = 0

\* A slip: the channel takes one message more than its limit.
Send_OneTooMany(m) ==
    \/ rep = "dead" /\ UNCHANGED chan
    \/ rep # "dead" /\ Len(chan) <= MaxReportQueue /\ chan' = Append(chan, m)

\* A slip: a send waits for room whether or not the reporter is there to make any.
Send_NeverFails(m) ==
    rep # "dead" /\ Len(chan) < MaxReportQueue /\ chan' = Append(chan, m)

\* Await room in the channel; a send to a dead reporter fails and is only logged.
Send(m) ==
    \/ rep = "dead" /\ UNCHANGED chan
    \/ rep # "dead" /\ Len(chan) < MaxReportQueue /\ chan' = Append(chan, m)

To(t, pc) == task' = [task EXCEPT ![t] = pc]

Taint(t) == tainted' = tainted \cup {t}

-------------------------------------------------------------------------------
(* buck2 and the executor server.                                           *)

IntakeOpen == main \notin {"returned", "ended"}

\* external_runner_spec: accepted while the scheduler holds the receiver.
BuckSends(t) ==
    /\ buck = "sending" /\ task[t] = "absent"
    /\ IF IntakeOpen THEN To(t, "queued") /\ intake' = Append(intake, t)
                     ELSE To(t, "refused") /\ UNCHANGED intake
    /\ UNCHANGED <<buck, mainVars, tries, action, announced, repVars, chan,
                   tainted, fault, produced>>

\* end_of_test_requests.
BuckEnds ==
    /\ buck = "sending" /\ buck' = "ended"
    /\ intake' = IF IntakeOpen THEN Append(intake, EndOfRequests) ELSE intake
    /\ UNCHANGED <<mainVars, taskVars, repVars, chan, tainted, fault, produced>>

\* The executor connection closes without it.  The server keeps the sender until
\* the shutdown that follows the scheduler's return, so nothing tells the intake.
BuckLeaves ==
    /\ buck = "sending" /\ buck' = "gone"
    /\ UNCHANGED <<intake, mainVars, taskVars, repVars, chan, tainted, fault, produced>>

-------------------------------------------------------------------------------
(* scheduler::run and drive_to_completion.                                   *)

Setup ==
    /\ main = "setup"
    /\ main' = IF mode \in {"help", "usage"} THEN "drain" ELSE "intake"
    /\ UNCHANGED <<mode, received, missing, exit, endCalls, buckVars, taskVars,
                   repVars, chan, tainted, fault, produced>>

\* A limit no semaphore can hold: caught by drive_to_completion.
SetupPanics ==
    /\ main = "setup" /\ mode \in {"run", "list"}
    /\ main' = "returned" /\ exit' = SchedulerPanicExit /\ fault' = TRUE
    /\ UNCHANGED <<mode, received, missing, endCalls, buckVars, taskVars, repVars,
                   chan, tainted, produced>>

IntakeEnds == intake # <<>> /\ Head(intake) = EndOfRequests

\* drain_intake, one envelope at a time.
DrainIntake ==
    /\ main = "drain"
    /\ IF IntakeEnds
       THEN /\ main' = "returned"
            /\ exit' = IF mode = "help" THEN 0 ELSE NonzeroExit
            /\ intake' = <<>>
       ELSE intake # <<>> /\ intake' = Tail(intake) /\ UNCHANGED <<main, exit>>
    /\ UNCHANGED <<mode, received, missing, endCalls, buck, taskVars, repVars, chan,
                   tainted, fault, produced>>

\* A spec with a target and a handle counts as received and gets its task; one
\* without is dropped by its task, which cannot even name it.
RecvSpec ==
    /\ main = "intake" /\ intake # <<>> /\ Head(intake) # EndOfRequests
    /\ intake' = Tail(intake)
    /\ LET t == Head(intake) IN
         \/ To(t, "start") /\ received' = received \cup {t} /\ UNCHANGED tainted
         \/ To(t, "dropping") /\ Taint(t) /\ UNCHANGED received
    /\ UNCHANGED <<mode, main, missing, exit, endCalls, buck, tries, action, announced,
                   repVars, chan, fault, produced>>

\* The end of the requests ends the intake loop.
RecvEnd ==
    /\ main = "intake" /\ IntakeEnds
    /\ main' = "missing" /\ missing' = OverrideTargets \ received
    /\ intake' = Tail(intake)
    /\ fault' = (fault \/ missing' # {})
    /\ UNCHANGED <<mode, received, exit, endCalls, buck, taskVars, repVars, chan,
                   tainted, produced>>

SendMissing ==
    /\ main = "missing"
    /\ \E t \in missing : Send(TargetDropped(t)) /\ missing' = missing \ {t}
    /\ produced' = produced + 1
    /\ UNCHANGED <<mode, main, received, exit, endCalls, buckVars, taskVars, repVars,
                   tainted, fault>>

Joined(t) == task[t] \in {"absent", "queued", "refused", "done", "crashed"}

\* drain_joinset, then the last sender is dropped.
JoinTargets ==
    /\ main = "missing" /\ missing = {}
    /\ \A t \in Targets : Joined(t)
    /\ main' = "closing"
    /\ UNCHANGED <<mode, received, missing, exit, endCalls, buckVars, taskVars, repVars,
                   chan, tainted, fault, produced>>

AnyTargetPanicked == \E t \in Targets : task[t] = "crashed"

\* A slip: a reporter that died is taken for one that found nothing.
ExitCode_DeadIsGreen ==
    IF verdict = "Fail" \/ AnyTargetPanicked THEN NonzeroExit ELSE 0

ExitCode ==
    IF rep = "dead" \/ verdict = "Fail" \/ AnyTargetPanicked THEN NonzeroExit ELSE 0

FoldVerdict ==
    /\ main = "closing" /\ rep \in {"returned", "dead"}
    /\ main' = "returned" /\ exit' = ExitCode
    /\ UNCHANGED <<mode, received, missing, endCalls, buckVars, taskVars, repVars, chan,
                   tainted, fault, produced>>

EndOfTests ==
    /\ main = "returned"
    /\ main' = "ended" /\ endCalls' = endCalls + 1
    /\ UNCHANGED <<mode, received, missing, exit, buckVars, taskVars, repVars, chan,
                   tainted, fault, produced>>

-------------------------------------------------------------------------------
(* run_target and run_per_test_target, up to the fan-out.                    *)

\* What a task step that sends nothing leaves alone.
QuietTask == UNCHANGED <<buckVars, mainVars, repVars, chan, fault, produced>>

Fails(t) == To(t, "failing") /\ Taint(t)

\* TargetSpec::from_proto refuses the spec.
RejectSpec(t) ==
    /\ task[t] = "start"
    /\ To(t, "dropping") /\ Taint(t)
    /\ UNCHANGED <<tries, action, announced>> /\ QuietTask

\* TargetPlan::derive finds no translator.
UnknownType(t) ==
    /\ task[t] = "start" /\ Fails(t)
    /\ UNCHANGED <<tries, action, announced>> /\ QuietTask

\* A panic outside catch_unwind: only the JoinSet sees it.
TaskPanics(t) ==
    /\ task[t] \in {"start", "failing", "fail_send"}
    /\ To(t, "crashed") /\ Taint(t)
    /\ UNCHANGED <<tries, action, announced>> /\ QuietTask

StartTarget(t) ==
    /\ task[t] = "start"
    /\ \/ To(t, "want_listing")   \* PerTestListing
       \/ To(t, "listed")         \* WholeTarget, WholeBinary
    /\ UNCHANGED <<tries, action, announced, tainted>> /\ QuietTask

Listing == {t \in Targets : task[t] = "listing"}

AcquireListing(t) ==
    /\ task[t] = "want_listing" /\ Cardinality(Listing) < MaxListings
    /\ To(t, "listing")
    /\ UNCHANGED <<tries, action, announced, tainted>> /\ QuietTask

\* A queue timeout of the listing: retried, bounded, with the permit given back.
ListingTimesOut(t) ==
    /\ task[t] = "listing"
    /\ IF tries[t] + 1 < InfraMaxAttempts
       THEN /\ To(t, "want_listing") /\ UNCHANGED tainted
            /\ tries' = [tries EXCEPT ![t] = @ + 1]
       ELSE Fails(t) /\ UNCHANGED tries
    /\ UNCHANGED <<action, announced>> /\ QuietTask

\* The listing fails otherwise, or succeeds.
ListingReturns(t) ==
    /\ task[t] = "listing"
    /\ Fails(t) \/ (To(t, "listed") /\ UNCHANGED tainted)
    /\ UNCHANGED <<tries, action, announced>> /\ QuietTask

\* A panic while the target is planned, inside catch_unwind.
TargetPanics(t) ==
    /\ task[t] \in {"want_listing", "listing", "listed", "announcing"} /\ Fails(t)
    /\ UNCHANGED <<tries, action, announced>> /\ QuietTask

\* validate_cgroup_memory_overrides.
InvalidOverride(t) ==
    /\ task[t] = "listed" /\ t \in OverrideTargets /\ Fails(t)
    /\ UNCHANGED <<tries, action, announced>> /\ QuietTask

\* shard_filter kept nothing.
EmptyShard(t) ==
    /\ task[t] = "listed"
    /\ To(t, "done") /\ announced' = announced \cup {t}
    /\ UNCHANGED <<tries, action, tainted>> /\ QuietTask

SendDiscovered(t) ==
    /\ task[t] = "listed"
    /\ Send(Discovered(t)) /\ To(t, "announcing")
    /\ UNCHANGED <<buckVars, mainVars, tries, action, announced, repVars, tainted,
                   fault, produced>>

\* A slip: the actions are spawned before the discovery is reported.
Announce_AfterSpawn(t) ==
    /\ task[t] = "announcing"
    /\ \E n \in 1 .. MaxActions[t] :
         action' = [action EXCEPT ![t] = [b \in Blocks |-> IF b <= n THEN "running" ELSE "none"]]
    /\ To(t, "running")
    /\ UNCHANGED <<tries, announced, tainted>> /\ QuietTask

\* report_tests_discovered, then list only or the fan-out of the batches.
Announce(t) ==
    /\ task[t] = "announcing"
    /\ announced' = announced \cup {t}
    /\ IF mode = "list"
       THEN To(t, "done") /\ UNCHANGED action
       ELSE /\ To(t, "running")
            /\ \E n \in 1 .. MaxActions[t] :
                 action' = [action EXCEPT ![t] =
                              [b \in Blocks |-> IF b <= n THEN "running" ELSE "none"]]
    /\ UNCHANGED <<tries, tainted>> /\ QuietTask

-------------------------------------------------------------------------------
(* Action tasks, and the end of a target.                                    *)

ActionFinishes(t, b) ==
    /\ action[t][b] = "running"
    /\ action' = [action EXCEPT ![t][b] = "finished"]
    /\ \E rs \in Batches :
         /\ Send(Finished(t, rs))
         /\ produced' = produced + Len(rs)
         /\ tainted' = IF \E i \in DOMAIN rs : MustFail(rs[i]) THEN tainted \cup {t} ELSE tainted
    /\ UNCHANGED <<buckVars, mainVars, task, tries, announced, repVars, fault>>

ActionPanics(t, b) ==
    /\ action[t][b] = "running"
    /\ action' = [action EXCEPT ![t][b] = "panicked"] /\ Taint(t)
    /\ UNCHANGED <<task, tries, announced>> /\ QuietTask

\* drain_joinset over the actions: a panic fails the target.
JoinActions(t) ==
    /\ task[t] = "running" /\ \A b \in Blocks : action[t][b] # "running"
    /\ To(t, IF \E b \in Blocks : action[t][b] = "panicked" THEN "failing" ELSE "done")
    /\ UNCHANGED <<tries, action, announced, tainted>> /\ QuietTask

\* report_target_failure_for_spec: announce the listing, then send its failure.
AnnounceFailure(t) ==
    /\ task[t] = "failing"
    /\ announced' = announced \cup {t} /\ To(t, "fail_send")
    /\ UNCHANGED <<tries, action, tainted>> /\ QuietTask

SendFailure(t) ==
    /\ task[t] = "fail_send"
    /\ \E q \in BOOLEAN : Send(Finished(t, TargetFailure(q)))
    /\ To(t, "done") /\ produced' = produced + 1
    /\ UNCHANGED <<buckVars, mainVars, tries, action, announced, repVars, tainted, fault>>

SendDropped(t) ==
    /\ task[t] = "dropping"
    /\ Send(TargetDropped(t)) /\ To(t, "done") /\ produced' = produced + 1
    /\ UNCHANGED <<buckVars, mainVars, tries, action, announced, repVars, tainted, fault>>

-------------------------------------------------------------------------------
(* reporter_task.                                                            *)

QuietReporter == UNCHANGED <<buckVars, mainVars, taskVars, tainted, produced>>

\* Discovered names only reach the in-memory duration database.
ReceiveDiscovered ==
    /\ rep = "recv" /\ chan # <<>> /\ Head(chan).kind = "Discovered"
    /\ chan' = Tail(chan)
    /\ UNCHANGED <<repVars, fault>> /\ QuietReporter

ReceiveDropped ==
    /\ rep = "recv" /\ chan # <<>> /\ Head(chan).kind = "TargetDropped"
    /\ chan' = Tail(chan)
    /\ tally' = [total |-> tally.total + 1, failed |-> tally.failed + 1]
    /\ verdict' = "Fail"
    /\ UNCHANGED <<rep, cur, reported, fault>> /\ QuietReporter

ReceiveFinished ==
    /\ rep = "recv" /\ chan # <<>> /\ Head(chan).kind = "Finished"
    /\ chan' = Tail(chan) /\ cur' = Head(chan) /\ rep' = "fold"
    /\ UNCHANGED <<verdict, tally, reported, fault>> /\ QuietReporter

\* A slip: a rejected report ends the batch, and the rest of it is dropped.
Fold_StopAtRejection ==
    /\ rep = "fold"
    /\ LET r == Head(cur.results) IN
       \E rejected \in BOOLEAN :
         /\ tally' = [total |-> tally.total + 1,
                      failed |-> tally.failed + (IF Blocking(r) THEN 1 ELSE 0)]
         /\ verdict' = IF Blocking(r) \/ rejected THEN "Fail" ELSE verdict
         /\ fault' = (fault \/ rejected)
         /\ cur' = [cur EXCEPT !.results = IF rejected THEN <<>> ELSE Tail(@)]
    /\ reported' = [reported EXCEPT ![cur.target] = @ + 1]
    /\ rep' = IF cur'.results = <<>> THEN "recv" ELSE "fold"
    /\ UNCHANGED chan /\ QuietReporter

\* One test of the batch: tally, verdict, report_test_result, which may fail.
Fold ==
    /\ rep = "fold"
    /\ LET r == Head(cur.results) IN
       \E rejected \in BOOLEAN :
         /\ tally' = [total |-> tally.total + 1,
                      failed |-> tally.failed + (IF Blocking(r) THEN 1 ELSE 0)]
         /\ verdict' = IF Blocking(r) \/ rejected THEN "Fail" ELSE verdict
         /\ fault' = (fault \/ rejected)
    /\ reported' = [reported EXCEPT ![cur.target] = @ + 1]
    /\ cur' = [cur EXCEPT !.results = Tail(@)]
    /\ rep' = IF Len(cur.results) = 1 THEN "recv" ELSE "fold"
    /\ UNCHANGED chan /\ QuietReporter

\* A slip: the reporter leaves as soon as the senders are gone.
ReporterReturns_NoDrain ==
    /\ rep = "recv" /\ main = "closing"
    /\ rep' = "returned"
    /\ UNCHANGED <<cur, verdict, tally, reported, chan, fault>> /\ QuietReporter

\* The channel is closed and empty: summary, flush, return the verdict.
ReporterReturns ==
    /\ rep = "recv" /\ chan = <<>> /\ main = "closing"
    /\ rep' = "returned"
    /\ UNCHANGED <<cur, verdict, tally, reported, chan, fault>> /\ QuietReporter

ReporterPanics ==
    /\ rep \in {"recv", "fold"} /\ main \in {"intake", "missing", "closing"}
    /\ rep' = "dead" /\ chan' = <<>> /\ fault' = TRUE
    /\ UNCHANGED <<cur, verdict, tally, reported>> /\ QuietReporter

-------------------------------------------------------------------------------
MainNext ==
    \/ Setup \/ DrainIntake \/ RecvSpec \/ RecvEnd \/ SendMissing \/ JoinTargets
    \/ FoldVerdict \/ EndOfTests

TargetNext(t) ==
    \/ StartTarget(t) \/ AcquireListing(t) \/ ListingTimesOut(t) \/ ListingReturns(t)
    \/ EmptyShard(t) \/ SendDiscovered(t) \/ Announce(t) \/ JoinActions(t)
    \/ AnnounceFailure(t) \/ SendFailure(t) \/ SendDropped(t)

TargetFaults(t) ==
    RejectSpec(t) \/ UnknownType(t) \/ TaskPanics(t) \/ TargetPanics(t) \/ InvalidOverride(t)

ReporterNext ==
    \/ ReceiveDiscovered \/ ReceiveDropped \/ ReceiveFinished \/ Fold \/ ReporterReturns

\* buck2 left without the end of its requests: the intake waits, with its sender
\* held by a server that waits for the scheduler.
Stranded ==
    buck = "gone" /\ main \in {"drain", "intake"} /\ intake = <<>>

\* The session is over, where buck2 may still call and be refused, or stranded.
Rests == (endCalls = 1 \/ Stranded) /\ UNCHANGED vars

Next ==
    \/ BuckEnds \/ BuckLeaves \/ MainNext \/ SetupPanics \/ ReporterNext \/ ReporterPanics
    \/ \E t \in Targets :
         \/ BuckSends(t) \/ TargetNext(t) \/ TargetFaults(t)
         \/ \E b \in Blocks : ActionFinishes(t, b) \/ ActionPanics(t, b)
    \/ Rests

\* As long as some tokio task can take a step, one of them does, and buck2 answers
\* the RPCs it accepted: each task takes finitely many, so none is left out for
\* ever.  Nothing obliges buck2 to end its requests, and no fault is fair.
Fairness ==
    WF_vars(\/ MainNext \/ ReporterNext
            \/ \E t \in Targets : TargetNext(t) \/ \E b \in Blocks : ActionFinishes(t, b))

Spec == Init /\ [][Next]_vars

FairSpec == Spec /\ Fairness

-------------------------------------------------------------------------------
(* Properties.                                                               *)

TaskPc == {"absent", "queued", "refused", "start", "dropping", "want_listing", "listing",
           "listed", "announcing", "running", "failing", "fail_send", "done", "crashed"}

\* Every variable has its type; the channel and the listings keep their bounds.
TypeOK ==
    /\ mode \in Modes
    /\ buck \in {"sending", "ended", "gone"}
    /\ intake \in Seq(Targets \cup {EndOfRequests})
    /\ main \in {"setup", "drain", "intake", "missing", "closing", "returned", "ended"}
    /\ received \subseteq Targets /\ missing \subseteq Targets
    /\ exit \in {NoExit, 0, NonzeroExit, SchedulerPanicExit} /\ endCalls \in Nat
    /\ task \in [Targets -> TaskPc]
    /\ tries \in [Targets -> Nat]
    /\ action \in [Targets -> [Blocks -> {"none", "running", "finished", "panicked"}]]
    /\ announced \subseteq Targets
    /\ chan \in Seq(Message) /\ Len(chan) <= MaxReportQueue
    /\ rep \in {"recv", "fold", "returned", "dead"}
    /\ cur \in Batch \cup {NoBatch}
    /\ (rep = "fold" => cur \in Batch /\ cur.results # <<>>)
    /\ verdict \in {"Pass", "Fail"}
    /\ tally \in [total : Nat, failed : Nat]
    /\ reported \in [Targets -> Nat]
    /\ tainted \subseteq Targets /\ fault \in BOOLEAN /\ produced \in Nat

\* A run of tests that ends with exit code 0 has nothing to be ashamed of: no
\* target dropped, failed, panicked or with a blocking result, no rejected
\* report, no missing override target, no dead reporter, and no accepted spec
\* whose task did not finish.  (run, drain_joinset, reporter_task: a swallowed
\* panic or a lost result "could leave a falsely green verdict".)
NoFalseGreen ==
    exit = 0 /\ mode \in {"run", "list"} =>
        /\ tainted = {} /\ ~fault
        /\ \A t \in Targets : task[t] \in {"absent", "refused", "done"}

\* The reporter is bound to fail the run: it already has, it is dead, or the
\* message that makes it is in the channel or in its hands.
Blamed ==
    \/ rep = "dead" \/ verdict = "Fail"
    \/ \E i \in DOMAIN chan : Bad(chan[i])
    \/ rep = "fold" /\ HasBlocking(cur.results)

\* Where the reason to fail the run for t is before that.
Travelling(t) ==
    \/ task[t] \in {"dropping", "failing", "fail_send", "crashed"}
    \/ task[t] = "running" /\ \E b \in Blocks : action[t][b] = "panicked"

TaintTravels == \A t \in tainted : Blamed \/ Travelling(t)

FaultTravels == fault => Blamed \/ exit = SchedulerPanicExit \/ missing # {}

\* The intake holds the queued specs, once each, and the end last.
IntakeOrder ==
    /\ mode \in {"run", "list"} =>
         \A t \in Targets : task[t] = "queued" => \E i \in DOMAIN intake : intake[i] = t
    /\ \A i \in DOMAIN intake :
         /\ intake[i] \in Targets => task[intake[i]] = "queued"
         /\ intake[i] = EndOfRequests => i = Len(intake) /\ buck = "ended"
         /\ \A j \in DOMAIN intake : intake[i] = intake[j] => i = j

\* How far the main task is bounds what the other tasks may still do.
Phases ==
    /\ exit = NoExit <=> main \notin {"returned", "ended"}
    /\ main \in {"intake", "missing", "closing"} => mode \in {"run", "list"}
    /\ main = "drain" => mode \in {"help", "usage"}
    /\ main \in {"missing", "closing"} => intake = <<>> /\ buck = "ended"
    /\ missing # {} => main = "missing"
    /\ main \notin {"intake", "missing"} => \A t \in Targets : Joined(t)
    /\ exit \in {0, NonzeroExit} /\ mode \in {"run", "list"} => rep \in {"returned", "dead"}
    /\ rep = "returned" => chan = <<>> /\ main \in {"closing", "returned", "ended"}
    /\ \A t \in Targets, b \in Blocks : action[t][b] = "running" => task[t] = "running"

\* The inductive invariant behind NoFalseGreen.
Inv == TypeOK /\ TaintTravels /\ FaultTravels /\ IntakeOrder /\ Phases /\ NoFalseGreen

\* A run of tests fails only for a reason of its own.
NoFalseRed ==
    exit = NonzeroExit /\ mode \in {"run", "list"} => tainted # {} \/ fault

SX == INSTANCE SequencesExt

\* What a message adds to the summary: a drop, or its results.
Weight(m) == IF m.kind = "TargetDropped" THEN 1 ELSE Len(m.results)

\* The results and drops in a sequence of messages.
Load(ms) == SX!FoldLeft(LAMBDA n, m : n + Weight(m), 0, ms)

\* While the reporter lives, every result and drop a task produced is counted,
\* queued or in the reporter's hands, exactly once; so the summary of a session
\* counts all of them.
NothingLost ==
    rep # "dead" =>
        produced = tally.total + Load(chan) + (IF rep = "fold" THEN Len(cur.results) ELSE 0)

\* report_test_result is called for a target only after report_tests_discovered
\* was: "discovery of a target's tests always happens-before that target's
\* results".
DiscoveryFirst ==
    [][\A t \in Targets : reported'[t] # reported[t] => t \in announced]_vars

\* end_of_test_results is called at most once, with nothing left in flight, and
\* nothing is announced or reported after it.
EndIsLast ==
    [][/\ endCalls' # endCalls => endCalls = 0 /\ exit # NoExit
       /\ endCalls' # endCalls /\ exit # SchedulerPanicExit =>
              (rep # "dead" => chan = <<>>)
       /\ endCalls > 0 => UNCHANGED <<announced, reported, chan, verdict, exit>>]_vars

\* All that was received is done with: its tasks have ended and the reporter, if
\* it lives, has taken all they sent.
AllSettled ==
    chan = <<>> /\ rep \in {"recv", "dead"} /\ \A t \in Targets : Joined(t)

\* Once buck2 has ended its requests it is told the end: no panic, full queue,
\* dead reporter or exhausted listing keeps it waiting.  Where it leaves instead,
\* what it had asked for is still finished, but the session then waits for ever
\* (unless the setup panicked): transport.rs keeps the server until the shutdown
\* that only the scheduler's return brings.
SessionEnds == buck # "sending" ~> endCalls = 1 \/ (Stranded /\ AllSettled)

\* What buck2 is promised, over what it can observe (SessionPromise).
Promise == INSTANCE SessionPromise WITH
    shown  <- announced,
    told   <- reported,
    owed   <- IF mode \in {"run", "list"}
              THEN {t \in Targets : task[t] \notin {"absent", "refused", "done", "crashed"}}
              ELSE {},
    sick   <- tainted # {} \/ fault \/ mode = "usage",
    closed <- IF endCalls = 0 THEN NoExit ELSE exit

ImplementsPromise == Promise!Spec
===============================================================================
