# Quokka, in TLA+

Quokka is a test executor for buck2: buck2 starts it, streams target specs to it
over gRPC, and quokka lists, runs, retries and reports the tests of every target
by calling buck2 back (`Execute2`, `ReportTestsDiscovered`, `ReportTestResult`,
`EndOfTestResults`). These modules model the parts of it in which order,
concurrency, failure or a chain of decisions decides whether a test run tells the
truth. TLC checks them on small instances; TLAPS proves the most important results
for every value of the constants. Paths below are relative to `src/` of the
repository unless they start with `docs/` or `tests/`.

## 1. Inventory

### Components

| Component | Code | State | Operations | Modelled in |
|---|---|---|---|---|
| session scheduler | `scheduler.rs` `run`, `drain_*`; `run.rs` `drive_to_completion` | intake loop, override targets seen, task set, exit code | receive a spec, end of requests, report overrides that never came, join tasks, fold the verdict, end of tests | `Session` |
| executor service | `executor_server.rs` | sender of the intake | `external_runner_spec`, `end_of_test_requests` | `Session` (`BuckSends`, `BuckEnds`, `BuckLeaves`) |
| reporter task | `scheduler.rs` `reporter_task` | verdict, tally, CI report writer, database | receive, fold a batch, report a result, drain and return | `Session`, `Verdicts`; the details of a result in `LogUpload` |
| target task | `scheduler.rs` `run_target`, `run_per_test_target`, `report_target_failure*` | plan, listing permit, action tasks | list, retry a listing, announce, fan out, join, fail as a whole | `Session`; what it lists and plans in `Pipeline` |
| test action | `scheduler.rs` `execute_test_action`, `run_group`, `isolate_failures`; `result.rs`; `caching.rs` | best observation of each member, budgets, attempt index | one attempt, its fold, retry, rerun one by one | `TestAction`, `Answers`, `Verdicts` |
| execution admission | `scheduler.rs` `acquire_per_target_admission`, the two semaphores | permits and waiters | ask, hold, hand over, drop | `Admission` |
| resource supervisor | `resource_supervisor.sh`, built by `execution.rs` | a shell with a watchdog, a timer, cgroups, two files, traps | run one supervised test, time it out, clean up | `Supervisor` |
| execution requests, resource markers | `execution.rs` | none | build a request; parse markers | `TargetPlan`, `Pipeline`; `Answers` |
| duration database | `duration_db.rs` | three sections, each a base file and a log; `db.lock`; records in memory | load, record, combine, flush, compact | `DurationDb` (flush), `Estimates` (samples and percentiles) |
| CI report writer | `scheduler.rs` `CiTestReportWriter` | temporary, destination and backup files, three flags | open, write, finish, roll back, clean up | `CiReport` |
| batching and sharding | `batching.rs`, `scheduler.rs` `shard_filter`, `build_batches` | none | partition the tests | `Batching`, `Pipeline` |
| translators, output parsing | `translator.rs`, `listing.rs` | none | the user's words, the harness's words, listings, run events | `Libtest`, `Pipeline` |
| command line, configuration | `cli.rs`, `config.rs` | none | options to a configuration or an error | `CommandLine`, `Pipeline` |
| policies, labels, environments, variants | `policy.rs`, `environment.rs`, `variant.rs`, `spec.rs`, `ids.rs` | none | labels to a plan | `TargetPlan`, `Pipeline` |
| orchestrator client | `orchestrator.rs` | a channel | RPC stubs | each call is a step that may fail; the stubs are not modelled |
| transport | `transport.rs` | the served connection | connect, serve until shutdown | which one is chosen in `CommandLine`; that it is served until the shutdown in `Session` (`BuckLeaves`) |
| database command line | `db_cli.rs` | none | print and merge stores | not modelled |

### How they interact

```
 command line --> configuration                 (CommandLine)
                      |
 buck2 --specs--> executor service --unbounded channel--> run (intake loop)
                                                            | spawns
                                                     target tasks --spawn--> action tasks
                                       plan, shard, batch |      |               |  semaphores
                                                       |   discovery RPC         v
                                                       |                  Execute2 --> supervisor --> harness
                                                       |                      |  <-- status, markers, lines
                                                       +---bounded report channel---> reporter
                                                                                       | ReportTestResult
 run <---------------- verdict -------------------------------------------------------+ CI report, database
  +--> EndOfTestResults(exit code)
```

Everything shared inside the process is a channel, a semaphore or a join handle,
with one exception, the temporary file of a long log, whose name two results may
share. Shared between processes are the database directory and the path of the CI
report. Between quokka and a supervised test there is only the exit status and
what is written to the two output streams.

### What is hard

* *Interleaving.* Every target and every batch is a tokio task; `run` itself
  sends on the bounded report channel; the reporter may die while others send. A
  signal may reach the supervisor between any two of its commands, while its
  watchdog, the timer, the test and the kernel's OOM killer go on.
* *Partial failure.* A panic is caught in three places (`run_target`'s
  `catch_unwind`, the join sets, `drive_to_completion`); each must end in a
  failing verdict, and never in a missing result with a green exit code.
* *Order.* Discovery before results; results before the end; attempts folded in
  order into a best observation that is not commutative.
* *Retries.* Four budgets (listing, queue timeouts, action timeouts, failures)
  and one attempt index that decides whether a request may be cached.
* *Two semaphores held at once*, and the fairness the FIFO one is relied on for.
* *A protocol whose peer may leave.* The server outlives buck2's connection, and
  with it the intake that `run` waits for.
* *One stream for two speakers.* The harness's verdicts and what a test prints
  uncaptured share the lines that are decoded.
* *A deadline that passes while the test ends*, and a test that has printed its
  verdict and is killed afterwards.
* *Files of other processes.* A lock file that is broken and given up, logs that
  are appended to and truncated, and crashes in between.
* *Rollback of a rollback.* The CI report is replaced in steps, each of which may
  fail, the undoing included.
* *A chain of translations.* The user's libtest words, quokka's own options, a
  listing in one of two formats, shards, batches and the words of each request must
  come to what libtest alone would have run.

`PROJECT.json` lists these as hazards at the lines where they bite, with the
properties meant to catch each.

### What makes each component correct

* Session: green only if nothing is wrong, red only for a reason, no result lost
  between task and summary, discovery before results, exactly one end.
* Test action: one result per member, which says what the attempts showed;
  budgets used up and not exceeded; no retry served from the cache.
* Supervisor and answers: it ends; nothing outlives it; no killed, leaking or
  unanswered test passes; a deadline is a timeout, a broken supervisor an
  infrastructure failure.
* Admission: permits conserved, small targets not starved, nobody stuck.
* Command line to output: what runs is what the user's words select, once, where
  the labels want it, and what the harness says of it is what is decoded.
* Duration database: what was saved is there and is counted once, up to
  compactions that were cut off.
* CI report: the earlier report is never lost; failure leaves no trace.

## 2. Modules

| Module | What it is |
|---|---|
| `Verdicts` | pure operators: verdicts, report disposition, folding of observations, the verdict of a name the output does not mention, when a request may be cached |
| `Session` | one test session, with its properties and its inductive invariant `Inv` |
| `SessionPromise` | what buck2 may rely on, over what it can observe; `Session` implements it |
| `TestAction` | one action task and its concurrent reruns |
| `Supervisor` | the supervising shell with watchdog, timer, cgroups, signals |
| `Answers` | `Supervisor`, buck2's answer, and what `run_group` makes of both |
| `Admission` | the two levels of execution permits |
| `Libtest`, `CommandLine`, `Batching`, `TargetPlan`, `Estimates` | operators: the libtest translator, the configuration, batches and shards, labels, expected durations |
| `Ordering` | operators: the filter and the stable sort these are built from |
| `Pipeline` | an invocation from its command line to its decoded output, over those five |
| `LogUpload` | the long details of results on their way to the CAS |
| `DurationDb` | concurrent flushes of the database |
| `CiReport` | the CI report writer |
| `SessionProofs`, `TestActionProofs`, `AnswersProofs`, `PipelineProofs`, `AdmissionProofs`, `DurationDbProofs`, `CiReportProofs` | theorems |
| `FoldProofs` | lemmas on folds over sequences, which the proofs of `Session`, `Answers` and `Pipeline` share |
| `MC*` | instances for TLC |

The modules are joined at their boundaries: an action task is one step of
`Session` (`ActionFinishes`, with any batch of `Batches`) or its panic, and a
whole behaviour of `TestAction`; an attempt of `TestAction` is one round of
`Admission` and one behaviour of `Answers`, whose verdicts for one attempt are of
the form `TestAction` folds (`Observation` of `Verdicts` is used by both). What
`TestAction` delivers is of the form `Session` takes (a status, an integrity and
whether the test is quarantined). A request of `Pipeline` is what an action of
`TestAction` starts with.

In every module an operator `X_<what>`, beside `X`, is `X` with a plausible slip
(`Send_OneTooMany`). No specification uses it; `PROJECT.json` pairs each property
with one under which TLC finds it violated.

### Session

Each task is a pc: `main` for `run` and `drive_to_completion` (`setup`, `intake`,
`missing`, `closing`, `returned`, `ended`; `drain` for help and usage errors),
`task[t]` for a target's task, `action[t][b]` for its action tasks, `rep` for the
reporter. `intake` is the unbounded channel, `chan` the bounded one: `Send` waits
for room, and returns at once when the reporter is dead. A task that panics
outside `catch_unwind` becomes `crashed`, which only the join set sees
(`AnyTargetPanicked`).

Faults are actions no fairness covers: `RejectSpec`, `UnknownType`, `TaskPanics`,
`TargetPanics`, `InvalidOverride`, `ActionPanics`, `ReporterPanics`,
`SetupPanics`. The last stands for what can panic in `run` before the intake
loop: a limit larger than a semaphore can hold.

`tainted`, `fault` and `produced` are history: which targets have given a reason
to fail the run, whether something else has, and how many results were handed
over. No guard reads them.

`BuckLeaves` is buck2's connection closing without `end_of_test_requests`. Nothing
learns of it: the incoming stream of `serve_connection` pends for ever
(`transport.rs:129`), so the server keeps the sender of the intake until the shutdown
that `run.rs:64` sends once the scheduler has returned, and the scheduler waits for
that intake. The session is then `Stranded`. (So `IntakeEnds` is a queued end of requests,
never the end of the channel.)

Left out: the reporter's use of the CI report and of the database, neither of
which can change the verdict; console output; specs sent after
`end_of_test_requests`, which buck2 does not send.

### TestAction

`run[x]` is the loop state of one call of `execute_test_action`: the batch's, and
one for each member that is rerun alone. `Request` is the call of `Execute2`, with
the caching it asks for; the disjuncts of `Answer` are what comes back; each of
them folds the attempt (`FoldBest`) and goes straight on to what follows (`After`):
return, retry, rerun. `seen`, `harness`, `asked`, `spent` and `exits` are history.

Answers are enumerated: `Reports` gives, for each kind of target, what the
harness output may say of the requested names; a member may be missing from it.
A test's output is taken to name tests that were asked for, or, for a doc-test
target, the tests inside it. A rerun that panics is left to `Session`, where the
whole action task panics.

### Supervisor

One step is one command of the shell, or a group of commands no other process can
tell apart. `named` is which of its `quokka_` variables are set: the cleanup finds
processes, files and cgroups through them alone. What is forked is named one
command later (`Fork`, `Record`), and so is the cgroup of a test or an action: it is
made (`Create`, line 146), its files are written, and then the variable that the
cleanup looks at is set (`Name`, lines 244 and 279). The supervisor's own cgroup is
named by the command that makes it (`Begin`). `traps` and `cleaning` decide what a `Signal`
does. `child`, `watchdog` and `timer` are the other processes; a timer that has
ended is a zombie until the watchdog waits for it, which is why `TimerReaped` looks
at the test again before it writes the marker file. `files` and `cgroups` are what
is on the machine. `OomKill`, `TestEnds` and `Expires` are the kernel's and the
test's. Every command that may fail does so at most `MaxFaults` times, before it
has an effect, and goes to `quokka_fail`.

Left out: the controllers a cgroup delegates and the values written to its files,
the polls of the wait loops, pids used again, and several logical commands in one
action, which `run_group` never builds.

### Answers

The variables of `Supervisor`, and what was asked for, the lines the harness
printed, buck2's reply and the outcome. `Answer` may come at any moment: before the
supervisor has ended it is the timeout of the request, a cancellation or a failure.
`Decode` is `decode_response` with `decode_result`; `Parsed` gives a marker the words
the supervisor printed it with; `Apply` is the match in `run_group`, folded over the
markers in the order they were printed; `Verdict` is what the attempt makes of a
name. A marker is taken to begin a line of stderr. (A test that leaves its last
line unfinished hides the next marker, unless the shell's notice of a killed job
ends that line; this is a hazard without a property.)

### Admission

`Ask`, `Leave` and `HandOver` are tokio's semaphore (external): FIFO, a released
permit goes to the first waiter. `passed` is history and is reset when the action
gets its permit. `MaxAttempts` bounds how often an action comes back.

### From the command line to the output

Six modules hold operators only, and `Pipeline` composes them.

* `Libtest`: the translator. `Parse` is the fold of `LibtestUserArgs` over the
  user's words; `ListingArgs` and `ExecutionArgs` are the words quokka gives the
  harness; `ParseListing` and `Decode` read what it prints. The harness itself
  (`Harness*`) is external: its operators say what the code, and the harness script
  of `tests/scheduler_integration.rs`, rely on. Words are strings of a small
  vocabulary and a line of output is the event it carries.
* `CommandLine`: `Errors` and `Resolve` are `resolve_config`, `DirectArgs` the
  libtest options written back as words, `Transport` the choice of a channel. clap,
  which splits the words into options, is external; an option that is only copied is
  left out.
* `Batching`: `ShardFilter`, the three modes of `Partition` with the heap of
  `Chunks`, and `BuildBatches`. The hash of a test is any function.
* `TargetPlan`: `Profile` and `Derive` make a plan of the labels, `OnRequest` puts it
  on a request, `MemoryMax` chooses the cgroup limit.
* `Estimates`: the newest samples of each environment and their percentiles.
* `Ordering`: `Keep` is `Iterator::filter`, `HeaviestFirst` the stable `sort_by_key` with
  `Reverse`. Both are folds, so that tlapm can reason about them.

`Pipeline` has one action per stage: `Configure`, `ListTests`, `PlanShards`, `Run`.
Every shard is an invocation of its own, and plans with a database of its own. `Run`
lets the harness run one request and crash at any line. Between the start of a test
and its verdict anything of `Meanwhile` may reach the output: the notice of a slow
test, and what the test prints, of itself or of others, or what an earlier one has
left running to print. In text such output first completes the line the harness has
begun, and `decode_text` takes its first word for the verdict; the harness's own
verdict may be lost behind it (`garbled`). No option has to be given for that:
libtest captures `print!`, and not what a child or a write to the descriptor says.
`by` is who printed a line, which the decoder does not know.

Exempted by the properties or the inputs, each because the code does otherwise: the
whole-target mode of an unsharded target names no tests and passes no filters
(`scheduler.rs:1868`), so tests the filters leave out run too; a target whose hardware
labels conflict falls back to the default profile and loses its exclusivity
(`scheduler.rs:1020`); words after a literal `--`, and the value of `--filter`, reach
the harness as they are (`translator.rs:693`, `638`), so that one with a dash is an option
there (`PlainFilters`: of the inputs, `--filter --skip` makes the harness skip what quokka
lists, and `-- --unknown`, which libtest takes, makes it refuse the listing); libtest itself has no `--filter`, so with it there is nothing to compare a
selection with. A verdict that one test prints about another is believed, and
`DecodesHarness` leaves such tests out; a verdict a test prints about itself stands where
the harness's never comes, which is the finding of `pipeline_spoken`.

Assumed of libtest, which is not in the repository: the JSON listing keeps the flag that
says which tests are ignored; a line of a run carries the name as it was listed (in text,
libtest adds ` - should panic` to some); and `--force-run-in-process` needs no unstable
options, as `translator.rs:654` has it.

### LogUpload

`Inline` and `Finish` are `finalize_details` for short texts, `Open`, `Write`,
`Upload` and `Remove` the steps of `upload_details_to_cas`. Texts are abstract, and
two texts with one hash are left out: two results with the same text are enough.

### DurationDb

One process is one `flush`; a step is one file operation or one section's loop
body. A batch of records is named by the process that appended it, and a base file
is the number of times it counts each batch: the 64-sample cap of durations and
what is computed from them are `Estimates`'. `Torn` is what a failed append leaves;
the records of the log after it are taken as unreadable (`Logged`).
`lapsed`, `damaged` and `replays` are history: that somebody went on without the
lock or broke the lock of a live process; which sections had a torn log or an
unreadable file; how many compactions ended between the rename and the truncation.

Left out: the load of a session that starts, which takes no lock, and whose result
is never written back; the temporary file of an interrupted compaction, which
nobody reads.

### CiReport

A step is one file operation, as the code groups them; each may fail, and `Kill`
may come between any two. The JSON is abstracted to `partial` and `new`. Two
sessions that write to the same path at the same time are not modelled.
One thing the model shows and no property condemns: when there was no earlier
report, and removing the new one succeeded but syncing the directory failed, the
error names the destination as the place to recover from, and nothing is there.

## 3. Runs

| Run | Question | Bounds |
|---|---|---|
| `session` | safety of a session, that it implements `SessionPromise`, whether it ends when buck2 ends it, and what becomes of one buck2 leaves | two targets: up to two actions and a memory override, and one action; two kinds of batches; channel and listing permits of 1; listing retried once; all four modes |
| `isolated` | batches whose failures are rerun one by one | two members, each with or without flakes, budgets 1 and 2, no infra retries |
| `retried` | batches that are only retried; one test by itself or a custom binary, at both cgroup granularities | two members or one, budgets 1 and 3, infra budget 3 |
| `whole_doctest` | verdict of a doc-test target (*violated*) | one synthetic test, one doc test inside |
| `answers` | supervised actions, their ends and their answers | local and remote, both granularities, one or two names or a whole unit; two signals, one failing command |
| `pipeline` | from the command line to the output | some four hundred invocations with their targets; three tests, one a substring of another, three binaries; up to two shards; two samples; batches of two |
| `pipeline_spoken` | what a test can say of itself (*violated*) | one invocation in text without capture |
| `upload_race` | the head of a long log (*violated*) | two results with one text, one short one, no failures |
| `admission` | two levels of permits | a target of three actions, one of one; two permits per target, one global; two attempts |
| `duration_db` | concurrent flushes under the lock | three processes, two sections, compaction above one batch |
| `duration_db_unlocked` | the same when the lock is given up (*violated*) | two processes, compaction above no batch |
| `ci_report` | the CI report | three results |

Why these are enough to be worth running:

* Two targets and a channel of one message make every sender wait for every
  other, `run` included. With two actions a target has one that panics while the
  other finishes, and the second target's interleaves with both. The batch of two results has a quarantined failure and a
  success; the batch of one is a cancelled test, `OMITTED` and yet not complete:
  the two kinds the disposition tells apart by something else than its status.
  A retried listing only goes back to waiting for its permit, so one retry is enough,
  and the theorems hold for any number of them and of actions.
* Isolation needs a batch of two: one member passes while the other is rerun, or
  both reruns interleave. `isolated` sets the infra budget to 1 to keep the product
  of two reruns small; `retried` has the budgets, and a member with a flake has
  another budget than one without. `isolated` is reduced by the symmetry of its
  members; `retried`, which checks liveness, is not.
* A second signal is what cuts a cleanup short, and one fault is enough to send the
  supervisor to its cleanup from every command, and the cleanup itself to
  `quokka_fail`. Two names are what makes a verdict unattributable.
* `a`, `ab` and `b` make a filter match more than one name and `--exact` matter; with
  three tests, chunks of two leave a rest, and two shards are one, or both, not
  empty. The four families of scenarios each vary what one stage decides: the words
  (`Selecting`), odd words (`Odd`), batches, shards and repetition (`Planning`), the
  labels and overrides (`Labelled`). The outputs of runs are explored for the
  scenarios of `MCObserved`, in both formats; `MCMeanwhile` has a test that claims a
  pass, one that claims another's failure, and notices with and without either.
* One global permit and two per target let three actions of the big target meet
  at both gates, and the small one come last.
* Two sections show that a failure of one leaves the other alone, and one of them
  is `names`, which is inserted and not added up; durations take the same path as
  outcomes. Three processes are the least with which one compacts, one appends and
  one breaks a lock. `Sound`, a state constraint, ends the exploration where the
  lock has lapsed or a file is damaged: `OneFlush` promises nothing from there, and
  the other two nothing of that section. `duration_db_unlocked` has no constraint.

`answers`, `pipeline`, `pipeline_spoken` and `upload_race` do not check for deadlock:
an action that was answered, an invocation that was refused or decoded, and results that are made, are
over, and these models have no step that says so again.

### What the properties say

`session`: `NoFalseGreen` (exit code 0 means that nothing happened that must fail
the run), `NoFalseRed` (the converse), `NothingLost` (what tasks handed over is
counted, queued or in hand), `DiscoveryFirst`, `EndIsLast`, `ImplementsPromise` and
`SessionEnds`; `TypeOK`, which bounds the channel.

`isolated`: `OneResultEach`, `FaithfulOutcome` (missing if any attempt left it so,
else pass if any attempt passed), `ObservationsKept` (what the database is told of a
member is what the harness reported, once for each physical attempt),
`RetriesRunFresh`. `retried`: `FullBudget`, `AttemptsBounded`, `RetriesNarrowed` (what
an attempt runs is what it waits for), `WholeUnitVerdict` (for a custom binary),
`Returns`, and `RetriesRunFresh` again, here over queue timeouts.

`SessionEnds` has two halves: once buck2 has ended its requests it is told the end;
once it has left, what it had asked for is still finished, and then the session waits
for ever, unless the setup panicked. The second is what the code does and not what one
would wish; no text promises more.

`answers`: `NothingLeft` (after any signal but one between a fork, or the making of a
cgroup, and its record, or in a cleanup), `SupervisorEnds`, and of the verdicts `PassIsEarned`,
`TimeoutsAreTold` and `InfraIsTold`. The first says for instance that a test that
printed its pass and hung until its deadline has not passed; the last that on a
remote worker, whatever failed, a process or cgroup that is left is told, unless a
signal came while a cgroup had no name yet or cut a cleanup short. A process that a
signal between a fork and its record leaves is told there, because it keeps the
supervisor's cgroup from being removed.

`pipeline`: `RunsWhatWasListed`, `SelectionIsLibtests` (all shards together execute
what the user's own words would make libtest execute), `PlannedOnce`, `ArgsAccepted`
(words libtest takes never come to words it refuses), `LabelsHonoured`,
`DecodesHarness` (of a test that no other test talks about, the verdict of the harness
is what is decoded, whatever the test printed of itself before; and one without a
verdict that has printed none is never passed, failed or skipped).

`admission`: `PermitsConserved`, `GlobalQueueShared`, `BoundedGap`, `EachEnds`.
`duration_db`: `NothingLost`, `ReplaysBounded`, `OneFlush`. `ci_report`:
`AReportSurvives`, `FailureRestores`, `RecoveryNamed`, `FinishIsClean`.

### What they found

1. *Doc tests* (`whole_doctest`). `execute_test_action` folds the names of a doc-test
   target's output in place of the synthetic name it was asked for
   (`scheduler.rs:2238`), so that name is never observed: when the output can be
   parsed, the target is retried to the end of its budget and reported `FATAL`,
   without a terminal result, although it exited with 0. `scheduler.rs:1692` and
   `:2858` say that its verdict is the exit code. When the output has no test lines
   it is.
2. *The database lock* (`duration_db_unlocked`). `flush` gives up on `db.lock` after
   two seconds and goes on. What it appends between another process's load and its
   truncation of the log is lost, and nobody is told.
   `docs/duration_db_architecture.md:90` and `:97` promise otherwise. (The same
   document has appends take no lock at all and only compaction take it; the code
   takes the lock for both.)
3. *The temporary file of a long log* (`upload_race`). Its name is the process and a
   hash of the text (`scheduler.rs:2717`), so two passing tests with the same long
   output share it: one's write cuts it, or its removal removes it, under the other's
   upload. `scheduler.rs:2720` says of the name that it "avoids collisions", and the
   result says "full log in CAS" although it is not.
4. *A verdict of the test's own* (`pipeline_spoken`). Whoever prints it, the first word
   behind ` ... ` is the verdict (`translator.rs:873`). Uncaptured output that begins with
   `ok` makes a test pass that then fails or crashes, if the harness's own verdict is
   lost in the rest of the line or never comes; the exit code is not asked.
   `result.rs:408`: "A test that never produced a verdict must not read as a pass."

One more thing the model of the supervisor has, which no run counts as violated
because `NothingLeft` leaves it out: a test that was forked is only found by the
cleanup once its pid is stored, one command later (`resource_supervisor.sh:267`), and a
first signal in between leaves it running on a local worker, without a word; the same
holds of the watchdog (313), and of a cgroup between its making (146) and its name (244,
279). `tests/resource_supervisor_watchdog_test.rs:135`,
`signals_exit_and_clean_all_owned_processes_and_files`, sends its signal after that.

### Fairness

`session` assumes that as long as `run`, the reporter, a target's task or an action's
task can take a step, one of them does: they are tokio tasks on a multi-threaded
runtime, woken when what they wait for arrives, and an RPC that buck2 accepted is
answered. Each takes finitely many steps, so weak fairness of all of them together is
enough, for the channel and the listing permits too. Nothing obliges buck2 to send or to
end its requests: `SessionEnds` begins where it has ended them, or has left. No fault
is fair. `retried` and `admission` assume of each action that it takes a step when it
can, and that every `Execute2` is answered; a test that hangs is ended by buck2 with
the timeout the request carries.

`answers` assumes that the kernel runs the shell, its watchdog, the process that
joins its cgroup, and the timer. Nothing makes a test end, and nothing makes buck2
answer: `SupervisorEnds` says that the deadline alone ends the action.

The other runs assume none.

## 4. Proofs

All are checked by TLAPS, from the assumptions on the constants that each module
names and nothing else.

* `SessionProofs!TypeCorrect`: `Spec => []TypeOK`. One lemma for each group of
  actions; sends to the channel share a lemma on `Send`.
* `SessionProofs!SafeGreen`: `Spec => []NoFalseGreen`, for any set of targets, any
  limits and any set of batches. `NoFalseGreen` speaks of the moment the exit code
  is set, and is far from inductive. The invariant follows the reason to fail the
  run on its way: `TaintTravels` says that for a tainted target the reason is still
  with its task (`Travelling`), or in the channel, in the reporter's hands, or in
  its verdict (`Blamed`); `FaultTravels` the same for failures of no target;
  `IntakeOrder` that a queued spec is in the intake before the end of requests;
  `Phases` ties `main` to the rest: the exit code is set only when the tasks are
  joined and the reporter has returned, which it does only with an empty channel.
  `Inv` is their conjunction with `TypeOK`. That a result that must fail the run
  (`MustFail`) is one the reporter blames (`Blocking`) is a lemma about
  `ReportDisposition`.
* `SessionProofs!EachIsCounted`: `Spec => []NothingLost`, for any number of results. What
  was handed over is what the reporter has counted, plus the `Load` of the channel, which
  is a sum over a sequence, plus what a task still holds of a closed channel. The lemmas
  say what `Append` and `Tail` do to that sum; each step then moves a weight from one
  place to another.
* `FoldProofs`: that a fold over a sequence is a sequence of values, each the step of the
  one before. tlapm knows a fold by its definition, a `CHOOSE` of a recursive function, so
  that one exists has to be proved: by induction on the length, as "there is no least
  length for which there is none" (`EveryNatural`, from `WFMin`).
* `SessionProofs`, second part: `RedForAReason` (`NoFalseRed`), `DiscoveredFirst`
  (`DiscoveryFirst`), `EndToldLast` (`EndIsLast`) and `PromiseKept`
  (`ImplementsPromise`), from `RInv`, which adds to `Inv` the way back: nothing blames
  the run without a reason (`Reasons`), nothing has happened where nothing was started
  (`Quiet`), what is said of a target comes after its discovery (`Shown`), and the end
  is counted (`Ending`). The refinement is a simulation: `EndOfTests` is the step
  `Close` of `SessionPromise`, every other step before the end is `Work` or a stutter,
  and after the end nothing that buck2 observes changes.
* `TestActionProofs`: `OneResultForEach`, `ResultsAreFaithful`,
  `ObservationsAreKept`, `BudgetIsUsedUp`, `RetriesAreNarrowed`, `AttemptsAreBounded`
  and the action property `RetriesAreFresh`, for any batch, budgets and answers. The
  invariant says which run is live for a member, the batch or its rerun (`Phases`),
  and of that run (`Flight`) that what it waits for still fails (`Narrowed`), that its
  counters are within the budgets (`Within`), that its best observation is what the
  attempts said (`Knows`), and that a member that still fails was given the attempts
  that were counted (`Paid`); `Ended` is what follows when it returns. `Fresh`: before
  the attempt with index 0 nobody was run. `ExitCodeIsVerdict`: `WholeUnitVerdict` for
  every action but a doc test, from `UnitInv`, which says what the ends so far are to the
  batch's best observation; for doc tests it is false, which is the finding of
  `whole_doctest`.
* `AnswersProofs`: `NoLeftovers` (`NothingLeft`), `PassesAreEarned` (`PassIsEarned`),
  `TimeoutsTold` (`TimeoutsAreTold`) and `InfraTold` (`InfraIsTold`), for any number of
  signals and failed commands and any tests. `Tied` is the supervisor's invariant: every
  process, file and cgroup is tied to the variable that names it (`NamedInv`,
  `CgroupInv`), a cleanup unnames only what it has dealt with (`CleanedInv`), and each way
  of losing the tie (a signal between a fork or the making of a cgroup and its record, a
  failed command, a cleanup cut short) is told or recorded (`TroubleInv`, `TrapsInv`); `KillerInv`, `OomInv` and
  `DeadlineInv` say who ended the test and which marker tells it. The other half is what
  `run_group` makes of the markers: `Stands` says what the group is after the first `k`
  of them, `After` is proved of every `k` through `FoldProofs`, and `Answered` puts the
  two together at the moment the answer is read.
* `PipelineProofs`: `PlansAreWhole` (`PlannedOnce`) and `LabelsAreHonoured`
  (`LabelsHonoured`), for any tests, labels, options, recorded durations, hash and number
  of shards. The invariant `PlanInv` says what the options, the listing and the requests
  are at each stage; the rest is about operators. Filters and sorts keep or permute what
  they are given (`KeepFacts`, `SortFacts`). A list of batches is a `Cover` of its tests
  when each test is in exactly one place of one batch; each loop of `Batching` keeps that
  as it goes, through the sequence of values of its fold. That the heap of `chunk_fixed`
  is never empty when a test is taken, and that no chunk stays empty, is arithmetic of the
  cells: as many chunks as `div_ceil` says have room for every test, so one is open, and
  one chunk fewer would not have, so that an empty one would leave a test over
  (`CellsFacts`, `CountFacts`, `ChunkStep`). Which open chunk is the lightest does not
  matter to it. The shards of
  different invocations are disjoint by the hash (`ShardFacts`), though every one plans
  with estimates of its own, and the repetitions of a batch are the blocks of a list of
  requests (`BlockFacts`). The labels are a fold in which exclusivity, once asked for,
  stays (`AskedFacts`).
* `PipelineProofs`, the words: `ListedIsRun` (`RunsWhatWasListed`), `UsersChoiceIsRun`
  (`SelectionIsLibtests`) and `WordsAreAccepted` (`ArgsAccepted`), for any words of the
  user, policy, formats, binaries, batches and shards. Four folds go over words that are
  the same in part: what quokka makes of the user's (`Parse`), what plain libtest makes of
  them, and what the harness makes of a listing's and of a run's. `Passed` relates them
  after each word of the user: quokka and libtest are equally far (`Learns`), and each
  command has the filters, skips and options that it is meant to have, and none twice
  unless the user's words have it twice (`Channel`, `Follows`, `Alone`). It holds behind quokka's own
  words (`ListingRead`, `RunRead`, `WholeRead`), each word keeps it (`PassedStep`), and so
  it holds at the end (`PassedAll`, `CommandsRead`). What follows: a request that names
  its tests shows those and no others (`NamedIsReported`); a listed
  name passes the user's filters, and every test the user asks for is listed
  (`ListingLists`), which needs that a text listing is never combined with the policy "only"
  (`PolicyAgrees`, from the check in `cli.rs`); a request runs what the policy selects of
  its names (`NamedRuns`), and a doctest target runs what the user's words select
  (`WholeRuns`); and with the plan, in which each listed name has a request
  (`EachIsPlanned`), the union is the user's choice (`PlanSelects`). Quokka gives
  no option that it also passes on, so none is there twice (`CommandsAccepted`).
  `PlanInv` is stronger than `PlansAreWhole` needs: what is kept are exactly the names of
  the listing (`FromListing`), what `history` remembers is what the invocation said
  (`Remembered`), and a listing that is refused was not sensible.
* `PipelineProofs`, the output: `DecodingIsRight` (`DecodesHarness`), for any tests, any
  output of theirs and any run. What a run prints is an `Account`: once the harness gave a
  test its verdict, neither it nor the test says more of it. That is so of the lines of one
  test (`LinesOfFacts`), of those of one test behind another's (`AccountJoined`), and of what
  is left after a crash (`AccountCut`). Of an account, and of a test that nobody else talks
  about, the fold of `Decode` keeps the harness's verdict, and reads none if nobody gave
  one (`DecodeFacts`).
* `AdmissionProofs`: `PermitsAreConserved`, `QueueIsShared` and `GapIsBounded`, for any
  targets, actions and limits. Who waits at a gate stands in its queue exactly once,
  and a queue is empty or its gate has no free permit (`Permits`); who has passed a
  waiting action, and those of the same target that still stand before it, are together
  no more than the target's permits (`Gap`).
* `DurationDbProofs`: `FlushIsExclusive`, `SavedStays` and `ReplaysAreBounded`, for any
  number of processes and sections. `Locked`: while the lock was respected, whoever is inside holds it.
  `Safe`: a batch that was saved is in the base or the log of its section; it is only
  inductive with `Covered`, which says at each step of a compaction what the process
  has in memory or on disk of what it is about to truncate. `CountInv` is its counterpart
  for the upper bound: a batch is nowhere before its append, the log has it at most once,
  and what a process has loaded is no more than what is on disk.
* `CiReportProofs`: `ReportSurvives`, `FailureIsUndone`, `RecoveryIsThere` and
  `FinishLeavesOnlyTheReport`, from an invariant that says for each step of the writer
  where the old report is and what the three flags claim of it.

Model-checked only:

* liveness (`SessionEnds`, `Returns`, `EachEnds`, `SupervisorEnds`), which is out of
  this prover's reach;
* the four findings, which are counterexamples.

## 5. Plan

Done: every module of section 2, and the theorems of section 4.

Left, in this order:

1. The load of a starting session, which may see a batch twice or not at all during a
   compaction; flake counts and the annotations made of them.
2. A rerun that panics inside `join_all` (`scheduler.rs:2549`), in `TestAction`.
3. Two sessions on one CI report path.

### Not modelled

* `orchestrator.rs`, and of `transport.rs` the opening of channels: stubs and sockets; each
  call is a step that may fail in the module that makes it.
* `db_cli.rs`: prints and merges stores by hand, sequentially, and ends in the flush
  that `DurationDb` models.
* `main.rs`, `lib.rs`, `proto/`: start-up and generated code.
* Formatting: console lines, failure blocks, attempt histories, help, printed lists.
  No property is about their wording.
