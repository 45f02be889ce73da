-------------------------------- MODULE Answers --------------------------------
(***************************************************************************)
(* What one Execute2 of a test action comes to.  The action is a run of    *)
(* the Supervisor; buck2 hands back how it ended, the markers on stderr    *)
(* and the lines the harness printed, or ends the action itself at any     *)
(* moment, or answers with something else.  decode_response (result.rs)    *)
(* and parse_resource_failures (execution.rs) read that, run_group makes   *)
(* one outcome of it, and execute_test_action one verdict for each name.   *)
(*                                                                         *)
(* Each marker is taken to begin a line of stderr.  The marker of a test   *)
(* that left its last line unfinished is not read, unless the shell's      *)
(* notice of a killed job ended that line.                                 *)
(***************************************************************************)
EXTENDS Supervisor, Verdicts

SX == INSTANCE SequencesExt

CONSTANT MaxTests   \* names an action is asked for

ASSUME MaxTestsAssumption == MaxTests \in Nat \ {0}

VARIABLES
    action,      \* the names asked for, and whether they stand for a whole unit, constant
    lines,       \* the verdicts the harness printed
    reply,       \* what buck2 answered, NoReply until then
    outcome      \* what run_group makes of it

avars == <<vars, action, lines, reply, outcome>>

Actions == [names : {1..k : k \in 1..MaxTests}, whole : BOOLEAN]

NoReply == [kind |-> "none_yet"]

NoOutcome == [kind |-> "none_yet"]

\* A logical-test cgroup and a whole unit come with one name.
AInit ==
    /\ Init /\ action \in Actions
    /\ config.logical \/ action.whole => Cardinality(action.names) = 1
    /\ lines = <<>> /\ reply = NoReply /\ outcome = NoOutcome

-------------------------------------------------------------------------------
(* buck2 and the harness.                                                    *)

\* The verdicts the harness may have printed: none before it ran, no failure if it passed, none
\* of a whole unit (what the lines of doc tests do is TestAction's).
LinesPrinted ==
    LET verdicts == IF child = "passed" \/ status = "passed" THEN {"Pass"} ELSE {"Pass", "Fail"}
    IN IF action.whole \/ child \in {"none", "joining"} THEN {<<>>}
       ELSE UNION {[T -> verdicts] : T \in SUBSET action.names}

Result(s) == [kind |-> "result", status |-> s]

\* The status of the supervisor once it has ended, and the timeout of the request before;
\* anything else at any moment.
Replies ==
    {IF ~Ended THEN Result("timedout")
     ELSE IF pc = "exited" /\ status = "passed" THEN Result("exit0") ELSE Result("exitN"),
     Result("absent"), [kind |-> "absent"], [kind |-> "error"]}
    \cup [kind : {"cancelled"}, reason : {"queue_timeout", "not_specified", "absent"}]

-------------------------------------------------------------------------------
(* decode_response, decode_result.                                           *)

\* A slip: a result without a status counts as one that exited with 0.
Decode_AbsentIsZero(r) ==
    CASE r.kind = "result" -> [kind |-> "completed", raw |-> IF r.status = "absent" THEN "exit0" ELSE r.status]
      [] r.kind = "cancelled" /\ r.reason = "queue_timeout" -> [kind |-> "queue_timeout"]
      [] r.kind = "cancelled" /\ r.reason # "queue_timeout" -> [kind |-> "unspecified"]
      [] r.kind = "absent" -> [kind |-> "malformed"]

\* A result without a status exited with -1; a reason that is absent or unknown is none.
Decode(r) ==
    CASE r.kind = "result" -> [kind |-> "completed", raw |-> IF r.status = "absent" THEN "exitN" ELSE r.status]
      [] r.kind = "cancelled" /\ r.reason = "queue_timeout" -> [kind |-> "queue_timeout"]
      [] r.kind = "cancelled" /\ r.reason # "queue_timeout" -> [kind |-> "unspecified"]
      [] r.kind = "absent" -> [kind |-> "malformed"]

-------------------------------------------------------------------------------
(* The markers.                                                              *)

\* parse_resource_failures, of a marker with the words the supervisor gives it.
Parsed(marker) ==
    CASE marker = "setup" -> [kind |-> "Setup"]
      [] marker = "timeout" /\ config.logical  -> [kind |-> "LogicalTimeout", index |-> 0]
      [] marker = "timeout" /\ ~config.logical -> [kind |-> "ActionTimeout"]
      [] marker = "oom" /\ config.logical  -> [kind |-> "LogicalOom", index |-> 0]
      [] marker = "oom" /\ ~config.logical -> [kind |-> "ActionOom"]

Failed(status_, complete) == [kind |-> "failed", status |-> status_, complete |-> complete]

\* A marker that the action asked for cannot have printed.
Impossible(f) ==
    IF f.kind \in {"LogicalTimeout", "LogicalOom"}
    THEN ~config.logical \/ Cardinality(action.names) # 1 \/ f.index # 0
    ELSE f.kind \in {"ActionTimeout", "ActionOom"} /\ config.logical

\* A slip: what the harness said of the test is kept.
Apply_KeepHarness(o, f) ==
    IF o.kind = "failed" THEN o
    ELSE IF Impossible(f) \/ f.kind = "Setup" THEN Failed("InfraFailure", FALSE)
    ELSE IF f.kind = "ActionTimeout" THEN Failed("Timeout", TRUE)
    ELSE IF f.kind = "ActionOom" THEN [o EXCEPT !.oom = TRUE]
    ELSE LET verdict == IF f.kind = "LogicalTimeout" THEN "Timeout" ELSE "Fail"
         IN [o EXCEPT !.obs = [n \in action.names |-> IF n \in DOMAIN @ THEN @[n] ELSE verdict]]

\* One marker, on top of what those before it made of the action: the first that fails the
\* group decides, and one of a logical test is that test's verdict, whatever it printed.
Apply(o, f) ==
    IF o.kind = "failed" THEN o
    ELSE IF Impossible(f) \/ f.kind = "Setup" THEN Failed("InfraFailure", FALSE)
    ELSE IF f.kind = "ActionTimeout" THEN Failed("Timeout", TRUE)
    ELSE IF f.kind = "ActionOom" THEN [o EXCEPT !.oom = TRUE]
    ELSE [o EXCEPT !.obs =
            [n \in action.names |-> IF f.kind = "LogicalTimeout" THEN "Timeout" ELSE "Fail"]]

\* All of them, from the first to the last.
ApplyAll(o, failures) == SX!FoldLeft(Apply, o, failures)

-------------------------------------------------------------------------------
(* run_group and execute_test_action, once buck2 has answered.               *)

\* The outcome of the group; again: it is tried again while infra attempts last.
GroupOutcome(r, printedLines) ==
    IF r.kind = "error" THEN Failed("Fatal", FALSE)
    ELSE LET d == Decode(r)
             observed == [kind |-> "observed", obs |-> printedLines, raw |-> d.raw, oom |-> FALSE]
         IN CASE d.kind = "completed"     -> ApplyAll(observed, [i \in DOMAIN printed |-> Parsed(printed[i])])
              [] d.kind = "queue_timeout" -> [kind |-> "again"]
              [] d.kind = "unspecified"   -> Failed("Omitted", FALSE)
              [] d.kind = "malformed"     -> Failed("InfraFailure", FALSE)

\* buck2 answers, and ends whatever still runs.
Answer ==
    /\ reply = NoReply
    /\ lines' \in LinesPrinted /\ reply' \in Replies
    /\ outcome' = GroupOutcome(reply', lines')
    /\ UNCHANGED <<vars, action>>

\* What the attempt makes of name n.
Verdict(n) ==
    IF outcome.kind = "failed"
    THEN [status |-> outcome.status,
          integrity |-> IF outcome.complete THEN "Complete" ELSE "MissingTerminalResult"]
    ELSE Observation(n, outcome.obs, outcome.raw, outcome.oom, action.whole,
                     Cardinality(action.names) = 1)

\* A step of the action, until buck2 has answered.
Unanswered(step) == reply = NoReply /\ step /\ UNCHANGED <<action, lines, reply, outcome>>

ANext == Unanswered(Next) \/ Answer

\* The kernel runs the shells and the timer; nothing makes a test end, or buck2 answer.
AFairness ==
    /\ WF_avars(Unanswered(SupervisorStep)) /\ WF_avars(Unanswered(WatchdogStep))
    /\ WF_avars(Unanswered(Expires)) /\ WF_avars(Unanswered(Joins))

ASpec == AInit /\ [][ANext]_avars /\ AFairness

-------------------------------------------------------------------------------
(* Properties.                                                               *)

\* There are verdicts, and buck2 did not end the action before the supervisor had.
Judged == outcome.kind \in {"observed", "failed"}

RanToItsEnd == Judged /\ reply.kind = "result" /\ Ended

\* A passed test was reported as passed by the harness, or its whole unit exited with 0.  Unless
\* a signal stopped the supervisor, it was not killed, no process of its cgroup was killed for
\* memory and, on a remote worker, nothing of it is left: whatever the harness printed before
\* it was killed, the marker wins, and no broken answer of buck2 is a pass.
PassIsEarned ==
    \A n \in action.names : Judged /\ Verdict(n).status = "Pass" =>
        /\ IF action.whole THEN reply = Result("exit0")
           ELSE n \in DOMAIN lines /\ lines[n] = "Pass"
        /\ RanToItsEnd /\ signals = 0 =>
              /\ history.killer = "itself" /\ ~oom
              /\ config.remote => Left \subseteq Files

\* A test killed at its deadline is told as a timeout that a retry may still turn into a pass,
\* whatever it printed, unless it was also out of memory, a command failed or a signal came; and
\* a timeout is told only if a deadline passed, the supervisor's or the request's.
TimeoutsAreTold ==
    Judged => \A n \in action.names :
        /\ RanToItsEnd /\ history.killer = "watchdog" /\ ~oom /\ faults = 0 /\ signals = 0 =>
              Verdict(n) = [status |-> "Timeout", integrity |-> "Complete"]
        /\ Verdict(n).status = "Timeout" => history.expired \/ reply = Result("timedout")

\* An infrastructure failure is told only if the infrastructure failed: a command of the
\* supervisor, a signal to it, or buck2's answer; no marker of its own looks impossible.  And on a
\* remote worker a process or cgroup that is left, faults and signals included, is told to every
\* name, if not by the timeout of the action, whose marker came first: nobody can stay in the
\* supervisor's cgroup unseen.  Silent are only a signal that cuts a cleanup short and one that
\* comes between the making of the test's cgroup and its naming, which leaves that cgroup.
InfraIsTold ==
    Judged => \A n \in action.names :
        /\ Verdict(n).status = "InfraFailure" => faults > 0 \/ signals > 0 \/ reply.kind = "absent"
        /\ /\ RanToItsEnd /\ pc = "exited" /\ config.remote /\ ~(Left \subseteq Files)
           /\ ~history.cut /\ ~history.unnamed
           =>
              \/ Verdict(n) = [status |-> "InfraFailure", integrity |-> "MissingTerminalResult"]
              \/ ~config.logical /\ Told("timeout") /\ Verdict(n).status = "Timeout"

\* The supervisor always ends, even if the test never does, unless buck2 answers first or a
\* command failed: then the timeout of the request is what is left.
SupervisorEnds == <>(Ended \/ faults > 0 \/ reply # NoReply)
===============================================================================
