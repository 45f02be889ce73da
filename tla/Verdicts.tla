------------------------------- MODULE Verdicts -------------------------------
(***************************************************************************)
(* The pure decisions of the runner: what a verdict is, which verdicts are *)
(* failures, what a reported result does to the run, how one attempt is    *)
(* folded into the best seen so far, what a requested name that is absent  *)
(* from the harness output means, and when an action may use the cache.    *)
(* result.rs, caching.rs and the helpers of scheduler.rs.                  *)
(*                                                                         *)
(* Details, durations and memory figures never decide anything and are     *)
(* left out.  An operator named <Definition>_<Slip> is the definition with *)
(* a plausible slip in it: a run that checks a property must tell the two  *)
(* apart.                                                                  *)
(***************************************************************************)
EXTENDS Naturals

TestVerdict == {"Pass", "Fail", "Skip", "Omitted", "Fatal", "Timeout", "InfraFailure"}

Integrity == {"Complete", "MissingTerminalResult"}

\* A verdict that fails the run, before integrity and quarantine are considered.
IsFailure(v) == v \in {"Fail", "Fatal", "Timeout", "InfraFailure"}

ReportDispositions == {"Passed", "Skipped", "QuarantinedFailure", "Failure"}

\* A slip: the verdict is looked at before the integrity, so an omitted test
\* whose action was cancelled is counted as skipped.
ReportDisposition_VerdictFirst(status, integrity, quarantined) ==
    IF status = "Pass" THEN "Passed"
    ELSE IF status \in {"Skip", "Omitted"} THEN "Skipped"
    ELSE IF quarantined THEN "QuarantinedFailure"
    ELSE "Failure"

\* A slip: quarantine is forgotten.
ReportDisposition_NoQuarantine(status, integrity, quarantined) ==
    IF integrity = "MissingTerminalResult" THEN "Failure"
    ELSE IF status = "Pass" THEN "Passed"
    ELSE IF status \in {"Skip", "Omitted"} THEN "Skipped"
    ELSE "Failure"

\* A missing terminal result fails the run whatever else is known of it.
ReportDisposition(status, integrity, quarantined) ==
    IF integrity = "MissingTerminalResult" THEN "Failure"
    ELSE IF status = "Pass" THEN "Passed"
    ELSE IF status \in {"Skip", "Omitted"} THEN "Skipped"
    ELSE IF quarantined THEN "QuarantinedFailure"
    ELSE "Failure"

-------------------------------------------------------------------------------
\* The best observation of one name over its attempts.  NoObs: nothing yet.
NoObs == [status |-> "None", integrity |-> "None"]

Obs == [status : TestVerdict, integrity : Integrity]

Missing(o) == o.integrity = "MissingTerminalResult"

\* An incomplete observation is absorbing; otherwise the first pass is kept.
MergeBest(best, incoming) ==
    IF Missing(incoming) THEN incoming
    ELSE IF best # NoObs /\ (Missing(best) \/ ~IsFailure(best.status)) THEN best
    ELSE incoming

\* What the fold starts from when no attempt ever mentioned the name.
MissingObs == [status |-> "Fatal", integrity |-> "MissingTerminalResult"]

-------------------------------------------------------------------------------
\* How the process of an action ended.
ProcessOutcome == {"exit0", "exitN", "timedout"}

\* A slip: a clean exit proves nothing, for a whole unit either.
AbsentNameVerdict_NoWholeUnit(raw, wholeUnit, singleton) ==
    CASE raw = "timedout"                  -> "Timeout"
      [] raw = "exit0"                     -> "Fatal"
      [] raw = "exitN" /\ singleton        -> "Fail"
      [] raw = "exitN" /\ ~singleton       -> "Fatal"

\* The verdict of a requested name the harness reported nothing for.
AbsentNameVerdict(raw, wholeUnit, singleton) ==
    CASE raw = "timedout"                  -> "Timeout"
      [] raw = "exit0" /\ wholeUnit        -> "Pass"
      [] raw = "exit0" /\ ~wholeUnit       -> "Fatal"
      [] raw = "exitN" /\ singleton        -> "Fail"
      [] raw = "exitN" /\ ~singleton       -> "Fatal"

\* What one attempt makes of name n: obs is what the harness said of the names, oom that the
\* supervisor killed the whole action for its memory.
Observation(n, obs, raw, oom, wholeUnit, singleton) ==
    IF oom THEN IF singleton THEN [status |-> "Fail", integrity |-> "Complete"]
                ELSE [status |-> "Fatal", integrity |-> "MissingTerminalResult"]
    ELSE IF n \in DOMAIN obs THEN [status |-> obs[n], integrity |-> "Complete"]
    ELSE [status |-> AbsentNameVerdict(raw, wholeUnit, singleton),
          integrity |-> IF wholeUnit THEN "Complete" ELSE "MissingTerminalResult"]

\* Whether an action may be served from the test-execution cache.
CachingEnabled(cacheable, defaultVariant, stress, attemptIndex) ==
    cacheable /\ defaultVariant /\ ~stress /\ attemptIndex = 0
===============================================================================
