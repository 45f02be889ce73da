------------------------------ MODULE CommandLine ------------------------------
(***************************************************************************)
(* The command line of cli.rs: the options buck2 and the user give become  *)
(* a configuration, or an error that ends the runner before it connects.   *)
(* Operators only.  clap, which splits the words into the options of       *)
(* OuterCli and TpxConfig, is outside the repository: an invocation is a   *)
(* record of the options as given.                                         *)
(*                                                                         *)
(* An option that is only copied into the configuration is left out.       *)
(***************************************************************************)
EXTENDS Libtest

\* What resolve_transport needs: both descriptors, or both addresses.
Channels == {"executor_fd", "orchestrator_fd", "executor_addr", "orchestrator_addr"}

\* resolve_transport: descriptors are preferred.
Transport(outer) ==
    CASE {"executor_fd", "orchestrator_fd"} \subseteq outer -> "UnixFds"
      [] ~({"executor_fd", "orchestrator_fd"} \subseteq outer)
         /\ {"executor_addr", "orchestrator_addr"} \subseteq outer -> "Tcp"
      [] OTHER -> "missing"

\* The libtest options of TpxConfig, in the order direct_libtest_args writes them.
DirectOrder ==
    <<"--force-run-in-process", "--exclude-should-panic", "--test", "--bench", "--list",
      "--fail-fast", "--help", "--logfile", "--no-capture", "--test-threads", "--quiet",
      "--color", "--format", "--show-output", "-Z", "--report-time", "--ensure-time",
      "--shuffle", "--shuffle-seed">>

\* direct_libtest_args: filters, --exact and skips first; values maps a valued option to its word.
DirectArgs(tpx) ==
    LET order == Keep(DirectOrder, tpx.flags \cup DOMAIN tpx.values)
        written(o) == IF o \in tpx.flags THEN <<o>> ELSE <<o, tpx.values[o]>>
    IN tpx.filters
       \o (IF "--exact" \in tpx.flags THEN <<"--exact">> ELSE <<>>)
       \o FlattenSeq([i \in 1..Len(tpx.skips) |-> <<"--skip", tpx.skips[i]>>])
       \o FlattenSeq([i \in 1..Len(order) |-> written(order[i])])

\* effective_libtest_args: --test-arg words come first.
Effective(tpx) == tpx.extra \o DirectArgs(tpx)

\* The ignored policies asked for, by quokka's options or by a libtest word.
PoliciesAsked(tpx) ==
    (tpx.policies \ {"exclude"}) \cup ToSet(Parse(Effective(tpx)).policies)

\* --include-ignored and --ignored exclude each other.
Conflicts(tpx) == {"include", "only"} \subseteq PoliciesAsked(tpx)

Policy(tpx) ==
    LET asked == PoliciesAsked(tpx)
    IN IF "include" \in asked THEN "include" ELSE IF "only" \in asked THEN "only" ELSE "exclude"

\* A slip: a text listing is taken for any policy.
Errors_TextOnly(tpx) ==
    (IF Conflicts(tpx) THEN {"ignored"} ELSE {})
    \cup (IF tpx.shardIndex >= (IF tpx.shardCount = 0 THEN 1 ELSE tpx.shardCount)
          THEN {"shard"} ELSE {})
    \cup (IF tpx.noDurationDb /\ tpx.durationDb THEN {"duration-db"} ELSE {})
    \cup {o \in DOMAIN tpx.choices : tpx.choices[o] = "invalid"}

\* The reasons resolve_config has to refuse; which of them it names does not matter here.
Errors(tpx) ==
    (IF Conflicts(tpx) THEN {"ignored"} ELSE {})
    \cup (IF Policy(tpx) = "only" /\ tpx.choices["list-format"] = "text" THEN {"ignored-only"} ELSE {})
    \cup (IF tpx.shardIndex >= (IF tpx.shardCount = 0 THEN 1 ELSE tpx.shardCount)
          THEN {"shard"} ELSE {})
    \cup (IF tpx.noDurationDb /\ tpx.durationDb THEN {"duration-db"} ELSE {})
    \cup {o \in DOMAIN tpx.choices : tpx.choices[o] = "invalid"}

AtLeastOne(n) == IF n = 0 THEN 1 ELSE n

\* resolve_config: what the rest of the runner reads of a valid invocation.
Resolve(tpx) ==
    LET parsed == Parse(Effective(tpx))
    IN
    [policy |-> Policy(tpx),
     listFormat |-> tpx.choices["list-format"], runFormat |-> tpx.choices["run-format"],
     batchMode |-> tpx.choices["batch-mode"], chunkSize |-> AtLeastOne(tpx.chunkSize),
     threshold |-> tpx.threshold, overrides |-> tpx.overrides,
     logical |-> tpx.choices["cgroup-granularity"] = "logical-test",
     shard |-> [index |-> tpx.shardIndex, count |-> AtLeastOne(tpx.shardCount)],
     localDebug |-> "--local-debug" \in tpx.flags,
     stress |-> tpx.stress, stressLabelReps |-> AtLeastOne(tpx.stressLabelReps),
     flakyAttempts |-> AtLeastOne(tpx.flakyAttempts),
     helpOnly |-> parsed.help, usageError |-> UsageError(parsed),
     listOnly |-> parsed.listingOnly,
     extra |-> tpx.extra, direct |-> DirectArgs(tpx)]
===============================================================================
