-------------------------------- MODULE Pipeline -------------------------------
(***************************************************************************)
(* From the command line to the results of one target, for one shard count *)
(* and all its shards: the invocation is resolved, the target listed, each *)
(* shard's tests are batched and put on requests, the harness runs one of  *)
(* them and its output is decoded.  The shards are invocations of their    *)
(* own that differ in their index, and see duration databases of their     *)
(* own.  What happens between a request and its response is Session's and  *)
(* TestAction's.                                                           *)
(***************************************************************************)
EXTENDS CommandLine, Batching, TargetPlan, Estimates

CONSTANTS
    Whole,         \* the one name of a target that is not listed
    NameOrder,     \* the order in which the harness lists and runs
    Suites,        \* what the binary may hold, each a set of Test
    Connections,   \* the channel options buck2 may give
    Scenarios,     \* command lines, each with the type and labels of the target that buck2 sends
    Observed,      \* the scenarios for which every output of a run is explored
    Meanwhile,     \* what may reach the output between the start of a test and its verdict
    Hashes,        \* what fnv1a may make of the names
    Databases      \* what a duration database may hold: the runs of each name

\* The harness's notice that the test it is running is slow.
Notice == [event |-> "slow"]

ASSUME InputsAssumption ==
    /\ \A s \in Suites : s \subseteq Test
    /\ NameOrder \in Seq(Names) /\ IsInjective(NameOrder) /\ ToSet(NameOrder) = Names
    /\ Whole \notin Names /\ {"all", "panic"} \cap (Names \cup {Whole}) = {}
    /\ Hashes \subseteq [Names \cup {Whole} -> Nat]
    /\ Databases \subseteq [Names \cup {Whole} -> Seq(TestRun)]
    /\ Meanwhile \subseteq Seq(Event \cup {Notice}) /\ "harness" \notin Names
    /\ \A s \in Scenarios :
         /\ s.target.type \in TargetTypes /\ s.target.labels \in Seq(STRING)
         /\ {s.tpx.chunkSize, s.tpx.shardCount, s.tpx.shardIndex, s.tpx.threshold, s.tpx.stress,
             s.tpx.stressLabelReps} \subseteq Nat
         /\ Effective(s.tpx) \in Seq(STRING)
         /\ {"batch-mode", "list-format", "run-format"} \subseteq DOMAIN s.tpx.choices
         /\ s.tpx.choices["batch-mode"] \in BatchModes \cup {"invalid"}
         /\ {s.tpx.choices["list-format"], s.tpx.choices["run-format"]}
               \subseteq Formats \cup {"invalid"}

VARIABLES
    stage,      \* start, refused, configured, rejected, invalid, listed, printed, planned, ran
    suite,      \* the tests in the binary
    tpx,        \* the invocation
    target,     \* the type and labels of the target
    kept,       \* the names the listing selects, in the harness's order
    requests,   \* for each shard, the requests of its actions
    run,        \* the request that ran, the lines it printed and what was decoded
    history     \* wanted: what plain libtest would execute; sensible: it takes the user's words

vars == <<stage, suite, tpx, target, kept, requests, run, history>>

NoRun == [batch |-> <<>>, format |-> "json", decoded |-> <<>>, truth |-> <<>>, voices |-> <<>>]

Init ==
    /\ stage = "start" /\ suite \in Suites /\ tpx = <<>> /\ target = <<>>
    /\ kept = <<>> /\ requests = <<>> /\ run = NoRun
    /\ history = [wanted |-> {}, sensible |-> FALSE]

\* What the harness would execute, given the user's words and no runner.
Plainly(x) ==
    {t.name : t \in {u \in HarnessSelects(Effective(x), suite) : Selects(Policy(x), u.ignored)}}

\* cli::parse: the channels, then the configuration.  A usage error, and help, end the
\* session before any target.
Configure ==
    /\ stage = "start"
    /\ \E outer \in Connections, s \in Scenarios :
        LET x == s.tpx
            config == Resolve(x)
        IN
        IF Transport(outer) = "missing" \/ Errors(x) # {} \/ config.helpOnly \/ config.usageError
        THEN stage' = "refused" /\ UNCHANGED <<tpx, target, history>>
        ELSE /\ stage' = "configured" /\ tpx' = x /\ target' = s.target
             /\ history' = [wanted |-> Plainly(x), sensible |-> HarnessAccepts(Effective(x) \o Unstable)]
    /\ UNCHANGED <<suite, kept, requests, run>>

\* run_per_test_target up to its batches: a whole target has one name, the others are listed.
ListTests ==
    /\ stage = "configured"
    /\ LET config == Resolve(tpx)
           words == ListingArgs(config.policy, config.listFormat, Effective(tpx))
           listed == ParseListing(config.listFormat, HarnessSelects(words, suite), config.policy)
           names == IF target.type = "rust" THEN Keep(NameOrder, listed)
                    ELSE <<Whole>>
       IN CASE target.type = "rust" /\ ~HarnessAccepts(words) ->
                 stage' = "rejected" /\ UNCHANGED kept
            [] ~(target.type = "rust" /\ ~HarnessAccepts(words))
               /\ ~OverridesValid(target, config.overrides, names) ->
                 stage' = "invalid" /\ UNCHANGED kept
            [] OTHER -> stage' = (IF config.listOnly THEN "printed" ELSE "listed") /\ kept' = names
    /\ UNCHANGED <<suite, tpx, target, requests, run, history>>

\* Translator::execution_args: a custom binary takes the --test-arg words only.
Words(type, batch, config) ==
    LET names == IF batch = All THEN <<>> ELSE batch
    IN CASE type = "rust" -> ExecutionArgs(names, config.policy, config.runFormat,
                                           config.extra \o config.direct)
         [] type = "rust_doctest_v1" -> DoctestArgs(config.policy, config.runFormat,
                                                    config.extra \o config.direct)
         [] type = "custom_test_v1" -> config.extra

\* run_group's request for one repetition of a batch; build_testing_request.
Request(batch, members, repeat, plan, config) ==
    [batch |-> batch, repeat |-> IF plan.stress THEN repeat ELSE 0, format |-> config.runFormat,
     words |-> Words(target.type, batch, config), on |-> OnRequest(TestingProfile(plan, config)),
     memory |-> MemoryMax(config.overrides, members)]

\* The actions of one shard: its tests in batches, each as often as the target repeats.
Actions(index, hash, database) ==
    LET config == [Resolve(tpx) EXCEPT !.shard.index = index]
        plan == Derive(target.type, target.labels, config)
        mine == ShardFilter(kept, config.shard, hash)
        expect == [n \in DOMAIN database |-> Estimate(Recorded(database[n]))]
        batches == BuildBatches(mine, config, plan.translator.attributable, plan.big, expect)
        of(b, repeat) == Request(b, IF b = All THEN mine ELSE b, repeat, plan, config)
    IN IF mine = <<>> THEN <<>>
       ELSE [k \in 1..Len(batches) * plan.repeats |->
                of(batches[(k - 1) \div plan.repeats + 1], (k - 1) % plan.repeats)]

\* Every shard plans for itself, with a duration database of its own.
PlanShards ==
    /\ stage = "listed" /\ stage' = "planned"
    /\ LET count == Resolve(tpx).shard.count
       IN \E hash \in Hashes, databases \in [0..count - 1 -> Databases] :
            requests' = [i \in 0..count - 1 |-> Actions(i, hash, databases[i])]
    /\ UNCHANGED <<suite, tpx, target, kept, run, history>>

\* The lines printed in the course of test n: the harness's own, and between its start and its
\* verdict whatever the test prints, of itself or of others, or an earlier test has left running
\* to print.  If that ends in the middle of a line the verdict is garbled, and lost.  libtest
\* captures print! only: what a child or a write to the descriptor says gets through.
LinesOf(n, ignored, outcome, meanwhile, garbled) ==
    LET say(event) == [name |-> n, event |-> event, by |-> "harness"]
        heard(e) == IF e = Notice THEN say("slow")
                    ELSE [name |-> e.name, event |-> e.event, by |-> n]
    IN IF ignored THEN <<say("ignored")>>
       ELSE <<say("started")>> \o [i \in DOMAIN meanwhile[n] |-> heard(meanwhile[n][i])]
            \o <<say(IF n \in garbled THEN "noise" ELSE outcome[n])>>

\* What a whole run prints, test by test.
Printed(order, ran, outcome, meanwhile, garbled) ==
    FoldLeft(LAMBDA out, n : out \o LinesOf(n, n \notin ran, outcome, meanwhile, garbled),
             <<>>, order)

\* The verdicts that the harness gave of a test, and the tests whose output was read as one.
Told(lines, n) ==
    {l.event : l \in {m \in ToSet(lines) : m.name = n /\ m.by = "harness"}}
    \ {"started", "slow", "noise"}
Voices(format, lines, n) ==
    {l.by : l \in {m \in ToSet(lines) : m.name = n /\ Reads(format, m.event) # "none"}}
    \ {"harness"}

\* The harness runs a request, up to its end or to a crash, and its output is decoded.
Execute(r) ==
    LET reported == {t.name : t \in HarnessSelects(r.words, suite)}
        ran == {t.name : t \in HarnessRuns(r.words, suite)}
    IN \E outcome \in [ran -> {"ok", "failed"}], meanwhile \in [ran -> Meanwhile],
          garbled \in SUBSET ran :
        LET full == Printed(Keep(NameOrder, reported), ran, outcome, meanwhile, garbled)
        IN \E cut \in 0..Len(full) :
            LET lines == SubSeq(full, 1, cut)
            IN run' = [batch |-> r.batch, format |-> r.format, decoded |-> Decode(r.format, lines),
                       truth |-> [n \in Names |-> Told(lines, n)],
                       voices |-> [n \in Names |-> Voices(r.format, lines, n)]]

\* One of the requests runs.
Run ==
    /\ stage = "planned" /\ stage' = "ran"
    /\ target.type = "rust" /\ [tpx |-> tpx, target |-> target] \in Observed
    /\ \E i \in DOMAIN requests : \E r \in ToSet(requests[i]) : Execute(r)
    /\ tpx' = <<>> /\ target' = <<>> /\ kept' = <<>> /\ requests' = <<>>
    /\ history' = [wanted |-> {}, sensible |-> FALSE]
    /\ UNCHANGED suite

Next == Configure \/ ListTests \/ PlanShards \/ Run

Spec == Init /\ [][Next]_vars

-------------------------------------------------------------------------------
(* Properties.                                                               *)

AllRequests == UNION {ToSet(requests[i]) : i \in DOMAIN requests}

\* What the user gives as a filter, after --filter or a --, is one: quokka passes it on as it is,
\* and with a dash the harness would read it as an option.
PlainFilters(words) ==
    \A i \in DOMAIN words :
        /\ words[i] = "--filter" /\ i < Len(words) => words[i + 1] \in Patterns
        /\ words[i] = "--" => \A j \in i + 1..Len(words) : words[j] \in Patterns

\* A request that names its tests makes libtest report exactly those, and one that does not
\* at least all that were listed: nothing is listed and not run, and nothing runs twice.
RunsWhatWasListed ==
    stage = "planned" /\ target.type = "rust" /\ PlainFilters(Effective(tpx)) =>
        \A r \in AllRequests :
            LET reported == {t.name : t \in HarnessSelects(r.words, suite)}
            IN IF r.batch = All THEN ToSet(kept) \subseteq reported
                                ELSE reported = ToSet(r.batch)

\* The shards together execute what the user's own words would make libtest execute, neither
\* more nor less; but for the whole-target mode, which gives no names, and for --filter, which
\* libtest does not have.
SelectionIsLibtests ==
    stage = "planned" /\ target.type # "custom_test_v1"
    /\ PlainFilters(Effective(tpx)) /\ "--filter" \notin ToSet(Effective(tpx))
    /\ (\A r \in AllRequests : r.batch # All \/ target.type # "rust") =>
        UNION {{t.name : t \in HarnessRuns(r.words, suite)} : r \in AllRequests} = history.wanted

\* Whatever the databases of the shards say, every listed test is in exactly one batch of
\* exactly one shard, once for each repetition, and no batch is too large or empty.
PlannedOnce ==
    stage = "planned" =>
        LET config == Resolve(tpx)
            repeats == Repeats(target.labels, config)
            members(r) == IF r.batch = All THEN kept ELSE r.batch
            places(n) == UNION {{<<i, k>> : k \in {j \in DOMAIN requests[i] :
                                                     n \in ToSet(members(requests[i][j]))}} :
                                i \in DOMAIN requests}
        IN /\ \A n \in ToSet(kept) :
                /\ Cardinality(places(n)) = repeats
                /\ IsStress(target.labels, config) =>
                     {requests[p[1]][p[2]].repeat : p \in places(n)} = 0..repeats - 1
           /\ \A r \in AllRequests :
                /\ members(r) # <<>> /\ ToSet(members(r)) \subseteq ToSet(kept)
                /\ IsInjective(members(r))
                /\ (config.batchMode = "fixed-chunk" => Len(members(r)) <= config.chunkSize)
                /\ (config.batchMode = "duration-bucketed" => Len(members(r)) <= MaxBatch)
                /\ (config.logical => Len(members(r)) = 1)

\* Words that libtest would take, with its unstable options, never make quokka give the
\* harness words that it refuses; but for a filter with a dash.
ArgsAccepted ==
    history.sensible /\ PlainFilters(Effective(tpx)) /\ stage \in {"rejected", "planned"} =>
        stage = "planned" /\ \A r \in AllRequests :
            target.type # "custom_test_v1" => HarnessAccepts(r.words)

\* Whatever the order of the labels, a target that must have its host to itself gets it,
\* unless its hardware labels conflict; and a memory override that was accepted reaches its
\* test's actions and nobody else's, however the tests are batched.
LabelsHonoured ==
    stage = "planned" =>
        \A r \in AllRequests :
            /\ ~({"gpu", "large-mem"} \subseteq ToSet(target.labels)) =>
                 r.on.exclusive = (ToSet(target.labels) \cap {"exclusive", "serial_global_state"} # {})
            /\ r.memory = IF ToSet(r.batch) \cap tpx.overrides # {} THEN "override" ELSE "default"

\* After a crash at any line, a test that the harness gave a verdict is decoded as that,
\* even if it printed verdicts about itself before; and one that has no verdict, and has printed
\* none, is never decoded as passed, failed or skipped.  Tests that other tests talk about are
\* left out: the decoder believes them.
DecodesHarness ==
    stage = "ran" => \A n \in Names : run.voices[n] \subseteq {n} =>
        /\ run.truth[n] = {"ok"} => run.decoded[n] = "PASS"
        /\ run.truth[n] = {"failed"} => run.decoded[n] = "FAIL"
        /\ run.truth[n] = {"ignored"} => run.decoded[n] = "SKIP"
        /\ run.truth[n] = {} /\ run.voices[n] = {} => run.decoded[n] \in {"none", "FATAL"}

\* What the comment of result.rs 408 and the test at scheduler.rs 3474 ask for: a test that
\* never got its verdict from the harness does not pass.
NoVerdictNoPass ==
    stage = "ran" => \A n \in Names : run.truth[n] = {} => run.decoded[n] # "PASS"
===============================================================================
