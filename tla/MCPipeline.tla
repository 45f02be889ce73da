------------------------------- MODULE MCPipeline ------------------------------
(* Small command lines, binaries, labels and databases for Pipeline. *)
EXTENDS Pipeline

MCNames == {"a", "ab", "b"}
MCSubstring == {<<"a", "a">>, <<"a", "ab">>, <<"ab", "ab">>, <<"b", "ab">>, <<"b", "b">>}
MCNameOrder == <<"a", "ab", "b">>

Binary(ignored, panics) ==
    {[name |-> n, ignored |-> n \in ignored, panics |-> n \in panics] : n \in MCNames}

MCSuites == {Binary({}, {}), Binary({"ab"}, {"b"}), Binary({"a", "b"}, {"a"})}

MCConnections == {{"executor_fd", "orchestrator_fd"}, {"executor_fd", "orchestrator_addr"}}

\* Words of the --test-arg options.
Extras == {<<>>, <<"a">>, <<"--skip", "ab">>, <<"ab", "--exact">>, <<"--ignored">>,
           <<"--exclude-should-panic">>, <<"--nocapture", "--fail-fast">>,
           <<"--shuffle-seed", "a">>, <<"--test-threads", "b", "-q">>, <<"--include-ignored", "--skip">>,
           <<"--filter", "--skip", "--exclude-should-panic">>, <<"--filter", "a", "--unknown">>}

Rust(labels) == [type |-> "rust", labels |-> labels]
Doctest == [type |-> "rust_doctest_v1", labels |-> <<>>]
Custom(labels) == [type |-> "custom_test_v1", labels |-> labels]

Plain == [extra |-> <<>>, filters |-> <<>>, skips |-> <<>>, flags |-> {}, values |-> <<>>,
          policies |-> {}, shardIndex |-> 0, shardCount |-> 1, noDurationDb |-> FALSE,
          durationDb |-> FALSE, chunkSize |-> 2, stress |-> 0, stressLabelReps |-> 2,
          flakyAttempts |-> 3, threshold |-> 2, overrides |-> {},
          choices |-> ("list-format" :> "json" @@ "run-format" :> "json" @@
                       "batch-mode" :> "fixed-chunk" @@ "cgroup-granularity" :> "action")]

Scenario(xs, targets) == {[tpx |-> x, target |-> t] : x \in xs, t \in targets}

\* What the user's words select, with either format of listing and run.
Selecting ==
    Scenario({[Plain EXCEPT !.extra = e, !.filters = w[1], !.skips = w[2], !.flags = g, !.policies = p,
                            !.choices["list-format"] = l[1], !.choices["run-format"] = l[2]] :
                 e \in Extras, w \in {<<<<>>, <<>>>>, <<<<"b">>, <<"a">>>>},
                 g \in {{}, {"--exact"}, {"--exclude-should-panic", "--report-time"}},
                 p \in {{}, {"include"}, {"only"}},
                 l \in {<<"json", "json">>, <<"text", "text">>}},
             {Rust(<<>>), Doctest})

\* Words that end the session early, and words after a literal --.
Odd ==
    Scenario({[Plain EXCEPT !.flags = {"--list"}], [Plain EXCEPT !.flags = {"--help"}],
              [Plain EXCEPT !.policies = {"include", "only"}],
              [Plain EXCEPT !.extra = <<"--", "b">>, !.filters = <<"a">>],
              [Plain EXCEPT !.extra = <<"--", "--unknown">>],
              [Plain EXCEPT !.values = "--format" :> "json"],
              [Plain EXCEPT !.values = "--format" :> "json" @@ "-Z" :> "unstable-options"],
              [Plain EXCEPT !.values = "--format" :> "other"],
              [Plain EXCEPT !.noDurationDb = TRUE, !.durationDb = TRUE]},
             {Rust(<<>>), Custom(<<>>)})

\* How the tests are batched, sharded and repeated.
Planning ==
    Scenario({[Plain EXCEPT !.choices["batch-mode"] = m, !.choices["cgroup-granularity"] = c,
                            !.shardCount = n[1], !.shardIndex = n[2], !.chunkSize = k, !.stress = x] :
                 m \in {"per-test", "fixed-chunk", "duration-bucketed", "target", "invalid"},
                 c \in {"action", "logical-test"}, n \in {<<0, 0>>, <<2, 1>>, <<2, 2>>},
                 k \in {0, 2, 3}, x \in {0, 2}},
             {Rust(<<>>), Rust(<<"big", "stress">>)})

\* What the labels ask for, in any order.
Labelled ==
    Scenario({Plain, [Plain EXCEPT !.flags = {"--local-debug"}], [Plain EXCEPT !.overrides = {"ab"}]},
             {Rust(<<"exclusive", "big">>), Rust(<<"exclusive", "gpu", "flaky", "owner=x">>), Rust(<<"quarantined", "exclusive">>),
              Rust(<<"gpu", "exclusive", "large-mem">>), Doctest,
              Custom(<<"serial_global_state", "gpu", "owner=x">>),
              Custom(<<"large-mem", "local-resource=db", "network-private">>)})

MCScenarios == Selecting \cup Odd \cup Planning \cup Labelled

\* Every output of a run, in either format.
MCObserved ==
    Scenario({[Plain EXCEPT !.choices["run-format"] = r, !.choices["list-format"] = r] : r \in Formats},
             {Rust(<<>>)})

\* Nothing, verdicts about the one or the other, and notices; of("b", "ok") in the course of b
\* is a test that claims to have passed.
MCMeanwhile ==
    LET of(n, e) == [name |-> n, event |-> e]
    IN {<<>>, <<of("a", "failed")>>, <<Notice, of("b", "ok")>>,
        <<of("ab", "ok"), Notice, of("ab", "noise")>>}

\* A run of the tests in text, without capture.
MCSpoken ==
    Scenario({[Plain EXCEPT !.extra = <<"--nocapture">>, !.choices["run-format"] = "text",
                            !.choices["list-format"] = "text"]}, {Rust(<<>>)})

Keys == MCNames \cup {"<whole>"}
MCHashes == {[n \in Keys |-> IF n \in S THEN 1 ELSE 2] : S \in {{}, {"a"}, {"ab"}}}

Ran(env, time, ms, failed) == [env |-> env, time |-> time, ms |-> ms, failed |-> failed]
Slow == <<Ran("Local", 1, 1, FALSE), Ran("Remote", 3, 4, FALSE), Ran("Local", 2, 3, FALSE)>>
Fast == <<Ran("Remote", 1, 0, FALSE), Ran("Remote", 2, 5, TRUE)>>

\* All unseen but a slow one, or known and one of them fast.
MCDatabases == {[n \in Keys |-> IF n = "b" THEN Slow ELSE <<>>],
                [n \in Keys |-> IF n = "a" THEN Fast ELSE Slow]}
===============================================================================
