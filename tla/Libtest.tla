-------------------------------- MODULE Libtest --------------------------------
(***************************************************************************)
(* The libtest translator of translator.rs: what quokka makes of the       *)
(* user's libtest arguments, the words it gives the harness to list and to *)
(* run tests, and what it reads in their output.  Operators only.          *)
(*                                                                         *)
(* A word of a command line is a string, and the vocabulary is small.  A   *)
(* flag written --flag=value is its two words.  A line of output is the    *)
(* event it carries; failure details and durations are left out.           *)
(*                                                                         *)
(* The harness itself is outside the repository: its operators are what    *)
(* the code, and the harness of tests/scheduler_integration.rs, rely on.   *)
(***************************************************************************)
EXTENDS Ordering

CONSTANTS
    Names,       \* the tests of the target's binary
    Patterns,    \* the words that are filters
    Substring    \* the pairs of a pattern and a name that contains it

ASSUME NamesAssumption ==
    /\ IsFiniteSet(Names) /\ Names \subseteq Patterns
    /\ Substring \subseteq Patterns \X Names /\ \A n \in Names : <<n, n>> \in Substring

Policies == {"exclude", "include", "only"}
Formats == {"text", "json"}

\* A test the binary holds: ignored, or marked should_panic.
Test == [name : Names, ignored : BOOLEAN, panics : BOOLEAN]

\* IgnoredPolicy::selects.
Selects(policy, ignored) ==
    CASE policy = "exclude" -> ~ignored
      [] policy = "include" -> TRUE
      [] policy = "only" -> ignored

PolicyFlag == [include |-> <<"--include-ignored">>, only |-> <<"--ignored">>, exclude |-> <<>>]

-------------------------------------------------------------------------------
(* LibtestUserArgs::parse: a fold over the words.                            *)

ValuedFlags ==
    {"--skip", "--filter", "--format", "--logfile", "--shuffle-seed", "-Z", "--test-threads",
     "--color"}
UnstableFlags == {"--fail-fast", "--report-time", "--ensure-time", "--shuffle"}
ListingFlags == {"--test", "--bench", "--exclude-should-panic"}
RunFlags ==
    ListingFlags \cup UnstableFlags
    \cup {"--force-run-in-process", "--no-capture", "--nocapture", "--show-output"}
\* What quokka takes for itself; any other word with a dash goes to every run.
OwnFlags ==
    {"--", "--exact", "--list", "-h", "--help", "-q", "--quiet", "--ignored", "--include-ignored"}

\* A filter is a word without a dash.
ASSUME PatternsAssumption == Patterns \cap (ValuedFlags \cup RunFlags \cup OwnFlags) = {}

Parsed0 ==
    [listing |-> <<>>, perTest |-> <<>>, whole |-> <<>>, policies |-> <<>>, format |-> "pretty",
     formatError |-> FALSE, unstable |-> FALSE, listingOnly |-> FALSE, help |-> FALSE,
     listingUnstable |-> FALSE, runUnstable |-> FALSE, awaits |-> "", literal |-> FALSE]

PushFilter(p, ws) == [p EXCEPT !.listing = @ \o ws, !.whole = @ \o ws]
PushRun(p, ws) == [p EXCEPT !.perTest = @ \o ws, !.whole = @ \o ws]

\* The word after a flag that takes a value.
Value(p, flag, w) ==
    CASE flag = "--skip" -> PushFilter(p, <<"--skip", w>>)
      [] flag = "--filter" -> PushFilter(p, <<w>>)
      [] flag = "--logfile" -> PushRun(p, <<flag, w>>)
      [] flag = "--shuffle-seed" -> PushRun([p EXCEPT !.runUnstable = TRUE], <<flag, w>>)
      [] flag = "-Z" -> [p EXCEPT !.runUnstable = TRUE,
                                  !.unstable = @ \/ w = "unstable-options"]
      [] flag = "--format" /\ w \in {"pretty", "terse", "json", "junit"} -> [p EXCEPT !.format = w]
      [] flag = "--format" /\ w \notin {"pretty", "terse", "json", "junit"} ->
            [p EXCEPT !.formatError = TRUE]
      [] flag \in {"--test-threads", "--color"} -> p

\* A word that stands alone.
Flag(p, w) ==
    LET keep(seq, S) == IF w \in S THEN Append(seq, w) ELSE seq
        drop(seq, S) == IF w \in S THEN seq ELSE Append(seq, w)
    IN [p EXCEPT
        !.literal = (w = "--"),
        !.policies = @ \o (CASE w = "--ignored" -> <<"only">>
                             [] w = "--include-ignored" -> <<"include">>
                             [] OTHER -> <<>>),
        !.listingOnly = @ \/ w = "--list",
        !.help = @ \/ w \in {"-h", "--help"},
        !.format = IF w \in {"-q", "--quiet"} THEN "terse" ELSE @,
        !.listingUnstable = @ \/ w = "--exclude-should-panic",
        !.runUnstable = @ \/ w \in UnstableFlags \cup {"--exclude-should-panic"},
        !.listing = keep(@, ListingFlags \cup {"--exact"}),
        !.perTest = drop(@, OwnFlags),
        !.whole = drop(@, OwnFlags \ {"--exact"})]

Parse(words) ==
    LET next(p, w) ==
            IF p.literal \/ (p.awaits = "" /\ w \in Patterns) THEN PushFilter(p, <<w>>)
            ELSE IF p.awaits # "" THEN Value([p EXCEPT !.awaits = ""], p.awaits, w)
            ELSE IF w \in ValuedFlags THEN [p EXCEPT !.awaits = w]
            ELSE Flag(p, w)
    IN FoldLeft(next, Parsed0, words)

\* libtest_user_usage_error.
UsageError(p) ==
    ~p.help /\ (p.formatError \/ (p.format \in {"json", "junit"} /\ ~p.unstable))

-------------------------------------------------------------------------------
(* The words given to the harness.                                           *)

Unstable == <<"-Z", "unstable-options">>

\* libtest_listing_args.
ListingArgs(policy, format, user) ==
    LET p == Parse(user)
    IN (CASE format = "json" -> Unstable \o <<"--list", "--format", "json">>
          [] format = "text" /\ p.listingUnstable -> <<"--list">> \o Unstable
          [] format = "text" /\ ~p.listingUnstable -> <<"--list">>)
       \o PolicyFlag[policy] \o p.listing

\* The words that every execution ends with.
RunArgs(policy, format, p, rest) ==
    <<"--test-threads", "1", "--color", "never">> \o PolicyFlag[policy]
    \o (CASE format = "json" -> Unstable \o <<"--format", "json">>
          [] format = "text" /\ p.runUnstable -> Unstable
          [] format = "text" /\ ~p.runUnstable -> <<>>)
    \o rest

\* A slip: the whole target's arguments are used, with the user's filters.
ExecutionArgs_Whole(names, policy, format, user) ==
    names \o <<"--exact">> \o RunArgs(policy, format, Parse(user), Parse(user).whole)

\* A slip: the names are given as filters.
ExecutionArgs_Inexact(names, policy, format, user) ==
    names \o RunArgs(policy, format, Parse(user), Parse(user).perTest)

\* libtest_execution_args.
ExecutionArgs(names, policy, format, user) ==
    names \o <<"--exact">> \o RunArgs(policy, format, Parse(user), Parse(user).perTest)

\* doctest_execution_args.
DoctestArgs(policy, format, user) == RunArgs(policy, format, Parse(user), Parse(user).whole)

-------------------------------------------------------------------------------
(* The harness: what libtest makes of its words.                             *)

Harness0 == [filters |-> {}, skips |-> {}, flags |-> <<>>, format |-> "pretty",
             unstable |-> FALSE, awaits |-> "", literal |-> FALSE]

HarnessOptions(words) ==
    LET value(h, flag, w) ==
            CASE flag = "--skip" -> [h EXCEPT !.skips = @ \cup {w}]
              [] flag = "-Z" -> [h EXCEPT !.unstable = @ \/ w = "unstable-options"]
              [] flag = "--format" -> [h EXCEPT !.format = w, !.flags = Append(@, flag)]
              [] OTHER -> [h EXCEPT !.flags = Append(@, flag)]
        next(h, w) ==
            IF h.literal \/ (h.awaits = "" /\ w \in Patterns)
            THEN [h EXCEPT !.filters = @ \cup {w}]
            ELSE IF h.awaits # "" THEN value([h EXCEPT !.awaits = ""], h.awaits, w)
            ELSE IF w \in ValuedFlags THEN [h EXCEPT !.awaits = w]
            ELSE IF w = "--" THEN [h EXCEPT !.literal = TRUE]
            ELSE [h EXCEPT !.flags = Append(@, w)]
    IN FoldLeft(next, Harness0, words)

\* It refuses a flag that it does not know or that is given twice, both ignored modes, a flag
\* without its value, and what is unstable without -Z unstable-options.
HarnessAccepts(words) ==
    LET h == HarnessOptions(words)
        given == ToSet(h.flags)
    IN /\ h.awaits = "" /\ IsInjective(h.flags)
       /\ given \subseteq RunFlags \cup OwnFlags \cup (ValuedFlags \ {"--filter"})
       /\ ~({"--ignored", "--include-ignored"} \subseteq given)
       /\ (given \cap (UnstableFlags \cup {"--exclude-should-panic", "--shuffle-seed"}) # {}
             \/ h.format \in {"json", "junit"}) => h.unstable

HarnessPolicy(words) ==
    LET given == ToSet(HarnessOptions(words).flags)
    IN IF "--ignored" \in given THEN "only"
       ELSE IF "--include-ignored" \in given THEN "include" ELSE "exclude"

\* The tests that pass the filters: a run reports these, and a listing lists these.
HarnessSelects(words, tests) ==
    LET h == HarnessOptions(words)
        exact == "--exact" \in ToSet(h.flags)
        matches(f, t) == IF exact THEN f = t.name ELSE <<f, t.name>> \in Substring
    IN {t \in tests :
          /\ h.filters = {} \/ \E f \in h.filters : matches(f, t)
          /\ \A s \in h.skips : ~matches(s, t)
          /\ ~("--exclude-should-panic" \in ToSet(h.flags) /\ t.panics)
          /\ (HarnessPolicy(words) = "only" => t.ignored)}

\* The tests that a run really executes, and does not report as ignored.
HarnessRuns(words, tests) ==
    {t \in HarnessSelects(words, tests) : Selects(HarnessPolicy(words), t.ignored)}

-------------------------------------------------------------------------------
(* Output.                                                                   *)

\* parse_listing: a text listing does not say which tests are ignored.
ParseListing(format, tests, policy) ==
    {t.name : t \in {u \in tests : Selects(policy, u.ignored /\ format = "json")}}

\* What a line of a run's output says of a test, if it is no noise.  started is in text the
\* start of the line that the verdict ends, where the test's own output may end it first; slow
\* is libtest's notice that a test has been running for a minute.
Event == [name : Names, event : {"started", "slow", "ok", "failed", "ignored", "bench", "noise"}]

\* A line, with who printed it: the harness, or whatever ran in the course of a test.
Line == [name : Names, event : {"started", "slow", "ok", "failed", "ignored", "bench", "noise"},
         by : Names \cup {"harness"}]

Reads(format, event) ==
    CASE event \in {"ok", "bench"} -> "PASS"
      [] event = "failed" -> "FAIL"
      [] event = "ignored" -> "SKIP"
      [] event = "slow" /\ format = "json" -> "FATAL"
      [] OTHER -> "none"

\* A slip: the first event about a test is kept.
Decode_First(format, lines) ==
    LET next(seen, l) == IF Reads(format, l.event) = "none" \/ seen[l.name] # "none" THEN seen
                         ELSE [seen EXCEPT ![l.name] = Reads(format, l.event)]
    IN FoldLeft(next, [n \in Names |-> "none"], lines)

\* decode_json and decode_text: the last event about a test is kept, whoever printed it.
Decode(format, lines) ==
    LET next(seen, l) == IF Reads(format, l.event) = "none" THEN seen
                         ELSE [seen EXCEPT ![l.name] = Reads(format, l.event)]
    IN FoldLeft(next, [n \in Names |-> "none"], lines)
===============================================================================
