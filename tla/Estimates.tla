-------------------------------- MODULE Estimates ------------------------------
(***************************************************************************)
(* What the duration database holds of one test, and what it expects of    *)
(* it: PerfRecord, record_at and estimate of duration_db.rs.  Operators    *)
(* only.  Failures and the flake counts are kept apart and not needed for  *)
(* planning; how the store reaches the disk is DurationDb's.               *)
(***************************************************************************)
EXTENDS Ordering

CONSTANTS
    MaxSamples,     \* MAX_SAMPLES
    UnseenWeight    \* UNSEEN_WEIGHT_MS

ASSUME SamplesAssumption == MaxSamples \in Nat \ {0} /\ UnseenWeight \in Nat

Environment == {"Local", "Remote"}
\* One run of a test in the database.
TestRun == [env : Environment, time : Nat, ms : Nat, failed : BOOLEAN]

Unseen == [p50 |-> 0, p95 |-> UnseenWeight]

\* PerfRecord::sort_and_truncate: the newest samples, and of equally old ones the longest.
Newest(samples) ==
    LET longest == HeaviestFirst(samples, [x \in ToSet(samples) |-> x.ms])
        sorted == HeaviestFirst(longest, [x \in ToSet(samples) |-> x.time])
    IN SubSeq(sorted, 1, IF Len(sorted) < MaxSamples THEN Len(sorted) ELSE MaxSamples)

\* PerfRecord::combine.
CombinePerf(p, q) == Newest(p \o q)

\* record_at: a run that failed says nothing of the duration.
RecordAt(perf, run) ==
    IF run.failed THEN perf
    ELSE [perf EXCEPT ![run.env] = CombinePerf(@, <<[time |-> run.time, ms |-> run.ms]>>)]

\* The samples after the runs of a test, for each environment.
Recorded(runs) == FoldLeft(RecordAt, [e \in Environment |-> <<>>], runs)

\* percentile: the nearest rank, counted from the smallest.
Percentile(values, p) ==
    LET sorted == HeaviestFirst(values, [v \in ToSet(values) |-> v])
        rank == (p * Len(values) + 99) \div 100
        within == IF rank < 1 THEN 1 ELSE IF rank > Len(values) THEN Len(values) ELSE rank
    IN sorted[Len(values) + 1 - within]

\* estimate, of all environments together.
Estimate(perf) ==
    LET samples == CombinePerf(perf["Local"], perf["Remote"])
        values == [i \in DOMAIN samples |-> samples[i].ms]
    IN IF samples = <<>> THEN Unseen
       ELSE [p50 |-> Percentile(values, 50), p95 |-> Percentile(values, 95)]
===============================================================================
