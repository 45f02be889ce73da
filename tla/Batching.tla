-------------------------------- MODULE Batching -------------------------------
(***************************************************************************)
(* Batching and sharding: batching.rs, with shard_filter and build_batches *)
(* of scheduler.rs.  Operators only: the tests a shard keeps, and how they *)
(* become the batches its actions run.  expect maps a test to what the     *)
(* duration database expects of it; the hash of a test's identity is any   *)
(* function.                                                               *)
(***************************************************************************)
EXTENDS Ordering

CONSTANT MaxBatch    \* MAX_BATCH

ASSUME MaxBatchAssumption == MaxBatch \in Nat \ {0}

\* TestSelection::All, and the panic of an empty heap.
All == <<"all">>
Panic == <<"panic">>

BatchModes == {"per-test", "target", "duration-bucketed", "fixed-chunk"}

\* shard_filter: a function of a test's identity and nothing else.
ShardFilter(tests, shard, hash) ==
    IF shard.count <= 1 THEN tests
    ELSE Keep(tests, {t \in ToSet(tests) : hash[t] % shard.count = shard.index})

\* div_ceil.
ChunkCount(n, size) == (n + size - 1) \div size

\* The heap: the lightest chunk that is not full, and of equally light ones the first.
Lightest(open, load) ==
    CHOOSE i \in open : \A j \in open : load[i] < load[j] \/ (load[i] = load[j] /\ i <= j)

NoChunks(count) ==
    [chunks |-> [i \in 1..count |-> <<>>], load |-> [i \in 1..count |-> 0], open |-> 1..count,
     panic |-> FALSE]

\* One test goes into the lightest chunk.
PutInChunk(s, t, size, expect) ==
    LET i == Lightest(s.open, s.load)
        chunk == Append(s.chunks[i], t)
    IN IF s.open = {} THEN [s EXCEPT !.panic = TRUE]
       ELSE [s EXCEPT !.chunks[i] = chunk, !.load[i] = @ + expect[t].p95,
                      !.open = IF Len(chunk) < size THEN @ ELSE @ \ {i}]

\* chunk_fixed_generic: each test, heaviest first, into the lightest chunk that is not full.
Chunks(tests, size, expect) ==
    LET end == FoldLeft(LAMBDA s, t : PutInChunk(s, t, size, expect),
                        NoChunks(ChunkCount(Len(tests), size)),
                        HeaviestFirst(tests, [t \in ToSet(tests) |-> expect[t].p95]))
    IN IF end.panic THEN <<Panic>> ELSE end.chunks

\* The batches, with the current one unless it is empty.
Flush(s) == IF s.current = <<>> THEN s.batches ELSE Append(s.batches, s.current)

\* A large test is a batch of its own, a small one joins the current batch.
PutInBucket(s, t, threshold, expect) ==
    LET current == Append(s.current, t)
    IN IF expect[t].p50 >= threshold
       THEN [batches |-> Append(Flush(s), <<t>>), current |-> <<>>]
       ELSE IF Len(current) >= MaxBatch
       THEN [batches |-> Append(s.batches, current), current |-> <<>>]
       ELSE [batches |-> s.batches, current |-> current]

\* bucket_generic: small tests share a batch, of at most MaxBatch, until a large one comes.
Buckets(tests, threshold, expect) ==
    Flush(FoldLeft(LAMBDA s, t : PutInBucket(s, t, threshold, expect),
                   [batches |-> <<>>, current |-> <<>>], tests))

\* Batcher::partition.
Partition(mode, tests, config, expect) ==
    CASE mode = "per-test" -> [i \in 1..Len(tests) |-> <<tests[i]>>]
      [] mode = "target" -> <<All>>
      [] mode = "duration-bucketed" -> Buckets(tests, config.threshold, expect)
      [] mode = "fixed-chunk" -> Chunks(tests, config.chunkSize, expect)

\* The mode of a target: logical supervision and whole targets need one name per action.
ModeOf(config, attributable, big) ==
    IF config.logical \/ ~attributable THEN "per-test"
    ELSE IF big THEN "per-test" ELSE config.batchMode

\* A slip: a sharded target is run whole by every shard.
BuildBatches_Whole(tests, config, attributable, big, expect) ==
    Partition(ModeOf(config, attributable, big), tests, config, expect)

\* The largest of a set of weights.
Heaviest(weights) == CHOOSE w \in weights : \A v \in weights : v <= w

\* build_batches: the batches of a shard's tests, heaviest first.
BuildBatches(tests, config, attributable, big, expect) ==
    LET mode == ModeOf(config, attributable, big)
        selections == IF mode = "target" /\ config.shard.count > 1 THEN <<tests>>
                      ELSE Partition(mode, tests, config, expect)
        members(b) == ToSet(IF b = All THEN tests ELSE b)
    IN HeaviestFirst(selections,
                     [b \in ToSet(selections) |-> Heaviest({expect[t].p95 : t \in members(b)})])
===============================================================================
