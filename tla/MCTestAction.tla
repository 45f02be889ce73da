----------------------------- MODULE MCTestAction ------------------------------
(* TestAction on a batch of two and on targets with a single name.           *)
EXTENDS TestAction, TLC

CONSTANTS m1, m2, c1

Pair == {m1, m2}
MCCases == {c1}

Symmetry == Permutations(Pair)

Of(members, kinds, isolates, logicals) ==
    [members : {members}, kind : kinds, isolate : isolates, logical : logicals, cacheable : {TRUE},
     flakes : SUBSET members]

\* A batch whose failures are rerun one by one.
Isolated == Of(Pair, {"listed"}, {TRUE}, {FALSE})

\* A batch that is only retried; one test by itself or a custom binary, with
\* either cgroup granularity.
RetriedOrAlone == Of(Pair, {"listed"}, {FALSE}, {FALSE})
    \cup Of({m1}, {"listed", "binary"}, BOOLEAN, BOOLEAN)

Doctest == Of({m1}, {"doctest"}, BOOLEAN, BOOLEAN)
===============================================================================
