-------------------------------- MODULE Ordering -------------------------------
(***************************************************************************)
(* What the code does to a list: it filters it, and sorts it by a weight.  *)
(* Operators only.  Both are Rust's (Iterator::filter, slice::sort_by_key  *)
(* with Reverse), and the sort is stable.  They are folds, which can be    *)
(* reasoned about where SelectSeq and SortSeq cannot.                      *)
(***************************************************************************)
EXTENDS Naturals, Sequences, SequencesExt, FiniteSets

\* The elements of seq that are in S.
Keep(seq, S) ==
    FoldLeft(LAMBDA kept, x : IF x \in S THEN Append(kept, x) ELSE kept, <<>>, seq)

\* In a sorted sequence, x comes after all that weigh no less.
Insert(sorted, x, weight) ==
    InsertAt(sorted, Cardinality({i \in DOMAIN sorted : weight[sorted[i]] >= weight[x]}) + 1, x)

\* A stable sort, heaviest first.
HeaviestFirst(seq, weight) ==
    FoldLeft(LAMBDA sorted, x : Insert(sorted, x, weight), <<>>, seq)
===============================================================================
