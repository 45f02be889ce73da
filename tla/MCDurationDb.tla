------------------------------ MODULE MCDurationDb ------------------------------
(* Sessions that end together, over the tests' outcomes and names: the section  *)
(* of durations goes through the same steps as that of outcomes.                *)
EXTENDS DurationDb, TLC

CONSTANTS p1, p2, p3

MCSections == <<"flake", "names">>
MCSymmetry == Permutations(Procs)

TwoProcs == {p1, p2}
ThreeProcs == {p1, p2, p3}
AllFresh == [p \in Procs |-> Section]

\* Bound: what follows a lapse of the lock or a damaged file is not explored
\* further; the properties promise nothing, or nothing of that section, there.
Sound == ~lapsed /\ damaged = {}
===============================================================================
