------------------------------ MODULE MCLogUpload ------------------------------
(* LogUpload on two passing tests that printed the same, and a small one. *)
EXTENDS LogUpload

CONSTANTS r1, r2, r3, same, small

MCOf == [r \in {r1, r2, r3} |-> IF r = r3 THEN small ELSE same]
===============================================================================
