------------------------------ MODULE MCAdmission ------------------------------
(* Admission with a big target and a small one, and fewer permits than        *)
(* actions at either gate.                                                     *)
EXTENDS Admission

CONSTANTS big, small, b1, b2, b3, s1

MCTargets == {big, small}
MCActions == {b1, b2, b3, s1}
MCOf == [a \in MCActions |-> IF a = s1 THEN small ELSE big]
===============================================================================
