------------------------------- MODULE MCSession -------------------------------
(* Session on two targets; the one with two actions is named by an override. *)
EXTENDS Session, TLC

CONSTANTS t1, t2

MCTargets == {t1, t2}
MCOverrides == {t1}
MCActions == (t1 :> 2) @@ (t2 :> 1)

R(s, i, q) == [status |-> s, integrity |-> i, quarantined |-> q]

\* A quarantined failure beside a skip; a test whose action was cancelled,
\* omitted but without a terminal result.
MCBatches == { <<R("Fail", "Complete", TRUE), R("Skip", "Complete", FALSE)>>,
               <<R("Omitted", "MissingTerminalResult", FALSE)>> }
===============================================================================
