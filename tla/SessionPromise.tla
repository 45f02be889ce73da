----------------------------- MODULE SessionPromise ----------------------------
(***************************************************************************)
(* What a test session promises buck2, over what buck2 observes: targets   *)
(* are shown before anything is told of them, everything owed is settled   *)
(* before the end, the end is told once, and the code it carries is        *)
(* success exactly when the session is well.                               *)
(***************************************************************************)
EXTENDS Naturals

CONSTANTS Targets, NoExit, NonzeroExit, SchedulerPanicExit

VARIABLES
    shown,   \* targets whose tests were reported as discovered
    told,    \* results reported, by target
    owed,    \* accepted specs whose target is not settled yet
    sick,    \* something happened that must fail the session
    closed   \* the exit code told, or NoExit

vars == <<shown, told, owed, sick, closed>>

Init ==
    /\ shown = {} /\ told = [t \in Targets |-> 0] /\ owed = {}
    /\ sick \in BOOLEAN /\ closed = NoExit

\* Anything a session may do before its end.
Work ==
    /\ closed = NoExit /\ closed' = NoExit
    /\ shown \subseteq shown'
    /\ sick => sick'
    /\ \/ told' = told
       \/ \E t \in shown : told' = [told EXCEPT ![t] = @ + 1]
    /\ \/ owed' = owed
       \/ \E t \in Targets : owed' = owed \cup {t} \/ owed' = owed \ {t}

\* The end: green exactly when the session is well, and with nothing owed.
Close ==
    /\ closed = NoExit
    /\ \/ closed' = 0 /\ ~sick /\ owed = {}
       \/ closed' = NonzeroExit /\ sick /\ owed = {}
       \/ closed' = SchedulerPanicExit /\ sick
    /\ UNCHANGED <<shown, told, owed, sick>>

\* A spec sent after the end is refused and owes nothing.
Next == Work \/ Close

Spec == Init /\ [][Next]_vars
===============================================================================
