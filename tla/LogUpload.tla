------------------------------- MODULE LogUpload -------------------------------
(***************************************************************************)
(* The details of finished tests: finalize_details of scheduler.rs and     *)
(* what make_finished does around it.  Details longer than the inline      *)
(* limit are written to a file in the temporary directory, uploaded by     *)
(* buck2 to its CAS, and replaced by a pointer and, for a passing test, a   *)
(* head.  Each result is made by the task of its action, and the tasks run *)
(* on several threads.                                                     *)
(*                                                                         *)
(* The name of the file is the process's and a hash of the text: two tests *)
(* with the same text have the same file.  Texts are abstract, and a hash  *)
(* that two texts share is left out.  A failing file operation, and a      *)
(* failing call of buck2, count against MaxFaults.                         *)
(***************************************************************************)
EXTENDS Naturals, FiniteSets

CONSTANTS
    Results,     \* the results being made
    Logs,        \* the texts
    Of,          \* the text of each result
    Large,       \* the texts longer than cas_inline_limit
    Passing,     \* the results whose status is no failure
    Retried,     \* the results with more than one attempt
    MaxFaults

VARIABLES
    pc,          \* start, open, sent, answered, done
    file,        \* for each text, its file: none, partial or whole
    writes,      \* the results whose open file is the one at its path, not a removed one
    answer,      \* what the upload yielded: a file's state, or failed
    cas,         \* the texts of which the CAS holds a whole copy
    details,     \* the parts of the details of a finished result
    faults

vars == <<pc, file, writes, answer, cas, details, faults>>

Init ==
    /\ pc = [r \in Results |-> "start"] /\ file = [l \in Logs |-> "none"]
    /\ writes = {} /\ answer = [r \in Results |-> "failed"] /\ cas = {}
    /\ details = [r \in Results |-> {}] /\ faults = 0

Same(r) == {q \in Results : Of[q] = Of[r]}

Fault == faults < MaxFaults /\ faults' = faults + 1

\* inline_body and truncate: a failure is kept whole, a passing test's head names the CAS.
InlineBody(r) == IF r \in Passing THEN {"head", "full log in CAS"} ELSE {"text"}

\* The result is made: the attempt history, and for a failure its annotation, come last.
Finish(r, parts) ==
    /\ pc' = [pc EXCEPT ![r] = "done"]
    /\ details' = [details EXCEPT ![r] =
         parts \cup (IF r \in Retried THEN {"history"} ELSE {})
               \cup (IF r \in Passing THEN {} ELSE {"annotation"})]

\* route_log: small details stay where they are.
Inline(r) ==
    /\ pc[r] = "start" /\ Of[r] \notin Large
    /\ Finish(r, {"text"})
    /\ UNCHANGED <<file, writes, answer, cas, faults>>

\* fs::write opens the file at the path, made or cut to nothing, ...
Open(r) ==
    /\ pc[r] = "start" /\ Of[r] \in Large
    /\ pc' = [pc EXCEPT ![r] = "open"]
    /\ file' = [file EXCEPT ![Of[r]] = "partial"]
    /\ writes' = writes \cup {r}
    /\ UNCHANGED <<answer, cas, details, faults>>

\* ... and writes the text into what it opened, which may no longer be there.
Write(r) ==
    /\ pc[r] = "open"
    /\ pc' = [pc EXCEPT ![r] = "sent"]
    /\ file' = IF r \in writes THEN [file EXCEPT ![Of[r]] = "whole"] ELSE file
    /\ UNCHANGED <<writes, answer, cas, details, faults>>

\* Either may fail: the upload is skipped, and what there is of the file stays.
WriteFails(r) ==
    /\ pc[r] \in {"start", "open"} /\ Of[r] \in Large /\ Fault
    /\ Finish(r, {"skipped"} \cup InlineBody(r))
    /\ UNCHANGED <<file, writes, answer, cas>>

\* buck2 reads the file at the path while the task waits.
Upload(r) ==
    /\ pc[r] = "sent"
    /\ pc' = [pc EXCEPT ![r] = "answered"]
    /\ \/ /\ file[Of[r]] # "none"
          /\ answer' = [answer EXCEPT ![r] = file[Of[r]]]
          /\ cas' = IF file[Of[r]] = "whole" THEN cas \cup {Of[r]} ELSE cas
          /\ UNCHANGED faults
       \/ /\ file[Of[r]] = "none"
          /\ UNCHANGED <<answer, cas, faults>>
       \/ Fault /\ UNCHANGED <<answer, cas>>
    /\ UNCHANGED <<file, writes, details>>

\* The file is removed, or that fails; the pointer, or the failure, precedes the body.
Remove(r) ==
    /\ pc[r] = "answered"
    /\ \/ /\ file' = [file EXCEPT ![Of[r]] = "none"]
          /\ writes' = writes \ Same(r)
          /\ UNCHANGED faults
       \/ Fault /\ UNCHANGED <<file, writes>>
    /\ Finish(r, {IF answer[r] = "failed" THEN "upload failed" ELSE "uploaded"} \cup InlineBody(r))
    /\ UNCHANGED <<answer, cas>>

Next == \E r \in Results :
    Inline(r) \/ Open(r) \/ Write(r) \/ WriteFails(r) \/ Upload(r) \/ Remove(r)

Spec == Init /\ [][Next]_vars

-------------------------------------------------------------------------------

\* "A cheap content-derived suffix avoids collisions without RNG", and a head ends with
\* "[truncated, full log in CAS]": while nothing fails, a test whose details say so has its
\* whole text in the CAS.
FullLogInCas ==
    faults = 0 => \A r \in Results : "full log in CAS" \in details[r] => Of[r] \in cas
===============================================================================
