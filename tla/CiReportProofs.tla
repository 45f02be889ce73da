----------------------------- MODULE CiReportProofs -----------------------------
(***************************************************************************)
(* No report is lost, for any number of results.  The argument follows the *)
(* writer: where it stands decides what lies at the destination and in the *)
(* backup, and the three flags of the writer say which of the two holds    *)
(* the previous report.                                                    *)
(***************************************************************************)
EXTENDS CiReport, TLAPS

\* Nothing has been touched yet.
Untouched == dest = before /\ ~installed /\ ~prev /\ ~backed /\ backup = "absent"

\* The flags tell whether there was a report, and the backup holds it.
BackedUp ==
    /\ before # "other"
    /\ prev <=> before = "old"
    /\ backed <=> prev
    /\ backed => backup = "old"

\* What the error of a failed session says is where the files are.
Accounted ==
    /\ before = "other" => dest = "other"
    /\ dest # "partial"
    /\ retained = "none" => dest = before
    /\ retained = "backup" => backup = "old"
    /\ retained = "destination" /\ before = "old" => dest = "old"

Inv ==
    /\ TypeOK
    /\ pc \in {"new", "recording", "snapshot"} => Untouched
    /\ pc \notin {"cleanup", "failed", "killed"} => retained = "none"
    /\ pc = "snapshot" => temporary = "new"
    /\ pc = "rename" => BackedUp /\ dest = before /\ ~installed /\ temporary = "new"
    /\ pc \in {"sync", "unback"} => BackedUp /\ dest = "new" /\ installed /\ temporary = "absent"
    /\ pc = "finished" => dest = "new" /\ temporary = "absent" /\ backup = "absent"
    /\ pc = "rollback" =>
         IF installed THEN BackedUp /\ dest = "new" ELSE dest = before
    /\ pc = "restore" => before = "old" /\ BackedUp /\ dest = "absent" /\ installed
    /\ pc = "resync" => dest = before /\ before # "other" /\ ~backed /\ installed
    /\ pc \in {"cleanup", "failed"} => Accounted
    /\ AReportSurvives

-------------------------------------------------------------------------------

USE DEF Content, Ends


LEMMA InitInv == Init => Inv
<1> SUFFICES ASSUME Init PROVE Inv
  OBVIOUS
<1>1. TypeOK /\ retained = "none"
  <2>1. recorded \in 0 .. Tests
    BY ConstantsAssumption DEF Init
  <2>2. pc \in {"new"} /\ dest \in {"absent", "old", "other"} /\ before = dest
    BY DEF Init
  <2>3. temporary \in Content /\ backup \in Content /\ retained = "none"
    BY DEF Init
  <2>4. prev \in BOOLEAN /\ installed \in BOOLEAN /\ backed \in BOOLEAN
    BY DEF Init
  <2> QED BY <2>1, <2>2, <2>3, <2>4 DEF TypeOK
<1>2. Untouched /\ AReportSurvives
  BY DEF Init, Untouched, AReportSurvives
<1>3. pc = "new"
  BY DEF Init
<1> QED BY <1>1, <1>2, <1>3 DEF Inv

\* The writer before anything is installed.
LEMMA WritingKeepsInv == Inv /\ (New \/ Record \/ Close \/ Snapshot) => Inv'
<1> SUFFICES ASSUME Inv, New \/ Record \/ Close \/ Snapshot PROVE Inv'
  OBVIOUS
<1>1. CASE New
  BY <1>1, ConstantsAssumption
  DEF New, Inv, TypeOK, Untouched, BackedUp, Accounted, AReportSurvives, Removed, flags
<1>2. CASE Record
  BY <1>2, ConstantsAssumption
  DEF Record, Inv, TypeOK, Untouched, BackedUp, Accounted, AReportSurvives, Removed, flags
<1>3. CASE Close
  BY <1>3 DEF Close, Inv, TypeOK, Untouched, BackedUp, Accounted, AReportSurvives, flags
<1>4. CASE Snapshot
  <2>1. TypeOK'
    <3>1. backup' \in Content
      BY <1>4 DEF Snapshot, Inv, TypeOK, Content
    <3>2. pc' \in {"rename", "rollback"} /\ prev' \in BOOLEAN /\ backed' \in BOOLEAN
      BY <1>4 DEF Snapshot, Inv, TypeOK
    <3> QED
      BY <1>4, <3>1, <3>2 DEF Snapshot, Inv, TypeOK
  <2>2. /\ dest' = before' /\ before' = before /\ AReportSurvives'
        /\ ~installed' /\ retained' = "none" /\ temporary' = "new"
    BY <1>4 DEF Snapshot, Inv, Untouched, AReportSurvives
  <2>3. CASE pc' = "rename"
    <3>1. BackedUp'
      BY <1>4, <2>3 DEF Snapshot, Inv, Untouched, BackedUp, TypeOK
    <3> QED BY <2>1, <2>2, <2>3, <3>1 DEF Inv
  <2>4. CASE pc' = "rollback"
    BY <2>1, <2>2, <2>4 DEF Inv
  <2> QED BY <1>4, <2>3, <2>4 DEF Snapshot
<1> QED BY <1>1, <1>2, <1>3, <1>4

\* The new report goes into place, and the backup away.
LEMMA InstallingKeepsInv == Inv /\ (Rename \/ SyncParent \/ RemoveBackup) => Inv'
<1> SUFFICES ASSUME Inv, Rename \/ SyncParent \/ RemoveBackup PROVE Inv'
  OBVIOUS
<1>1. CASE Rename
  <2>1. TypeOK'
    BY <1>1 DEF Rename, Inv, TypeOK
  <2>2. BackedUp' /\ retained' = "none"
    BY <1>1 DEF Rename, Inv, BackedUp
  <2>3. CASE pc' = "sync"
    <3>1. dest' = "new" /\ installed' /\ temporary' = "absent"
      BY <1>1, <2>3 DEF Rename, Inv
    <3>2. AReportSurvives'
      BY <2>2, <3>1 DEF AReportSurvives, BackedUp
    <3> QED BY <2>1, <2>2, <2>3, <3>1, <3>2 DEF Inv
  <2>4. CASE pc' = "rollback"
    <3>1. dest' = before' /\ ~installed'
      BY <1>1, <2>4 DEF Rename, Inv
    <3>2. AReportSurvives'
      BY <2>1, <3>1 DEF AReportSurvives, TypeOK
    <3> QED BY <2>1, <2>2, <2>4, <3>1, <3>2 DEF Inv
  <2> QED BY <1>1, <2>3, <2>4 DEF Rename
<1>2. CASE SyncParent
  BY <1>2 DEF SyncParent, Inv, TypeOK, Untouched, BackedUp, Accounted, AReportSurvives, files, flags
<1>3. CASE RemoveBackup
  BY <1>3 DEF RemoveBackup, Inv, TypeOK, Untouched, BackedUp, Accounted, AReportSurvives
<1> QED BY <1>1, <1>2, <1>3

\* The previous report comes back, or the error says where it is.
LEMMA RollingBackKeepsInv ==
    Inv /\ (RollbackRemove \/ RollbackRestore \/ RollbackSync \/ Cleanup) => Inv'
<1> SUFFICES ASSUME Inv, RollbackRemove \/ RollbackRestore \/ RollbackSync \/ Cleanup
             PROVE  Inv'
  OBVIOUS
<1>1. CASE RollbackRemove
  BY <1>1 DEF RollbackRemove, GiveUp, Inv, TypeOK, Untouched, BackedUp, Accounted, AReportSurvives, flags
<1>2. CASE RollbackRestore
  BY <1>2 DEF RollbackRestore, GiveUp, Inv, TypeOK, Untouched, BackedUp, Accounted, AReportSurvives
<1>3. CASE RollbackSync
  BY <1>3 DEF RollbackSync, GiveUp, Inv, TypeOK, Untouched, BackedUp, Accounted, AReportSurvives, files
<1>4. CASE Cleanup
  BY <1>4 DEF Cleanup, Removed, Inv, TypeOK, Untouched, BackedUp, Accounted, AReportSurvives, flags
<1> QED BY <1>1, <1>2, <1>3, <1>4

LEMMA NextKeepsInv == Inv /\ [Next]_vars => Inv'
<1> SUFFICES ASSUME Inv, [Next]_vars PROVE Inv'
  OBVIOUS
<1>1. CASE Kill
  BY <1>1 DEF Kill, Inv, TypeOK, Untouched, BackedUp, Accounted, AReportSurvives, files, flags
<1>2. CASE UNCHANGED vars
  BY <1>2 DEF vars, files, flags, Inv, TypeOK, Untouched, BackedUp, Accounted, AReportSurvives
<1> QED
  BY <1>1, <1>2, WritingKeepsInv, InstallingKeepsInv, RollingBackKeepsInv DEF Next, Over

LEMMA AlwaysInv == Spec => []Inv
  BY InitInv, NextKeepsInv, PTL DEF Spec

\* However many results there are, whatever fails and wherever the process is
\* killed, the previous report is at the destination or in the backup unless a
\* whole new one has replaced it.
THEOREM ReportSurvives == Spec => []AReportSurvives
<1>1. Inv => AReportSurvives
  BY DEF Inv
<1> QED BY <1>1, AlwaysInv, PTL

\* A session that fails without a word of recovery left the destination as it was.
THEOREM FailureIsUndone == Spec => []FailureRestores
<1>1. Inv => FailureRestores
  BY DEF Inv, Accounted, FailureRestores
<1> QED BY <1>1, AlwaysInv, PTL

\* The path a failed rollback names holds the previous report.
THEOREM RecoveryIsThere == Spec => []RecoveryNamed
<1>1. Inv => RecoveryNamed
  BY DEF Inv, Accounted, RecoveryNamed
<1> QED BY <1>1, AlwaysInv, PTL

\* A session that finishes leaves its report, whole, and no file beside it.
THEOREM FinishLeavesOnlyTheReport == Spec => []FinishIsClean
<1>1. Inv => FinishIsClean
  BY DEF Inv, FinishIsClean
<1> QED BY <1>1, AlwaysInv, PTL
===============================================================================
