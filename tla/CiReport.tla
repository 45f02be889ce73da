-------------------------------- MODULE CiReport --------------------------------
(***************************************************************************)
(* The CI report a session may leave (CiTestReportWriter of scheduler.rs): *)
(* written to a temporary file while results come in, installed over the   *)
(* report of an earlier session at the end, with a backup to roll back to. *)
(* Every file operation may fail, and the process may be killed anywhere.  *)
(***************************************************************************)
EXTENDS Naturals

CONSTANT Tests  \* how many results the session records

ASSUME ConstantsAssumption == Tests \in Nat

VARIABLES
    pc,         \* the operation the writer is about to do
    dest,       \* what is at the destination
    temporary,  \* what is in the temporary file
    backup,     \* what is in the backup file
    recorded,   \* the results written so far
    prev,       \* previous_destination_present
    installed,  \* destination_installed
    backed,     \* backup_created
    retained,   \* the recovery path the error names, if it names one
    before      \* history: what was at the destination at the start

files == <<dest, temporary, backup>>
flags == <<prev, installed, backed>>
vars == <<pc, files, recorded, flags, retained, before>>

\* A report of this session is "new" once it is complete; "other" is something
\* that is not a regular file.
Content == {"absent", "partial", "old", "new"}

Init ==
    /\ pc = "new"
    /\ dest \in {"absent", "old", "other"} /\ before = dest
    /\ temporary = "absent" /\ backup = "absent"
    /\ recorded = 0
    /\ prev = FALSE /\ installed = FALSE /\ backed = FALSE
    /\ retained = "none"

\* The writer ends: finished, or failed.
Ends == {"finished", "failed", "killed"}

\* The file is removed, or stays because that fails too.
Removed(file) == {"absent", file}

-------------------------------------------------------------------------------
(* Writing.                                                                  *)

\* CiTestReportWriter::new: a header that cannot be written takes the file along.
New ==
    /\ pc = "new"
    /\ \/ pc' = "recording" /\ temporary' = "partial"
       \/ pc' = "failed" /\ temporary' \in Removed("partial")
    /\ UNCHANGED <<dest, backup, recorded, flags, retained, before>>

\* A result that cannot be written disables the report: the reporter takes the
\* writer and cleans up.
Record ==
    /\ pc = "recording" /\ recorded < Tests
    /\ \/ recorded' = recorded + 1 /\ UNCHANGED <<pc, temporary>>
       \/ pc' = "failed" /\ temporary' \in Removed("partial") /\ UNCHANGED recorded
    /\ UNCHANGED <<dest, backup, flags, retained, before>>

-------------------------------------------------------------------------------
(* finish_inner.                                                             *)

\* The footer, and the file synced.
Close ==
    /\ pc = "recording" /\ recorded = Tests
    /\ \/ pc' = "snapshot" /\ temporary' = "new"
       \/ pc' = "rollback" /\ temporary' \in {"partial", "new"}
    /\ UNCHANGED <<dest, backup, recorded, flags, retained, before>>

\* snapshot_destination: what is there is copied and synced, if it is a file.
Snapshot ==
    /\ pc = "snapshot"
    /\ \/ /\ dest = "absent" /\ pc' = "rename"
          /\ UNCHANGED <<backup, prev, backed>>
       \/ /\ dest = "old" /\ pc' = "rename"
          /\ backup' = dest /\ prev' = TRUE /\ backed' = TRUE
       \/ /\ pc' = "rollback"
          /\ backup' \in {backup} \cup (IF dest = "old" THEN {"partial", dest} ELSE {})
          /\ UNCHANGED <<prev, backed>>
    /\ UNCHANGED <<dest, temporary, recorded, installed, retained, before>>

\* A slip: nobody notes that the report is in place.
Rename_NoFlag ==
    /\ pc = "rename"
    /\ pc' = "sync" /\ dest' = temporary /\ temporary' = "absent"
    /\ UNCHANGED <<backup, recorded, flags, retained, before>>

Rename ==
    /\ pc = "rename"
    /\ \/ pc' = "sync" /\ dest' = temporary /\ temporary' = "absent" /\ installed' = TRUE
       \/ pc' = "rollback" /\ UNCHANGED <<dest, temporary, installed>>
    /\ UNCHANGED <<backup, recorded, prev, backed, retained, before>>

SyncParent ==
    /\ pc = "sync"
    /\ pc' \in {"unback", "rollback"}
    /\ UNCHANGED <<files, recorded, flags, retained, before>>

\* A slip: the backup is forgotten.
RemoveBackup_Forgotten ==
    /\ pc = "unback" /\ pc' = "finished"
    /\ UNCHANGED <<files, recorded, flags, retained, before>>

\* remove_backup; a backup that cannot be removed fails the report.
RemoveBackup ==
    /\ pc = "unback"
    /\ \/ pc' = "finished" /\ backup' = "absent" /\ backed' = FALSE
       \/ backed /\ pc' = "rollback" /\ UNCHANGED <<backup, backed>>
    /\ UNCHANGED <<dest, temporary, recorded, prev, installed, retained, before>>

-------------------------------------------------------------------------------
(* rollback and cleanup.                                                     *)

\* A rollback that fails names the path from which to recover (recovery_path).
GiveUp(backup_created) ==
    pc' = "cleanup" /\ retained' = IF backup_created THEN "backup" ELSE "destination"

\* The new report is taken away again, if it is in place.
RollbackRemove ==
    /\ pc = "rollback"
    /\ \/ ~installed /\ pc' = "cleanup" /\ UNCHANGED <<dest, retained>>
       \/ /\ installed /\ dest' = "absent"
          /\ pc' = IF prev THEN "restore" ELSE "resync"
          /\ UNCHANGED retained
       \/ installed /\ GiveUp(backed) /\ UNCHANGED dest
    /\ UNCHANGED <<temporary, backup, recorded, flags, before>>

\* The backup is renamed back, and synced.
RollbackRestore ==
    /\ pc = "restore"
    /\ \/ /\ dest' = backup /\ backup' = "absent" /\ backed' = FALSE
          /\ (pc' = "resync" /\ UNCHANGED retained) \/ GiveUp(FALSE)
       \/ GiveUp(backed) /\ UNCHANGED <<dest, backup, backed>>
    /\ UNCHANGED <<temporary, recorded, prev, installed, before>>

RollbackSync ==
    /\ pc = "resync"
    /\ \/ pc' = "cleanup" /\ installed' = FALSE /\ UNCHANGED retained
       \/ GiveUp(backed) /\ UNCHANGED installed
    /\ UNCHANGED <<files, recorded, prev, backed, before>>

\* A slip: the backup is removed whatever became of the rollback.
Cleanup_All ==
    /\ pc = "cleanup" /\ pc' = "failed"
    /\ temporary' \in Removed(temporary) /\ backup' \in Removed(backup)
    /\ UNCHANGED <<dest, recorded, flags, retained, before>>

Cleanup ==
    /\ pc = "cleanup" /\ pc' = "failed"
    /\ temporary' \in Removed(temporary)
    /\ backup' \in IF retained = "none" THEN Removed(backup) ELSE {backup}
    /\ UNCHANGED <<dest, recorded, flags, retained, before>>

\* The process is killed: the files stay as they are.
Kill ==
    /\ pc \notin Ends /\ pc' = "killed"
    /\ UNCHANGED <<files, recorded, flags, retained, before>>

Over == pc \in Ends /\ UNCHANGED vars

Next ==
    \/ New \/ Record
    \/ Close \/ Snapshot \/ Rename \/ SyncParent \/ RemoveBackup
    \/ RollbackRemove \/ RollbackRestore \/ RollbackSync \/ Cleanup
    \/ Kill \/ Over

Spec == Init /\ [][Next]_vars

-------------------------------------------------------------------------------
(* Properties.                                                               *)

TypeOK ==
    /\ pc \in Ends \cup {"new", "recording", "snapshot", "rename", "sync", "unback",
                          "rollback", "restore", "resync", "cleanup"}
    /\ dest \in Content \cup {"other"} /\ before \in {"absent", "old", "other"}
    /\ temporary \in Content /\ backup \in Content
    /\ recorded \in 0 .. Tests
    /\ prev \in BOOLEAN /\ installed \in BOOLEAN /\ backed \in BOOLEAN
    /\ retained \in {"none", "backup", "destination"}

\* Wherever the process is killed, or whatever fails, a report that was there is
\* still there, whole, or in the backup, or a whole new one has taken its place;
\* and what is not a file is left alone.
AReportSurvives ==
    /\ before = "old" => dest \in {"old", "new"} \/ backup = "old"
    /\ before = "other" => dest = "other"
    /\ dest # "partial"

\* A session that fails to leave its report leaves the destination as it was,
\* unless it says that the rollback failed.
FailureRestores == pc = "failed" /\ retained = "none" => dest = before

\* The error of a failed rollback names the file that holds the previous report
\* ("retain the only known-good bytes and name where they can be recovered").
RecoveryNamed ==
    pc = "failed" /\ before = "old" =>
        /\ retained = "backup" => backup = "old"
        /\ retained = "destination" => dest = "old"

\* A session that finishes leaves its whole report and nothing else.
FinishIsClean ==
    pc = "finished" => dest = "new" /\ temporary = "absent" /\ backup = "absent"
===============================================================================
