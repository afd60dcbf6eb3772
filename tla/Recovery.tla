------------------------------ MODULE Recovery ------------------------------
(***************************************************************************)
(* The recovery classifier (internal/recovery): what the durable record of *)
(* a transaction proves about it.  Pure operators over the records module  *)
(* Orchestrate writes.  RollbackAttempted is set exactly together with     *)
(* RollbackResult (finalizeJournal), so the field rollback stands for      *)
(* both; action statuses are a function of the action.                     *)
(***************************************************************************)

(* The mirrored action-status vocabulary. *)
KnownStatus == {"PENDING", "BACKUP_FAILED", "APPLIED", "VALIDATION_FAILED",
                "ROLLED_BACK", "ROLLBACK_FAILED"}

StatusesOf(rec) == {rec.status[j] : j \in DOMAIN rec.status}

(* Record.Validate; outcomes and rollback results come from a closed set. *)
Valid(rec) == StatusesOf(rec) \subseteq KnownStatus

(* Seeded faults, used by the mutants only. *)
ClassifyFailedTrusting(rec) ==
    IF "ROLLBACK_FAILED" \in StatusesOf(rec) THEN "INDETERMINATE" ELSE "FAILED_RESOLVED"

(* classifyFailed: a plain FAILED is resolved when every action is durably *)
(* reverted or never reached Apply.                                        *)
ClassifyFailed(rec) ==
    IF "ROLLBACK_FAILED" \in StatusesOf(rec) THEN "INDETERMINATE"
    ELSE IF StatusesOf(rec) \cap {"APPLIED", "VALIDATION_FAILED"} # {} THEN "FAILED_UNRESOLVED"
    ELSE "FAILED_RESOLVED"

(* ClassifyTransaction, for a valid record. *)
Classify(rec) ==
    IF rec.recovery \/ rec.outcome = "RECOVERY_REQUIRED" \/ rec.rollback = "ROLLBACK_FAILED"
    THEN "RECOVERY_REQUIRED"
    ELSE CASE rec.outcome = ""       -> "IN_PROGRESS"
           [] rec.outcome = "FAILED" -> ClassifyFailed(rec)
           [] OTHER -> IF rec.rollback = "" /\ StatusesOf(rec) \subseteq {"APPLIED"}
                       THEN "COMPLETED" ELSE "INDETERMINATE"

(* ClassifyJournal over one record per transaction: an invalid record      *)
(* fails the whole classification.                                         *)
JournalClassifiable(recs) == \A r \in recs : Valid(r)
=============================================================================
