---------------------------- MODULE MCLifecycle ----------------------------
(* Runs of two processes, and the classifier applied to every record they  *)
(* leave.  The plans have two actions: the second mutating run has a       *)
(* firewall action, which must never be retried autonomously.              *)
EXTENDS Orchestrate, Recovery, TLC

MCKind == [t \in Tx |-> <<"UPDATE_FILE", IF t = 1 THEN "SERVICE" ELSE "FIREWALL">>]

Symmetry == Permutations(Procs)

(* The classifier's verdicts are true of the machine: COMPLETED means that *)
(* every action took effect, FAILED_RESOLVED that every revertible action  *)
(* is back in its original state, a transaction whose process is still in  *)
(* the engine or died there is never reported as settled, and              *)
(* INDETERMINATE, which is for contradictory records, is never met: the    *)
(* program writes none.                                                    *)
ClassifierSound ==
    \A t \in Present : Valid(journal[t]) =>
        /\ Classify(journal[t]) = "COMPLETED" =>
              \A j \in Actions : EffectOf(t)[j] = "new"
        /\ Classify(journal[t]) = "FAILED_RESOLVED" =>
              \A j \in Actions \ NoopRollback : EffectOf(t)[j] = "orig"
        /\ t = tx /\ epc # "done" => Classify(journal[t]) = "IN_PROGRESS"
        /\ Classify(journal[t]) # "INDETERMINATE"

(* What a record says of its transaction. *)
Told(rec) ==
    CASE rec.outcome = ""                  -> "open"
      [] rec.outcome = "COMPLETED"         -> "completed"
      [] rec.outcome = "RECOVERY_REQUIRED" -> "latched"
      [] rec.outcome = "FAILED"            -> IF rec.rollback = "ROLLED_BACK" THEN "reverted"
                                              ELSE "failed"

(* What the journal says of transaction t. *)
Life(t) ==
    IF journal[t] # Absent THEN Told(journal[t])
    ELSE IF t \in used THEN "spent" ELSE "none"

Lives == [t \in Tx |-> Life(t)]
Worlds == [t \in Tx |-> EffectOf(t)]
Appeals == {saved.claims[j] : j \in Actions} \ {NoTx}

Book == INSTANCE Ledger WITH
    Irrevertible <- NoopRollback, RiskyTx <- {t \in Tx : Risky(t)},
    life <- Lives, world <- Worlds, driven <- tx, claims <- Appeals

(* The lifecycle implements the ledger (orchestrate.Execute with the       *)
(* engine, the journal and the lock): through every interleaving, crash    *)
(* and failed write each transaction has one life, truthfully recorded; a  *)
(* transaction whose process died is never resumed, and nobody else works  *)
(* while it is open; and state.json appeals to completed ones alone.       *)
ImplementsLedger == Book!Spec

(* "Mirrored durable vocabulary (internal/journal + internal/apply engine  *)
(* action statuses, v1). Unknown values fail closed."  The engine also     *)
(* writes APPLY_FAILED, which the mirror lacks: one such record makes the  *)
(* whole journal unclassifiable.                                           *)
VocabularyIsMirrored == JournalClassifiable({journal[t] : t \in Present})
=============================================================================
