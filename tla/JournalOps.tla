----------------------------- MODULE JournalOps -----------------------------
(***************************************************************************)
(* The decisions internal/journal takes over durable transaction records,  *)
(* as operators without state.                                             *)
(*                                                                         *)
(* A record has the fields                                                 *)
(*   schema    schema version (1, 2 or 3)                                  *)
(*   prov      host identity, plan fingerprint, start time and approval    *)
(*             evidence: the provenance Begin establishes, as one value    *)
(*   acts      sequence of [id, ident, obs]: action id; resource, kind,    *)
(*             retry class and intended spec hash as one value; observed   *)
(*             postcondition hash                                          *)
(*   outcome   "" while in progress, or a terminal outcome                 *)
(*   recovery  the RECOVERY_REQUIRED latch                                 *)
(*   mut       MutationPossible                                            *)
(* Stage, action status, rollback result and UpdatedAt are free for every  *)
(* update; outcome and recovery stand for them.                            *)
(***************************************************************************)
EXTENDS Integers, Sequences

CONSTANTS
    Absent,     \* no record file for this transaction
    Corrupt,    \* a file neither a load nor an update accepts: bad JSON,
                \* unknown schema version, body id empty or not the file name
    BlankPlan,     \* a provenance whose plan fingerprint is blank
    NoHash,     \* no observed postcondition hash
    BadHash     \* an observed hash that is not in the canonical form

ClassifyRetry(kind) ==
    CASE kind \in {"CREATE_FILE", "UPDATE_FILE", "DELETE_OWNED_FILE", "SERVICE"} -> "retry-safe"
      [] kind \in {"SSH", "REBOOT"} -> "staged-recovery"
      [] kind \in {"SSH_FINALIZE", "FIREWALL", "ROUTING", "INSTALLER"} -> "no-autonomous-retry"
      [] OTHER -> "unclassified"

(* The observed-hash field exists since v3 and must be well formed. *)
BadObserved(rec) ==
    \E i \in DOMAIN rec.acts :
        /\ rec.acts[i].obs # NoHash
        /\ rec.schema < 3 \/ rec.acts[i].obs = BadHash

(* loadAll accepts the record; one it refuses fails the whole load.  Of    *)
(* the three tests an update makes all but that of the plan fingerprint.   *)
Readable(entry) == entry # Corrupt /\ entry.prov # BlankPlan /\ ~BadObserved(entry)

(* The actions of rec that carry this id. *)
WithId(rec, id) == {k \in DOMAIN rec.acts : rec.acts[k].id = id}

(* Every persisted action survives exactly once, with its identity fields, *)
(* and no action is added.  Only the designated writer may attach an       *)
(* observed hash to an action that had none.                               *)
ActionsPinned(cur, rec, mayObserve) ==
    /\ \A i \in DOMAIN cur.acts : \E k \in DOMAIN rec.acts :
          /\ WithId(rec, cur.acts[i].id) = {k}
          /\ rec.acts[k].ident = cur.acts[i].ident
          /\ (cur.acts[i].obs = NoHash /\ rec.acts[k].obs # NoHash) => mayObserve
    /\ \A k \in DOMAIN rec.acts : WithId(cur, rec.acts[k].id) # {}

(* Seeded faults, used by the mutants only: the provenance pin checks the  *)
(* schema alone, the persistence gate looks at blocking records alone.     *)
ProvenanceLoose(cur, rec) == rec.schema = cur.schema

BlocksPersistenceNarrow(rec, planMutates) == rec.recovery \/ rec.outcome = ""

(* A recorded observation stays with its action, unambiguously. *)
ObservedPinned(cur, rec) ==
    \A i \in DOMAIN cur.acts : cur.acts[i].obs # NoHash =>
        /\ \A j \in WithId(cur, cur.acts[i].id) : cur.acts[j].obs # NoHash => j = i
        /\ \A k \in WithId(rec, cur.acts[i].id) : rec.acts[k].obs = cur.acts[i].obs

ProvenancePinned(cur, rec) == rec.prov = cur.prov /\ rec.schema = cur.schema

(* updateRecord writes rec over the persisted record cur. *)
UpdateAllowed(cur, rec, mayObserve) ==
    /\ ~BadObserved(cur)
    /\ ProvenancePinned(cur, rec)
    /\ ActionsPinned(cur, rec, mayObserve)
    /\ ObservedPinned(cur, rec)

(* BlockingRecords: a record that refuses every new mutating transaction. *)
Blocking(rec) == rec.recovery \/ rec.outcome = ""

(* PersistenceBlockers: a record of another transaction that refuses an    *)
(* update of state.json.                                                   *)
BlocksPersistence(rec, planMutates) ==
    \/ Blocking(rec)
    \/ ~planMutates /\ rec.outcome = "FAILED" /\ rec.mut
=============================================================================
