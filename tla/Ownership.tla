----------------------------- MODULE Ownership -----------------------------
(***************************************************************************)
(* Evidence-based ownership (internal/ownership): what a claim, the        *)
(* durable transaction records and a live observation together prove about *)
(* one resource, and what the ownership leg of admission makes of it.      *)
(* Pure operators; every error is the value "ERROR".                       *)
(*                                                                         *)
(*   identity  [class, fields, canonical, table, ns]: the resource class,  *)
(*             the fields that are set, whether path and priority are well *)
(*             formed, the kind of routing table, and the fields that lie  *)
(*             in a compiled project namespace                             *)
(*   claim     [identity, spec, tx, plan, host, at]  (StateEvidence)       *)
(*   fact      [tx, plan, host, outcome, recovery, rollback, acts], acts a *)
(*             function from resources to [status, spec, obs]: one entry   *)
(*             per resource, which is the normal form of a valid fact.     *)
(*             rollback is "" when no rollback was attempted.              *)
(*   live      [state, hash, external]  (LiveFact)                         *)
(* Hashes and plan fingerprints are model values; Nil is a nil pointer or  *)
(* an empty field.                                                         *)
(***************************************************************************)
EXTENDS Integers

CONSTANTS
    Nil,        \* no value
    Hosts       \* canonical host identities, machine-id:<32 hex digits>

Error == "ERROR"

FileClasses == {"file", "sysctl-drop-in"}
RouteClasses == {"route-rule", "route"}
RuleClasses == {"firewall-rule", "mss-rule"}
Classes == FileClasses \cup RouteClasses \cup RuleClasses \cup {"firewall-chain"}

(* identityApplicableFields: exactly these fields are set. *)
Applicable(class) ==
    IF class \in FileClasses THEN {"path"}
    ELSE IF class = "route-rule" THEN {"table", "priority", "from"}
    ELSE IF class = "route" THEN {"table", "destination"}
    ELSE IF class = "firewall-chain" THEN {"chain"}
    ELSE {"chain", "tag"}

(* ResourceIdentity.Validate *)
ValidIdentity(id) ==
    /\ id.class \in Classes
    /\ id.fields = Applicable(id.class)
    /\ id.class \in FileClasses \cup {"route-rule"} => id.canonical
    /\ id.class \in RouteClasses => id.table # "kernel"

(* The fields that must lie in a compiled namespace: the file namespace or *)
(* the drop-in path, the reserved table, the chain and tag prefixes.       *)
Namespaced(class) ==
    IF class \in RouteClasses THEN {"table"} ELSE Applicable(class)

(* BirthrightEligible, for a valid identity. *)
BirthrightEligible(id) == Namespaced(id.class) \subseteq id.ns

(* machineid.Normalize, HostIdentity and parseCurrentHost: anything but    *)
(* the canonical form is refused, never repaired into another identity.    *)
ValidHost(h) == h \in Hosts

(* ParseSpecHashHex and IsZero: a hash is there and well formed. *)
ValidHash(h) == h # Nil

(* EvidenceRef.Validate and StateEvidence.Validate; the zero time is 0. *)
ValidClaim(c) ==
    /\ ValidIdentity(c.identity)
    /\ ValidHash(c.spec)
    /\ c.tx # Nil /\ c.plan # Nil /\ ValidHost(c.host)
    /\ c.at # 0

TransactionOutcomes == {"", "COMPLETED", "FAILED", "RECOVERY_REQUIRED"}
RollbackResults == {"", "ROLLED_BACK", "ROLLBACK_FAILED"}
ActionStatuses == {"APPLIED", "PENDING", "BACKUP_FAILED", "APPLY_FAILED",
                   "VALIDATION_FAILED", "ROLLED_BACK", "ROLLBACK_FAILED"}

(* TransactionFact.Validate *)
ValidFact(f) ==
    /\ f.tx # Nil /\ f.plan # Nil /\ ValidHost(f.host)
    /\ f.outcome \in TransactionOutcomes
    /\ f.rollback \in RollbackResults
    /\ \A r \in DOMAIN f.acts : f.acts[r].status \in ActionStatuses

(* selectCorroboration: the facts that speak of the claim's transaction.   *)
(* Facts are compared by value, so duplicates are one element.             *)
Matching(c, candidates) == {f \in candidates : f.tx = c.tx}

(* The candidates are ambiguous or malformed: an error, never a choice. *)
Conflicting(c, candidates) ==
    \/ \E f \in candidates : ~ValidFact(f)
    \/ \E f, g \in Matching(c, candidates) : f # g

(* Seeded faults, used by the mutants only: the record may come from       *)
(* another machine.                                                        *)
ContradictsAnyHost(c, resource, f, current) ==
    \/ f.outcome # "COMPLETED" \/ f.recovery \/ f.rollback # ""
    \/ f.plan # c.plan
    \/ f.host # c.host
    \/ resource \notin DOMAIN f.acts
    \/ f.acts[resource].status # "APPLIED"

(* The terminal-state, binding and membership legs of Corroborate, for a   *)
(* record that is not in progress.                                         *)
Contradicts(c, resource, f, current) ==
    \/ f.outcome # "COMPLETED" \/ f.recovery \/ f.rollback # ""
    \/ f.plan # c.plan
    \/ f.host # c.host \/ f.host # current
    \/ resource \notin DOMAIN f.acts
    \/ f.acts[resource].status # "APPLIED"

(* The spec leg: what was intended, what was observed afterwards, and what *)
(* is claimed must be one specification.                                   *)
SpecLeg(c, act) ==
    IF act.spec = Nil THEN "INCOMPLETE"
    ELSE IF act.obs \notin {Nil, act.spec} THEN "MISMATCH"
    ELSE IF act.spec # c.spec THEN "MISMATCH"
    ELSE "VERIFIED"

Corroborate(c, resource, candidates, current) ==
    LET f == CHOOSE g \in Matching(c, candidates) : TRUE
    IN  IF ~ValidClaim(c) \/ ~ValidHost(current) \/ Conflicting(c, candidates) THEN Error
        ELSE IF Matching(c, candidates) = {} \/ resource = Nil THEN "INCOMPLETE"
        ELSE IF f.outcome = "" THEN "INCOMPLETE"
        ELSE IF Contradicts(c, resource, f, current) THEN "MISMATCH"
        ELSE SpecLeg(c, f.acts[resource])

-----------------------------------------------------------------------------
LiveStates == {"PRESENT", "ABSENT", "UNKNOWN"}

(* LiveFact.Validate: hash and external owner belong to a present resource. *)
ValidLive(live) ==
    /\ live.state \in LiveStates
    /\ live.state # "PRESENT" => live.hash = Nil /\ live.external = Nil

(* unprovenLike: an occupant nobody can vouch for. *)
UnprovenLike(id) == IF BirthrightEligible(id) THEN "COLLISION" ELSE "UNPROVEN"

(* A present resource whose ownership the records prove. *)
OwnedVerdict(id, live, c) ==
    IF live.external # Nil THEN "CONFLICT"
    ELSE IF live.hash = Nil THEN "UNDETERMINED"
    ELSE IF live.hash = c.spec THEN "OWNED_VERIFIED"
    ELSE IF id.class \in FileClasses THEN "OWNED_DRIFT"
    ELSE "CONFLICT"

(* DeriveVerdict.  Without a claim nothing is verified; an unknown live    *)
(* state is decided before the records are looked at.                      *)
DeriveVerdict(id, live, c, resource, candidates, current) ==
    LET v == IF c = Nil THEN "INCOMPLETE" ELSE Corroborate(c, resource, candidates, current)
    IN  IF ~ValidIdentity(id) \/ ~ValidLive(live) THEN Error
        ELSE IF c # Nil /\ (~ValidClaim(c) \/ c.identity # id) THEN Error
        ELSE IF live.state = "UNKNOWN" THEN "UNDETERMINED"
        ELSE IF v = Error THEN Error
        ELSE IF live.state = "ABSENT" THEN IF v = "VERIFIED" THEN "GONE" ELSE "ABSENT"
        ELSE IF v = "VERIFIED" THEN OwnedVerdict(id, live, c)
        ELSE UnprovenLike(id)

(* ClassifyObservedEvidence: a verified claim is sufficient only when the  *)
(* record also carries the observed postcondition.                         *)
ClassifyObservedEvidence(id, live, c, resource, candidates, current) ==
    LET v == Corroborate(c, resource, candidates, current)
    IN  IF DeriveVerdict(id, live, c, resource, candidates, current) = Error THEN Error
        ELSE IF c = Nil THEN "INSUFFICIENT"
        ELSE IF v = Error THEN Error
        ELSE IF v = "MISMATCH" THEN "CONTRADICTORY"
        ELSE IF v = "VERIFIED" /\ \E f \in Matching(c, candidates) :
                   resource \in DOMAIN f.acts /\ f.acts[resource].obs = c.spec
             THEN "SUFFICIENT"
        ELSE "INSUFFICIENT"

-----------------------------------------------------------------------------
Verdicts == {"OWNED_VERIFIED", "OWNED_DRIFT", "UNPROVEN", "COLLISION",
             "CONFLICT", "ABSENT", "GONE", "UNDETERMINED"}

(* Admit: the ownership leg of one operation on one resource. *)
Admit(op, verdict, id) ==
    IF verdict \notin Verdicts THEN Error
    ELSE IF op = "DELETE" THEN "DENY"
    ELSE IF ~ValidIdentity(id) THEN Error
    ELSE IF verdict = "UNDETERMINED" THEN "UNDETERMINED"
    ELSE IF op = "CREATE" /\ verdict = "ABSENT" /\ BirthrightEligible(id) THEN "ALLOW"
    ELSE IF op = "MODIFY" /\ verdict \in {"OWNED_VERIFIED", "OWNED_DRIFT"} THEN "ALLOW"
    ELSE "DENY"

(* precedenceRank: how conservative a verdict is. *)
PrecedenceRank(v) ==
    CASE v = "UNDETERMINED" -> 8 [] v = "CONFLICT" -> 7 [] v = "COLLISION" -> 6
      [] v = "GONE" -> 5 [] v = "OWNED_DRIFT" -> 4 [] v = "UNPROVEN" -> 3
      [] v = "OWNED_VERIFIED" -> 2 [] v = "ABSENT" -> 1

(* AggregateVerdicts: the most conservative verdict of several. *)
AggregateVerdicts(vs) ==
    IF vs = {} \/ ~(vs \subseteq Verdicts) THEN Error
    ELSE CHOOSE v \in vs : \A w \in vs : PrecedenceRank(w) <= PrecedenceRank(v)
=============================================================================
