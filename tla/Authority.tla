------------------------------ MODULE Authority ------------------------------
(***************************************************************************)
(* The confirmation boundary: the trust anchor (approval/trustanchor.go),  *)
(* signed approvals of both schemas (approval.go, v2.go), the gates of     *)
(* Execute up to the journal (orchestrate.go), and the service executor    *)
(* that finally runs the commands (apply/service_executor.go).             *)
(*                                                                         *)
(* Operators sign elsewhere, with keys that are current, rotated out or    *)
(* another's; time passes, artifacts are kept and used again; the machine, *)
(* its identity, the anchor file and the plan in the caller's hands change *)
(* between any two steps.  Signatures are unforgeable: an artifact exists  *)
(* because its key signed its payload.  A plan is its own fingerprint.     *)
(***************************************************************************)
EXTENDS Capability

CONSTANTS
    Machines,       \* conditions the machine may be in
    ActsOf,         \* ActsOf[m]: the actions the pipeline plans for m
    Edits,          \* plans a caller may put in place of the prepared one
    HostIds,        \* canonical machine identities
    NoHost,         \* no or a malformed identity
    Keys,           \* signing keys
    Garbage,        \* an anchor file that does not parse
    Offers,         \* payloads operators sign
    Rank(_),        \* byte order of capability strings
    MaxTime,        \* bound: the clock runs 0..MaxTime
    MaxArtifacts,   \* bound on the artifacts in existence
    None

ASSUME AuthorityConstants ==
    /\ NoHost \notin HostIds /\ Garbage \notin Keys /\ None \notin Keys
    /\ Edits \subseteq [acts : {e.acts : e \in Edits}, caps : {e.caps : e \in Edits},
                        ready : BOOLEAN, prepared : BOOLEAN]
    /\ MaxTime \in Nat /\ MaxArtifacts \in Nat

VARIABLES
    now, machine, host,     \* clock, machine, identity in /etc/machine-id
    anchor,     \* the anchor file: [regular, root, writable, key]
    arts,       \* artifacts: [key, pay]
    wired,      \* the process: [mode, key, host], how Execute confirms
    pc,         \* next step of the process
    plan,       \* the plan in hand: [acts, caps, ready, prepared]
    conf,       \* what the gate accepted: [art, by, plan, at]
    seen,       \* the machine as re-discovered under the lock
    rec,        \* the identity put into the journal record
    ran,        \* commands run for this plan: <<unit, command, call>>
    accepted    \* history: [art, entry, purpose, acts] ever accepted

envVars == <<now, machine, host, anchor, arts>>
procVars == <<wired, pc, plan, conf, seen, rec, ran>>
authorityVars == <<envVars, procVars, accepted>>

NoPlan == [acts |-> <<>>, caps |-> <<>>, ready |-> FALSE, prepared |-> FALSE]
NoConf == [art |-> None, by |-> None, plan |-> NoPlan, at |-> 0]
Unwired == [mode |-> "none", key |-> None, host |-> NoHost]
Purposes == {"integration", "service"}

AuthorityInit ==
    /\ now = 0
    /\ machine \in Machines /\ host \in HostIds
    /\ anchor = [regular |-> TRUE, root |-> TRUE, writable |-> FALSE, key |-> CHOOSE k \in Keys : TRUE]
    /\ arts = {}
    /\ wired = Unwired /\ pc = "boot"
    /\ plan = NoPlan /\ conf = NoConf /\ seen = None /\ rec = NoHost /\ ran = {}
    /\ accepted = {}

-----------------------------------------------------------------------------
(* Approvals. *)

(* validateV2: what is checked before signing and again when verifying. *)
ValidV2(p) ==
    /\ p.schema = 2
    /\ p.purpose \in Purposes
    /\ p.host \in HostIds
    /\ p.exp > 0
    /\ p.caps # <<>>
    /\ \A i \in DOMAIN p.caps : ParseCapability(p.caps[i])
    /\ \A i \in 1..Len(p.caps) - 1 : Rank(p.caps[i]) < Rank(p.caps[i + 1])

(* Re-encoding the decoded payload gives the signed bytes only for a       *)
(* payload of that shape: purpose is lost in v1, and made up in v2.        *)
CanonicalAs(p, shape) == p.shape = shape

(* Verifier.Verify: schema 1. *)
Verify(v, art, acts, caps) ==
    /\ v.key \in Keys /\ v.host \in HostIds
    /\ art.key = v.key
    /\ CanonicalAs(art.pay, "v1") /\ art.pay.schema = 1
    /\ art.pay.plan = <<acts, caps>>
    /\ art.pay.host = v.host
    /\ now < art.pay.exp

(* Seeded fault, used by the mutants only: any purpose will do. *)
VerifyV2AnyPurpose(v, art, acts, caps, purpose) ==
    /\ v.key \in Keys /\ v.host \in HostIds /\ art.key = v.key
    /\ CanonicalAs(art.pay, "v2") /\ ValidV2(art.pay)
    /\ art.pay.plan = <<acts, caps>> /\ art.pay.host = v.host /\ now < art.pay.exp

(* Verifier.VerifyV2: schema 2, for the purpose the caller expects. *)
VerifyV2(v, art, acts, caps, purpose) ==
    /\ v.key \in Keys /\ v.host \in HostIds
    /\ purpose \in Purposes
    /\ art.key = v.key
    /\ CanonicalAs(art.pay, "v2") /\ ValidV2(art.pay)
    /\ art.pay.purpose = purpose
    /\ art.pay.plan = <<acts, caps>>
    /\ art.pay.host = v.host
    /\ now < art.pay.exp

(* GrantedCapabilities *)
GrantedCapabilities(p) == NewCapabilitySet(p.caps)

(* Operators sign: SignPayload signs what it is given, SignPayloadV2 only  *)
(* what validateV2 accepts.                                                *)
Sign ==
    /\ Cardinality(arts) < MaxArtifacts
    /\ \E k \in Keys, p \in Offers :
        /\ p.shape = "v2" => ValidV2(p)
        /\ arts' = arts \cup {[key |-> k, pay |-> p]}
    /\ UNCHANGED <<now, machine, host, anchor, procVars, accepted>>

-----------------------------------------------------------------------------
(* Wiring of the process. *)

(* loadTrustAnchor looks at the file ... *)
LstatAnchor ==
    /\ pc = "boot"
    /\ anchor.regular /\ anchor.root /\ ~anchor.writable
    /\ pc' = "lstat"
    /\ UNCHANGED <<envVars, wired, plan, conf, seen, rec, ran, accepted>>

(* ... and reads whatever has its name by then; parseTrustAnchor. *)
ReadAnchor ==
    /\ pc = "lstat"
    /\ IF anchor.key \in Keys
       THEN \E h \in HostIds : wired' = [mode |-> "signed", key |-> anchor.key, host |-> h] /\ pc' = "idle"
       ELSE wired' = Unwired /\ pc' = "boot"
    /\ UNCHANGED <<envVars, plan, conf, seen, rec, ran, accepted>>

(* The experiment's wiring: no verifier, the invoker confirms. *)
NoVerifier ==
    /\ pc = "boot"
    /\ wired' = [mode |-> "legacy", key |-> None, host |-> NoHost] /\ pc' = "idle"
    /\ UNCHANGED <<envVars, plan, conf, seen, rec, ran, accepted>>

-----------------------------------------------------------------------------
(* Prepare and Execute. *)

(* A set of capabilities as it is listed in a plan. *)
InOrder(caps) ==
    IF caps = Refused THEN <<>> ELSE SetToSortSeq(caps, LAMBDA c, d : Rank(c) < Rank(d))

(* The plan for a machine, with the derived capabilities folded in; a      *)
(* requirement that cannot be derived blocks it.                           *)
PlanOf(m) ==
    LET req == RequiredCapabilities(ActsOf[m]) IN
    [acts |-> ActsOf[m], caps |-> InOrder(req), ready |-> req # Refused, prepared |-> TRUE]

PreparePlan ==
    /\ pc = "idle"
    /\ plan' = PlanOf(machine)
    /\ pc' = "planned"
    /\ UNCHANGED <<envVars, wired, conf, seen, rec, ran, accepted>>

(* A caller alters the plan it was given, or makes one itself. *)
Edit ==
    /\ pc = "planned" /\ plan \notin Edits
    /\ \E e \in Edits : plan' = e
    /\ UNCHANGED <<envVars, wired, pc, conf, seen, rec, ran, accepted>>

(* planHasMutation *)
Mutating(p) == \E i \in DOMAIN p.acts : p.acts[i].kind # "VALIDATE"

(* The gates of Execute before confirmation. *)
Gates(p) ==
    /\ p.ready
    /\ GrantSatisfied(RequiredCapabilities(p.acts), NewCapabilitySet(p.caps))
    /\ Mutating(p) => p.prepared

(* Orchestrator.Confirm: with a verifier only an artifact, without one a   *)
(* legacy confirmation of this very fingerprint.                           *)
Confirm ==
    /\ pc = "planned"
    /\ Gates(plan)
    /\ \/ /\ wired.mode = "signed"
          /\ \E a \in arts :
                /\ Verify(wired, a, plan.acts, plan.caps)
                /\ conf' = [art |-> a, by |-> None, plan |-> plan, at |-> now]
                /\ accepted' = accepted \cup {[art |-> a, entry |-> 1, purpose |-> None, acts |-> plan.acts]}
       \/ /\ wired.mode = "legacy"
          /\ conf' = [art |-> None, by |-> "operator", plan |-> plan, at |-> now]
          /\ UNCHANGED accepted
    /\ pc' = "confirmed"
    /\ UNCHANGED <<envVars, wired, plan, seen, rec, ran>>

(* Execute returns: the plan is gone. *)
Leave ==
    /\ pc' = "idle" /\ plan' = NoPlan /\ conf' = NoConf /\ seen' = None
    /\ rec' = NoHost /\ ran' = {}
    /\ UNCHANGED <<envVars, wired, accepted>>

(* Seeded fault, used by the mutants only: the actions are not compared. *)
StillFreshCaps(p, m) == PlanOf(m).ready /\ PlanOf(m).caps = p.caps

(* The plan rebuilt under the lock has the fingerprint of the plan in hand. *)
StillFresh(p, m) == PlanOf(m).ready /\ PlanOf(m).acts = p.acts /\ PlanOf(m).caps = p.caps

(* The staleness gate; an unprepared plan, which is read-only, has none. *)
CheckFresh ==
    /\ pc = "confirmed"
    /\ plan.prepared => StillFresh(plan, machine)
    /\ seen' = machine /\ pc' = "fresh"
    /\ UNCHANGED <<envVars, wired, plan, conf, rec, ran, accepted>>

(* acquireHostIdentity under the lock, and the identity the verifier was   *)
(* bound to: the journal is begun only when they agree.                    *)
HostGate ==
    /\ pc = "fresh"
    /\ Mutating(plan) =>
        /\ host \in HostIds
        /\ wired.mode = "signed" => wired.host = host
    /\ rec' = IF Mutating(plan) THEN host ELSE NoHost
    /\ pc' = "mutating"
    /\ UNCHANGED <<envVars, wired, plan, conf, seen, ran, accepted>>

(* Any gate refuses, or the run is over. *)
Return == pc \in {"planned", "confirmed", "fresh", "mutating"} /\ Leave

-----------------------------------------------------------------------------
(* The service executor: any call the engine may make, in any order. *)

(* ServiceExecutor.spec: an action of the bound plan whose unit is in the policy. *)
BoundService(i) == plan.acts[i].kind = "SERVICE" /\ plan.acts[i].unit \in Units /\ plan.acts[i].unit \in DOMAIN Policy

(* The commands an operation consists of. *)
Commands(op) ==
    CASE op = "enable-start" -> <<"enable", "start">>
      [] op = "disable-stop" -> <<"stop", "disable">>
      [] OTHER -> <<op>>

(* The commands run up to the first that fails. *)
RunCommands(unit, op, call) ==
    /\ \E n \in 1..Len(Commands(op)) : ran' = ran \cup {<<unit, Commands(op)[i], call>> : i \in 1..n}
    /\ UNCHANGED <<envVars, wired, pc, plan, conf, seen, rec, accepted>>

ServiceApply ==
    /\ pc = "mutating"
    /\ \E i \in DOMAIN plan.acts :
        /\ BoundService(i) /\ plan.acts[i].op \in Policy[plan.acts[i].unit]
        /\ RunCommands(plan.acts[i].unit, plan.acts[i].op, "apply")

ServiceRollback ==
    /\ pc = "mutating"
    /\ \E i \in DOMAIN plan.acts :
        /\ BoundService(i) /\ plan.acts[i].rb \in Policy[plan.acts[i].unit]
        /\ RunCommands(plan.acts[i].unit, plan.acts[i].rb, "rollback")

-----------------------------------------------------------------------------
(* A caller of the version 2 entry point: it derives what its plan needs   *)
(* and compares with what was granted.                                     *)
AuthorizeV2 ==
    \E a \in arts, purpose \in Purposes, i \in {"service", "project"} :
        LET acts == a.pay.plan[1]
            req == IF i = "service" THEN RequiredCapabilities(acts) ELSE DerivePlanCapabilities(acts)
        IN /\ wired.mode = "signed"
           /\ VerifyV2(wired, a, acts, a.pay.plan[2], purpose)
           /\ GrantSatisfied(req, GrantedCapabilities(a.pay))
           /\ accepted' = accepted \cup {[art |-> a, entry |-> 2, purpose |-> purpose, acts |-> acts]}
           /\ UNCHANGED <<envVars, procVars>>

-----------------------------------------------------------------------------
(* The world. *)

Tick == now < MaxTime /\ now' = now + 1 /\ UNCHANGED <<machine, host, anchor, arts, procVars, accepted>>

MachineChanges == machine' \in Machines /\ UNCHANGED <<now, host, anchor, arts, procVars, accepted>>

Reinstall == host' \in HostIds \cup {NoHost} /\ UNCHANGED <<now, machine, anchor, arts, procVars, accepted>>

AnchorChanges ==
    /\ anchor' \in [regular : {TRUE}, root : {TRUE}, writable : BOOLEAN, key : Keys \cup {Garbage}]
    /\ UNCHANGED <<now, machine, host, arts, procVars, accepted>>

AuthorityNext ==
    \/ Sign \/ LstatAnchor \/ ReadAnchor \/ NoVerifier
    \/ PreparePlan \/ Edit \/ Confirm \/ CheckFresh \/ HostGate \/ Return
    \/ ServiceApply \/ ServiceRollback \/ AuthorizeV2
    \/ Tick \/ MachineChanges \/ Reinstall \/ AnchorChanges

AuthoritySpec == AuthorityInit /\ [][AuthorityNext]_authorityVars

-----------------------------------------------------------------------------
(* What a mutating run carries out is the plan the program makes for the   *)
(* machine as it was under the lock, confirmed as it stands - with a       *)
(* verifier, by an artifact its key signed for this plan and for the       *)
(* machine whose identity the journal names, not expired when confirmed -  *)
(* whatever changed between planning, confirmation and journal.            *)
MutationIsAuthorised ==
    pc = "mutating" /\ Mutating(plan) =>
        /\ plan = PlanOf(seen) /\ conf.plan = plan
        /\ rec \in HostIds
        /\ wired.mode = "signed" =>
            /\ conf.art \in arts /\ conf.art.key = wired.key
            /\ conf.art.pay.plan = <<plan.acts, plan.caps>>
            /\ conf.art.pay.host = rec
            /\ conf.at < conf.art.pay.exp

(* Every command the service executor runs, forward or back, complete or   *)
(* cut short, is a restart of a unit the confirmed plan names as a         *)
(* capability: the derivation and the executor, which decide separately,   *)
(* never disagree to the wide side.                                        *)
CommandsAreCovered ==
    \A c \in ran :
        /\ \E i \in DOMAIN plan.caps : plan.caps[i] = Cap("restart", <<<<"unit", c[1]>>>>)
        /\ conf.plan.caps = plan.caps
        /\ c[2] \in UNION {ToSet(Commands(op)) : op \in Policy[c[1]]}

(* An artifact is good for one authority only: one entry point, one        *)
(* purpose, one plan - and what it grants there is what that plan needs.   *)
OneAuthorityPerArtifact ==
    \A x, y \in accepted :
        x.art = y.art =>
            /\ x.entry = y.entry /\ x.purpose = y.purpose /\ x.acts = y.acts
            /\ x.entry = 2 =>
                ToSet(x.art.pay.caps) \in {RequiredCapabilities(x.acts), DerivePlanCapabilities(x.acts)}
=============================================================================
