----------------------------- MODULE TrustProof -----------------------------
(***************************************************************************)
(* Who may change what: a mutating run was authorised, the commands it     *)
(* runs are the ones the authorisation covers, an artifact authorises one  *)
(* thing, and an admitted resource is one this machine wrote; for any      *)
(* machines, plans, keys, identities, artifacts, files and records, and    *)
(* any number of them.                                                     *)
(***************************************************************************)
EXTENDS MCTrust, LeastElement

-----------------------------------------------------------------------------
(* Authority.  The properties speak of the moment of mutation; the         *)
(* invariant says what each gate has established by the time the process   *)
(* is past it, and that nothing that happens afterwards - a change of the  *)
(* machine, of its identity, of the anchor file, of the clock, a new       *)
(* artifact - undoes it: the process never looks at the world again except *)
(* through these gates.                                                    *)

(* A plan is a record of four fields. *)
PlanShape(p) ==
    /\ p = [acts |-> p.acts, caps |-> p.caps, ready |-> p.ready, prepared |-> p.prepared]
    /\ p.ready \in BOOLEAN /\ p.prepared \in BOOLEAN

(* The confirmation covers the plan in hand, which passed the gates; with  *)
(* a verifier, by an artifact of its key for its host.                     *)
Confirmed ==
    /\ conf.plan = plan
    /\ Gates(plan)
    /\ wired.mode = "signed" =>
          /\ conf.art \in arts /\ conf.art.key = wired.key
          /\ conf.art.pay.plan = <<plan.acts, plan.caps>>
          /\ conf.art.pay.host = wired.host
          /\ conf.at < conf.art.pay.exp

(* The journal names the machine the verifier was bound to. *)
Identified ==
    Mutating(plan) => rec \in HostIds /\ (wired.mode = "signed" => rec = wired.host)

AuthInv ==
    /\ PlanShape(plan)
    /\ pc \in {"confirmed", "fresh", "mutating"} => Confirmed
    /\ pc \in {"fresh", "mutating"} => (plan.prepared => StillFresh(plan, seen))
    /\ pc = "mutating" => Identified

-----------------------------------------------------------------------------
(* The pipeline makes plans of that shape. *)
LEMMA PlanOfShape == \A m : PlanShape(PlanOf(m))
  BY DEF PlanShape, PlanOf

LEMMA EditShape == \A e \in Edits : PlanShape(e)
<1> SUFFICES ASSUME NEW e \in Edits PROVE PlanShape(e)
  OBVIOUS
<1>1. \A A, C : e \in [acts : A, caps : C, ready : BOOLEAN, prepared : BOOLEAN] => PlanShape(e)
  BY DEF PlanShape
<1> HIDE DEF PlanShape
<1> QED
  BY <1>1, AuthorityConstants

LEMMA AuthorityStart == AuthorityInit => AuthInv
  BY DEF AuthorityInit, AuthInv, PlanShape, NoPlan

(* Steps of the world: artifacts only come, the rest is not looked at. *)
LEMMA WorldStep ==
  ASSUME AuthInv, UNCHANGED procVars, arts \subseteq arts'
  PROVE  AuthInv'
  BY DEF procVars, AuthInv, PlanShape, Confirmed, Identified, Mutating, StillFresh, PlanOf

LEMMA AuthorityStep == AuthInv /\ [AuthorityNext]_authorityVars => AuthInv'
<1> SUFFICES ASSUME AuthInv, [AuthorityNext]_authorityVars PROVE AuthInv'
  OBVIOUS
<1>1. CASE Sign \/ Tick \/ MachineChanges \/ Reinstall \/ AnchorChanges \/ AuthorizeV2
  <2>1. UNCHANGED procVars /\ arts \subseteq arts'
    BY <1>1 DEF Sign, Tick, MachineChanges, Reinstall, AnchorChanges, AuthorizeV2, envVars
  <2> QED
    BY <2>1, WorldStep
<1>2. CASE LstatAnchor \/ ReadAnchor \/ NoVerifier
  <2>1. plan' = plan /\ pc' \in {"lstat", "boot", "idle"}
    BY <1>2 DEF LstatAnchor, ReadAnchor, NoVerifier
  <2> QED
    BY <2>1 DEF AuthInv, PlanShape
<1>3. CASE PreparePlan
  BY <1>3, PlanOfShape DEF PreparePlan, AuthInv
<1>4. CASE Edit
  <2>1. PlanShape(plan)' /\ pc' = "planned"
    BY <1>4, EditShape DEF Edit, PlanShape
  <2> QED
    BY <2>1 DEF AuthInv
<1>5. CASE Confirm
  <2>1. plan' = plan /\ wired' = wired /\ arts' = arts /\ pc' = "confirmed"
    BY <1>5 DEF Confirm, envVars
  <2>2. Gates(plan)
    BY <1>5 DEF Confirm
  <2>3. conf'.plan = plan
    BY <1>5 DEF Confirm
  <2>4. ASSUME wired.mode = "signed"
        PROVE  /\ conf'.art \in arts /\ conf'.art.key = wired.key
               /\ conf'.art.pay.plan = <<plan.acts, plan.caps>>
               /\ conf'.art.pay.host = wired.host
               /\ conf'.at < conf'.art.pay.exp
    BY <1>5, <2>4 DEF Confirm, Verify
  <2> QED
    BY <2>1, <2>2, <2>3, <2>4 DEF AuthInv, PlanShape, Confirmed, Mutating
<1>6. CASE CheckFresh
  <2>1. /\ plan' = plan /\ wired' = wired /\ arts' = arts /\ conf' = conf
        /\ pc = "confirmed" /\ pc' = "fresh"
        /\ plan.prepared => StillFresh(plan, seen')
    BY <1>6 DEF CheckFresh, envVars
  <2> QED
    BY <2>1 DEF AuthInv, PlanShape, Confirmed, Mutating, StillFresh, PlanOf
<1>7. CASE HostGate
  <2>1. /\ plan' = plan /\ wired' = wired /\ arts' = arts /\ conf' = conf /\ seen' = seen
        /\ pc = "fresh" /\ pc' = "mutating"
        /\ Mutating(plan) => rec' \in HostIds /\ (wired.mode = "signed" => rec' = wired.host)
    BY <1>7 DEF HostGate, envVars
  <2> QED
    BY <2>1 DEF AuthInv, PlanShape, Confirmed, Identified, Mutating, StillFresh, PlanOf
<1>8. CASE Return
  BY <1>8 DEF Return, Leave, AuthInv, PlanShape, NoPlan
<1>9. CASE ServiceApply \/ ServiceRollback
  <2>1. UNCHANGED <<envVars, wired, pc, plan, conf, seen, rec>>
    BY <1>9 DEF ServiceApply, ServiceRollback, RunCommands
  <2> QED
    BY <2>1 DEF envVars, AuthInv, PlanShape, Confirmed, Identified, Mutating, StillFresh, PlanOf
<1>10. CASE UNCHANGED authorityVars
  BY <1>10, WorldStep DEF authorityVars, envVars
<1> QED
  BY <1>1, <1>2, <1>3, <1>4, <1>5, <1>6, <1>7, <1>8, <1>9, <1>10 DEF AuthorityNext

(* A mutating run carries out the program's own plan for the machine as it *)
(* was under the lock, confirmed as it stands and for this very machine.   *)
THEOREM AuthorityMutationIsAuthorised == AuthoritySpec => []MutationIsAuthorised
<1>1. AuthInv => MutationIsAuthorised
  <2> SUFFICES ASSUME AuthInv, pc = "mutating", Mutating(plan)
               PROVE  /\ plan = PlanOf(seen) /\ conf.plan = plan
                      /\ rec \in HostIds
                      /\ wired.mode = "signed" =>
                            /\ conf.art \in arts /\ conf.art.key = wired.key
                            /\ conf.art.pay.plan = <<plan.acts, plan.caps>>
                            /\ conf.art.pay.host = rec
                            /\ conf.at < conf.art.pay.exp
    BY DEF MutationIsAuthorised
  <2>1. Confirmed /\ Identified /\ StillFresh(plan, seen) /\ plan.prepared /\ plan.ready
    BY DEF AuthInv, Confirmed, Gates
  <2>2. plan = PlanOf(seen)
    <3>1. PlanShape(plan) /\ PlanShape(PlanOf(seen))
      BY PlanOfShape DEF AuthInv
    <3>2. plan.ready = PlanOf(seen).ready /\ plan.prepared = PlanOf(seen).prepared
      BY <2>1, <3>1 DEF Confirmed, StillFresh, PlanShape, PlanOf
    <3> QED
      BY <2>1, <3>1, <3>2 DEF StillFresh, PlanShape
  <2> QED
    BY <2>1, <2>2 DEF Confirmed, Identified
<1> QED
  BY <1>1, AuthorityStart, AuthorityStep, PTL DEF AuthoritySpec
-----------------------------------------------------------------------------
(* The commands.  Each was run for a service action of the plan in hand,   *)
(* with an operation of the compiled policy.                               *)
CommandInv ==
    /\ ran # {} => pc = "mutating"
    /\ \A c \in ran :
          /\ \E i \in DOMAIN plan.acts : plan.acts[i].kind = "SERVICE" /\ plan.acts[i].unit = c[1]
          /\ c[2] \in UNION {ToSet(Commands(op)) : op \in Policy[c[1]]}

LEMMA CommandIsListed == \A op : \A i \in 1..Len(Commands(op)) : Commands(op)[i] \in ToSet(Commands(op))
<1> TAKE op
<1>1. Commands(op) \in {<<"enable", "start">>, <<"stop", "disable">>, <<op>>}
  BY DEF Commands
<1>2. DOMAIN Commands(op) = 1..Len(Commands(op))
  BY <1>1
<1> QED
  BY <1>2 DEF ToSet

LEMMA RunCommandsInv ==
  ASSUME CommandInv, pc = "mutating", NEW i \in DOMAIN plan.acts, plan.acts[i].kind = "SERVICE",
         NEW op \in Policy[plan.acts[i].unit], NEW call, RunCommands(plan.acts[i].unit, op, call)
  PROVE  CommandInv'
<1> DEFINE u == plan.acts[i].unit
<1>1. PICK n \in 1..Len(Commands(op)) : ran' = ran \cup {<<u, Commands(op)[k], call>> : k \in 1..n}
  BY DEF RunCommands
<1>2. pc' = pc /\ plan' = plan
  BY DEF RunCommands
<1>3. Len(Commands(op)) \in Nat
  BY DEF Commands
<1>4. ASSUME NEW c \in ran' \ ran
      PROVE  c[1] = u /\ c[2] \in ToSet(Commands(op))
  <2>1. PICK k \in 1..n : c = <<u, Commands(op)[k], call>>
    BY <1>1, <1>4
  <2>2. k \in 1..Len(Commands(op))
    BY <1>3
  <2> QED
    BY <2>1, <2>2, CommandIsListed
<1>5. ASSUME NEW c \in ran'
      PROVE  /\ \E k \in DOMAIN plan.acts : plan.acts[k].kind = "SERVICE" /\ plan.acts[k].unit = c[1]
             /\ c[2] \in UNION {ToSet(Commands(o)) : o \in Policy[c[1]]}
  <2>1. CASE c \in ran
    BY <2>1 DEF CommandInv
  <2>2. CASE c \notin ran
    <3>1. c[1] = u /\ c[2] \in ToSet(Commands(op))
      BY <1>4, <1>5, <2>2
    <3> QED
      BY <3>1
  <2> QED
    BY <2>1, <2>2
<1> QED
  BY <1>2, <1>5 DEF CommandInv

LEMMA CommandStep == CommandInv /\ [AuthorityNext]_authorityVars => CommandInv'
<1> SUFFICES ASSUME CommandInv, [AuthorityNext]_authorityVars PROVE CommandInv'
  OBVIOUS
<1>1. CASE Sign \/ Tick \/ MachineChanges \/ Reinstall \/ AnchorChanges \/ AuthorizeV2 \/ UNCHANGED authorityVars
  <2>1. pc' = pc /\ plan' = plan /\ ran' = ran
    BY <1>1 DEF Sign, Tick, MachineChanges, Reinstall, AnchorChanges, AuthorizeV2, procVars, authorityVars
  <2> QED
    BY <2>1 DEF CommandInv
<1>2. CASE LstatAnchor \/ ReadAnchor \/ NoVerifier \/ PreparePlan \/ Edit \/ Confirm \/ CheckFresh \/ HostGate
  <2>1. pc # "mutating" /\ ran' = ran
    BY <1>2 DEF LstatAnchor, ReadAnchor, NoVerifier, PreparePlan, Edit, Confirm, CheckFresh, HostGate
  <2>2. ran = {}
    BY <2>1 DEF CommandInv
  <2> QED
    BY <2>1, <2>2 DEF CommandInv
<1>3. CASE Return
  BY <1>3 DEF Return, Leave, CommandInv
<1>4. CASE ServiceApply
  <2>1. PICK i \in DOMAIN plan.acts :
          /\ BoundService(i) /\ plan.acts[i].op \in Policy[plan.acts[i].unit]
          /\ RunCommands(plan.acts[i].unit, plan.acts[i].op, "apply")
    BY <1>4 DEF ServiceApply
  <2> QED
    BY <1>4, <2>1, RunCommandsInv DEF ServiceApply, BoundService
<1>5. CASE ServiceRollback
  <2>1. PICK i \in DOMAIN plan.acts :
          /\ BoundService(i) /\ plan.acts[i].rb \in Policy[plan.acts[i].unit]
          /\ RunCommands(plan.acts[i].unit, plan.acts[i].rb, "rollback")
    BY <1>5 DEF ServiceRollback
  <2> QED
    BY <1>5, <2>1, RunCommandsInv DEF ServiceRollback, BoundService
<1> QED
  BY <1>1, <1>2, <1>3, <1>4, <1>5 DEF AuthorityNext

(* A grant that satisfies a requirement is the requirement. *)
LEMMA GrantIsRequirement ==
  ASSUME NEW req, NEW caps, GrantSatisfied(req, NewCapabilitySet(caps))
  PROVE  req = ToSet(caps)
<1>1. NewCapabilitySet(caps) = ToSet(caps)
  BY DEF GrantSatisfied, NewCapabilitySet
<1>2. \A x : x \in req <=> x \in ToSet(caps)
  BY <1>1 DEF GrantSatisfied
<1> QED
  BY <1>2

(* What is derived for a plan names the unit of each of its services. *)
LEMMA RequirementNamesUnit ==
  ASSUME NEW acts, RequiredCapabilities(acts) # Refused,
         NEW i \in DOMAIN acts, acts[i].kind = "SERVICE"
  PROVE  Cap("restart", <<<<"unit", acts[i].unit>>>>) \in RequiredCapabilities(acts)
<1> DEFINE D(k) == DeriveCapability("restart", [unit |-> acts[k].unit])
           ids == {D(k) : k \in {k \in DOMAIN acts : acts[k].kind = "SERVICE"}}
<1>1. RequiredCapabilities(acts) = Aggregate(ids)
  BY DEF RequiredCapabilities
<1>2. D(i) \in ids
  OBVIOUS
<1> HIDE DEF ids
<1>3. RequiredCapabilities(acts) = ids /\ Refused \notin ids
  BY <1>1 DEF Aggregate
<1>4. D(i) # Refused
  BY <1>2, <1>3
<1>5. D(i) = Construct("restart", [unit |-> acts[i].unit])
  BY <1>4 DEF DeriveCapability, Checked
<1>6. Construct("restart", [unit |-> acts[i].unit]) = Cap("restart", <<<<"unit", acts[i].unit>>>>)
  BY DEF Construct
<1> QED
  BY <1>2, <1>3, <1>5, <1>6

(* The derivation of what a plan may do and the executor that does it      *)
(* agree, for any policy and any plan: a command is covered by a           *)
(* capability of the plan that was confirmed.                              *)
THEOREM AuthorityCommandsAreCovered == AuthoritySpec => []CommandsAreCovered
<1>1. ASSUME AuthInv, CommandInv PROVE CommandsAreCovered
  <2> SUFFICES ASSUME NEW c \in ran
               PROVE  /\ \E i \in DOMAIN plan.caps : plan.caps[i] = Cap("restart", <<<<"unit", c[1]>>>>)
                      /\ conf.plan.caps = plan.caps
                      /\ c[2] \in UNION {ToSet(Commands(op)) : op \in Policy[c[1]]}
    BY DEF CommandsAreCovered
  <2>1. Confirmed
    BY <1>1 DEF AuthInv, CommandInv
  <2>2. GrantSatisfied(RequiredCapabilities(plan.acts), NewCapabilitySet(plan.caps))
    BY <2>1 DEF Confirmed, Gates
  <2>3. PICK i \in DOMAIN plan.acts : plan.acts[i].kind = "SERVICE" /\ plan.acts[i].unit = c[1]
    BY <1>1 DEF CommandInv
  <2>4. RequiredCapabilities(plan.acts) = ToSet(plan.caps) /\ RequiredCapabilities(plan.acts) # Refused
    BY <2>2, GrantIsRequirement DEF GrantSatisfied
  <2>5. Cap("restart", <<<<"unit", c[1]>>>>) \in ToSet(plan.caps)
    BY <2>3, <2>4, RequirementNamesUnit
  <2> QED
    BY <1>1, <2>1, <2>5 DEF ToSet, Confirmed, CommandInv
<1>2. AuthorityInit => CommandInv
  BY DEF AuthorityInit, CommandInv
<1> QED
  BY <1>1, <1>2, AuthorityStart, AuthorityStep, CommandStep, PTL DEF AuthoritySpec

-----------------------------------------------------------------------------
(* The artifacts.  What was accepted is read off the artifact itself.      *)
ArtifactInv ==
    \A x \in accepted :
        \/ /\ x.entry = 1 /\ x.art.pay.shape = "v1" /\ x.purpose = None
           /\ x.acts = x.art.pay.plan[1]
        \/ /\ x.entry = 2 /\ x.art.pay.shape = "v2" /\ x.purpose = x.art.pay.purpose
           /\ x.acts = x.art.pay.plan[1]
           /\ ToSet(x.art.pay.caps) \in {RequiredCapabilities(x.acts), DerivePlanCapabilities(x.acts)}

LEMMA ArtifactStep == ArtifactInv /\ [AuthorityNext]_authorityVars => ArtifactInv'
<1> SUFFICES ASSUME ArtifactInv, [AuthorityNext]_authorityVars PROVE ArtifactInv'
  OBVIOUS
<1>1. CASE accepted' = accepted
  BY <1>1 DEF ArtifactInv
<1>2. CASE Confirm
  <2>1. CASE \E a \in arts :
               /\ Verify(wired, a, plan.acts, plan.caps)
               /\ accepted' = accepted \cup {[art |-> a, entry |-> 1, purpose |-> None, acts |-> plan.acts]}
    <3>1. PICK a \in arts :
               /\ Verify(wired, a, plan.acts, plan.caps)
               /\ accepted' = accepted \cup {[art |-> a, entry |-> 1, purpose |-> None, acts |-> plan.acts]}
      BY <2>1
    <3>2. a.pay.shape = "v1" /\ a.pay.plan = <<plan.acts, plan.caps>>
      BY <3>1 DEF Verify, CanonicalAs
    <3> QED
      BY <3>1, <3>2 DEF ArtifactInv
  <2> QED
    BY <1>1, <1>2, <2>1 DEF Confirm
<1>3. CASE AuthorizeV2
  <2>1. PICK a \in arts, purpose \in Purposes, i \in {"service", "project"} :
          LET acts == a.pay.plan[1]
              req == IF i = "service" THEN RequiredCapabilities(acts) ELSE DerivePlanCapabilities(acts)
          IN /\ VerifyV2(wired, a, acts, a.pay.plan[2], purpose)
             /\ GrantSatisfied(req, GrantedCapabilities(a.pay))
             /\ accepted' = accepted \cup {[art |-> a, entry |-> 2, purpose |-> purpose, acts |-> acts]}
    BY <1>3 DEF AuthorizeV2
  <2> DEFINE acts == a.pay.plan[1]
             x == [art |-> a, entry |-> 2, purpose |-> purpose, acts |-> acts]
  <2>2. accepted' = accepted \cup {x}
    BY <2>1
  <2>3. a.pay.shape = "v2" /\ a.pay.purpose = purpose
    BY <2>1 DEF VerifyV2, CanonicalAs
  <2>4. ToSet(a.pay.caps) \in {RequiredCapabilities(acts), DerivePlanCapabilities(acts)}
    BY <2>1, GrantIsRequirement DEF GrantedCapabilities
  <2> QED
    BY <2>2, <2>3, <2>4 DEF ArtifactInv
<1>4. CASE Sign \/ Tick \/ MachineChanges \/ Reinstall \/ AnchorChanges \/ UNCHANGED authorityVars
  BY <1>1, <1>4 DEF Sign, Tick, MachineChanges, Reinstall, AnchorChanges, authorityVars
<1>5. CASE LstatAnchor \/ ReadAnchor \/ NoVerifier \/ PreparePlan \/ Edit \/ CheckFresh \/ HostGate
           \/ Return \/ ServiceApply \/ ServiceRollback
  BY <1>1, <1>5 DEF LstatAnchor, ReadAnchor, NoVerifier, PreparePlan, Edit, CheckFresh, HostGate,
                    Return, Leave, ServiceApply, ServiceRollback, RunCommands
<1> QED
  BY <1>2, <1>3, <1>4, <1>5 DEF AuthorityNext

(* An artifact is accepted by one entry point, for one purpose and one     *)
(* plan, and what it grants is what that plan needs.                       *)
THEOREM AuthorityOnePerArtifact == AuthoritySpec => []OneAuthorityPerArtifact
<1>1. ArtifactInv => OneAuthorityPerArtifact
  BY DEF ArtifactInv, OneAuthorityPerArtifact
<1>2. AuthorityInit => ArtifactInv
  BY DEF AuthorityInit, ArtifactInv
<1> QED
  BY <1>1, <1>2, ArtifactStep, PTL DEF AuthoritySpec

-----------------------------------------------------------------------------
(* Evidence.  Admission rests on the journal, not on the claims: whatever  *)
(* the state file says, the record that corroborates it was completed on   *)
(* this machine, and then what it wrote is in the history (GroundInv).     *)
(* That a recovery is exact needs more: where every claim came from        *)
(* (ClaimInv), that completed records are neither lost nor rewritten       *)
(* (RecordsInv with RunInv), and which of them is the last (LastInv).      *)

EvTypes ==
    /\ DOMAIN state = {"ver", "claims"}
    /\ live \in [Files -> Contents]
    /\ next \in Nat
    /\ DOMAIN run = {"pc", "tx", "prior", "before"}
    /\ run.pc \in {"idle", "planned", "begun", "applied", "completed"}
    /\ run.before \in [Files -> Contents]

(* A record of this machine. *)
Local(r) ==
    /\ r.host = Here /\ r.schema = 3 /\ r.start # 0
    /\ r.outcome = "COMPLETED" =>
          ~r.recovery /\ r.rollback = "" /\ \A f \in DOMAIN r.acts : r.acts[f].status = "APPLIED"

(* Local records are this machine's, copied ones are not. *)
RecordOK(t, r) ==
    r # Absent => r \in Record(t) /\ (t \in Tx => Local(r)) /\ (t \in Copied => r.host # Here)
RecordsInv ==
    /\ DOMAIN journal = AllTx
    /\ \A t \in AllTx : RecordOK(t, journal[t])
    /\ \A t \in Tx : t >= next => journal[t] = Absent

(* The record of the run in progress is open until it completes. *)
Open(r, t) == r \in Record(t) /\ Local(r) /\ r.outcome = "" /\ r.rollback = "" /\ ~r.recovery
RunInv ==
    /\ run.pc \in {"begun", "applied", "completed"} => run.tx \in Tx /\ run.tx + 1 = next
    /\ run.pc \in {"begun", "applied"} => Open(journal[run.tx], run.tx)
    /\ run.pc = "applied" =>
          \A f \in DOMAIN journal[run.tx].acts : journal[run.tx].acts[f].status = "APPLIED"
    /\ run.pc = "completed" => journal[run.tx] # Absent /\ journal[run.tx].outcome = "COMPLETED"
    /\ run.pc = "planned" => run.tx = NoTx
    /\ run.pc = "idle" => run = Idle

(* What completed transactions of this machine wrote is in the history. *)
GroundInv ==
    \A t \in Present \cap Tx : journal[t].outcome = "COMPLETED" =>
        \A f \in DOMAIN journal[t].acts : [tx |-> t, spec |-> journal[t].acts[f].spec] \in wrote[f]

(* A claim that was not planted is the claim of a record that still counts. *)
Backed(c, f, j) ==
    \E t \in AllTx : j[t] # Absent /\ ~Skipped(j[t]) /\ f \in Minted(j[t]) /\ c = ClaimOf(j[t], f)
ClaimInv ==
    ~planted => \A f \in Files :
        /\ state.claims[f] # Nil => Backed(state.claims[f], f, journal)
        /\ run.prior[f] # Nil => Backed(run.prior[f], f, journal)

(* The last transaction that completed a file. *)
LastInv ==
    \A f \in Files :
        /\ last[f] # Nil =>
              /\ last[f].tx \in Present \cap Tx /\ Mintable(f)
              /\ journal[last[f].tx].outcome = "COMPLETED"
              /\ f \in DOMAIN journal[last[f].tx].acts
              /\ journal[last[f].tx].acts[f].spec = last[f].spec
        /\ \A t \in Present \cap Tx :
              journal[t].outcome = "COMPLETED" /\ f \in DOMAIN journal[t].acts /\ Mintable(f) =>
                  last[f] # Nil /\ t <= last[f].tx

RecoveredInv == recovered => run.pc \in {"idle", "planned"} /\ RecoverStatus = "NO_CHANGE"

JournalInv == EvTypes /\ RecordsInv /\ RunInv /\ GroundInv /\ LastInv
EvInv == JournalInv /\ ClaimInv /\ RecoveredInv

-----------------------------------------------------------------------------
(* The records runs write are records. *)
LEMMA ActsFacts ==
  ASSUME NEW acts \in Acts
  PROVE  /\ DOMAIN acts \subseteq Files
         /\ \A f \in DOMAIN acts : acts[f] \in [status : ActionStatuses, spec : Specs, obs : Contents]
  BY DEF Acts

LEMMA NewRecordOpen ==
  ASSUME NEW t \in Tx, NEW fs \in SUBSET Files, NEW s \in Specs, NEW n \in 1..MaxClock
  PROVE  Open(NewRecord(t, fs, s, n), t)
<1> DEFINE acts == [f \in fs |-> [status |-> "PENDING", spec |-> s, obs |-> Nil]]
<1>1. acts \in Acts
  <2>1. \A f \in fs : [status |-> "PENDING", spec |-> s, obs |-> Nil]
            \in [status : ActionStatuses, spec : Specs, obs : Contents]
    BY DEF ActionStatuses, Contents
  <2> QED
    BY <2>1 DEF Acts
<1> HIDE DEF acts
<1>2. FALSE \in BOOLEAN /\ "" \in TransactionOutcomes /\ "" \in RollbackResults /\ n \in 0..MaxClock /\ n # 0
  BY EvidenceConstants DEF TransactionOutcomes, RollbackResults
<1>3. NewRecord(t, fs, s, n) \in Record(t)
  BY <1>1, <1>2 DEF NewRecord, Plan, Record, acts
<1>4. LET r == NewRecord(t, fs, s, n) IN
        r.host = Here /\ r.schema = 3 /\ r.start # 0 /\ r.outcome = "" /\ r.rollback = "" /\ r.recovery = FALSE
  BY <1>2 DEF NewRecord
<1> QED
  BY <1>3, <1>4 DEF Open, Local

LEMMA RecordFacts ==
  ASSUME NEW t, NEW r \in Record(t)
  PROVE  /\ DOMAIN r = {"tx", "plan", "host", "start", "schema", "outcome", "recovery", "rollback", "mut", "acts"}
         /\ r.tx = t /\ r.plan = t /\ r.host \in {Here, There, Nil} /\ r.start \in 0..MaxClock
         /\ r.schema \in {1, 3} /\ r.recovery \in BOOLEAN
         /\ r.outcome \in TransactionOutcomes /\ r.rollback \in RollbackResults /\ r.acts \in Acts
  BY DEF Record

LEMMA EndRecord ==
  ASSUME NEW t, NEW r \in Record(t), NEW o \in TransactionOutcomes, NEW b \in BOOLEAN, NEW k \in RollbackResults
  PROVE  [r EXCEPT !.outcome = o, !.recovery = b, !.rollback = k] \in Record(t)
  BY DEF Record

LEMMA EndRecord2 ==
  ASSUME NEW t, NEW r \in Record(t), NEW o \in TransactionOutcomes, NEW k \in RollbackResults
  PROVE  [r EXCEPT !.outcome = o, !.rollback = k] \in Record(t)
  BY DEF Record

LEMMA EndRecord1 ==
  ASSUME NEW t, NEW r \in Record(t), NEW o \in TransactionOutcomes
  PROVE  [r EXCEPT !.outcome = o] \in Record(t)
  BY DEF Record

LEMMA WithActs ==
  ASSUME NEW t, NEW r \in Record(t), NEW acts \in Acts
  PROVE  [r EXCEPT !.acts = acts] \in Record(t)
  BY DEF Record

LEMMA WithStatusFacts ==
  ASSUME NEW t, NEW r \in Record(t), NEW st \in ActionStatuses
  PROVE  LET w == WithStatus(r, st) IN
         /\ w \in Record(t)
         /\ w.host = r.host /\ w.schema = r.schema /\ w.start = r.start /\ w.outcome = r.outcome
         /\ w.rollback = r.rollback /\ w.recovery = r.recovery
         /\ \A f \in DOMAIN w.acts : w.acts[f].status = st
<1> DEFINE acts == [f \in DOMAIN r.acts |-> [r.acts[f] EXCEPT !.status = st]]
<1>1. r.acts \in Acts
  BY DEF Record
<1>2. \A f \in DOMAIN r.acts : acts[f] \in [status : ActionStatuses, spec : Specs, obs : Contents] /\ acts[f].status = st
  BY <1>1, ActsFacts
<1>3. acts \in Acts
  BY <1>1, <1>2, ActsFacts DEF Acts
<1>4. DOMAIN acts = DOMAIN r.acts
  OBVIOUS
<1>5. WithStatus(r, st) = [r EXCEPT !.acts = acts]
  BY DEF WithStatus
<1> HIDE DEF acts
<1>6. WithStatus(r, st) \in Record(t)
  BY <1>3, <1>5, WithActs
<1> QED
  BY <1>2, <1>4, <1>5, <1>6, RecordFacts

(* Writing the record of a transaction that has not completed takes no     *)
(* support from any claim, and unless it completes, adds nothing to the    *)
(* history.                                                                *)
LEMMA OtherRecordsStay ==
  ASSUME RecordsInv, NEW t \in AllTx, NEW r, journal' = [journal EXCEPT ![t] = r],
         journal[t] = Absent \/ journal[t].outcome # "COMPLETED"
  PROVE  /\ DOMAIN journal' = AllTx /\ journal'[t] = r
         /\ \A u \in AllTx \ {t} : journal'[u] = journal[u]
         /\ \A c, f : Backed(c, f, journal) => Backed(c, f, journal')
<1>1. /\ DOMAIN journal' = AllTx /\ journal'[t] = r
      /\ \A u \in AllTx \ {t} : journal'[u] = journal[u]
  BY DEF RecordsInv
<1>2. ASSUME NEW c, NEW f, Backed(c, f, journal) PROVE Backed(c, f, journal')
  <2>1. PICK u \in Present : ~Skipped(journal[u]) /\ f \in Minted(journal[u]) /\ c = ClaimOf(journal[u], f)
    BY <1>2 DEF Backed, Present
  <2>2. u \in AllTx \ {t}
    BY <2>1 DEF Present, Skipped
  <2>3. journal'[u] = journal[u] /\ u \in Present'
    BY <1>1, <2>1, <2>2 DEF Present
  <2> QED
    BY <2>1, <2>3 DEF Backed, Present
<1> QED
  BY <1>1, <1>2

LEMMA OpenRecordStep ==
  ASSUME RecordsInv, NEW t \in AllTx, NEW r, journal' = [journal EXCEPT ![t] = r], RecordOK(t, r),
         journal[t] = Absent \/ journal[t].outcome # "COMPLETED",
         t \in Tx => r = Absent \/ r.outcome # "COMPLETED",
         next' >= next, next' \in Nat, next \in Nat, t \in Tx => t < next' \/ r = Absent
  PROVE  /\ RecordsInv'
         /\ GroundInv /\ wrote' = wrote => GroundInv'
         /\ LastInv /\ last' = last => LastInv'
<1>1. /\ DOMAIN journal' = AllTx /\ journal'[t] = r
      /\ \A u \in AllTx \ {t} : journal'[u] = journal[u]
  BY OtherRecordsStay
<1>2. Tx \subseteq AllTx /\ Tx \subseteq Nat
  BY EvidenceConstants DEF AllTx
<1>3. RecordsInv'
  <2>1. \A u \in AllTx : RecordOK(u, journal'[u])
    BY <1>1 DEF RecordsInv
  <2>2. \A u \in Tx : u >= next' => journal'[u] = Absent
    BY <1>1, <1>2 DEF RecordsInv
  <2> QED
    BY <1>1, <2>1, <2>2 DEF RecordsInv, RecordOK
<1>4. \A u \in Present' \cap Tx : journal'[u].outcome = "COMPLETED" =>
         u \in Present \cap Tx /\ journal'[u] = journal[u]
  BY <1>1, <1>2 DEF Present
<1>5. \A u \in Present \cap Tx : journal[u].outcome = "COMPLETED" =>
         u \in Present' \cap Tx /\ journal'[u] = journal[u]
  BY <1>1, <1>2 DEF Present
<1>6. GroundInv /\ wrote' = wrote => GroundInv'
  BY <1>4 DEF GroundInv
<1>7. ASSUME LastInv, last' = last PROVE LastInv'
  BY <1>4, <1>5, <1>7 DEF LastInv, Mintable
<1> QED
  BY <1>3, <1>6, <1>7

-----------------------------------------------------------------------------
(* What a step keeps: the invariant of the journal, and the record behind  *)
(* every claim.                                                            *)
Kept == JournalInv' /\ \A c, f : Backed(c, f, journal) => Backed(c, f, journal')

LEMMA JournalUntouched ==
  ASSUME JournalInv, UNCHANGED <<journal, next, wrote, last>>, EvTypes', RunInv'
  PROVE  Kept
<1>1. RecordsInv' /\ Present' = Present
  BY DEF JournalInv, RecordsInv, RecordOK, Present
<1>2. GroundInv' /\ LastInv'
  BY <1>1 DEF JournalInv, GroundInv, LastInv, Mintable
<1>3. ASSUME NEW c, NEW f, Backed(c, f, journal) PROVE Backed(c, f, journal')
  BY <1>1, <1>3 DEF Backed
<1> QED
  BY <1>1, <1>2, <1>3 DEF Kept, JournalInv

(* The run's record, open before the step, is written and not completed. *)
LEMMA RunRecordStep ==
  ASSUME JournalInv, run.pc \in {"begun", "applied"},
         NEW r \in Record(run.tx), Local(r), r.outcome # "COMPLETED",
         journal' = [journal EXCEPT ![run.tx] = r], UNCHANGED <<next, wrote, last>>, EvTypes', RunInv'
  PROVE  Kept
<1>1. run.tx \in Tx /\ run.tx + 1 = next /\ Open(journal[run.tx], run.tx) /\ next \in Nat
  BY DEF JournalInv, RunInv, EvTypes
<1>2. run.tx \in AllTx /\ run.tx \notin Copied /\ run.tx \in Nat
  BY <1>1, EvidenceConstants DEF AllTx
<1>a. run.tx < next' /\ next' >= next /\ next' \in Nat /\ wrote' = wrote /\ last' = last
  BY <1>1, <1>2
<1>3. RecordOK(run.tx, r) /\ journal[run.tx].outcome # "COMPLETED"
  BY <1>1, <1>2 DEF RecordOK, Open
<1>4. RecordsInv' /\ GroundInv' /\ LastInv'
  BY <1>1, <1>2, <1>a, <1>3, OpenRecordStep DEF JournalInv
<1>5. \A c, f : Backed(c, f, journal) => Backed(c, f, journal')
  BY <1>2, <1>3, OtherRecordsStay DEF JournalInv
<1> QED
  BY <1>4, <1>5 DEF Kept, JournalInv

LEMMA IdleFacts ==
  /\ DOMAIN Idle = {"pc", "tx", "prior", "before"} /\ Idle.pc = "idle" /\ Idle.tx = NoTx
  /\ Idle.prior = NoClaims /\ Idle.before \in [Files -> Contents]
  BY DEF Idle, Contents

LEMMA PrepareKeeps == ASSUME JournalInv, Prepare PROVE Kept
<1>1. PICK p : run' = [Idle EXCEPT !.pc = "planned", !.prior = p]
  BY DEF Prepare
<1>2. /\ DOMAIN run' = {"pc", "tx", "prior", "before"} /\ run'.pc = "planned" /\ run'.tx = NoTx
      /\ run'.before = Idle.before
  BY <1>1, IdleFacts
<1>3. UNCHANGED <<journal, next, wrote, last, state, live>>
  BY DEF Prepare
<1>4. EvTypes'
  BY <1>2, <1>3, IdleFacts DEF JournalInv, EvTypes
<1>5. RunInv'
  BY <1>2 DEF RunInv
<1> QED
  BY <1>3, <1>4, <1>5, JournalUntouched

(* The run ends; the journal is not written. *)
LEMMA LeaveKeeps ==
  ASSUME JournalInv, run' = Idle, DOMAIN state' = {"ver", "claims"}, UNCHANGED <<journal, next, live, wrote, last>>
  PROVE  Kept
<1>1. EvTypes' /\ RunInv'
  BY IdleFacts DEF JournalInv, EvTypes, RunInv
<1> QED
  BY <1>1, JournalUntouched

(* Neither the run nor the journal is touched. *)
LEMMA RunUntouched ==
  ASSUME JournalInv, DOMAIN state' = {"ver", "claims"}, live' \in [Files -> Contents],
         UNCHANGED <<journal, run, next, wrote, last>>
  PROVE  Kept
<1>1. EvTypes' /\ RunInv'
  BY DEF JournalInv, EvTypes, RunInv, Open, Local
<1> QED
  BY <1>1, JournalUntouched

LEMMA BeginKeeps ==
  ASSUME JournalInv, NEW fs \in SUBSET Files \ {{}}, NEW s \in Specs, NEW n \in 1..MaxClock, Begin(fs, s, n)
  PROVE  Kept
<1> DEFINE r == NewRecord(next, fs, s, n)
<1>1. /\ next \in Tx /\ next' = next + 1 /\ UNCHANGED <<state, live, wrote, last>>
      /\ journal' = [journal EXCEPT ![next] = r]
      /\ run' = [run EXCEPT !.pc = "begun", !.tx = next, !.before = live]
  BY DEF Begin
<1>2. next \in Nat /\ next \in AllTx /\ next \notin Copied
  BY <1>1, EvidenceConstants DEF AllTx
<1>3. Open(r, next)
  BY <1>1, NewRecordOpen
<1> HIDE DEF r
<1>4. journal[next] = Absent
  BY <1>1, <1>2 DEF JournalInv, RecordsInv
<1>5. RecordOK(next, r) /\ r.outcome # "COMPLETED"
  BY <1>2, <1>3 DEF RecordOK, Open
<1>a. next < next' /\ next' >= next /\ next' \in Nat /\ wrote' = wrote /\ last' = last
  BY <1>1, <1>2
<1>6. RecordsInv' /\ GroundInv' /\ LastInv'
  BY <1>1, <1>2, <1>a, <1>4, <1>5, OpenRecordStep DEF JournalInv
<1>7. /\ \A c, f : Backed(c, f, journal) => Backed(c, f, journal')
      /\ journal'[next] = r
  BY <1>1, <1>2, <1>4, OtherRecordsStay DEF JournalInv
<1>8. /\ DOMAIN run' = {"pc", "tx", "prior", "before"} /\ run'.pc = "begun" /\ run'.tx = next
      /\ run'.before = live
  BY <1>1 DEF JournalInv, EvTypes
<1>9. EvTypes' /\ RunInv'
  <2>1. EvTypes'
    BY <1>1, <1>2, <1>8 DEF JournalInv, EvTypes
  <2>2. Open(journal'[run'.tx], run'.tx)
    BY <1>3, <1>7, <1>8
  <2> QED
    BY <1>1, <1>8, <2>1, <2>2 DEF RunInv, Open, Local
<1> QED
  BY <1>6, <1>7, <1>9 DEF Kept, JournalInv

LEMMA RunRecordFacts ==
  ASSUME JournalInv, run.pc \in {"begun", "applied"}
  PROVE  /\ run.tx \in Tx /\ run.tx \in AllTx /\ journal[run.tx] \in Record(run.tx)
         /\ Local(journal[run.tx]) /\ Open(journal[run.tx], run.tx)
         /\ \A r : [journal EXCEPT ![run.tx] = r][run.tx] = r
<1>1. run.tx \in Tx /\ Open(journal[run.tx], run.tx) /\ DOMAIN journal = AllTx
  BY DEF JournalInv, RunInv, RecordsInv
<1>2. run.tx \in AllTx
  BY <1>1 DEF AllTx
<1> QED
  BY <1>1, <1>2 DEF Open

LEMMA ApplyKeeps == ASSUME JournalInv, Apply PROVE Kept
<1> DEFINE r == WithStatus(journal[run.tx], "APPLIED")
<1>1. /\ run.pc = "begun" /\ journal' = [journal EXCEPT ![run.tx] = r] /\ run' = [run EXCEPT !.pc = "applied"]
      /\ live' = [f \in Files |-> IF f \in DOMAIN journal[run.tx].acts THEN journal[run.tx].acts[f].spec ELSE live[f]]
      /\ UNCHANGED <<next, state, wrote, last>>
  BY DEF Apply
<1>2. journal[run.tx] \in Record(run.tx) /\ Open(journal[run.tx], run.tx) /\ journal'[run.tx] = r
  BY <1>1, RunRecordFacts
<1>3. Open(r, run.tx) /\ \A f \in DOMAIN r.acts : r.acts[f].status = "APPLIED"
  <2>1. "APPLIED" \in ActionStatuses
    BY DEF ActionStatuses
  <2>2. /\ r \in Record(run.tx)
        /\ r.host = journal[run.tx].host /\ r.schema = journal[run.tx].schema
        /\ r.start = journal[run.tx].start /\ r.outcome = journal[run.tx].outcome
        /\ r.rollback = journal[run.tx].rollback /\ r.recovery = journal[run.tx].recovery
        /\ \A f \in DOMAIN r.acts : r.acts[f].status = "APPLIED"
    BY <1>2, <2>1, WithStatusFacts
  <2> HIDE DEF r
  <2> QED
    BY <1>2, <2>2 DEF Open, Local
<1> HIDE DEF r
<1>4. /\ DOMAIN run' = {"pc", "tx", "prior", "before"} /\ run'.pc = "applied" /\ run'.tx = run.tx
      /\ run'.before = run.before
  BY <1>1 DEF JournalInv, EvTypes
<1>5. EvTypes'
  <2>1. live \in [Files -> Contents] /\ journal[run.tx].acts \in Acts
    BY <1>2, RecordFacts DEF JournalInv, EvTypes
  <2>2. \A f \in DOMAIN journal[run.tx].acts : journal[run.tx].acts[f].spec \in Contents
    BY <2>1, ActsFacts DEF Contents
  <2>3. live' \in [Files -> Contents]
    BY <1>1, <2>1, <2>2
  <2> QED
    BY <1>1, <1>4, <2>3 DEF JournalInv, EvTypes
<1>6. RunInv'
  <2>1. Open(journal'[run'.tx], run'.tx) /\ \A f \in DOMAIN journal'[run'.tx].acts : journal'[run'.tx].acts[f].status = "APPLIED"
    BY <1>2, <1>3, <1>4
  <2>2. run'.tx \in Tx /\ run'.tx + 1 = next'
    BY <1>1, <1>4 DEF JournalInv, RunInv
  <2> QED
    BY <1>4, <2>1, <2>2 DEF RunInv, Open, Local
<1> QED
  BY <1>1, <1>3, <1>5, <1>6, RunRecordStep DEF Open

LEMMA ObserveKeeps == ASSUME JournalInv, NEW f \in Files, Observe(f) PROVE Kept
<1> DEFINE acts == [journal[run.tx].acts EXCEPT ![f].obs = live[f]]
           r == [journal[run.tx] EXCEPT !.acts = acts]
<1>1. /\ run.pc = "applied" /\ f \in DOMAIN journal[run.tx].acts /\ journal' = [journal EXCEPT ![run.tx] = r]
      /\ UNCHANGED <<next, state, live, run, wrote, last>>
  BY DEF Observe
<1>2. journal[run.tx] \in Record(run.tx) /\ Open(journal[run.tx], run.tx) /\ journal'[run.tx] = r
  BY <1>1, RunRecordFacts
<1>3. acts \in Acts /\ DOMAIN acts = DOMAIN journal[run.tx].acts
      /\ \A g \in DOMAIN acts : acts[g].status = journal[run.tx].acts[g].status
  <2>1. journal[run.tx].acts \in Acts /\ live[f] \in Contents
    BY <1>2, RecordFacts DEF JournalInv, EvTypes
  <2>2. \A g \in DOMAIN acts : /\ acts[g] \in [status : ActionStatuses, spec : Specs, obs : Contents]
                               /\ acts[g].status = journal[run.tx].acts[g].status
    BY <2>1, ActsFacts
  <2> QED
    BY <2>1, <2>2, ActsFacts DEF Acts
<1> HIDE DEF acts
<1>4. r \in Record(run.tx)
  BY <1>2, <1>3, WithActs
<1>5. /\ r.acts = acts /\ r.host = journal[run.tx].host /\ r.schema = journal[run.tx].schema
      /\ r.start = journal[run.tx].start /\ r.outcome = journal[run.tx].outcome
      /\ r.rollback = journal[run.tx].rollback /\ r.recovery = journal[run.tx].recovery
  BY <1>2, RecordFacts
<1> HIDE DEF r
<1>6. Open(r, run.tx) /\ \A g \in DOMAIN r.acts : r.acts[g].status = "APPLIED"
  BY <1>1, <1>2, <1>3, <1>4, <1>5 DEF Open, Local, JournalInv, RunInv
<1>7. EvTypes'
  BY <1>1 DEF JournalInv, EvTypes
<1>8. RunInv'
  BY <1>1, <1>2, <1>6 DEF JournalInv, RunInv, Open, Local
<1> QED
  BY <1>1, <1>6, <1>7, <1>8, RunRecordStep DEF Open

LEMMA FailKeeps == ASSUME JournalInv, Fail PROVE Kept
<1> DEFINE R == journal[run.tx]
<1>1. run.pc = "applied" /\ run' = Idle /\ UNCHANGED <<next, state, wrote, last>>
  BY DEF Fail
<1>2. R \in Record(run.tx) /\ Local(R)
  BY <1>1, RunRecordFacts
<1>3. PICK r : /\ journal' = [journal EXCEPT ![run.tx] = r]
               /\ \/ r = [WithStatus(R, "ROLLED_BACK") EXCEPT !.outcome = "FAILED", !.rollback = "ROLLED_BACK"]
                  \/ r = [R EXCEPT !.outcome = "FAILED"]
                  \/ r = [R EXCEPT !.outcome = "RECOVERY_REQUIRED", !.recovery = TRUE, !.rollback = "ROLLBACK_FAILED"]
  BY DEF Fail
<1>4. live' \in [Files -> Contents]
  BY DEF Fail, JournalInv, EvTypes
<1>5. r \in Record(run.tx) /\ Local(r) /\ r.outcome # "COMPLETED"
  <2>1. /\ "ROLLED_BACK" \in ActionStatuses /\ "ROLLED_BACK" \in RollbackResults /\ "ROLLBACK_FAILED" \in RollbackResults
        /\ "FAILED" \in TransactionOutcomes /\ "RECOVERY_REQUIRED" \in TransactionOutcomes /\ TRUE \in BOOLEAN
    BY DEF ActionStatuses, RollbackResults, TransactionOutcomes
  <2>2. CASE r = [R EXCEPT !.outcome = "FAILED"]
    <3>1. r \in Record(run.tx)
      BY <1>2, <2>1, <2>2, EndRecord1
    <3>2. r.host = R.host /\ r.schema = R.schema /\ r.start = R.start /\ r.outcome # "COMPLETED"
      BY <1>2, <2>2, RecordFacts
    <3> QED
      BY <1>2, <3>1, <3>2 DEF Local
  <2>3. CASE r = [R EXCEPT !.outcome = "RECOVERY_REQUIRED", !.recovery = TRUE, !.rollback = "ROLLBACK_FAILED"]
    <3>1. r \in Record(run.tx)
      BY <1>2, <2>1, <2>3, EndRecord
    <3>2. r.host = R.host /\ r.schema = R.schema /\ r.start = R.start /\ r.outcome # "COMPLETED"
      BY <1>2, <2>3, RecordFacts
    <3> QED
      BY <1>2, <3>1, <3>2 DEF Local
  <2>4. CASE r = [WithStatus(R, "ROLLED_BACK") EXCEPT !.outcome = "FAILED", !.rollback = "ROLLED_BACK"]
    <3> DEFINE W == WithStatus(R, "ROLLED_BACK")
    <3>1. /\ W \in Record(run.tx) /\ W.host = R.host /\ W.schema = R.schema /\ W.start = R.start
      BY <1>2, <2>1, WithStatusFacts
    <3> HIDE DEF W
    <3>2. r = [W EXCEPT !.outcome = "FAILED", !.rollback = "ROLLED_BACK"]
      BY <2>4 DEF W
    <3>3. r \in Record(run.tx)
      BY <2>1, <3>1, <3>2, EndRecord2
    <3>4. r.host = W.host /\ r.schema = W.schema /\ r.start = W.start /\ r.outcome # "COMPLETED"
      BY <3>1, <3>2, RecordFacts
    <3> QED
      BY <1>2, <3>1, <3>3, <3>4 DEF Local
  <2> QED
    BY <1>3, <2>2, <2>3, <2>4
<1>6. EvTypes' /\ RunInv'
  BY <1>1, <1>4, IdleFacts DEF JournalInv, EvTypes, RunInv
<1> QED
  BY <1>1, <1>3, <1>5, <1>6, RunRecordStep

LEMMA CompleteKeeps == ASSUME JournalInv, Complete PROVE Kept
<1> DEFINE T == run.tx
           R == journal[T]
           r == [R EXCEPT !.outcome = "COMPLETED"]
<1>1. /\ run.pc = "applied" /\ journal' = [journal EXCEPT ![T] = r]
      /\ wrote' = [f \in Files |-> wrote[f] \cup
                (IF f \in DOMAIN R.acts THEN {[tx |-> T, spec |-> R.acts[f].spec]} ELSE {})]
      /\ last' = [f \in Files |-> IF f \in DOMAIN R.acts /\ Mintable(f)
                                   THEN [tx |-> T, spec |-> R.acts[f].spec] ELSE last[f]]
      /\ run' = [run EXCEPT !.pc = "completed", !.before = Idle.before]
      /\ UNCHANGED <<next, state, live>>
  BY DEF Complete
<1>2. T \in Tx /\ T \in AllTx /\ R \in Record(T) /\ Open(R, T)
  BY <1>1, RunRecordFacts
<1>3. /\ r \in Record(T) /\ r.acts = R.acts /\ r.outcome = "COMPLETED" /\ r.host = R.host /\ r.schema = R.schema
      /\ r.start = R.start /\ r.recovery = R.recovery /\ r.rollback = R.rollback
  <2>1. "COMPLETED" \in TransactionOutcomes
    BY DEF TransactionOutcomes
  <2>2. r \in Record(T)
    BY <1>2, <2>1, EndRecord1
  <2> QED
    BY <1>2, <2>2, RecordFacts
<1>4. R.acts \in Acts /\ DOMAIN R.acts \subseteq Files /\ \A f \in DOMAIN R.acts : R.acts[f].spec \in Specs
  BY <1>2, RecordFacts, ActsFacts
<1>5. T \in Nat /\ T \notin Copied /\ next = T + 1 /\ R.outcome # "COMPLETED" /\ r # Absent
  BY <1>1, <1>2, <1>3, EvidenceConstants, NoValueIsNoRecord DEF JournalInv, RunInv, Open
<1>6. Local(r)
  BY <1>1, <1>2, <1>3 DEF Open, Local, JournalInv, RunInv
<1> HIDE DEF r
<1>7. /\ DOMAIN journal' = AllTx /\ journal'[T] = r
      /\ \A u \in AllTx \ {T} : journal'[u] = journal[u]
      /\ \A c, f : Backed(c, f, journal) => Backed(c, f, journal')
  BY <1>1, <1>2, <1>5, OtherRecordsStay DEF JournalInv
<1> HIDE DEF R, T
<1>8. RecordsInv'
  <2>1. \A u \in AllTx : RecordOK(u, journal'[u])
    BY <1>2, <1>3, <1>5, <1>6, <1>7 DEF JournalInv, RecordsInv, RecordOK
  <2>2. Tx \subseteq AllTx /\ Tx \subseteq Nat
    BY EvidenceConstants DEF AllTx
  <2>3. \A u \in Tx : u >= next' => journal'[u] = Absent
    BY <1>1, <1>5, <1>7, <2>2 DEF JournalInv, RecordsInv
  <2> QED
    BY <1>7, <2>1, <2>3 DEF RecordsInv, RecordOK
<1>9. \A u \in Present' \cap Tx : u = T \/ (u \in Present \cap Tx /\ journal'[u] = journal[u])
  BY <1>7 DEF Present
<1>10. \A u \in Present' \cap Tx : u <= T
  <2>1. Tx \subseteq Nat
    BY EvidenceConstants
  <2> QED
    BY <1>1, <1>5, <1>8, <2>1 DEF RecordsInv, Present
<1>11. GroundInv'
  <2> SUFFICES ASSUME NEW u \in Present' \cap Tx, journal'[u].outcome = "COMPLETED", NEW f \in DOMAIN journal'[u].acts
               PROVE  [tx |-> u, spec |-> journal'[u].acts[f].spec] \in wrote'[f]
    BY DEF GroundInv
  <2>1. CASE u = T
    BY <1>1, <1>3, <1>4, <1>7, <2>1
  <2>2. CASE u # T
    <3>1. u \in Present \cap Tx /\ journal'[u] = journal[u] /\ u \in AllTx
      BY <1>9, <2>2 DEF Present
    <3>2. [tx |-> u, spec |-> journal[u].acts[f].spec] \in wrote[f]
      BY <3>1 DEF JournalInv, GroundInv
    <3>3. f \in Files
      <4>1. journal[u] \in Record(u)
        BY <3>1 DEF JournalInv, RecordsInv, RecordOK, Present
      <4> QED
        BY <3>1, <4>1, RecordFacts, ActsFacts
    <3> QED
      BY <1>1, <3>1, <3>2, <3>3
  <2> QED
    BY <2>1, <2>2
<1>12. LastInv'
  <2> SUFFICES ASSUME NEW f \in Files
      PROVE  /\ last'[f] # Nil =>
                   /\ last'[f].tx \in Present' \cap Tx /\ Mintable(f)
                   /\ journal'[last'[f].tx].outcome = "COMPLETED"
                   /\ f \in DOMAIN journal'[last'[f].tx].acts
                   /\ journal'[last'[f].tx].acts[f].spec = last'[f].spec
             /\ \A t \in Present' \cap Tx :
                   journal'[t].outcome = "COMPLETED" /\ f \in DOMAIN journal'[t].acts /\ Mintable(f) =>
                       last'[f] # Nil /\ t <= last'[f].tx
    BY DEF LastInv, Mintable
  <2>1. CASE f \in DOMAIN R.acts /\ Mintable(f)
    <3>1. last'[f] = [tx |-> T, spec |-> R.acts[f].spec]
      BY <1>1, <2>1
    <3>2. last'[f] # Nil
      BY <1>2, <1>4, <2>1, <3>1, NoValueIsNoRecord
    <3>3. T \in Present' \cap Tx
      BY <1>2, <1>5, <1>7 DEF Present
    <3> QED
      BY <1>3, <1>7, <1>10, <2>1, <3>1, <3>2, <3>3
  <2>2. CASE ~(f \in DOMAIN R.acts /\ Mintable(f))
    <3>1. last'[f] = last[f]
      BY <1>1, <2>2
    <3>2. \A t \in Present \cap Tx : t # T => t \in Present' \cap Tx /\ journal'[t] = journal[t]
      BY <1>7 DEF Present
    <3>3. ASSUME last[f] # Nil
          PROVE  /\ last[f].tx \in Present' \cap Tx /\ Mintable(f)
                 /\ journal'[last[f].tx].outcome = "COMPLETED"
                 /\ f \in DOMAIN journal'[last[f].tx].acts
                 /\ journal'[last[f].tx].acts[f].spec = last[f].spec
      <4>1. last[f].tx # T
        BY <1>5, <3>3 DEF JournalInv, LastInv, R
      <4> QED
        BY <3>2, <3>3, <4>1 DEF JournalInv, LastInv
    <3>4. ASSUME NEW t \in Present' \cap Tx, journal'[t].outcome = "COMPLETED", f \in DOMAIN journal'[t].acts, Mintable(f)
          PROVE  last[f] # Nil /\ t <= last[f].tx
      <4>1. t # T
        BY <1>3, <1>7, <2>2, <3>4
      <4> QED
        BY <1>9, <3>4, <4>1 DEF JournalInv, LastInv
    <3> QED
      BY <3>1, <3>3, <3>4
  <2> QED
    BY <2>1, <2>2
<1>13. /\ DOMAIN run' = {"pc", "tx", "prior", "before"} /\ run'.pc = "completed" /\ run'.tx = T
       /\ run'.before = Idle.before
  BY <1>1 DEF JournalInv, EvTypes, T
<1>14. EvTypes'
  BY <1>1, <1>13, IdleFacts DEF JournalInv, EvTypes
<1>15. RunInv'
  BY <1>1, <1>2, <1>3, <1>5, <1>7, <1>13 DEF RunInv
<1> QED
  BY <1>7, <1>8, <1>11, <1>12, <1>14, <1>15 DEF Kept, JournalInv

(* A copied record is one of another machine, or of none. *)
LEMMA ForeignRecordOK ==
  ASSUME NEW t \in Copied, NEW f \in Files, NEW s \in Specs, NEW at \in 1..MaxClock
  PROVE  LET r == ForeignRecord(t, f, s, at) IN
         /\ RecordOK(t, r)
         /\ RecordOK(t, [r EXCEPT !.host = Nil])
         /\ RecordOK(t, [r EXCEPT !.schema = 1, !.start = 0, !.acts[f].obs = Nil])
<1> DEFINE a == [g \in {f} |-> [status |-> "APPLIED", spec |-> s, obs |-> s]]
           b == [a EXCEPT ![f].obs = Nil]
           r == ForeignRecord(t, f, s, at)
<1>1. a \in Acts /\ b \in Acts
  <2>1. [status |-> "APPLIED", spec |-> s, obs |-> s] \in [status : ActionStatuses, spec : Specs, obs : Contents]
    BY DEF ActionStatuses, Contents
  <2>2. a \in [{f} -> [status : ActionStatuses, spec : Specs, obs : Contents]]
    BY <2>1
  <2>3. b \in [{f} -> [status : ActionStatuses, spec : Specs, obs : Contents]]
    BY <2>2 DEF Contents
  <2> QED
    BY <2>2, <2>3 DEF Acts
<1> HIDE DEF a, b
<1>2. /\ FALSE \in BOOLEAN /\ "COMPLETED" \in TransactionOutcomes /\ "" \in RollbackResults
      /\ at \in 0..MaxClock /\ 0 \in 0..MaxClock
  BY EvidenceConstants DEF TransactionOutcomes, RollbackResults
<1>3. r \in Record(t) /\ r.host = There /\ r.acts = a
  BY <1>1, <1>2 DEF ForeignRecord, Plan, Record, a
<1>4. Here # There /\ Here # Nil /\ t \notin Tx
  BY EvidenceConstants
<1> HIDE DEF r
<1>5. [r EXCEPT !.host = Nil] \in Record(t) /\ [r EXCEPT !.host = Nil].host = Nil
  BY <1>3 DEF Record
<1>6. [r EXCEPT !.schema = 1, !.start = 0, !.acts = b] \in Record(t)
      /\ [r EXCEPT !.schema = 1, !.start = 0, !.acts = b].host = There
  BY <1>1, <1>2, <1>3 DEF Record
<1>7. [r EXCEPT !.schema = 1, !.start = 0, !.acts[f].obs = Nil] = [r EXCEPT !.schema = 1, !.start = 0, !.acts = b]
  BY <1>3 DEF b
<1> QED
  BY <1>3, <1>4, <1>5, <1>6, <1>7 DEF RecordOK, r

(* A record is copied, or cleared, while no transaction is open. *)
LEMMA OtherRecordKeeps ==
  ASSUME JournalInv, run.pc \in {"idle", "planned"}, NEW t \in AllTx, NEW r, RecordOK(t, r),
         journal[t] = Absent \/ journal[t].outcome # "COMPLETED", t \in Tx => r = Absent,
         journal' = [journal EXCEPT ![t] = r], UNCHANGED <<next, state, live, run, wrote, last>>
  PROVE  Kept
<1>1. next' >= next /\ next' \in Nat /\ next \in Nat /\ wrote' = wrote /\ last' = last
  BY DEF JournalInv, EvTypes
<1>2. RecordsInv' /\ GroundInv' /\ LastInv'
  BY <1>1, OpenRecordStep DEF JournalInv
<1>3. \A c, f : Backed(c, f, journal) => Backed(c, f, journal')
  BY OtherRecordsStay DEF JournalInv
<1>4. EvTypes' /\ RunInv'
  BY DEF JournalInv, EvTypes, RunInv
<1> QED
  BY <1>2, <1>3, <1>4 DEF Kept, JournalInv

LEMMA JournalStep == JournalInv /\ [Next]_vars => Kept
<1> SUFFICES ASSUME JournalInv, [Next]_vars PROVE Kept
  OBVIOUS
<1>1. CASE Prepare
  BY <1>1, PrepareKeeps
<1>2. ASSUME NEW fs \in SUBSET Files \ {{}}, NEW s \in Specs, NEW n \in 1..MaxClock, Begin(fs, s, n) PROVE Kept
  BY <1>2, BeginKeeps
<1>3. CASE Apply \/ Fail \/ Complete
  BY <1>3, ApplyKeeps, FailKeeps, CompleteKeeps
<1>4. CASE Save \/ Stop
  <2>1. DOMAIN state' = {"ver", "claims"}
    BY <1>4 DEF Save, Stop, JournalInv, EvTypes
  <2> QED
    BY <1>4, <2>1, LeaveKeeps DEF Save, Stop
<1>5. ASSUME NEW f \in Files, Observe(f) PROVE Kept
  BY <1>5, ObserveKeeps
<1>6. ASSUME NEW f \in Files, Drift(f) PROVE Kept
  <2>1. live' \in [Files -> Contents]
    BY <1>6 DEF Drift, JournalInv, EvTypes, Contents
  <2>2. DOMAIN state' = {"ver", "claims"} /\ UNCHANGED <<journal, run, next, wrote, last>>
    BY <1>6 DEF Drift, JournalInv, EvTypes
  <2> QED
    BY <2>1, <2>2, RunUntouched
<1>7. CASE RecoverEvidence
  <2>1. state' = state \/ state' = [state EXCEPT !.claims = ReconstructEvidence(@)]
    BY <1>7 DEF RecoverEvidence
  <2>2. DOMAIN state' = {"ver", "claims"}
    BY <2>1 DEF JournalInv, EvTypes
  <2>3. live' \in [Files -> Contents] /\ UNCHANGED <<journal, run, next, wrote, last>>
    BY <1>7 DEF RecoverEvidence, JournalInv, EvTypes
  <2> QED
    BY <2>2, <2>3, RunUntouched
<1>8. ASSUME NEW t \in Copied, CopyRecord(t) PROVE Kept
  <2>1. PICK f \in Files, s \in Specs, at \in 1..MaxClock :
          LET r == ForeignRecord(t, f, s, at) IN
          journal' = [journal EXCEPT ![t] = r] \/ journal' = [journal EXCEPT ![t] = [r EXCEPT !.host = Nil]]
             \/ journal' = [journal EXCEPT ![t] = [r EXCEPT !.schema = 1, !.start = 0, !.acts[f].obs = Nil]]
    BY <1>8 DEF CopyRecord
  <2> DEFINE F == ForeignRecord(t, f, s, at)
  <2>a. /\ RecordOK(t, F) /\ RecordOK(t, [F EXCEPT !.host = Nil])
        /\ RecordOK(t, [F EXCEPT !.schema = 1, !.start = 0, !.acts[f].obs = Nil])
    BY ForeignRecordOK
  <2> HIDE DEF F
  <2>b. \/ journal' = [journal EXCEPT ![t] = F]
        \/ journal' = [journal EXCEPT ![t] = [F EXCEPT !.host = Nil]]
        \/ journal' = [journal EXCEPT ![t] = [F EXCEPT !.schema = 1, !.start = 0, !.acts[f].obs = Nil]]
    BY <2>1 DEF F
  <2>2. PICK r : journal' = [journal EXCEPT ![t] = r] /\ RecordOK(t, r)
    BY <2>a, <2>b
  <2>3. t \in AllTx /\ t \notin Tx
    BY EvidenceConstants DEF AllTx
  <2> QED
    BY <1>8, <2>2, <2>3, OtherRecordKeeps DEF CopyRecord
<1>9. CASE ReplaceState
  <2>1. DOMAIN state' = {"ver", "claims"} /\ UNCHANGED <<journal, run, next, wrote, last>>
    BY <1>9 DEF ReplaceState
  <2>2. live' \in [Files -> Contents]
    BY <1>9 DEF ReplaceState, JournalInv, EvTypes
  <2> QED
    BY <2>1, <2>2, RunUntouched
<1>10. CASE OperatorClear
  <2>1. PICK t \in Present : journal[t].outcome # "COMPLETED" /\ journal' = [journal EXCEPT ![t] = Absent]
    BY <1>10 DEF OperatorClear
  <2>2. RecordOK(t, Absent) /\ t \in AllTx
    BY DEF RecordOK, Present
  <2> QED
    BY <1>10, <2>1, <2>2, OtherRecordKeeps DEF OperatorClear
<1>11. CASE UNCHANGED vars
  <2>1. DOMAIN state' = {"ver", "claims"} /\ live' \in [Files -> Contents] /\ UNCHANGED <<journal, run, next, wrote, last>>
    BY <1>11 DEF vars, JournalInv, EvTypes
  <2> QED
    BY <2>1, RunUntouched
<1> QED
  BY <1>1, <1>2, <1>3, <1>4, <1>5, <1>6, <1>7, <1>8, <1>9, <1>10, <1>11 DEF Next

LEMMA JournalStart == Init => JournalInv
<1> SUFFICES ASSUME Init PROVE JournalInv
  OBVIOUS
<1>1. EvTypes
  BY IdleFacts DEF Init, EvTypes, Contents
<1>2. RecordsInv /\ Present = {}
  BY DEF Init, RecordsInv, RecordOK, Present, AllTx
<1>3. RunInv
  BY IdleFacts DEF Init, RunInv
<1>4. GroundInv /\ LastInv
  BY <1>2 DEF GroundInv, LastInv, Init, NoClaims
<1> QED
  BY <1>1, <1>2, <1>3, <1>4 DEF JournalInv

-----------------------------------------------------------------------------
(* A claim is verified only by a record of this machine, and what that     *)
(* record wrote is in the history.                                         *)
LEMMA VerifiedIsWritten ==
  ASSUME JournalInv, NEW f \in Files, NEW c, Corroborate(c, f, Facts, Here) = "VERIFIED"
  PROVE  \E w \in wrote[f] : w.tx = c.tx /\ w.spec = c.spec
<1> DEFINE M == Matching(c, Facts)
           g == CHOOSE x \in M : TRUE
<1>1. M # {} /\ ~Contradicts(c, f, g, Here) /\ SpecLeg(c, g.acts[f]) = "VERIFIED"
  BY DEF Corroborate, Error
<1>2. g \in M
  BY <1>1
<1> HIDE DEF g
<1>3. g \in Facts /\ g.tx = c.tx
  BY <1>2 DEF Matching
<1> HIDE DEF M
<1>4. PICK t \in Present : g = CorroborationFact(journal[t])
  BY <1>3 DEF Facts
<1>5. journal[t] \in Record(t) /\ (t \in Copied => journal[t].host # Here) /\ t \in AllTx
  BY DEF JournalInv, RecordsInv, RecordOK, Present
<1>6. g.outcome = "COMPLETED" /\ g.host = Here /\ f \in DOMAIN g.acts
  BY <1>1 DEF Contradicts
<1>7. g.acts[f].spec = c.spec /\ g.acts[f].spec # Nil
  BY <1>1 DEF SpecLeg
<1>8. /\ g.tx = journal[t].tx /\ g.host = journal[t].host /\ g.outcome = journal[t].outcome
      /\ DOMAIN g.acts = DOMAIN journal[t].acts
      /\ g.acts[f].spec \in {journal[t].acts[f].spec, Nil}
  BY <1>4, <1>6 DEF CorroborationFact
<1>9. t \in Present \cap Tx /\ t = c.tx
  BY <1>3, <1>5, <1>6, <1>8, RecordFacts DEF AllTx
<1>10. [tx |-> t, spec |-> journal[t].acts[f].spec] \in wrote[f]
  BY <1>6, <1>8, <1>9 DEF JournalInv, GroundInv
<1> QED
  BY <1>7, <1>8, <1>9, <1>10

(* Whatever is planted, copied, lost or edited, and whatever the clock     *)
(* does: a resource is admitted for modification only if this machine      *)
(* completed the transaction that the claim names and that wrote it, and   *)
(* for creation only where nothing is.                                     *)
THEOREM EvidenceAdmissionIsGrounded == Spec => []AdmissionIsGrounded
<1>1. ASSUME JournalInv PROVE AdmissionIsGrounded
  <2> SUFFICES ASSUME NEW f \in Files, NEW obs \in Observations(f)
      PROVE  /\ Admissible("MODIFY", f, obs) => \E w \in wrote[f] :
                   /\ w.tx = state.claims[f].tx /\ w.spec = state.claims[f].spec
                   /\ Verdict(f, obs) = "OWNED_VERIFIED" => live[f] = w.spec
             /\ Admissible("CREATE", f, obs) => live[f] = Nil
             /\ ~Admissible("DELETE", f, obs)
             /\ FactsAvailable /\ Sufficiency(f, obs) = "SUFFICIENT" => \E w \in wrote[f] :
                   w.tx = state.claims[f].tx /\ w.spec = state.claims[f].spec
    BY DEF AdmissionIsGrounded
  <2> DEFINE c == state.claims[f]
             v == Corroborate(c, f, Facts, Here)
  <2>1. v = "VERIFIED" => \E w \in wrote[f] : w.tx = c.tx /\ w.spec = c.spec
    BY <1>1, VerifiedIsWritten
  <2>2. obs.state = "ABSENT" => live[f] = Nil
    BY DEF Observations
  <2>3. obs.hash \in {live[f], Nil}
    BY DEF Observations
  <2> HIDE DEF c
  <2>4. Verdict(f, obs) \in {"OWNED_VERIFIED", "OWNED_DRIFT"} =>
          v = "VERIFIED" /\ (Verdict(f, obs) = "OWNED_VERIFIED" => obs.hash = c.spec /\ obs.hash # Nil)
    <3> HIDE DEF v
    <3>1. Verdict(f, obs) =
            IF ~ValidIdentity(Identity[f]) \/ ~ValidLive(obs) THEN Error
            ELSE IF c # Nil /\ (~ValidClaim(c) \/ c.identity # Identity[f]) THEN Error
            ELSE IF obs.state = "UNKNOWN" THEN "UNDETERMINED"
            ELSE IF (IF c = Nil THEN "INCOMPLETE" ELSE v) = Error THEN Error
            ELSE IF obs.state = "ABSENT" THEN IF (IF c = Nil THEN "INCOMPLETE" ELSE v) = "VERIFIED" THEN "GONE" ELSE "ABSENT"
            ELSE IF (IF c = Nil THEN "INCOMPLETE" ELSE v) = "VERIFIED" THEN OwnedVerdict(Identity[f], obs, c)
            ELSE UnprovenLike(Identity[f])
      BY DEF Verdict, DeriveVerdict, v, c
    <3> QED
      BY <3>1 DEF Error, OwnedVerdict, UnprovenLike
  <2>5. Verdict(f, obs) = "ABSENT" => obs.state = "ABSENT"
    BY DEF Verdict, DeriveVerdict, OwnedVerdict, UnprovenLike, Error
  <2>6. Sufficiency(f, obs) = "SUFFICIENT" => v = "VERIFIED"
    BY DEF Sufficiency, ClassifyObservedEvidence, Error, c
  <2> HIDE DEF v
  <2>7. Admissible("MODIFY", f, obs) => Verdict(f, obs) \in {"OWNED_VERIFIED", "OWNED_DRIFT"}
    BY DEF Admissible, Admit, Error
  <2>8. Admissible("CREATE", f, obs) => Verdict(f, obs) = "ABSENT"
    BY DEF Admissible, Admit, Error
  <2>9. ~Admissible("DELETE", f, obs)
    BY DEF Admissible, Admit, Error
  <2> QED
    BY <2>1, <2>2, <2>3, <2>4, <2>5, <2>6, <2>7, <2>8, <2>9 DEF c
<1> QED
  <2>1. Kept => JournalInv'
    BY DEF Kept
  <2> QED
    BY <1>1, <2>1, JournalStart, JournalStep, PTL DEF Spec

(* A recovery that writes has read the whole file, and each claim in it    *)
(* stays or makes way for a later one.                                     *)
LEMMA RecoveryKeepsClaims ==
  ASSUME DOMAIN state = {"ver", "claims"}, RecoverEvidence, state' # state
  PROVE  /\ Loadable(state)
         /\ \A f \in Files : state.claims[f] # Nil =>
               \/ state'.claims[f] = state.claims[f]
               \/ state'.claims[f].at > state.claims[f].at
<1>1. RecoverStatus = "PERSISTED" /\ state' = [state EXCEPT !.claims = ReconstructEvidence(@)]
  BY DEF RecoverEvidence
<1>2. Loadable(state)
  BY <1>1 DEF RecoverStatus, Error
<1>3. state'.claims = ReconstructEvidence(state.claims)
  BY <1>1
<1>4. ASSUME NEW f \in Files, state.claims[f] # Nil
      PROVE  \/ state'.claims[f] = state.claims[f]
             \/ state'.claims[f].at > state.claims[f].at
  <2> DEFINE r == Only(Reconstructed(f))
  <2>1. state'.claims[f] = MergeReconstructed(state.claims[f], r)
    BY <1>3 DEF ReconstructEvidence
  <2> HIDE DEF r
  <2> QED
    BY <1>4, <2>1 DEF MergeReconstructed
<1> QED
  BY <1>2, <1>4

(* No run replaces a state file of an unsupported version; a recovery      *)
(* replaces only one it read in full, and takes no claim in it back.       *)
THEOREM EvidenceStateFileIsKept == Spec => StateFileIsKept
<1>1. Spec => []JournalInv
  <2>1. Kept => JournalInv'
    BY DEF Kept
  <2> QED
    BY <2>1, JournalStart, JournalStep, PTL DEF Spec
<1>2. Save => state.ver # "unreadable"
  BY DEF Save, SaveAllowed
<1>3. JournalInv => DOMAIN state = {"ver", "claims"}
  BY DEF JournalInv, EvTypes
<1>4. JournalInv =>
        [/\ Save => state.ver # "unreadable"
         /\ RecoverEvidence /\ state' # state =>
              /\ Loadable(state)
              /\ \A f \in Files : state.claims[f] # Nil =>
                    \/ state'.claims[f] = state.claims[f]
                    \/ state'.claims[f].at > state.claims[f].at]_vars
  BY <1>2, <1>3, RecoveryKeepsClaims
<1> QED
  BY <1>1, <1>4, PTL DEF StateFileIsKept

-----------------------------------------------------------------------------
(* The claims.  Every claim that was not planted is one that a record      *)
(* which still counts has minted: a run mints from its own, a recovery     *)
(* from those it reads.                                                    *)

LEMMA ReconstructedIsBacked ==
  ASSUME NEW f, NEW c \in Reconstructed(f)
  PROVE  Backed(c, f, journal)
<1>1. PICK h \in Hosts : c \in Latest(History(f, h))
  BY DEF Reconstructed
<1>2. c \in History(f, h)
  BY <1>1 DEF Latest
<1> QED
  BY <1>2 DEF History, Backed, Present

LEMMA OnlyIsMember == \A S : Only(S) # Nil => Only(S) \in S
  BY DEF Only

(* The record of the run that completed counts. *)
LEMMA LocalCounts ==
  ASSUME JournalInv, NEW t \in Present \cap Tx, journal[t].outcome = "COMPLETED"
  PROVE  /\ ~Skipped(journal[t]) /\ journal[t].host = Here /\ journal[t].tx = t
         /\ journal[t] \in Record(t)
         /\ Minted(journal[t]) = {f \in DOMAIN journal[t].acts : Mintable(f)}
<1>1. journal[t] \in Record(t) /\ Local(journal[t])
  BY DEF JournalInv, RecordsInv, RecordOK, Present
<1>2. journal[t].acts \in Acts /\ journal[t].tx = t
  BY <1>1, RecordFacts
<1>3. \A f \in DOMAIN journal[t].acts : ValidHash(journal[t].acts[f].spec)
  BY <1>2, ActsFacts, EvidenceConstants DEF ValidHash
<1>4. ~MintRefused(journal[t])
  BY <1>1, <1>3, EvidenceConstants DEF MintRefused, Local, ValidHost
<1>5. ~Skipped(journal[t])
  BY <1>1, <1>4 DEF Skipped, Local
<1>6. Minted(journal[t]) = {f \in DOMAIN journal[t].acts : Mintable(f)}
  BY <1>1 DEF Minted, Local
<1> QED
  BY <1>1, <1>2, <1>5, <1>6 DEF Local

LEMMA ClaimStep ==
  ASSUME JournalInv, ClaimInv, [Next]_vars, Kept PROVE ClaimInv'
<1> SUFFICES ASSUME ~planted', NEW f \in Files
             PROVE  /\ state'.claims[f] # Nil => Backed(state'.claims[f], f, journal')
                    /\ run'.prior[f] # Nil => Backed(run'.prior[f], f, journal')
  BY DEF ClaimInv
<1>0. \A c : Backed(c, f, journal) => Backed(c, f, journal')
  BY DEF Kept
<1>1. ~planted => /\ state.claims[f] # Nil => Backed(state.claims[f], f, journal)
                  /\ run.prior[f] # Nil => Backed(run.prior[f], f, journal)
  BY DEF ClaimInv
<1>2. Idle.prior[f] = Nil /\ NoClaims[f] = Nil
  BY IdleFacts DEF NoClaims
<1>3. CASE /\ planted' = planted /\ state' = state
           /\ run'.prior = run.prior \/ run' = Idle \/ run'.prior \in {NoClaims, state.claims}
  BY <1>0, <1>1, <1>2, <1>3
<1>4. CASE Prepare
  <2>1. run'.prior \in {NoClaims, state.claims}
    BY <1>4, IdleFacts DEF Prepare
  <2> QED
    BY <1>3, <1>4, <2>1 DEF Prepare
<1>5. ASSUME NEW fs, NEW s, NEW n, Begin(fs, s, n)
      PROVE  planted' = planted /\ state' = state /\ run'.prior = run.prior
  BY <1>5 DEF Begin, JournalInv, EvTypes
<1>6. CASE Apply \/ Complete
  <2>1. planted' = planted /\ state' = state /\ run'.prior = run.prior
    BY <1>6 DEF Apply, Complete, JournalInv, EvTypes
  <2> QED
    BY <1>3, <2>1
<1>7. CASE Fail \/ Stop
  BY <1>3, <1>7 DEF Fail, Stop
<1>8. CASE Save
  <2>1. /\ run' = Idle /\ planted' = planted
        /\ state'.claims = RunClaims
        /\ run.tx # NoTx => ~MintRefused(journal[run.tx])
    BY <1>8 DEF Save
  <2>2. ASSUME state'.claims[f] # Nil PROVE Backed(state'.claims[f], f, journal)
    <3>1. CASE run.tx = NoTx
      BY <1>1, <1>8, <2>1, <2>2, <3>1 DEF RunClaims, Save
    <3>2. CASE run.tx # NoTx
      <4>1. run.tx \in Tx /\ journal[run.tx] # Absent /\ journal[run.tx].outcome = "COMPLETED"
        BY <1>8, <3>2 DEF JournalInv, RunInv, Save
      <4>2. run.tx \in Present \cap Tx
        BY <4>1 DEF Present, AllTx
      <4>3. ~Skipped(journal[run.tx])
        BY <4>1, <4>2, LocalCounts
      <4>4. state'.claims[f] = IF f \in Minted(journal[run.tx]) THEN ClaimOf(journal[run.tx], f) ELSE run.prior[f]
        BY <2>1, <3>2, <1>8 DEF RunClaims, MergeEvidence, Save
      <4> QED
        BY <1>1, <1>8, <2>2, <4>2, <4>3, <4>4 DEF Backed, Present, Save
    <3> QED
      BY <3>1, <3>2
  <2>3. run' = Idle
    BY <1>8 DEF Save
  <2> QED
    BY <1>0, <1>2, <2>2, <2>3
<1>9. ASSUME NEW g, Observe(g) \/ Drift(g)
      PROVE  planted' = planted /\ state' = state /\ run'.prior = run.prior
  BY <1>9 DEF Observe, Drift
<1>10. CASE RecoverEvidence
  <2>1. /\ planted' = planted /\ run' = run
        /\ state' = state \/ state' = [state EXCEPT !.claims = ReconstructEvidence(@)]
    BY <1>10 DEF RecoverEvidence
  <2>2. CASE state' = [state EXCEPT !.claims = ReconstructEvidence(@)]
    <3>1. state'.claims[f] = MergeReconstructed(state.claims[f], Only(Reconstructed(f)))
      BY <2>2 DEF ReconstructEvidence, JournalInv, EvTypes
    <3>2. state'.claims[f] = state.claims[f] \/ (state'.claims[f] = Only(Reconstructed(f)) /\ Only(Reconstructed(f)) # Nil)
      BY <3>1 DEF MergeReconstructed
    <3>3. Only(Reconstructed(f)) # Nil => Backed(Only(Reconstructed(f)), f, journal)
      BY OnlyIsMember, ReconstructedIsBacked
    <3> QED
      BY <1>0, <1>1, <2>1, <3>2, <3>3
  <2> QED
    BY <1>3, <2>1, <2>2
<1>11. ASSUME NEW t, CopyRecord(t)
       PROVE  planted' = planted /\ state' = state /\ run'.prior = run.prior
  BY <1>11 DEF CopyRecord
<1>12. CASE ReplaceState
  <2>1. state'.claims = NoClaims /\ run' = run /\ planted' = (planted /\ run.pc # "idle")
    BY <1>12 DEF ReplaceState
  <2>2. run'.prior[f] # Nil => Backed(run'.prior[f], f, journal)
    BY <1>1, <1>2, <2>1 DEF JournalInv, RunInv
  <2> QED
    BY <1>0, <1>2, <2>1, <2>2
<1>13. CASE OperatorClear \/ UNCHANGED vars
  BY <1>3, <1>13 DEF OperatorClear, vars
<1> QED
  BY <1>3, <1>4, <1>5, <1>6, <1>7, <1>8, <1>9, <1>10, <1>11, <1>12, <1>13 DEF Next

-----------------------------------------------------------------------------
(* A recovery is idempotent, and its outcome stands until the journal or   *)
(* the state file changes.                                                 *)

LEMMA SameRecords ==
  ASSUME journal' = journal
  PROVE  /\ Present' = Present
         /\ \A f : Reconstructed(f)' = Reconstructed(f) /\ Ambiguous(f)' = Ambiguous(f)
<1>1. Present' = Present
  BY DEF Present
<1>2. \A f, h : History(f, h)' = History(f, h)
  BY <1>1 DEF History
<1>3. \A f, h : Latest(History(f, h))' = Latest(History(f, h))
  BY <1>2 DEF Latest
<1>4. \A f : Reconstructed(f)' = Reconstructed(f)
  BY <1>3 DEF Reconstructed
<1>5. \A f : Ambiguous(f)' = Ambiguous(f)
  BY <1>3 DEF Ambiguous
<1> QED
  BY <1>1, <1>4, <1>5

LEMMA SameStatus ==
  ASSUME journal' = journal, state' = state
  PROVE  RecoverStatus' = RecoverStatus
<1>1. \A f : Only(Reconstructed(f))' = Only(Reconstructed(f))
  BY SameRecords
<1>2. \A f : Conflict(f, state.claims)' = Conflict(f, state.claims)
  BY <1>1, SameRecords DEF Conflict
<1>3. ReconstructEvidence(state.claims)' = ReconstructEvidence(state.claims)
  BY <1>1 DEF ReconstructEvidence
<1>4. (\E t \in Present : BlocksPersistence(journal[t], FALSE))' = (\E t \in Present : BlocksPersistence(journal[t], FALSE))
  BY SameRecords
<1> QED
  BY <1>2, <1>3, <1>4 DEF RecoverStatus

(* Merging what was merged changes nothing and conflicts with nothing new. *)
LEMMA MergeTwice ==
  ASSUME NEW p, NEW r
  PROVE  LET m == MergeReconstructed(p, r) IN
         /\ MergeReconstructed(m, r) = m
         /\ m = p \/ m = r
  BY DEF MergeReconstructed

LEMMA PersistedStands ==
  ASSUME RecoverStatus = "PERSISTED", DOMAIN state = {"ver", "claims"}, journal' = journal,
         state' = [state EXCEPT !.claims = ReconstructEvidence(@)]
  PROVE  RecoverStatus' = "NO_CHANGE"
<1> DEFINE P == state.claims
           C == ReconstructEvidence(P)
           Z == RecoverStatus
<1>1. /\ \A f \in Files : ~Conflict(f, P)
      /\ ~\E t \in Present : BlocksPersistence(journal[t], FALSE)
      /\ state.ver = "v2" /\ SaveAllowed(state.ver, C)
  BY DEF RecoverStatus, Error
<1>2. state'.ver = "v2" /\ state'.claims = C
  BY <1>1
<1>3. \A f \in Files : C[f] = MergeReconstructed(P[f], Only(Reconstructed(f)))
  BY DEF ReconstructEvidence
<1>4. C = [f \in Files |-> C[f]]
  BY DEF ReconstructEvidence
<1> HIDE DEF C, P
<1>5. Present' = Present /\ \A f : Reconstructed(f)' = Reconstructed(f) /\ Ambiguous(f)' = Ambiguous(f)
  BY SameRecords
<1>6. Loadable(state')
  BY <1>1, <1>2 DEF SaveAllowed, Loadable
<1>7. ASSUME NEW f \in Files PROVE ~Conflict(f, state.claims)'
  <2> DEFINE r == Only(Reconstructed(f))
  <2>1. /\ ~Ambiguous(f) /\ ~\E c, d \in Reconstructed(f) : c.host # d.host
        /\ ~(r # Nil /\ P[f] # Nil /\ r.at = P[f].at /\ r # P[f])
    BY <1>1 DEF Conflict
  <2>2. C[f] = P[f] \/ C[f] = r
    BY <1>3, MergeTwice
  <2> HIDE DEF r
  <2>3. ~(r # Nil /\ C[f] # Nil /\ r.at = C[f].at /\ r # C[f])
    BY <2>1, <2>2
  <2>4. Only(Reconstructed(f))' = r
    BY <1>5 DEF r
  <2> QED
    BY <1>2, <1>5, <2>1, <2>3, <2>4 DEF Conflict
<1>8. ReconstructEvidence(state.claims)' = C
  <2>1. ASSUME NEW f \in Files PROVE MergeReconstructed(C[f], Only(Reconstructed(f))') = C[f]
    <3>1. Only(Reconstructed(f))' = Only(Reconstructed(f))
      BY <1>5
    <3> QED
      BY <1>3, <3>1, MergeTwice
  <2> QED
    BY <1>2, <1>4, <2>1 DEF ReconstructEvidence
<1>9. (\E t \in Present : BlocksPersistence(journal[t], FALSE))' = (\E t \in Present : BlocksPersistence(journal[t], FALSE))
  BY <1>5
<1> QED
  BY <1>1, <1>2, <1>6, <1>7, <1>8, <1>9 DEF RecoverStatus, Error

LEMMA RecoveredStep ==
  ASSUME EvTypes, RecoveredInv, [Next]_vars PROVE RecoveredInv'
<1> SUFFICES ASSUME recovered'
             PROVE  run'.pc \in {"idle", "planned"} /\ RecoverStatus' = "NO_CHANGE"
  BY DEF RecoveredInv
<1>1. CASE RecoverEvidence
  <2>1. CASE RecoverStatus = "PERSISTED" /\ state' = [state EXCEPT !.claims = ReconstructEvidence(@)]
    BY <1>1, <2>1, PersistedStands DEF RecoverEvidence, EvTypes
  <2>2. CASE RecoverStatus = "NO_CHANGE" /\ state' = state
    BY <1>1, <2>2, SameStatus DEF RecoverEvidence
  <2> QED
    BY <1>1, <2>1, <2>2 DEF RecoverEvidence
<1>2. CASE recovered /\ journal' = journal /\ state' = state /\ run'.pc \in {run.pc, "planned", "idle"}
  BY <1>2, SameStatus DEF RecoveredInv
<1>3. CASE Prepare \/ Stop
  BY <1>2, <1>3, IdleFacts DEF Prepare, Stop
<1>4. CASE Apply \/ Fail \/ Complete
  BY <1>4 DEF Apply, Fail, Complete, RecoveredInv
<1>5. ASSUME NEW f, Observe(f) \/ Drift(f)
      PROVE  run'.pc \in {"idle", "planned"} /\ RecoverStatus' = "NO_CHANGE"
  BY <1>2, <1>5 DEF Observe, Drift, RecoveredInv
<1>6. CASE UNCHANGED vars
  BY <1>2, <1>6 DEF vars
<1>7. Save \/ ReplaceState \/ OperatorClear => ~recovered'
  BY DEF Save, ReplaceState, OperatorClear
<1>8. \A fs, s, n : Begin(fs, s, n) => ~recovered'
  BY DEF Begin
<1>9. \A t : CopyRecord(t) => ~recovered'
  BY DEF CopyRecord
<1> QED
  BY <1>1, <1>3, <1>4, <1>5, <1>6, <1>7, <1>8, <1>9 DEF Next

-----------------------------------------------------------------------------
(* The claims of a history with an entry have a latest one. *)
LEMMA LatestExists ==
  ASSUME JournalInv, NEW f, NEW h, NEW c \in History(f, h)
  PROVE  Latest(History(f, h)) # {}
<1> DEFINE H == History(f, h)
           T == {MaxClock - d.at : d \in H}
<1>1. \A d \in H : d.at \in 0..MaxClock
  <2> SUFFICES ASSUME NEW d \in H PROVE d.at \in 0..MaxClock
    OBVIOUS
  <2>1. PICK t \in Present : d = ClaimOf(journal[t], f)
    BY DEF History
  <2>2. journal[t] \in Record(t)
    BY DEF JournalInv, RecordsInv, RecordOK, Present
  <2> QED
    BY <2>1, <2>2, RecordFacts DEF ClaimOf
<1> HIDE DEF H
<1>2. T \subseteq Nat
  BY <1>1, EvidenceConstants
<1>3. T # {}
  BY DEF H
<1> HIDE DEF T
<1>5. PICK x \in T : \A y \in T : x <= y
  BY <1>2, <1>3, LeastNatural
<1>6. PICK d \in H : x = MaxClock - d.at
  BY DEF T
<1>7. \A e \in H : e.at <= d.at
  <2> SUFFICES ASSUME NEW e \in H PROVE e.at <= d.at
    OBVIOUS
  <2>1. MaxClock - e.at \in T
    BY DEF T
  <2>2. x <= MaxClock - e.at
    BY <1>5, <2>1
  <2> QED
    BY <1>1, <1>6, <2>2, EvidenceConstants
<1> QED
  BY <1>7 DEF Latest, H

(* With a clock that never went back, the newest claim of this machine for *)
(* a file is the one of the last transaction that completed it.            *)
LEMMA LastIsLatest ==
  ASSUME JournalInv, ClockMonotone, NEW f \in Files, last[f] # Nil
  PROVE  LET C == ClaimOf(journal[last[f].tx], f) IN
         /\ C \in Latest(History(f, Here)) /\ C \in Claim
         /\ C.tx = last[f].tx /\ C.spec = last[f].spec /\ C.host = Here
<1> DEFINE t == last[f].tx
           C == ClaimOf(journal[t], f)
<1>1. /\ t \in Present \cap Tx /\ Mintable(f) /\ journal[t].outcome = "COMPLETED"
      /\ f \in DOMAIN journal[t].acts /\ journal[t].acts[f].spec = last[f].spec
  BY DEF JournalInv, LastInv
<1> HIDE DEF t
<1>2. /\ ~Skipped(journal[t]) /\ journal[t].host = Here /\ journal[t].tx = t
      /\ journal[t] \in Record(t) /\ f \in Minted(journal[t])
  BY <1>1, LocalCounts
<1>3. C \in History(f, Here)
  BY <1>1, <1>2 DEF History
<1>4. /\ C.tx = t /\ C.host = Here /\ C.at = journal[t].start /\ C.spec = last[f].spec
      /\ C.identity = Identity[f] /\ C.plan = journal[t].plan
  BY <1>1, <1>2 DEF ClaimOf
<1>5. ASSUME NEW d \in History(f, Here) PROVE d.at <= C.at
  <2>1. PICK u \in Present : /\ ~Skipped(journal[u]) /\ journal[u].host = Here /\ f \in Minted(journal[u])
                             /\ d = ClaimOf(journal[u], f)
    BY <1>5 DEF History
  <2>2. u \in AllTx /\ journal[u] \in Record(u) /\ (u \in Copied => journal[u].host # Here)
    BY DEF JournalInv, RecordsInv, RecordOK, Present
  <2>3. u \in Present \cap Tx /\ journal[u].outcome = "COMPLETED" /\ f \in DOMAIN journal[u].acts
    BY <2>1, <2>2 DEF AllTx, Skipped, Minted
  <2>4. u <= t
    BY <1>1, <2>3 DEF JournalInv, LastInv, t
  <2>5. journal[u].start <= journal[t].start
    <3>1. u \in Nat /\ t \in Nat
      BY <1>1, <2>3, EvidenceConstants
    <3>2. CASE u < t
      BY <1>1, <2>3, <3>2 DEF ClockMonotone
    <3>3. CASE u = t
      <4>1. journal[t].start \in 0..MaxClock
        BY <1>2, RecordFacts
      <4> QED
        BY <3>3, <4>1, EvidenceConstants
    <3> QED
      BY <2>4, <3>1, <3>2, <3>3
  <2> QED
    BY <1>4, <2>1, <2>5 DEF ClaimOf
<1>6. C \in Latest(History(f, Here))
  BY <1>3, <1>5 DEF Latest
<1>7. C \in Claim
  <2>1. journal[t].plan \in AllTx /\ t \in AllTx /\ journal[t].start \in 0..MaxClock /\ last[f].spec \in Specs
    BY <1>1, <1>2, RecordFacts, ActsFacts DEF Present
  <2> QED
    BY <1>1, <1>2, <2>1 DEF ClaimOf, Claim
<1> QED
  BY <1>4, <1>6, <1>7 DEF t

(* What NO_CHANGE says. *)
LEMMA NoChangeFacts ==
  ASSUME RecoverStatus = "NO_CHANGE"
  PROVE  \A f \in Files : /\ ~Conflict(f, state.claims)
                          /\ state.claims[f] = MergeReconstructed(state.claims[f], Only(Reconstructed(f)))
<1>1. (\A f \in Files : ~Conflict(f, state.claims)) /\ ReconstructEvidence(state.claims) = state.claims
  BY DEF RecoverStatus, Error
<1> QED
  BY <1>1 DEF ReconstructEvidence

(* Then the claim that stands is the one of the last transaction. *)
LEMMA ClaimIsLast ==
  ASSUME JournalInv, ClaimInv, RecoverStatus = "NO_CHANGE", ClockMonotone, ~planted,
         NEW f \in Files, last[f] # Nil
  PROVE  state.claims[f] = ClaimOf(journal[last[f].tx], f)
<1> DEFINE p == state.claims[f]
           C == ClaimOf(journal[last[f].tx], f)
           R == Reconstructed(f)
<1>1. C \in Latest(History(f, Here)) /\ C \in Claim /\ C.host = Here
  BY LastIsLatest
<1>2. ~Conflict(f, state.claims) /\ p = MergeReconstructed(p, Only(R))
  BY NoChangeFacts
<1>3. /\ \A h \in Hosts : \A c, d \in Latest(History(f, h)) : c = d
      /\ \A c, d \in R : c.host = d.host
      /\ Only(R) # Nil /\ p # Nil /\ Only(R).at = p.at => Only(R) = p
  BY <1>2 DEF Conflict, Ambiguous
<1>4. \A h \in Hosts : Latest(History(f, h)) \subseteq R
  BY <1>3 DEF Reconstructed
<1>5. \A c \in R : \E h \in Hosts : c \in Latest(History(f, h)) /\ c.host = h
  <2> SUFFICES ASSUME NEW c \in R PROVE \E h \in Hosts : c \in Latest(History(f, h)) /\ c.host = h
    OBVIOUS
  <2>1. PICK h \in Hosts : c \in Latest(History(f, h))
    BY DEF Reconstructed
  <2>2. c.host = h
    BY <2>1 DEF Latest, History, ClaimOf
  <2> QED
    BY <2>1, <2>2
<1>6. Here \in Hosts /\ C \in R
  BY <1>1, <1>4, EvidenceConstants
<1> HIDE DEF C, R
<1>7. R = {C}
  <2>1. ASSUME NEW c \in R PROVE c = C
    <3>1. PICK h \in Hosts : c \in Latest(History(f, h)) /\ c.host = h
      BY <1>5
    <3>2. h = Here
      BY <1>1, <1>3, <1>6, <2>1, <3>1
    <3> QED
      BY <1>1, <1>3, <3>1, <3>2
  <2> QED
    BY <1>6, <2>1
<1>8. Only(R) = C
  BY <1>7 DEF Only
<1>9. C # Nil
  BY <1>1, NoValueIsNoRecord
<1>10. p # Nil /\ (p = C \/ ~(C.at > p.at))
  BY <1>2, <1>8, <1>9 DEF MergeReconstructed
<1>11. Backed(p, f, journal)
  BY <1>10 DEF ClaimInv
<1>12. PICK u \in Present : ~Skipped(journal[u]) /\ f \in Minted(journal[u]) /\ p = ClaimOf(journal[u], f)
  BY <1>11 DEF Backed, Present
<1> DEFINE h == journal[u].host
<1>13. h \in Hosts /\ p \in History(f, h) /\ p.host = h
  <2>1. h \in Hosts
    BY <1>12 DEF Skipped, MintRefused, ValidHost
  <2>2. p \in History(f, h)
    BY <1>12 DEF History
  <2>3. p.host = h
    BY <1>12 DEF ClaimOf
  <2> QED
    BY <2>1, <2>2, <2>3
<1>14. h = Here
  <2>1. PICK c : c \in Latest(History(f, h))
    BY <1>13, LatestExists
  <2>2. c \in R /\ c.host = h
    <3>1. c.host = h
      BY <2>1 DEF Latest, History, ClaimOf
    <3> QED
      BY <1>4, <1>13, <2>1, <3>1
  <2> QED
    BY <1>1, <1>3, <1>6, <2>2
<1>15. p.at <= C.at
  BY <1>1, <1>13, <1>14 DEF Latest
<1>16. C.at \in 0..MaxClock /\ p.at \in 0..MaxClock
  <2>1. journal[u] \in Record(u)
    BY DEF JournalInv, RecordsInv, RecordOK, Present
  <2>2. p.at \in 0..MaxClock
    BY <1>12, <2>1, RecordFacts DEF ClaimOf
  <2>3. C.at \in 0..MaxClock
    BY <1>1 DEF Claim
  <2> QED
    BY <2>2, <2>3
<1>17. p = C
  <2>1. CASE ~(C.at > p.at)
    <3>1. C.at = p.at
      BY <1>15, <1>16, <2>1, EvidenceConstants
    <3> QED
      BY <1>3, <1>8, <1>9, <1>10, <3>1
  <2> QED
    BY <1>10, <2>1
<1> QED
  BY <1>17 DEF C

LEMMA EvidenceStart == Init => EvInv
<1> SUFFICES ASSUME Init PROVE EvInv
  OBVIOUS
<1>1. ClaimInv
  BY IdleFacts DEF Init, ClaimInv, NoClaims
<1>2. RecoveredInv
  BY DEF Init, RecoveredInv
<1> QED
  BY <1>1, <1>2, JournalStart DEF EvInv

LEMMA EvidenceStep == EvInv /\ [Next]_vars => EvInv'
<1> SUFFICES ASSUME EvInv, [Next]_vars PROVE EvInv'
  OBVIOUS
<1>1. Kept
  BY JournalStep DEF EvInv
<1>2. ClaimInv'
  BY <1>1, ClaimStep DEF EvInv
<1>3. RecoveredInv'
  BY RecoveredStep DEF EvInv, JournalInv
<1> QED
  BY <1>1, <1>2, <1>3 DEF EvInv, Kept

(* After a successful recovery the plane is what an uninterrupted history  *)
(* would have left, for any number of runs, crashes, lost state files and  *)
(* copied records: the claim of the last transaction that completed each   *)
(* file, if the clock never went back and nothing was planted; and         *)
(* another recovery has nothing to do.                                     *)
THEOREM EvidenceRecoveryIsExact == Spec => []RecoveryIsExact
<1>1. ASSUME EvInv PROVE RecoveryIsExact
  <2> SUFFICES ASSUME recovered
               PROVE  /\ RecoverStatus = "NO_CHANGE"
                      /\ ClockMonotone /\ ~planted => \A f \in Files : last[f] # Nil =>
                            /\ state.claims[f] # Nil
                            /\ state.claims[f].tx = last[f].tx /\ state.claims[f].spec = last[f].spec
                            /\ state.claims[f].host = Here
    BY DEF RecoveryIsExact
  <2>1. RecoverStatus = "NO_CHANGE"
    BY <1>1 DEF EvInv, RecoveredInv
  <2>2. ASSUME ClockMonotone, ~planted, NEW f \in Files, last[f] # Nil
        PROVE  /\ state.claims[f] # Nil
               /\ state.claims[f].tx = last[f].tx /\ state.claims[f].spec = last[f].spec
               /\ state.claims[f].host = Here
    <3>1. state.claims[f] = ClaimOf(journal[last[f].tx], f)
      BY <1>1, <2>1, <2>2, ClaimIsLast DEF EvInv
    <3> QED
      BY <1>1, <2>2, <3>1, LastIsLatest, NoValueIsNoRecord DEF EvInv
  <2> QED
    BY <2>1, <2>2
<1> QED
  BY <1>1, EvidenceStart, EvidenceStep, PTL DEF Spec

-----------------------------------------------------------------------------
(* The behaviours of the two together are behaviours of each, so what is   *)
(* proved of authority and of evidence holds of them.                      *)
THEOREM TrustComposed == MCSpec => AuthoritySpec /\ Spec
<1>1. MCInit => AuthorityInit /\ Init
  BY DEF MCInit
<1>2. [MCNext]_<<topic, vars, authorityVars>> => [AuthorityNext]_authorityVars /\ [Next]_vars
  BY DEF MCNext
<1> QED
  BY <1>1, <1>2, PTL DEF MCSpec, AuthoritySpec, Spec
=============================================================================
