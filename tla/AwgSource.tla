----------------------------- MODULE AwgSource -----------------------------
(***************************************************************************)
(* Where the source prefix of the MSS rule comes from: the container and   *)
(* pool predicates (awgspec/awgspec.go), the source resolver (resolve.go)  *)
(* and the composition with the operator's intent (muvgplan).              *)
(*                                                                         *)
(* The inventories are lists, as discovery returns them.  Evidence about   *)
(* attachments, addresses and host-visible prefixes arrives piece by       *)
(* piece, attested to one discovery snapshot or to none.  A prefix is the  *)
(* set of its addresses, two prefixes are nested or disjoint; Malformed    *)
(* does not parse.                                                         *)
(***************************************************************************)
EXTENDS Integers, Sequences, SequencesExt, FiniteSets

CONSTANTS
    Inventories,    \* [containers, networks, host]: what discovery found
    Intents,        \* [clamp, mode, inputs, subnet]: what the operator wants
    Attachings, Addressings, Sightings,     \* evidence that may arrive
    MaxEvidence,    \* bound on the evidence
    Malformed, Nothing

(* A sighting that names no prefix is one that does not parse. *)
ASSUME AwgConstants == MaxEvidence \in Nat /\ \A e \in Sightings : e.prefix # Nothing

VARIABLES
    inv, intent,
    atts,       \* [c, n, name, observed, complete, snap]
    addrs,      \* [c, n, addr, complete, snap]
    seen4       \* host-visible evidence: [prefix, basis, complete, snap]

awgVars == <<inv, intent, atts, addrs, seen4>>

AwgInit ==
    /\ inv \in Inventories /\ intent \in Intents
    /\ atts = <<>> /\ addrs = <<>> /\ seen4 = <<>>

Room == Len(atts) + Len(addrs) + Len(seen4) < MaxEvidence

Attach == Room /\ (\E e \in Attachings : atts' = Append(atts, e)) /\ UNCHANGED <<inv, intent, addrs, seen4>>
Address == Room /\ (\E e \in Addressings : addrs' = Append(addrs, e)) /\ UNCHANGED <<inv, intent, atts, seen4>>
Sight == Room /\ (\E e \in Sightings : seen4' = Append(seen4, e)) /\ UNCHANGED <<inv, intent, atts, addrs>>

AwgNext == Attach \/ Address \/ Sight

AwgSpec == AwgInit /\ [][AwgNext]_awgVars

-----------------------------------------------------------------------------
(* EvaluateCandidate; the ports of a container are "udp" (published, as    *)
(* expected), "other" (typed, not as expected) or "untyped".               *)

Matching == {c \in ToSet(inv.containers) : c.image /\ c.running}
Passing == {c \in Matching : c.ports = "udp"}

EvaluateCandidate ==
    IF ~inv.policy THEN "UNKNOWN"
    ELSE IF Cardinality(Passing) = 1 THEN "PROVEN_CANDIDATE"
    ELSE IF Cardinality(Passing) > 1 THEN "AMBIGUOUS"
    ELSE IF \E c \in Matching : c.ports = "other" THEN "UNSUITABLE"
    ELSE IF \E c \in Matching : c.ports = "untyped" THEN "UNKNOWN"
    ELSE "NO_CANDIDATE"

Candidate == (CHOOSE c \in Passing : TRUE).id

(* EvaluateSourcePool: the overlap of one pool with the host's networks,   *)
(* malformed ones passed over; an incomplete inventory proves nothing.     *)
PoolOverlap(pool) ==
    IF \E p \in inv.host.prefixes \ {Malformed} : p \cap pool # {} THEN "COLLIDES"
    ELSE IF ~inv.host.complete THEN "INDETERMINABLE"
    ELSE "NONE"

-----------------------------------------------------------------------------
(* ResolveSourcePrefix, gate by gate; "" lets the next gate decide. *)

Attested(s) == {s[i].snap : i \in DOMAIN s} \ {Nothing}

(* Seeded fault, used by the mutants only: sightings are not compared. *)
ProvenanceConflictPartial == Cardinality(Attested(atts) \cup Attested(addrs)) > 1

ProvenanceConflict == Cardinality(Attested(atts) \cup Attested(addrs) \cup Attested(seen4)) > 1

Mine == SelectSeq(atts, LAMBDA a : a.c = Candidate)

(* What an attachment entry says before uniqueness is considered. *)
AttachmentFault(a) ==
    IF ~a.observed /\ a.complete THEN "CONFLICT"
    ELSE IF ~a.observed \/ ~a.complete THEN "UNKNOWN"
    ELSE ""

AttachmentGate ==
    IF Mine = <<>> THEN "UNKNOWN"
    ELSE IF AttachmentFault(Mine[1]) # "" THEN AttachmentFault(Mine[1])
    ELSE IF Len(Mine) = 1 THEN ""
    ELSE IF AttachmentFault(Mine[2]) # "" THEN AttachmentFault(Mine[2])
    ELSE "AMBIGUOUS"

Placed == SelectSeq(addrs, LAMBDA a : a.c = Candidate /\ a.n = Mine[1].n)

(* The first entry that is malformed or disagrees with the first. *)
AddressGate ==
    LET odd == {i \in DOMAIN Placed : Placed[i].addr = Malformed \/ Placed[i].addr # Placed[1].addr}
        i == CHOOSE i \in odd : \A j \in odd : i <= j
    IN IF Placed = <<>> THEN "UNKNOWN"
       ELSE IF odd = {} THEN ""
       ELSE IF Placed[i].addr = Malformed THEN IF Placed[i].complete THEN "UNSUITABLE" ELSE "UNKNOWN"
       ELSE "AMBIGUOUS"

(* The first network with the attachment's id - or with its name. *)
Bound ==
    LET is == {i \in DOMAIN inv.networks :
                 inv.networks[i].id = Mine[1].n \/ (Mine[1].name # Nothing /\ inv.networks[i].name = Mine[1].name)}
    IN IF is = {} THEN Nothing ELSE inv.networks[CHOOSE i \in is : \A j \in is : i <= j]

PoolGate ==
    IF Bound = Nothing THEN "UNKNOWN"
    ELSE IF Bound.pool = Nothing THEN "UNSUITABLE"
    ELSE IF Bound.pool = Malformed THEN "UNKNOWN"
    ELSE IF Placed[1].addr \notin Bound.pool THEN "UNSUITABLE"
    ELSE IF \E n \in ToSet(inv.networks) :
               n.id # Bound.id /\ n.pool \notin {Nothing, Malformed} /\ n.pool \cap Bound.pool # {}
         THEN "AMBIGUOUS"
    ELSE IF PoolOverlap(Bound.pool) = "COLLIDES" THEN "UNSUITABLE"
    ELSE IF PoolOverlap(Bound.pool) = "INDETERMINABLE" THEN "UNKNOWN"
    ELSE ""

(* Only verified and complete sightings count. *)
Verified == {e.prefix : e \in {e \in ToSet(seen4) : e.basis \in {"OBSERVED_TRAFFIC", "OPERATOR_CONFIRMED"} /\ e.complete}}
Explicit == IF intent.mode = "explicit" THEN intent.subnet ELSE Nothing

HostVisibleGate ==
    IF Explicit = Malformed THEN "CONFLICT"
    ELSE IF Malformed \in Verified THEN "CONFLICT"
    ELSE IF Cardinality(Verified) > 1 THEN "CONFLICT"
    ELSE IF Verified = {} THEN "UNKNOWN"
    ELSE IF Explicit # Nothing /\ Explicit \notin Verified THEN "CONFLICT"
    ELSE "RESOLVED_EVIDENCE"

ResolveSourcePrefix ==
    IF ProvenanceConflict THEN "CONFLICT"
    ELSE IF EvaluateCandidate # "PROVEN_CANDIDATE" THEN EvaluateCandidate
    ELSE IF AttachmentGate # "" THEN AttachmentGate
    ELSE IF AddressGate # "" THEN AddressGate
    ELSE IF PoolGate # "" THEN PoolGate
    ELSE HostVisibleGate

HostVisiblePrefix == IF ResolveSourcePrefix = "RESOLVED_EVIDENCE" THEN CHOOSE p \in Verified : TRUE ELSE Nothing

-----------------------------------------------------------------------------
(* ComposeDesiredMSS. *)

DiscoveredSource ==
    IF ResolveSourcePrefix = "RESOLVED_EVIDENCE" THEN "DESIRED_SPEC_READY"
    ELSE IF ResolveSourcePrefix \in {"NO_CANDIDATE", "UNSUITABLE"} THEN "BLOCKED"
    ELSE IF ResolveSourcePrefix = "CONFLICT" THEN "CONFLICT"
    ELSE "UNKNOWN"

ExplicitSource ==
    IF ResolveSourcePrefix = "CONFLICT" THEN "CONFLICT"
    ELSE IF intent.subnet = Malformed THEN "BLOCKED"
    ELSE IF ResolveSourcePrefix = "RESOLVED_EVIDENCE" /\ HostVisiblePrefix # intent.subnet THEN "CONFLICT"
    ELSE "DESIRED_SPEC_READY"

(* Chain, tag and egress assertion are "ok", "missing" or refused ("bad")  *)
(* by the builder of the desired rule.                                     *)
ComposeDesiredMSS ==
    LET source == IF intent.mode = "explicit" THEN ExplicitSource ELSE DiscoveredSource IN
    IF ~intent.clamp THEN "NO_RULE_REQUIRED"
    ELSE IF intent.mode \notin {"discovered-awg", "explicit"} THEN "BLOCKED"
    ELSE IF intent.inputs = "missing" THEN "BLOCKED"
    ELSE IF intent.mode = "explicit" /\ intent.subnet = Nothing THEN "BLOCKED"
    ELSE IF source # "DESIRED_SPEC_READY" THEN source
    ELSE IF intent.inputs = "bad" THEN "BLOCKED"
    ELSE "DESIRED_SPEC_READY"

Source == IF intent.mode = "explicit" THEN intent.subnet ELSE HostVisiblePrefix

-----------------------------------------------------------------------------
Ready == ComposeDesiredMSS = "DESIRED_SPEC_READY"

(* A composed source is never a guess: in discovered mode it is what every *)
(* verified sighting says, all evidence that names a snapshot names the    *)
(* same one, and no pool stands in for it; in explicit mode it is what the *)
(* operator wrote.  And evidence that comes later may take a source away,  *)
(* but never puts another in its place.                                    *)
SourceIsGrounded ==
    [][ <<atts, addrs, seen4>>' # <<atts, addrs, seen4>> /\ Ready' =>
          /\ IF intent.mode = "explicit" THEN Source' = intent.subnet
             ELSE /\ \A e \in ToSet(seen4') : e.basis \in {"OBSERVED_TRAFFIC", "OPERATOR_CONFIRMED"} /\ e.complete => e.prefix = Source'
                  /\ \A e, f \in ToSet(atts') \cup ToSet(addrs') \cup ToSet(seen4') :
                         Nothing \in {e.snap, f.snap} \/ e.snap = f.snap
                  /\ Source' # Nothing
          /\ Ready => Source' = Source ]_awgVars
=============================================================================
