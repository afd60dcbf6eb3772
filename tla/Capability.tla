----------------------------- MODULE Capability -----------------------------
(***************************************************************************)
(* The closed capability vocabulary (internal/capability), the derivation  *)
(* of what a plan requires (capability/derivation.go, planmap, the stage 4 *)
(* bound of internal/apply) and the exact-set comparison of requirement    *)
(* and grant.  A capability is kept as the name and the key=value tokens   *)
(* it is written with, because their order is part of what is accepted;    *)
(* elements of set-valued parameters are ranks in byte order.              *)
(***************************************************************************)
EXTENDS Naturals, Sequences, FiniteSets, SequencesExt

CONSTANTS
    SysctlKeys,     \* keys of the compiled allowlist, by rank
    Chains,         \* well-formed chain names, by rank
    ProjectChains,  \* those with the project prefix
    Ifaces,         \* well-formed interface names, by rank
    Tags,           \* well-formed tags
    ProjectTags,    \* those with the project prefix
    Units,          \* well-formed unit names
    Policy,         \* serviceUnitPolicy: unit |-> permitted operations
    MaxTable,       \* the largest table number, 2^32 - 1 in the code
    Refused         \* the error result

ASSUME CapabilityConstants ==
    /\ ProjectChains \subseteq Chains /\ ProjectTags \subseteq Tags
    /\ DOMAIN Policy \subseteq Units
    /\ MaxTable \in Nat
    /\ SysctlKeys \cup Chains \cup Ifaces \subseteq Nat

-----------------------------------------------------------------------------
(* Parameter keys of every name, in canonical order. *)
Vocabulary ==
    [projectfile |-> <<>>,
     sysctl      |-> <<"keys">>,
     routing     |-> <<"selector", "table">>,
     tagged      |-> <<"chains", "tag">>,
     mssclamp    |-> <<"ifaces">>,
     restart     |-> <<"unit">>]

Names == DOMAIN Vocabulary

StrictlyAscending(s) == \A i \in 1..Len(s) - 1 : s[i] < s[i + 1]

(* validateSortedSet: not empty, every element valid, sorted, no duplicate. *)
SortedSet(s, valid) ==
    /\ s # <<>>
    /\ ToSet(s) \subseteq valid
    /\ StrictlyAscending(s)

(* Tables 0 and 253..255 belong to the kernel. *)
ValidTableNumber(n) == n \in (1..MaxTable) \ {253, 254, 255}

(* checkSelectorPrefix: masked IPv4, never /0, and no special range. *)
ValidSelector(p) == p.v4 /\ p.masked /\ p.bits \in 1..32 /\ p.range = "ordinary"

(* validateValue *)
ValidValue(key, v) ==
    \/ key = "keys"     /\ SortedSet(v, SysctlKeys)
    \/ key = "chains"   /\ SortedSet(v, Chains)
    \/ key = "ifaces"   /\ SortedSet(v, Ifaces)
    \/ key = "table"    /\ ValidTableNumber(v)
    \/ key = "selector" /\ ValidSelector(v)
    \/ key = "tag"      /\ v \in Tags
    \/ key = "unit"     /\ v \in Units

(* ParseCapability: a known name, exactly its parameters in their order,   *)
(* none twice, every value valid; nothing is normalised into acceptance.   *)
ParseCapability(c) ==
    /\ c.name \in Names
    /\ [i \in DOMAIN c.toks |-> c.toks[i][1]] = Vocabulary[c.name]
    /\ \A i \in DOMAIN c.toks : ValidValue(c.toks[i][1], c.toks[i][2])

Cap(name, toks) == [name |-> name, toks |-> toks]

(* The capability, or the refusal of an uncanonical one. *)
Checked(c) == IF ParseCapability(c) THEN c ELSE Refused

(* NewCapabilitySet over a list: valid members, none twice. *)
NewCapabilitySet(s) ==
    IF (\A i \in DOMAIN s : ParseCapability(s[i])) /\ IsInjective(s) THEN ToSet(s) ELSE Refused

-----------------------------------------------------------------------------
(* Derivation. *)

(* applicableFields: the fields of a derivation input a kind consumes. *)
ApplicableFields ==
    [projectfile |-> {}, sysctl |-> {"keys"}, routing |-> {"table", "selector"},
     tagged |-> {"chains", "tag"}, mssclamp |-> {"ifaces"}, restart |-> {"unit"}]

(* sortedUniqueCopy *)
SortedUniqueCopy(s) == SetToSortSeq(ToSet(s), <)

(* The per-kind constructors, all fields being there. *)
Construct(kind, f) ==
    CASE kind = "projectfile" -> Cap(kind, <<>>)
      [] kind = "sysctl"   -> Cap(kind, <<<<"keys", SortedUniqueCopy(f.keys)>>>>)
      [] kind = "routing"  -> Cap(kind, <<<<"selector", f.selector>>, <<"table", f.table>>>>)
      [] kind = "tagged"   -> Cap(kind, <<<<"chains", SortedUniqueCopy(f.chains)>>, <<"tag", f.tag>>>>)
      [] kind = "mssclamp" -> Cap(kind, <<<<"ifaces", SortedUniqueCopy(f.ifaces)>>>>)
      [] kind = "restart"  -> Cap(kind, <<<<"unit", f.unit>>>>)

(* DeriveFirewallTagged: only names of the project's namespace. *)
InProject(kind, f) ==
    kind = "tagged" => ToSet(f.chains) \subseteq ProjectChains /\ f.tag \in ProjectTags

(* DeriveCapability: f has the fields that are set; one that the kind does *)
(* not consume refuses, and so does a missing one.                         *)
DeriveCapability(kind, f) ==
    IF kind \in Names /\ DOMAIN f = ApplicableFields[kind] /\ InProject(kind, f)
    THEN Checked(Construct(kind, f))
    ELSE Refused

(* Aggregate: equal requirements are one; two parametrisations of a name   *)
(* conflict.                                                               *)
Aggregate(ids) ==
    IF /\ Refused \notin ids
       /\ \A c, d \in ids : c.name = d.name => c = d
       /\ \A c \in ids : ParseCapability(c)
    THEN ids
    ELSE Refused

(* The unit is in the compiled policy, and so are the operation and the    *)
(* operation that rolls it back, if there is one.                          *)
PermittedService(a) ==
    /\ a.unit \in DOMAIN Policy
    /\ a.op \in Policy[a.unit]
    /\ a.rb # "" => a.rb \in Policy[a.unit]

(* Seeded fault, used by the mutants only: derivation stops at the first   *)
(* action.                                                                 *)
RequiredCapabilitiesFirst(acts) ==
    IF acts # <<>> /\ acts[1].kind = "SERVICE" /\ PermittedService(acts[1])
    THEN Aggregate({DeriveCapability("restart", [unit |-> acts[1].unit])})
    ELSE {}

(* RequiredCapabilities (stage 4): service actions within the policy,      *)
(* VALIDATE needs nothing, every other kind refuses the plan.              *)
RequiredCapabilities(acts) ==
    LET services == {i \in DOMAIN acts : acts[i].kind = "SERVICE"} IN
    IF \A i \in DOMAIN acts : acts[i].kind = "VALIDATE" \/ (acts[i].kind = "SERVICE" /\ PermittedService(acts[i]))
    THEN Aggregate({DeriveCapability("restart", [unit |-> acts[i].unit]) : i \in services})
    ELSE Refused

(* qualifyProjectFilePath: absolute, clean, strictly inside the project    *)
(* namespace and not one of the program's own files.                       *)
QualifiedPath(path) == path = "project"

(* deriveActionCapabilities of planmap. *)
ActionCapability(a) ==
    CASE a.kind \in {"CREATE_FILE", "UPDATE_FILE"} /\ ~a.delete /\ QualifiedPath(a.path) ->
            Cap("projectfile", <<>>)
      [] a.kind = "MSS_RULE" /\ a.valid -> DeriveCapability("mssclamp", [ifaces |-> <<a.iface>>])
      [] OTHER -> Refused

(* DerivePlanCapabilities: all or nothing. *)
DerivePlanCapabilities(acts) == Aggregate({ActionCapability(acts[i]) : i \in DOMAIN acts})

(* VerifyCapabilityGrant: nothing missing and nothing beyond. *)
GrantSatisfied(required, granted) ==
    /\ required # Refused /\ granted # Refused
    /\ required \ granted = {} /\ granted \ required = {}
=============================================================================
