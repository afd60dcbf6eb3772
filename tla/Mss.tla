-------------------------------- MODULE Mss --------------------------------
(***************************************************************************)
(* The MSS clamp rule: the observation of the mangle table and of the      *)
(* target chain (mssspec/observe.go, chain.go), the planner (action.go),   *)
(* the gated insertion (mssexec) and its executor adapter (mssadapter).    *)
(*                                                                         *)
(* A firewall maps the chains that exist to their rules.  A rule has the   *)
(* matches the parser knows: source (a set of addresses, as the nested     *)
(* prefixes denote them, or Odd, one that does not parse), output          *)
(* interface (a name, which may be a wildcard such as tun+), protocol,     *)
(* port, and "extra", which stands for the matches the desired rule always *)
(* leaves free (destination, input interface, connection state, mark).     *)
(* Reading the table may fail: Unread.                                     *)
(***************************************************************************)
EXTENDS Integers, Sequences, SequencesExt, FiniteSets

CONSTANTS
    Target,     \* the project's chain
    Tag,        \* the comment of the project's rule
    SpecSrc,    \* the sources the desired rule clamps
    SpecOut,    \* its output interface
    Addresses, Outs, Protos, Ports,     \* what packets may have
    Wildcards,  \* the interfaces each wildcard name stands for
    Free,       \* an absent match
    Odd,        \* a source that does not parse
    Firewalls,  \* tables others may put in place
    OtherRules, \* rules others append to the target chain
    MaxRules,   \* bound on the rules of the target chain
    MssTx,      \* transactions with an MSS action, 1..n
    MssHosts, MssHere,  \* machines, and the one the approval names
    Unread,     \* a table that could not be read
    NoSpec

(* The rules others have. *)
TheirRules == OtherRules \cup UNION {UNION {ToSet(f[c]) : c \in DOMAIN f} : f \in Firewalls}

BuiltIn == {"PREROUTING", "INPUT", "FORWARD", "OUTPUT", "POSTROUTING"}

(* The project's chain has the project's prefix, and the desired rule an   *)
(* output interface, of which ValidInterfaceName accepts no wildcard; only *)
(* the program writes the program's rules; netfilter accepts no jump to a  *)
(* built-in chain.                                                         *)
ASSUME MssConstants ==
    /\ MssHere \in MssHosts /\ MssTx = 1..Cardinality(MssTx) /\ Cardinality(MssTx) \in Nat /\ MaxRules \in Nat
    /\ Target \notin BuiltIn /\ SpecOut \notin {Free} \cup DOMAIN Wildcards
    /\ \A f \in Firewalls : IsFiniteSet(DOMAIN f) /\ \A c \in DOMAIN f : f[c] \in Seq(TheirRules)
    /\ \A r \in TheirRules : ~r.ours /\ (r.act \in {"jump", "goto"} => r.to \notin BuiltIn)

(* The desired rule as the insert command spells it. *)
OurRule == [tag |-> Tag, act |-> "clamp", to |-> "", src |-> SpecSrc, out |-> SpecOut, proto |-> "tcp",
            port |-> Free, extra |-> FALSE, ok |-> TRUE, ours |-> TRUE]

(* The semantic spec of a clamp rule; its fingerprint is injective.  The   *)
(* parser also records ports, the spec has no field for them.              *)
ProjectRule(r) == [src |-> r.src, out |-> r.out, extra |-> r.extra]

Planned == ProjectRule(OurRule)

-----------------------------------------------------------------------------
(* ObserveMSSRule: the coordinate (target chain, tag) in one inventory. *)

RulesIn(inv) == IF Target \in DOMAIN inv THEN ToSet(inv[Target]) ELSE {}
AtCoordinate(inv) == {r \in RulesIn(inv) : r.ok /\ r.tag = Tag}
Representable(r) == r.act = "clamp" /\ r.proto = "tcp"
SpecsAt(inv) == {ProjectRule(r) : r \in {q \in AtCoordinate(inv) : Representable(q)}}
Unrepresentable(inv) == {r \in RulesIn(inv) : ~r.ok} \cup {r \in AtCoordinate(inv) : ~Representable(r)}

ObserveMSSRule(inv) ==
    IF inv = Unread THEN "UNKNOWN"
    ELSE IF SpecsAt(inv) = {} /\ Unrepresentable(inv) = {} THEN "ABSENT"
    ELSE IF SpecsAt(inv) = {} THEN "PRESENT_UNSUPPORTED"
    ELSE IF Cardinality(SpecsAt(inv)) > 1 THEN "UNKNOWN"
    ELSE IF Unrepresentable(inv) # {} THEN "UNKNOWN"
    ELSE "PRESENT"

(* The observed spec, when there is one. *)
ObservedSpec(inv) == IF ObserveMSSRule(inv) = "PRESENT" THEN CHOOSE s \in SpecsAt(inv) : TRUE ELSE NoSpec

-----------------------------------------------------------------------------
(* ObserveChainSuitability: what can be said about the target chain. *)

(* Seeded fault, used by the mutants only: containment the wrong way round. *)
MatchCoversSwapped(r) ==
    IF r.proto \notin {Free, "tcp"} \/ r.out \notin {Free, SpecOut} \/ r.extra THEN "no"
    ELSE IF r.src = Odd THEN "undecided"
    ELSE IF r.src = Free \/ r.src \subseteq SpecSrc THEN "yes" ELSE "no"

(* matchCovers: does the rule match every packet of the desired rule? *)
MatchCovers(r) ==
    IF r.proto \notin {Free, "tcp"} THEN "no"
    ELSE IF r.src = Odd THEN "undecided"
    ELSE IF r.src # Free /\ ~(SpecSrc \subseteq r.src) THEN "no"
    ELSE IF r.out \notin {Free, SpecOut} \/ r.extra THEN "no"
    ELSE "yes"

(* matchDisjoint: does it provably match none?  Interface names are        *)
(* compared as strings, wildcards too.                                     *)
MatchDisjoint(r) ==
    \/ r.proto \notin {Free, "tcp"}
    \/ r.out \notin {Free, SpecOut}
    \/ r.src \notin {Free, Odd} /\ r.src \cap SpecSrc = {}

(* Rules, by chain and position, that jump or go to the target chain. *)
Attachments(inv) ==
    {e \in UNION {{c} \X DOMAIN inv[c] : c \in DOMAIN inv} :
        LET r == inv[e[1]][e[2]] IN r.ok /\ r.act \in {"jump", "goto"} /\ r.to = Target}

(* outInterfaceDecided and assessAttachment *)
AssessAttachment(inv, c, i) ==
    IF c \notin BuiltIn THEN "UNKNOWN"
    ELSE IF c \in {"PREROUTING", "INPUT"} THEN "UNSUITABLE"
    ELSE IF MatchDisjoint(inv[c][i]) THEN "UNSUITABLE"
    ELSE IF MatchCovers(inv[c][i]) = "yes" THEN "PROVEN"
    ELSE "UNKNOWN"

(* An unsupported rule where it could hide a jump or shadow the end. *)
Poisoned(inv) == \E c \in (BuiltIn \cup {Target}) \cap DOMAIN inv : \E i \in DOMAIN inv[c] : ~inv[c][i].ok

(* -A appends: every rule of the chain precedes the new one. *)
Shadowed(inv) == \E r \in RulesIn(inv) : r.act = "verdict" /\ MatchCovers(r) = "yes"
Undeterminable(inv) ==
    \E r \in RulesIn(inv) :
        \/ r.act = "verdict" /\ MatchCovers(r) = "undecided"
        \/ r.act \in {"jump", "goto"} /\ ~MatchDisjoint(r)

ObserveChainSuitability(inv) ==
    IF inv = Unread THEN "UNKNOWN"
    ELSE IF Target \notin DOMAIN inv THEN "ABSENT"
    ELSE IF Target \in BuiltIn THEN "UNSUITABLE"
    ELSE IF Poisoned(inv) THEN "UNKNOWN"
    ELSE IF Shadowed(inv) THEN "UNSUITABLE"
    ELSE IF Undeterminable(inv) THEN "UNKNOWN"
    ELSE IF Attachments(inv) = {} THEN "UNSUITABLE"
    ELSE IF Cardinality(Attachments(inv)) > 1 THEN "AMBIGUOUS"
    ELSE LET a == CHOOSE a \in Attachments(inv) : TRUE IN AssessAttachment(inv, a[1], a[2])

-----------------------------------------------------------------------------
(* ClassifyLiveState and PlanMSSAction. *)

PlanMSSAction(inv) ==
    LET live == ObserveMSSRule(inv)
        chain == ObserveChainSuitability(inv)
    IN IF live \in {"UNKNOWN", "PRESENT_UNSUPPORTED"} THEN "UNKNOWN"
       ELSE IF live = "PRESENT" /\ ObservedSpec(inv) = Planned THEN "NO_ACTION"
       ELSE IF live = "PRESENT" THEN "BLOCKED_COLLISION"
       ELSE IF chain = "PROVEN" THEN "CREATE_MSS_RULE"
       ELSE IF chain = "UNKNOWN" THEN "UNKNOWN"
       ELSE "BLOCKED_PREREQUISITE"

-----------------------------------------------------------------------------
VARIABLES
    fw,         \* the mangle table
    at,         \* the machine the process runs on
    mpc,        \* next step of the adapter
    mtx,        \* the transaction in hand
    bound,      \* the adapter's binding: [tx, broken]
    pre, post,  \* the two inventories Ensure took
    res,        \* its result: [proven, stage, spec]
    j4,         \* j4[t]: the observation recorded for t
    inserts     \* history: commands issued for the transaction

mssVars == <<fw, at, mpc, mtx, bound, pre, post, res, j4, inserts>>

NoRes == [proven |-> FALSE, stage |-> "", spec |-> NoSpec]

MssInit ==
    /\ fw \in Firewalls /\ at = MssHere
    /\ mpc = "idle" /\ mtx = 0
    /\ bound = [tx |-> 0, broken |-> FALSE]
    /\ pre = Unread /\ post = Unread /\ res = NoRes
    /\ j4 = [t \in MssTx |-> NoSpec]
    /\ inserts = 0

(* A run begins its journal record and binds a fresh adapter to it. *)
BeginMss ==
    /\ mpc \in {"idle", "valid", "latched"} /\ mtx < Cardinality(MssTx)
    /\ mtx' = mtx + 1 /\ mpc' = "bound"
    /\ bound' = [tx |-> mtx + 1, broken |-> FALSE]
    /\ pre' = Unread /\ post' = Unread /\ res' = NoRes /\ inserts' = 0
    /\ UNCHANGED <<fw, at, j4>>

(* BindTransaction once more, for another transaction: poisoned. *)
Rebind ==
    /\ mpc = "bound" /\ ~bound.broken
    /\ \E t \in MssTx \ {bound.tx} : bound' = [bound EXCEPT !.broken = TRUE]
    /\ UNCHANGED <<fw, at, mpc, mtx, pre, post, res, j4, inserts>>

Refuse(stage, spec) == res' = [proven |-> FALSE, stage |-> stage, spec |-> spec]

(* Adapter.Apply: transactionGuard, then the host gate of Ensure. *)
HostGateMss ==
    /\ mpc = "bound"
    /\ IF bound.broken \/ at # MssHere
       THEN Refuse("HOST_GATE", NoSpec) /\ mpc' = "failed"
       ELSE mpc' = "gated" /\ UNCHANGED res
    /\ UNCHANGED <<fw, at, mtx, bound, pre, post, j4, inserts>>

(* The second look, before any command: only a proven absence goes on. *)
PreObserve ==
    /\ mpc = "gated"
    /\ pre' \in {fw, Unread}
    /\ IF PlanMSSAction(pre') = "CREATE_MSS_RULE"
       THEN mpc' = "planned" /\ UNCHANGED res
       ELSE Refuse("PRE_OBSERVATION", NoSpec) /\ mpc' = "failed"
    /\ UNCHANGED <<fw, at, mtx, bound, post, j4, inserts>>

Append1(r) == fw' = [fw EXCEPT ![Target] = Append(@, r)]

(* Seeded fault, used by the mutants only: a failed command is repeated. *)
InsertCommandRetries ==
    /\ mpc = "planned"
    /\ inserts' = inserts + 1
    /\ Target \in DOMAIN fw /\ fw' = [fw EXCEPT ![Target] = Append(Append(@, OurRule), OurRule)]
    /\ mpc' = "issued"
    /\ UNCHANGED <<at, mtx, bound, pre, post, res, j4>>

(* iptables -A: it may fail, with or without effect; it must fail when the *)
(* chain is gone.                                                          *)
InsertCommand ==
    /\ mpc = "planned"
    /\ inserts' = inserts + 1
    /\ \/ /\ Target \in DOMAIN fw /\ Append1(OurRule)
          /\ \/ mpc' = "issued" /\ UNCHANGED res
             \/ Refuse("COMMAND", NoSpec) /\ mpc' = "failed"
       \/ UNCHANGED fw /\ Refuse("COMMAND", NoSpec) /\ mpc' = "failed"
    /\ UNCHANGED <<at, mtx, bound, pre, post, j4>>

(* The exit code is no proof: look again. *)
PostObserve ==
    /\ mpc = "issued"
    /\ post' \in {fw, Unread}
    /\ IF ObservedSpec(post') = Planned /\ PlanMSSAction(post') = "NO_ACTION"
       THEN res' = [proven |-> TRUE, stage |-> "DONE", spec |-> Planned]
       ELSE Refuse("POST_OBSERVATION", ObservedSpec(post'))
    /\ mpc' = "observed"
    /\ UNCHANGED <<fw, at, mtx, bound, pre, j4, inserts>>

(* Seeded fault, used by the mutants only: what was planned is recorded. *)
RecordJ4Planned ==
    /\ mpc = "observed"
    /\ IF res.spec = NoSpec THEN mpc' = "failed" /\ UNCHANGED j4
       ELSE j4' = [j4 EXCEPT ![bound.tx] = Planned] /\ mpc' = IF res.proven THEN "applied" ELSE "failed"
    /\ UNCHANGED <<fw, at, mtx, bound, pre, post, res, inserts>>

(* The observation is recorded, proof or mismatch, before Apply returns;   *)
(* the record may fail.                                                    *)
RecordJ4 ==
    /\ mpc = "observed"
    /\ \/ res.spec = NoSpec /\ mpc' = "failed" /\ UNCHANGED j4
       \/ res.spec # NoSpec /\ mpc' = "failed" /\ UNCHANGED j4
       \/ /\ res.spec # NoSpec
          /\ j4' = [j4 EXCEPT ![bound.tx] = res.spec]
          /\ mpc' = IF res.proven THEN "applied" ELSE "failed"
    /\ UNCHANGED <<fw, at, mtx, bound, pre, post, res, inserts>>

ValidateMss ==
    /\ mpc = "applied"
    /\ mpc' = IF res.proven /\ res.spec = Planned THEN "valid" ELSE "failed"
    /\ UNCHANGED <<fw, at, mtx, bound, pre, post, res, j4, inserts>>

(* Rollback is refused: the transaction latches RECOVERY_REQUIRED, which   *)
(* an operator clears before the next run.                                 *)
RollbackMss ==
    /\ mpc = "failed" /\ mpc' = "latched"
    /\ UNCHANGED <<fw, at, mtx, bound, pre, post, res, j4, inserts>>

(* Others: another table, one more rule, one rule less, another machine. *)
OthersReplace ==
    /\ \E f \in Firewalls : f # fw /\ fw' = f
    /\ UNCHANGED <<at, mpc, mtx, bound, pre, post, res, j4, inserts>>
OthersAppend ==
    /\ Target \in DOMAIN fw /\ Len(fw[Target]) < MaxRules
    /\ \E r \in OtherRules : Append1(r)
    /\ UNCHANGED <<at, mpc, mtx, bound, pre, post, res, j4, inserts>>
OthersDelete ==
    /\ Target \in DOMAIN fw /\ \E i \in DOMAIN fw[Target] : fw' = [fw EXCEPT ![Target] = RemoveAt(@, i)]
    /\ UNCHANGED <<at, mpc, mtx, bound, pre, post, res, j4, inserts>>
OtherMachine ==
    /\ mpc \in {"idle", "bound"} /\ at' \in MssHosts \ {at}
    /\ UNCHANGED <<fw, mpc, mtx, bound, pre, post, res, j4, inserts>>

MssNext ==
    \/ BeginMss \/ Rebind \/ HostGateMss \/ PreObserve \/ InsertCommand \/ PostObserve
    \/ RecordJ4 \/ ValidateMss \/ RollbackMss
    \/ OthersReplace \/ OthersAppend \/ OthersDelete \/ OtherMachine

MssSpec == MssInit /\ [][MssNext]_mssVars

-----------------------------------------------------------------------------
(* A reference reading of a table: where packets may come. *)

Packets == [src : Addresses, out : Outs, proto : Protos, port : Ports, extra : BOOLEAN]

(* The packets the desired rule is for. *)
SpecPackets == {p \in Packets : p.proto = "tcp" /\ p.src \in SpecSrc /\ p.out = SpecOut}

(* The interfaces an output match stands for. *)
Carries(out) == IF out \in DOMAIN Wildcards THEN Wildcards[out] ELSE {out}

Matches(r, p, hook) ==
    /\ r.proto \in {Free, p.proto} /\ r.port \in {Free, p.port} /\ (r.extra => p.extra)
    /\ r.src \in {Free, Odd} \/ p.src \in r.src
    /\ r.out = Free \/ (p.out \in Carries(r.out) /\ hook \notin {"PREROUTING", "INPUT"})

(* No rule of the chain before position i takes the packet away. *)
Gets(inv, c, i, p, hook) ==
    \A j \in 1..(i - 1) : ~(inv[c][j].ok /\ inv[c][j].act \in {"verdict", "goto"} /\ Matches(inv[c][j], p, hook))

(* Rules, by chain and position, that send the packet on from chains C. *)
Leaving(inv, C, p, hook) ==
    {e \in UNION {{c} \X DOMAIN inv[c] : c \in C} :
        LET r == inv[e[1]][e[2]] IN
            /\ r.act \in {"jump", "goto"} /\ r.to \in DOMAIN inv
            /\ Gets(inv, e[1], e[2], p, hook) /\ Matches(r, p, hook)}

Further(inv, C, p, hook) == C \cup {inv[e[1]][e[2]].to : e \in Leaving(inv, C, p, hook)}

(* Chains a packet may be in after as many jumps from a hook as there are  *)
(* chains.                                                                 *)
Entered(inv, p, hook) ==
    LET In[n \in 0..Cardinality(DOMAIN inv)] ==
            IF n = 0 THEN {hook} \cap DOMAIN inv
            ELSE Further(inv, In[n - 1], p, hook)
    IN In[Cardinality(DOMAIN inv)]

(* A rule appended to the target chain may clamp the packet. *)
Clampable(inv, p) ==
    \E hook \in BuiltIn :
        /\ Target \in Entered(inv, p, hook)
        /\ Gets(inv, Target, Len(inv[Target]) + 1, p, hook)
        /\ Matches(OurRule, p, hook)

(* No packet the desired rule is for would reach a rule appended to the    *)
(* chain.                                                                  *)
Dead(inv) == \A p \in SpecPackets : ~Clampable(inv, p)

(* Every rule is modelled and has no port, which no comparison looks at. *)
Comparable(inv) == \A c \in DOMAIN inv : \A i \in DOMAIN inv[c] : inv[c][i].ok /\ inv[c][i].port = Free

(* "No" is right: when the chain is called UNSUITABLE it is dead, whatever *)
(* hooks, jumps and verdicts the table has, as long as the jumps to the    *)
(* chain itself name their interfaces: other rules may use wildcards.      *)
UnsuitableIsDead ==
    Comparable(fw) /\ (\A e \in Attachments(fw) : fw[e[1]][e[2]].out \notin DOMAIN Wildcards) =>
        (ObserveChainSuitability(fw) = "UNSUITABLE" => Dead(fw))

(* "a prerequisite is PROVEN violated - ... an attachment whose match      *)
(* provably excludes the MSS rule's packets" (chain.go on UNSUITABLE), for *)
(* every table the parser supports, wildcards in the jump included.  The   *)
(* code does not keep it: "-o tun+" is not the string "tun0".              *)
UnsuitableIsProven ==
    Comparable(fw) => (ObserveChainSuitability(fw) = "UNSUITABLE" => Dead(fw))

(* A validated transaction created the rule: on the approved machine, at a *)
(* coordinate that was free, with one command, after which the coordinate  *)
(* held the planned rule and nothing else; and what the journal says was   *)
(* observed is what was observed, proof or mismatch.                       *)
EnsureIsHonest ==
    /\ mpc = "valid" =>
        /\ inserts = 1 /\ at = MssHere /\ ~bound.broken
        /\ AtCoordinate(pre) = {} /\ ObserveChainSuitability(pre) = "PROVEN"
        /\ \A r \in AtCoordinate(post) : r.act = "clamp" /\ r.src = SpecSrc /\ r.out = SpecOut
        /\ AtCoordinate(post) # {} /\ j4[mtx] = Planned
    /\ mtx > 0 /\ j4[mtx] # NoSpec =>
        \E r \in AtCoordinate(post) : r.act = "clamp" /\ j4[mtx] = ProjectRule(r)

(* However runs fail and are tried again - command failed but took effect, *)
(* proof lost, journal write lost - the program never inserts its rule     *)
(* while its earlier one is still there.                                   *)
NeverTwice ==
    Target \in DOMAIN fw => Cardinality({i \in DOMAIN fw[Target] : fw[Target][i].ours}) <= 1
=============================================================================
