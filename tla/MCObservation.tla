--------------------------- MODULE MCObservation ---------------------------
(* What the program concludes from looking: a managed file, a service, the *)
(* firewall, the AmneziaWG containers.  The four are independent; a        *)
(* behaviour is about one of them, its topic.                              *)
EXTENDS FileObs, ServiceObs, Mss, AwgSource, TLC

CONSTANT Topics
VARIABLE topic

(* Files. *)
MCSpecs == {[content |-> "a", mode |-> 600], [content |-> "b", mode |-> 644]}
Asked(place, kind) == [class |-> "file", valid |-> TRUE, place |-> place, kind |-> kind]
InodeSymmetry == Permutations(Inodes)
MCRequests == {Asked("project", "CREATE_FILE"), Asked("reserved", "CREATE_FILE"), Asked("project", "DELETE_FILE")}

(* Services. *)
OnePlan == [observer |-> TRUE, actions |-> 1, kind |-> "SERVICE", pinned |-> TRUE]
MCPlans == {OnePlan, [OnePlan EXCEPT !.pinned = FALSE], [OnePlan EXCEPT !.observer = FALSE],
            [OnePlan EXCEPT !.actions = 2], [OnePlan EXCEPT !.kind = "FILE"]}

(* Firewalls. *)
Rule(tag, act, to, src, out, port) ==
    [tag |-> tag, act |-> act, to |-> to, src |-> src, out |-> out, proto |-> Free, port |-> port,
     extra |-> FALSE, ok |-> TRUE, ours |-> FALSE]
Clamp(src, out) == [Rule(Tag, "clamp", "", src, out, Free) EXCEPT !.proto = "tcp"]
Accept(src, out) == Rule("", "verdict", "", src, out, Free)
Go(c, to, src, out) == Rule("", c, to, src, out, Free)
Opaque == [Rule("", "none", "", Free, Free, Free) EXCEPT !.ok = FALSE]
Hooked(rules, target) == ("FORWARD" :> rules) @@ (Target :> target)
J == Go("jump", Target, Free, Free)
MCFirewalls == {Hooked(<<J>>, <<>>), Hooked(<<J>>, <<Clamp({1, 2}, "tun")>>), ("FORWARD" :> <<>>)}
MCOtherRules ==
    {Clamp({1, 2}, "tun"), [Clamp({1, 2}, "tun") EXCEPT !.port = 443], Clamp({1, 2}, "eth"), Opaque,
     Rule(Tag, "verdict", "", {1}, Free, Free)}
MCWildcards == "tun+" :> {"tun"}
TableRules == {Accept(Free, "tun"), Accept({1, 2, 3}, Free), Accept({1}, Free), Accept({3}, "eth"), Go("jump", "user", {1}, Free),
     Go("goto", "user", Free, "eth"), Accept(Odd, Free), [Accept(Free, Free) EXCEPT !.extra = TRUE],
     Accept(Free, "tun+"), Go("jump", "user", {1}, "tun+"),
     [Accept(Free, Free) EXCEPT !.proto = "udp"], Opaque, Clamp({1, 2}, "eth")}
Jumps == {Go(a, Target, s, o) : a \in {"jump", "goto"}, s \in {Free, {1}, {3}, {1, 2, 3}, Odd}, o \in {Free, "tun", "eth", "tun+"}}
Seq1(S) == {<<>>} \cup {<<x>> : x \in S}
Tables ==
    {(h :> r1) @@ ("FORWARD" :> r2) @@ ("user" :> r3) @@ (Target :> t) :
        h \in {"PREROUTING", "POSTROUTING"}, r1 \in Seq1({J, Go("jump", Target, {1}, "tun")}),
        r2 \in Seq1(Jumps) \cup {<<Accept({1}, Free), J>>, <<Go("jump", "user", Free, Free)>>, <<J, J>>},
        r3 \in Seq1({J, Opaque, Go("goto", Target, Free, Free)}), t \in Seq1(TableRules)}

(* Containers, networks and evidence. *)
Ctr(id, ports) == [id |-> id, image |-> TRUE, running |-> TRUE, ports |-> ports]
Stopped(id) == [id |-> id, image |-> TRUE, running |-> FALSE, ports |-> "udp"]
Net(id, name, pool) == [id |-> id, name |-> name, pool |-> pool]
Found(cs, ns, ps, complete) == [policy |-> TRUE, containers |-> cs, networks |-> ns, host |-> [prefixes |-> ps, complete |-> complete]]
MCInventories ==
    {Found(<<Ctr("c1", "udp")>>, <<Net("n1", "awg", {1, 2})>>, {{4}, Malformed}, TRUE),
     Found(<<Ctr("c1", "udp"), Ctr("c2", "untyped"), Stopped("c3")>>, <<Net("old", "awg", {1, 2}), Net("n1", "awg", {3})>>, {{4}}, TRUE),
     Found(<<Ctr("c1", "udp")>>, <<Net("n1", "awg", {1, 2}), Net("n2", "b", {1})>>, {{4}}, TRUE),
     Found(<<Ctr("c1", "udp")>>, <<Net("n1", "awg", {1, 2})>>, {{1}}, TRUE),
     Found(<<Ctr("c1", "udp")>>, <<Net("n1", "awg", {1, 2})>>, {{4}}, FALSE),
     Found(<<Ctr("c1", "udp")>>, <<Net("n1", "awg", Nothing)>>, {{4}}, TRUE),
     Found(<<Ctr("c1", "udp")>>, <<Net("n1", "awg", Malformed)>>, {{4}}, TRUE),
     Found(<<Ctr("c1", "udp"), Ctr("c2", "udp")>>, <<>>, {}, TRUE),
     Found(<<Ctr("c1", "other")>>, <<>>, {}, TRUE),
     Found(<<Ctr("c1", "untyped")>>, <<>>, {}, TRUE),
     Found(<<Stopped("c1")>>, <<>>, {}, TRUE),
     [Found(<<Ctr("c1", "udp")>>, <<>>, {}, TRUE) EXCEPT !.policy = FALSE]}
Intent(mode, subnet) == [clamp |-> TRUE, mode |-> mode, inputs |-> "ok", subnet |-> subnet]
MCIntents ==
    {Intent("discovered-awg", Nothing), Intent("explicit", {5}), Intent("explicit", Malformed), Intent("explicit", Nothing), Intent("typo", Nothing),
     [Intent("discovered-awg", Nothing) EXCEPT !.clamp = FALSE], [Intent("discovered-awg", Nothing) EXCEPT !.inputs = "missing"],
     [Intent("explicit", {5}) EXCEPT !.inputs = "bad"]}
At(n, o, c, s) == [c |-> "c1", n |-> n, name |-> "awg", observed |-> o, complete |-> c, snap |-> s]
MCAttachings == {At("n1", TRUE, TRUE, 1), At("n1", FALSE, TRUE, Nothing), At("n1", TRUE, FALSE, Nothing), At("n2", TRUE, TRUE, 2), [At("n1", TRUE, TRUE, 1) EXCEPT !.name = Nothing], [At("n1", TRUE, TRUE, 1) EXCEPT !.c = "c2"]}
Ad(a, c, s) == [c |-> "c1", n |-> "n1", addr |-> a, complete |-> c, snap |-> s]
MCAddressings == {Ad(1, TRUE, 1), Ad(1, FALSE, 2), Ad(3, TRUE, Nothing), Ad(Malformed, TRUE, 1), Ad(Malformed, FALSE, Nothing)}
Sg(p, b, c, s) == [prefix |-> p, basis |-> b, complete |-> c, snap |-> s]
MCSightings == {Sg({5}, "OBSERVED_TRAFFIC", TRUE, 1), Sg({6}, "OPERATOR_CONFIRMED", TRUE, Nothing), Sg({6}, "OBSERVED_TRAFFIC", TRUE, 2), Sg({5}, "UNVERIFIED", TRUE, 1), Sg({6}, "OPERATOR_CONFIRMED", FALSE, 1), Sg(Malformed, "OBSERVED_TRAFFIC", TRUE, 1)}

-----------------------------------------------------------------------------
(* A topic's machine starts as it does, the others rest. *)
FileRests ==
    /\ entry = [n \in {Path, Elsewhere} |-> NoInode] /\ node = [i \in Inodes |-> Gone]
    /\ ask = NoRequest /\ fpc = "idle" /\ raw = NoRaw /\ fd = NoInode /\ obs = NoObs /\ held = {} /\ edited = FALSE
MssRests ==
    /\ at = MssHere /\ mpc = "idle" /\ mtx = 0 /\ bound = [tx |-> 0, broken |-> FALSE]
    /\ pre = Unread /\ post = Unread /\ res = NoRes /\ j4 = [t \in MssTx |-> NoSpec] /\ inserts = 0
AwgRests == atts = <<>> /\ addrs = <<>> /\ seen4 = <<>>

Plain == Found(<<Ctr("c1", "udp")>>, <<Net("n1", "awg", {1, 2})>>, {{4}, Malformed}, TRUE)
Wanted == Intent("discovered-awg", Nothing)

MCInit ==
    /\ topic \in Topics
    /\ FileRests /\ ServiceInit
    /\ IF topic = "insert" THEN MssInit ELSE MssRests /\ fw \in IF topic = "tables" THEN Tables ELSE {"FORWARD" :> <<>>}
    /\ IF topic = "source" THEN AwgInit /\ (inv = Plain \/ intent = Wanted)
       ELSE AwgRests /\ inv = Plain /\ intent = Wanted

MCNext ==
    /\ UNCHANGED topic
    /\ \/ topic = "file" /\ FileNext /\ UNCHANGED <<serviceVars, mssVars, awgVars>>
       \/ topic = "service" /\ ServiceNext /\ UNCHANGED <<fileVars, mssVars, awgVars>>
       \/ topic = "insert" /\ MssNext /\ UNCHANGED <<fileVars, serviceVars, awgVars>>
       \/ /\ topic = "tables" /\ Len(fw[Target]) < 2 /\ \E r \in TableRules : Append1(r)
          /\ UNCHANGED <<at, mpc, mtx, bound, pre, post, res, j4, inserts>>
          /\ UNCHANGED <<fileVars, serviceVars, awgVars>>
       \/ topic = "source" /\ AwgNext /\ UNCHANGED <<fileVars, serviceVars, mssVars>>

MCSpec == MCInit /\ [][MCNext]_<<topic, fileVars, serviceVars, mssVars, awgVars>>
=============================================================================
