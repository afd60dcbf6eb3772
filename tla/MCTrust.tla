------------------------------- MODULE MCTrust -------------------------------
(* Who may change what.  A behaviour is about one topic: "authority", the  *)
(* confirmation of a plan and the commands it lets run, or "evidence", the *)
(* claims of ownership that completed transactions leave.                  *)
(*                                                                         *)
(* Authority: the compiled policy, plans of one service restart, and       *)
(* artifacts that differ from the right one in a single respect.           *)
EXTENDS Evidence, Authority

VARIABLE topic
CONSTANTS h1, h2

Service(u, op, rb) == [kind |-> "SERVICE", unit |-> u, op |-> op, rb |-> rb]
File(path) == [kind |-> "UPDATE_FILE", path |-> path, delete |-> FALSE]
Clamp(i) == [kind |-> "MSS_RULE", valid |-> TRUE, iface |-> i]
Check == [kind |-> "VALIDATE"]

MCPolicy == ("fail2ban" :> {"restart"})
MCActsOf ==
    ("good" :> <<Check>>) @@
    ("failed" :> <<Check, Service("fail2ban", "restart", "restart")>>) @@
    ("odd" :> <<Service("fail2ban", "restart", "stop")>>)

Restart(u) == Cap("restart", <<<<"unit", u>>>>)
ProjectFile == Cap("projectfile", <<>>)
MSSClamp == Cap("mssclamp", <<<<"ifaces", <<1>>>>>>)
MCRank(c) == CASE c.name = "mssclamp" -> 1 [] c.name = "projectfile" -> 2 [] OTHER -> 3

MCEdits ==
    {[acts |-> <<Service("fail2ban", "restart", "restart"), Service("fail2ban", "restart", "restart")>>,
      caps |-> <<Restart("fail2ban")>>, ready |-> TRUE, prepared |-> TRUE],
     [acts |-> MCActsOf["failed"], caps |-> <<Restart("fail2ban"), Restart("ssh")>>,
      ready |-> TRUE, prepared |-> TRUE],
     [acts |-> MCActsOf["failed"], caps |-> <<Restart("fail2ban")>>, ready |-> TRUE, prepared |-> FALSE],
     [acts |-> <<Check>>, caps |-> <<>>, ready |-> TRUE, prepared |-> FALSE]}

V1(acts, caps, h, exp) ==
    [shape |-> "v1", schema |-> 1, purpose |-> "", plan |-> <<acts, caps>>, host |-> h, exp |-> exp, caps |-> caps]
V2(purpose, acts, caps, h, exp) ==
    [shape |-> "v2", schema |-> 2, purpose |-> purpose, plan |-> <<acts, <<>>>>, host |-> h, exp |-> exp, caps |-> caps]

MCOffers ==
    {V1(MCActsOf["failed"], <<Restart("fail2ban")>>, h1, 1),
     V1(MCActsOf["failed"], <<Restart("fail2ban")>>, h2, 2),
     [V1(MCActsOf["failed"], <<Restart("fail2ban")>>, h1, 2) EXCEPT !.schema = 2],
     V1(<<Service("fail2ban", "restart", "restart"), Service("fail2ban", "restart", "restart")>>, <<Restart("fail2ban")>>, h1, 1),
     V2("service", MCActsOf["failed"], <<Restart("fail2ban")>>, h1, 1),
     V2("integration", <<File("project"), Clamp(1)>>, <<MSSClamp, ProjectFile>>, h1, 1),
     V2("integration", <<File("project")>>, <<MSSClamp, ProjectFile>>, h1, 1)}

(* Evidence: files inside and outside the compiled namespaces. *)
MCIdentity == [f \in Files |->
    [class |-> "file", fields |-> {"path"}, canonical |-> TRUE, table |-> "none",
     ns |-> IF f = "managed" THEN {"path"} ELSE {}]]

Symmetry == Permutations(Specs)

-----------------------------------------------------------------------------
(* A topic's machine starts as it does, the other rests. *)
MCInit ==
    /\ topic \in {"authority", "evidence"}
    /\ Init
    /\ AuthorityInit
    /\ topic = "evidence" => machine = "good" /\ host = h1

MCNext ==
    /\ UNCHANGED topic
    /\ \/ topic = "authority" /\ AuthorityNext /\ UNCHANGED vars
       \/ topic = "evidence" /\ Next /\ UNCHANGED authorityVars

MCSpec == MCInit /\ [][MCNext]_<<topic, vars, authorityVars>>
=============================================================================
