---------------------------- MODULE MCExecutors ----------------------------
(* The executors that write: two transactions of the file executor on one  *)
(* path, one that writes the file and one that deletes it; and moves of    *)
(* the SSH port.  A behaviour is about one of them, its topic.             *)
EXTENDS FileExecutor, SSHMove, TLC

CONSTANTS t1, t2
VARIABLE topic

(* The path starts out missing, or with what no transaction here writes. *)
MCFound == {Absent, File("a", 0), File("a", 384)}

(* A symlink leads nowhere or to a copy of a file the path may hold. *)
MCLinksTo == {Absent, File("a", 384)}

MCDesired == (t1 :> File("b", 384)) @@ (t2 :> Absent)

MCInit ==
    /\ topic \in {"file", "ssh"}
    /\ FileExecutorInit /\ path \in (IF topic = "ssh" THEN {Absent} ELSE MCFound)
    /\ Init /\ (topic = "file" => ~socket /\ base = {})

MCNext ==
    /\ UNCHANGED topic
    /\ \/ topic = "file" /\ FileExecutorNext /\ UNCHANGED vars
       \/ topic = "ssh" /\ Next /\ UNCHANGED fileExecutorVars

MCSpec == MCInit /\ [][MCNext]_<<topic, fileExecutorVars, vars>>
=============================================================================
