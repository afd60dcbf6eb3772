----------------------------- MODULE MCStorage -----------------------------
(* What the transaction rests on: the lifecycle lock, the durable write    *)
(* and the journal.  A behaviour is about one of them, its topic.          *)
(*                                                                         *)
(* Journal: two transactions; callers submit every combination of          *)
(* provenance, outcome and action list below: one action, two in either    *)
(* order, one with another identity, one id twice; each with and without   *)
(* an observed hash.  From outside come an older record with an            *)
(* observation it cannot have, a malformed observation, a record without a *)
(* plan fingerprint and a file that does not parse.                        *)
EXTENDS Lock, FsAtomic, Journal, TLC

CONSTANTS a, b, x, y, h1, h2, v1, v2, t1, t2
VARIABLE topic

Act(id, ident, obs) == [id |-> id, ident |-> ident, obs |-> obs]
Obs == {NoHash, h1}

ActLists ==
    {<<Act(a, i, o)>> : i \in {x, y}, o \in Obs}
    \cup {<<Act(a, x, o), Act(b, x, u)>> : o \in Obs, u \in Obs}
    \cup {<<Act(b, x, u), Act(a, x, o)>> : o \in Obs, u \in Obs}
    \cup {<<Act(a, x, o), Act(a, x, u)>> : o \in Obs, u \in Obs}

Rec(s, v, l, oc) ==
    [schema |-> s, prov |-> v, acts |-> l, outcome |-> oc, recovery |-> FALSE, mut |-> TRUE]

MCSubmitted == {Rec(3, v, l, oc) : v \in {v1, v2, BlankPlan}, l \in ActLists, oc \in {"", "FAILED"}}

MCForeign ==
    {Corrupt,
     Rec(2, v1, <<Act(a, x, NoHash)>>, "FAILED"),
     Rec(2, v1, <<Act(a, x, h1)>>, ""),
     Rec(3, BlankPlan, <<Act(a, x, NoHash)>>, ""),
     Rec(3, v1, <<Act(a, x, BadHash)>>, "")}

Symmetry == Permutations(Procs) \cup Permutations(Inodes) \cup Permutations(Tx)

-----------------------------------------------------------------------------
MCInit ==
    /\ topic \in {"lock", "write", "journal"}
    /\ Init /\ FsInit /\ JournalInit
    /\ topic = "write" \/ levels = 0

MCNext ==
    /\ UNCHANGED topic
    /\ \/ topic = "lock" /\ Next /\ UNCHANGED <<fsVars, disk>>
       \/ topic = "write" /\ FsNext /\ UNCHANGED <<vars, disk>>
       \/ topic = "journal" /\ JournalNext /\ UNCHANGED <<vars, fsVars>>

MCSpec == MCInit /\ [][MCNext]_<<topic, vars, fsVars, disk>>

(* The durable write as its callers see it. *)
Promise == INSTANCE DurableFile WITH
    value <- file, kept <- maybe, newest <- ver,
    busy <- wpc # "idle", sound <- ~interrupted

(* WriteFileSyncDir keeps the promise that the journal and state.json rest *)
(* on ("so the rename itself survives power loss"): through every error,   *)
(* process death and power loss a write is atomic for readers and for the  *)
(* disk, nil means durable, and an error means the old content or the new  *)
(* one - unless an interrupted EnsureDir left a directory that is not      *)
(* durable.                                                                *)
ImplementsDurableFile == Promise!Spec

(* Types of the three, and the descriptor that is open exactly between     *)
(* open and close.                                                         *)
StorageTypeOK == TypeOK /\ FsTypeOK /\ JournalTypeOK
=============================================================================
