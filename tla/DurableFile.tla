----------------------------- MODULE DurableFile -----------------------------
(***************************************************************************)
(* What a durable write of a file promises its callers, without the how.   *)
(* A write takes effect for readers at one moment; when it returns nil the *)
(* new content outlives every power loss, and when it fails the file holds *)
(* the old content or the new one, whole.  This is the contract on which   *)
(* modules Engine and Orchestrate build their journal and state writes.    *)
(***************************************************************************)
EXTENDS Integers

VARIABLES
    value,      \* the version a reader finds, 0 when there is no file
    kept,       \* the versions a power loss may leave
    newest,     \* the version of the current, or last, write
    acked,      \* the newest version whose write returned nil
    busy,       \* a write is under way
    sound       \* no write stopped half way through making the directory

vars == <<value, kept, newest, acked, busy, sound>>

Init ==
    /\ value = 0 /\ kept = {0}
    /\ newest = 0 /\ acked = 0
    /\ busy = FALSE /\ sound = TRUE

Published == value = newest

Begin ==
    /\ ~busy /\ busy'
    /\ newest' = newest + 1
    /\ UNCHANGED <<value, kept, acked, sound>>

(* The new content replaces the old one, all at once. *)
Publish ==
    /\ busy /\ ~Published
    /\ value' = newest
    /\ kept' = kept \cup {newest}
    /\ UNCHANGED <<newest, acked, busy, sound>>

ReturnNil ==
    /\ busy /\ Published
    /\ ~busy'
    /\ kept' = {value}
    /\ acked' = newest
    /\ UNCHANGED <<value, newest, sound>>

(* A write that stops before it published may leave a directory behind     *)
(* that is not durable.                                                    *)
MayLoseDirectory == sound' = sound \/ (busy /\ ~Published /\ ~sound')

(* An error, or the death of the process: old or new, as far as it came. *)
Fail ==
    /\ busy /\ ~busy'
    /\ MayLoseDirectory
    /\ UNCHANGED <<value, kept, newest, acked>>

(* A directory that is not durable takes the file with it. *)
PowerLoss ==
    /\ value' \in kept \/ (~sound /\ value' = 0)
    /\ kept' = {value'}
    /\ ~busy'
    /\ MayLoseDirectory
    /\ UNCHANGED <<newest, acked>>

Next == Begin \/ Publish \/ ReturnNil \/ Fail \/ PowerLoss

Spec == Init /\ [][Next]_vars
=============================================================================
