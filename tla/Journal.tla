------------------------------ MODULE Journal ------------------------------
(***************************************************************************)
(* The durable transaction journal (internal/journal): one record file per *)
(* transaction, written through Begin, Update and RecordObservedSpecHash.  *)
(*                                                                         *)
(* Callers hand in whole records from memory, and such a copy may be old   *)
(* or wrong: a write takes any member of Submitted.  The lifecycle lock    *)
(* serialises callers, so each API call is one step; a write that fails    *)
(* leaves either the old or the new file behind, which are the stuttering  *)
(* step and the successful step.  Outside the API, root may remove, edit   *)
(* or damage a record file.                                                *)
(***************************************************************************)
EXTENDS JournalOps

CONSTANTS
    Tx,         \* transaction ids
    Ids,        \* action ids
    Idents,     \* action identities (resource, kind, retry class, spec hash)
    Hashes,     \* canonical observed hashes
    Provs,      \* provenance values, BlankPlan among them
    Submitted,  \* records callers may hand to Begin and Update
    Foreign     \* files that come from outside: older builds, hand edits

Acts == [id : Ids, ident : Idents, obs : Hashes \cup {NoHash, BadHash}]

Outcomes == {"", "COMPLETED", "FAILED", "RECOVERY_REQUIRED"}

Record == [schema : {1, 2, 3}, prov : Provs, acts : Seq(Acts),
           outcome : Outcomes, recovery : BOOLEAN, mut : BOOLEAN]

ASSUME JournalConstants ==
    /\ Submitted \subseteq Record
    /\ Foreign \subseteq Record \cup {Corrupt}
    /\ NoHash \notin Hashes /\ BadHash \notin Hashes /\ NoHash # BadHash
    /\ Absent \notin Record /\ Corrupt \notin Record /\ Absent # Corrupt

VARIABLE disk   \* disk[t]: the record file of transaction t

JournalTypeOK == disk \in [Tx -> Record \cup {Absent, Corrupt}]

JournalInit == disk = [t \in Tx |-> Absent]

(* loadAll succeeds: every record file present is readable. *)
Loadable == \A t \in Tx : disk[t] # Absent => Readable(disk[t])

-----------------------------------------------------------------------------
(* Seeded faults, used by the mutants only. *)
RecordObservedLate(t, id, coord, h) ==
    /\ Loadable
    /\ disk[t] # Absent
    /\ disk[t].mut
    /\ \E k \in DOMAIN disk[t].acts :
          /\ WithId(disk[t], id) = {k}
          /\ coord \in {NoHash, disk[t].acts[k].ident}
          /\ disk[t].acts[k].obs = NoHash
          /\ LET new == [disk[t] EXCEPT !.acts[k].obs = h]
             IN  /\ UpdateAllowed(disk[t], new, TRUE)
                 /\ disk' = [disk EXCEPT ![t] = new]

BeginReplaces(t, rec) ==
    /\ \A i \in DOMAIN rec.acts : rec.acts[i].obs = NoHash
    /\ disk' = [disk EXCEPT ![t] = [rec EXCEPT !.schema = 3]]

-----------------------------------------------------------------------------
(* Begin creates: never over an existing file, never with an observation,  *)
(* always in the schema this build writes.                                 *)
Begin(t, rec) ==
    /\ disk[t] = Absent
    /\ \A i \in DOMAIN rec.acts : rec.acts[i].obs = NoHash
    /\ disk' = [disk EXCEPT ![t] = [rec EXCEPT !.schema = 3]]

(* Update rewrites an existing record within the gates.  It parses that    *)
(* record itself and does not ask for a plan fingerprint, as a load does.  *)
Update(t, rec) ==
    /\ disk[t] \notin {Absent, Corrupt}
    /\ UpdateAllowed(disk[t], rec, FALSE)
    /\ disk' = [disk EXCEPT ![t] = rec]

(* RecordObservedSpecHash: the whole journal must load, the transaction be *)
(* in progress and mutating, the action unique and at the caller's         *)
(* resource (NoHash: the caller names none), and not yet observed.  The    *)
(* same hash again returns without a write.                                *)
RecordObservedSpecHash(t, id, coord, h) ==
    /\ Loadable
    /\ disk[t] # Absent
    /\ disk[t].outcome = ""
    /\ disk[t].mut
    /\ \E k \in DOMAIN disk[t].acts :
          /\ WithId(disk[t], id) = {k}
          /\ coord \in {NoHash, disk[t].acts[k].ident}
          /\ disk[t].acts[k].obs = NoHash
          /\ LET new == [disk[t] EXCEPT !.acts[k].obs = h]
             IN  /\ UpdateAllowed(disk[t], new, TRUE)
                 /\ disk' = [disk EXCEPT ![t] = new]

(* An operator removes a record after review. *)
OperatorRemove(t) ==
    /\ disk[t] # Absent
    /\ disk' = [disk EXCEPT ![t] = Absent]

(* A record file appears or changes outside the API. *)
ForeignWrite(t) ==
    \E f \in Foreign : disk' = [disk EXCEPT ![t] = f]

(* What the program itself does. *)
Api ==
    \E t \in Tx :
        \/ \E rec \in Submitted : Begin(t, rec)
        \/ \E rec \in Submitted : Update(t, rec)
        \/ \E id \in Ids, coord \in Idents \cup {NoHash}, h \in Hashes :
              RecordObservedSpecHash(t, id, coord, h)

Outside == \E t \in Tx : OperatorRemove(t) \/ ForeignWrite(t)

JournalNext == Api \/ Outside

JournalSpec == JournalInit /\ [][JournalNext]_disk

-----------------------------------------------------------------------------
IdentitySet(rec) == {<<rec.acts[i].id, rec.acts[i].ident>> : i \in DOMAIN rec.acts}

ObservedSet(rec) ==
    {<<rec.acts[i].id, rec.acts[i].obs>> : i \in {k \in DOMAIN rec.acts : rec.acts[k].obs # NoHash}}

IsRecord(e) == e \notin {Absent, Corrupt}

(* ZAI-110, ZAI-108: what Begin established about a transaction - host,    *)
(* plan, start time, approval, schema version and the identities of its    *)
(* actions - is never changed by the API, whatever copy of the record a    *)
(* caller holds; an observed hash that reached the disk is never erased,   *)
(* replaced or reassigned by one; and a record never disappears.           *)
ProvenanceKept ==
    \A t \in Tx : IsRecord(disk[t]) =>
        /\ IsRecord(disk'[t])
        /\ disk'[t].prov = disk[t].prov /\ disk'[t].schema = disk[t].schema
        /\ IdentitySet(disk'[t]) = IdentitySet(disk[t])
        /\ ObservedSet(disk[t]) \subseteq ObservedSet(disk'[t])
ProvenanceImmutable == [][~ProvenanceKept => ~Api]_disk

(* ZAI-59/ZAI-111: an observation enters the journal only into a mutating  *)
(* transaction still in progress, and only while every record of the       *)
(* journal can be read - neither Begin nor an ordinary Update makes one.   *)
NewObservationsLegitimate ==
    \A t \in Tx :
        IsRecord(disk'[t]) /\ ObservedSet(disk'[t]) # {}
          /\ (IsRecord(disk[t]) => ObservedSet(disk'[t]) # ObservedSet(disk[t]))
        => /\ Loadable
           /\ IsRecord(disk[t])
           /\ disk[t].outcome = "" /\ disk[t].mut
NoObservationAfterTheFact == [][~NewObservationsLegitimate => ~Api]_disk

(* No write of the API turns a file the loads refuse into one they accept, *)
(* or into none: bad JSON, a version, an address or an observed hash that  *)
(* updateRecord refuses too stays as it is, and a record without a plan    *)
(* fingerprint, which updateRecord does rewrite, comes out without one.    *)
StaysUnreadable ==
    \A t \in Tx : disk[t] # Absent /\ ~Readable(disk[t]) =>
        /\ disk'[t] # Absent /\ ~Readable(disk'[t])
        /\ disk[t] = Corrupt \/ BadObserved(disk[t]) => disk'[t] = disk[t]
CorruptNeverLaundered == [][~StaysUnreadable => ~Api]_disk
=============================================================================
