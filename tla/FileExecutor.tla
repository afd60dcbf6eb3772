---------------------------- MODULE FileExecutor ----------------------------
(***************************************************************************)
(* The file executor (internal/apply, file_executor.go) with its           *)
(* transaction-scoped backups (backup_manifest.go), driven by the engine:  *)
(* Backup, Apply, Validate, and Rollback after a failure of this or of a   *)
(* later action.  Transactions come one after the other, each with one     *)
(* action on the same managed path.                                        *)
(*                                                                         *)
(* The path holds nothing, a regular file, or a symlink, to a file like    *)
(* any of these or to none.  A file is its data and its permission bits;   *)
(* the checksum of data is the data itself.  Each look at the path is a    *)
(* step of its own, for the path may change from one to the next; Stat and *)
(* ReadFile follow a symlink, Lstat does not.                              *)
(* Around the program: other processes change the path, an operator        *)
(* damages or misplaces backups, the process dies, power is lost.  A       *)
(* rename is durable only after an fsync of its directory, which Backup    *)
(* does and Apply does not.                                                *)
(***************************************************************************)
EXTENDS Integers

CONSTANTS
    Tx,         \* transactions
    NoTx,       \* no transaction in hand
    Data,       \* file contents
    Modes,      \* permission bits; 0 is a file nobody may read
    LinksTo,    \* where a symlink at the path may lead
    Desired,    \* Desired[t]: the file action's target, Absent for a deletion
    MaxOutside  \* bound: number of changes by others

Absent == [kind |-> "absent"]
File(d, m) == [kind |-> "file", data |-> d, mode |-> m]
Regular == {File(d, m) : d \in Data, m \in Modes}
Found == {Absent} \cup Regular
Link(s) == [kind |-> "symlink", to |-> s]
Links == {Link(s) : s \in LinksTo}
PathStates == Found \cup Links

ASSUME FileConstants ==
    /\ NoTx \notin Tx
    /\ Modes \subseteq Nat /\ 384 \in Modes
    /\ LinksTo \subseteq Found
    /\ Desired \in [Tx -> Found]
    /\ MaxOutside \in Nat

VARIABLES
    path,       \* what the managed path holds
    disk,       \* what a power loss may leave there
    step,       \* next step of the engine's calls
    tx,         \* transaction in hand
    snap,       \* the manifest that Backup is writing, or Rollback has loaded
    content,    \* content[t]: the backup's content file
    manifest,   \* manifest[t]: the backup's manifest
    lossy,      \* backup files whose rename a power loss may undo
    orig,       \* history: what Backup found: the mode as listed, the data as read
    held,       \* history: all that the path held since the restore
    mutated,    \* history: transactions whose Apply changed the path
    touched,    \* history: backups an operator or a power loss interfered with
    outside     \* number of changes by others

fileExecutorVars == <<path, disk, step, tx, snap, content, manifest, lossy,
                      orig, held, mutated, touched, outside>>

machine == <<path, disk>>
backups == <<content, manifest, lossy>>
history == <<orig, held, mutated, touched, outside>>

NoFile == [kind |-> "none"]
Manifest(t, state) == [kind |-> "manifest", tx |-> t, state |-> state]
Blob(d) == [kind |-> "blob", data |-> d]

FileExecutorInit ==
    /\ path \in Found
    /\ disk = {path}
    /\ step = "idle"
    /\ tx = NoTx
    /\ snap = NoFile
    /\ content = [t \in Tx |-> NoFile]
    /\ manifest = [t \in Tx |-> NoFile]
    /\ lossy = {}
    /\ orig = [t \in Tx |-> NoFile]
    /\ held = {}
    /\ mutated = {}
    /\ touched = {}
    /\ outside = 0

(* safePath: a symlink on the way to the path refuses every operation. *)
SafePath == path \notin Links

(* What Stat and ReadFile find at the path. *)
Target == IF path \in Links THEN path.to ELSE path

(* fsatomic.WriteFile and os.Remove without an fsync of the directory:     *)
(* complete and visible, but a power loss may bring the old entry back.    *)
Put(state) == path' = state /\ disk' = disk \cup {state}

(* chmod 0 cannot be asked for: WriteFile gets 0600 instead. *)
DefaultMode == 384
Effective(state) ==
    IF state # Absent /\ state.mode = 0 THEN [state EXCEPT !.mode = DefaultMode] ELSE state

-----------------------------------------------------------------------------
(* Seeded faults, used by the mutants only: the content is not synced      *)
(* before the manifest; Backup ends with the content; a manifest of any    *)
(* transaction will do; the mode of the restored file is not verified.     *)
BackupContentUnsynced ==
    /\ step = "content"
    /\ content' = [content EXCEPT ![tx] = Blob(snap.state.data)]
    /\ lossy' = lossy \cup {<<tx, "content">>}
    /\ step' = "manifest"
    /\ UNCHANGED <<machine, tx, snap, manifest, history>>

SyncContentReturns ==
    /\ step = "syncContent"
    /\ lossy' = lossy \ ({tx} \X {"content", "manifest"})
    /\ step' = "apply"
    /\ UNCHANGED <<machine, tx, snap, content, manifest, history>>

ValidateNothing(m) == m.kind = "manifest"

VerifyAnyMode ==
    /\ step = "verify"
    /\ snap.state # Absent
    /\ Target # Absent
    /\ step' = "verifyRead"
    /\ UNCHANGED <<machine, tx, snap, backups, history>>

-----------------------------------------------------------------------------
(* Begin: the journal record is durable and the executor is bound to the   *)
(* transaction.                                                            *)
Begin(t) ==
    /\ step = "idle"
    /\ orig[t] = NoFile
    /\ tx' = t
    /\ step' = "backup"
    /\ UNCHANGED <<machine, snap, backups, history>>

(* Backup: safePath, MkdirAll and Lstat.  A missing file needs a manifest  *)
(* only.                                                                   *)
BackupLstat ==
    /\ step = "backup"
    /\ SafePath
    /\ snap' = Manifest(tx, path)
    /\ IF path = Absent THEN step' = "manifest" /\ orig' = [orig EXCEPT ![tx] = path]
                        ELSE step' = "copy" /\ UNCHANGED orig
    /\ UNCHANGED <<machine, tx, backups, held, mutated, touched, outside>>

(* Backup: ReadFile; the mode is the one Lstat gave. *)
BackupRead ==
    /\ step = "copy"
    /\ Target # Absent
    /\ LET seen == File(Target.data, snap.state.mode)
       IN  snap' = Manifest(tx, seen) /\ orig' = [orig EXCEPT ![tx] = seen]
    /\ step' = "content"
    /\ UNCHANGED <<machine, tx, backups, held, mutated, touched, outside>>

(* Backup: WriteFileSyncDir of the content, up to the rename. *)
BackupContent ==
    /\ step = "content"
    /\ content' = [content EXCEPT ![tx] = Blob(snap.state.data)]
    /\ lossy' = lossy \cup {<<tx, "content">>}
    /\ step' = "syncContent"
    /\ UNCHANGED <<machine, tx, snap, manifest, history>>

(* WriteFileSyncDir: fsync of the backup directory. *)
SyncContent ==
    /\ step = "syncContent"
    /\ lossy' = lossy \ ({tx} \X {"content", "manifest"})
    /\ step' = "manifest"
    /\ UNCHANGED <<machine, tx, snap, content, manifest, history>>

(* Backup: the manifest comes last. *)
BackupManifest ==
    /\ step = "manifest"
    /\ manifest' = [manifest EXCEPT ![tx] = snap]
    /\ lossy' = lossy \cup {<<tx, "manifest">>}
    /\ step' = "syncManifest"
    /\ UNCHANGED <<machine, tx, snap, content, history>>

SyncManifest ==
    /\ step = "syncManifest"
    /\ lossy' = lossy \ ({tx} \X {"content", "manifest"})
    /\ step' = "apply"
    /\ UNCHANGED <<machine, tx, snap, content, manifest, history>>

(* Any step of Backup fails: the engine does not call Apply and has        *)
(* nothing to roll back.                                                   *)
BackupFails ==
    /\ step \in {"backup", "copy", "content", "syncContent", "manifest", "syncManifest"}
    /\ step' = "end"
    /\ UNCHANGED <<machine, tx, snap, backups, history>>

(* Apply and Validate: safePath, before anything else. *)
CheckPath ==
    /\ SafePath
    /\ \/ step = "apply" /\ step' = "write"
       \/ step = "validate" /\ step' = "compare"
    /\ UNCHANGED <<machine, tx, snap, backups, history>>

(* Apply: os.Remove or atomicWrite, over whatever is there by now. *)
Apply ==
    /\ step = "write"
    /\ Put(Effective(Desired[tx]))
    /\ mutated' = mutated \cup {tx}
    /\ step' = "validate"
    /\ UNCHANGED <<tx, snap, backups, orig, held, touched, outside>>

(* Apply fails before its rename or removal: the path is as it was. *)
ApplyFails ==
    /\ step \in {"apply", "write"}
    /\ step' = "rollback"
    /\ UNCHANGED <<machine, tx, snap, backups, history>>

(* Validate: a deleted file is gone, a written one has the desired data    *)
(* (its mode is not looked at).                                            *)
Validate ==
    /\ step = "compare"
    /\ IF Desired[tx] = Absent THEN Target = Absent
       ELSE Target # Absent /\ Target.data = Desired[tx].data
    /\ step' = "applied"
    /\ UNCHANGED <<machine, tx, snap, backups, history>>

(* It is not, or the path is refused or cannot be read. *)
ValidateFails ==
    /\ step \in {"validate", "compare"}
    /\ step' = "rollback"
    /\ UNCHANGED <<machine, tx, snap, backups, history>>

(* The transaction is complete, or a later action fails and this one is    *)
(* rolled back with it.                                                    *)
Later ==
    /\ step = "applied"
    /\ step' \in {"end", "rollback"}
    /\ UNCHANGED <<machine, tx, snap, backups, history>>

(* validateAgainst: the manifest belongs to this transaction and action. *)
ValidateAgainst(m) == m.tx = tx

(* Rollback: load the manifest and check its linkage. *)
RollbackLoad ==
    /\ step = "rollback"
    /\ SafePath
    /\ manifest[tx] # NoFile
    /\ ValidateAgainst(manifest[tx])
    /\ snap' = manifest[tx]
    /\ step' = IF manifest[tx].state = Absent THEN "restore" ELSE "fetch"
    /\ UNCHANGED <<machine, tx, backups, history>>

(* Rollback: read the content, which must have the checksum of the         *)
(* manifest in hand.                                                       *)
RollbackFetch ==
    /\ step = "fetch"
    /\ content[tx] = Blob(snap.state.data)
    /\ step' = "restore"
    /\ UNCHANGED <<machine, tx, snap, backups, history>>

(* Rollback: remove the file, or atomicWrite the saved data. *)
RollbackRestore ==
    /\ step = "restore"
    /\ Put(Effective(snap.state))
    /\ held' = {path'}
    /\ step' = "verify"
    /\ UNCHANGED <<tx, snap, backups, orig, mutated, touched, outside>>

(* verifyRestoredAbsence: one Lstat, and Rollback returns nil. *)
VerifyAbsence ==
    /\ step = "verify"
    /\ snap.state = Absent
    /\ path = Absent
    /\ step' = "end"
    /\ UNCHANGED <<machine, tx, snap, backups, history>>

(* verifyRestoredFile: Stat gives the kind and the mode... *)
VerifyStat ==
    /\ step = "verify"
    /\ snap.state # Absent
    /\ Target # Absent
    /\ Target.mode = snap.state.mode
    /\ step' = "verifyRead"
    /\ UNCHANGED <<machine, tx, snap, backups, history>>

(* ... ReadFile the content, and Rollback returns nil. *)
VerifyRead ==
    /\ step = "verifyRead"
    /\ Target # Absent
    /\ Target.data = snap.state.data
    /\ step' = "end"
    /\ UNCHANGED <<machine, tx, snap, backups, history>>

(* Rollback returns an error, at any of its steps. *)
RollbackFails ==
    /\ step \in {"rollback", "fetch", "restore", "verify", "verifyRead"}
    /\ step' = "end"
    /\ UNCHANGED <<machine, tx, snap, backups, history>>

(* The engine returns; at any other point, the process dies. *)
Close ==
    /\ step # "idle"
    /\ step' = "idle"
    /\ tx' = NoTx
    /\ snap' = NoFile
    /\ held' = {}
    /\ UNCHANGED <<machine, backups, orig, mutated, touched, outside>>

-----------------------------------------------------------------------------
(* Another process writes, removes, chmods or replaces the path, or the    *)
(* file that a symlink there leads to.                                     *)
Outside ==
    /\ outside < MaxOutside
    /\ outside' = outside + 1
    /\ \E s \in PathStates \ {path} : Put(s)
    /\ held' = IF step \in {"verify", "verifyRead"} THEN held \cup {path'} ELSE held
    /\ UNCHANGED <<step, tx, snap, backups, orig, mutated, touched>>

(* An operator puts one transaction's backup in the place of another's, or *)
(* a content file rots.                                                    *)
Tamper(t) ==
    /\ outside < MaxOutside
    /\ outside' = outside + 1
    /\ touched' = touched \cup {t}
    /\ \/ \E u \in Tx \ {t} :
             /\ content' = [content EXCEPT ![t] = content[u]]
             /\ manifest' = [manifest EXCEPT ![t] = manifest[u]]
       \/ /\ content[t] # NoFile
          /\ content' = [content EXCEPT ![t] = [kind |-> "damaged"]]
          /\ UNCHANGED manifest
    /\ UNCHANGED <<machine, step, tx, snap, lossy, orig, held, mutated>>

(* Power loss.  MkdirAll does not sync the parents of the backup           *)
(* directory, so a whole backup may vanish; of one that stays, the files   *)
(* whose rename was not synced may.                                        *)
PowerLoss ==
    /\ step' = "idle" /\ tx' = NoTx /\ snap' = NoFile /\ held' = {}
    /\ path' \in disk
    /\ disk' = {path'}
    /\ \E gone \in SUBSET Tx, undone \in SUBSET lossy :
          /\ content' = [t \in Tx |->
                IF t \in gone \/ <<t, "content">> \in undone THEN NoFile ELSE content[t]]
          /\ manifest' = [t \in Tx |->
                IF t \in gone \/ <<t, "manifest">> \in undone THEN NoFile ELSE manifest[t]]
          /\ touched' = touched \cup gone
    /\ lossy' = {}
    /\ UNCHANGED <<orig, mutated, outside>>

FileExecutorNext ==
    \/ \E t \in Tx : Begin(t) \/ Tamper(t)
    \/ BackupLstat \/ BackupRead \/ BackupContent \/ SyncContent
    \/ BackupManifest \/ SyncManifest \/ BackupFails
    \/ CheckPath \/ Apply \/ ApplyFails \/ Validate \/ ValidateFails \/ Later
    \/ RollbackLoad \/ RollbackFetch \/ RollbackRestore \/ VerifyAbsence
    \/ VerifyStat \/ VerifyRead \/ RollbackFails
    \/ Close \/ Outside \/ PowerLoss

FileExecutorSpec == FileExecutorInit /\ [][FileExecutorNext]_fileExecutorVars

-----------------------------------------------------------------------------
(* The backup of t is complete and holds the path as it was. *)
Complete(t) ==
    /\ manifest[t] = Manifest(t, orig[t])
    /\ orig[t] # Absent => content[t] = Blob(orig[t].data)

(* Since the restore, the path has led to a file of this mode. *)
ModeSeen(m) ==
    \E p \in held :
        \/ p \in Regular /\ p.mode = m
        \/ p \in Links /\ p.to # Absent /\ p.to.mode = m

NilReturn == VerifyAbsence \/ VerifyRead

(* What a nil return of Rollback proves, whatever others do to the path    *)
(* and to the backups meanwhile: a path that held nothing holds nothing    *)
(* now; one that held a file gives its data now, gave its mode at some     *)
(* moment since the restore, and if nobody changed it since the restore    *)
(* is exactly what it was.                                                 *)
ProvedByNil ==
    IF orig[tx] = Absent THEN path = Absent
    ELSE /\ Target # Absent /\ Target.data = orig[tx].data
         /\ ModeSeen(orig[tx].mode)
         /\ held = {path} => path = orig[tx]
NilRollbackIsProof == [][NilReturn => ProvedByNil]_fileExecutorVars

(* "A torn backup is a missing manifest" (file_executor.go): a manifest    *)
(* that is there, after any crash or power loss, has its content beside    *)
(* it - in every backup nobody interfered with.                            *)
ManifestIsCommitMarker ==
    \A t \in Tx \ touched : manifest[t] # NoFile => Complete(t)

(* The path is changed only under the protection of a complete backup: as  *)
(* long as nobody interferes, everything needed to restore the path exists *)
(* from the first change on, also after the process died.                  *)
MutationIsBackedUp ==
    \A t \in mutated \ touched : Complete(t)

(* A backup that was misplaced or damaged is not restored: the path never  *)
(* gets, through Rollback, data that this transaction did not find there.  *)
ForeignBackupRefused ==
    [][RollbackRestore => path'.kind = orig[tx].kind /\
          (path'.kind = "file" => path'.data = orig[tx].data)]_fileExecutorVars
=============================================================================
