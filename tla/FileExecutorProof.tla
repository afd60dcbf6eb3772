------------------------- MODULE FileExecutorProof -------------------------
(***************************************************************************)
(* Proofs about the file executor and its backups, for any number of       *)
(* transactions, any data and modes, and any number of changes by others.  *)
(***************************************************************************)
EXTENDS MCExecutors, TLAPS

ContentFiles == {NoFile, [kind |-> "damaged"]} \cup {Blob(d) : d \in Data}
ManifestFiles == {NoFile} \cup {Manifest(u, s) : u \in Tx, s \in Found}
StepNames == {"idle", "backup", "copy", "content", "syncContent", "manifest", "syncManifest",
              "apply", "write", "validate", "compare", "applied", "rollback", "fetch", "restore",
              "verify", "verifyRead", "end"}

FileTypeOK ==
    /\ path \in PathStates
    /\ disk \subseteq PathStates
    /\ step \in StepNames
    /\ tx \in Tx \cup {NoTx}
    /\ step # "idle" => tx \in Tx
    /\ content \in [Tx -> ContentFiles]
    /\ manifest \in [Tx -> ManifestFiles]
    /\ lossy \subseteq Tx \X {"content", "manifest"}
    /\ orig \in [Tx -> Found \cup {NoFile}]
    /\ mutated \subseteq Tx

(* Wherever a manifest lies, what it says is what its own transaction      *)
(* found on the path.                                                      *)
ManifestInv ==
    \A t \in Tx : manifest[t] # NoFile =>
        \E u \in Tx : orig[u] # NoFile /\ manifest[t] = Manifest(u, orig[u])

(* The manifest in hand, being written or loaded, is this transaction's. *)
SnapInv ==
    /\ step \in {"backup", "copy"} => orig[tx] = NoFile
    /\ step = "copy" => \E s \in Regular : snap = Manifest(tx, s)
    /\ step \in {"content", "syncContent", "manifest", "fetch", "restore", "verify", "verifyRead"} =>
          orig[tx] # NoFile /\ snap = Manifest(tx, orig[tx])
    /\ step \in {"syncManifest", "apply", "write"} => orig[tx] # NoFile
    /\ step = "content" => orig[tx] # Absent
    /\ step \in {"content", "syncContent", "manifest"} => tx \notin mutated

(* A transaction has changed nothing before its Backup, and nothing of it  *)
(* can be lost.                                                            *)
FreshInv ==
    \A t \in Tx : orig[t] = NoFile =>
        t \notin mutated /\ <<t, "content">> \notin lossy /\ <<t, "manifest">> \notin lossy

(* A manifest implies the whole backup, and content a power loss cannot    *)
(* take any more.                                                          *)
CommitInv ==
    \A t \in Tx \ touched : manifest[t] # NoFile =>
        Complete(t) /\ <<t, "content">> \notin lossy

(* How far the backup of the transaction in hand has come. *)
ProgressInv ==
    tx \in Tx \ touched =>
        /\ step \in {"backup", "copy", "content", "syncContent"} => manifest[tx] = NoFile
        /\ step = "syncContent" => content[tx] = Blob(orig[tx].data)
        /\ step = "manifest" =>
              /\ orig[tx] # Absent => content[tx] = Blob(orig[tx].data)
              /\ <<tx, "content">> \notin lossy
        /\ step \in {"syncManifest", "apply", "write"} => manifest[tx] # NoFile
        /\ step \in {"apply", "write"} => <<tx, "manifest">> \notin lossy

(* What has changed the path has its manifest, durably. *)
MutatedInv ==
    \A t \in mutated \ touched : manifest[t] # NoFile /\ <<t, "manifest">> \notin lossy

FileInv ==
    /\ FileTypeOK
    /\ ManifestInv
    /\ SnapInv
    /\ FreshInv
    /\ CommitInv
    /\ ProgressInv
    /\ MutatedInv

-----------------------------------------------------------------------------
(* The values that stand for files are told apart by their kind. *)
LEMMA KindFacts ==
  /\ NoFile \notin Found /\ Links \cap Found = {} /\ PathStates = Found \cup Links
  /\ \A s \in Found : s # Absent => s \in Regular /\ s.data \in Data /\ s.mode \in Modes
  /\ \A d \in Data, m \in Modes : /\ File(d, m) \in Regular /\ File(d, m) # Absent
                                 /\ File(d, m).data = d /\ File(d, m).mode = m
  /\ \A u, s : Manifest(u, s) # NoFile /\ Manifest(u, s).tx = u /\ Manifest(u, s).state = s
  /\ \A u \in Tx, s \in Found : Manifest(u, s) \in ManifestFiles
  /\ \A d \in Data : Blob(d) \in ContentFiles
<1>1. NoFile.kind = "none" /\ Absent.kind = "absent" /\ \A l \in Links : l.kind = "symlink"
  BY DEF NoFile, Absent, Links, Link
<1>2. \A s \in Regular : s.kind = "file" /\ s.data \in Data /\ s.mode \in Modes
  BY DEF Regular, File
<1>3. NoFile \notin Found /\ Links \cap Found = {} /\ PathStates = Found \cup Links
  BY <1>1, <1>2 DEF Found, PathStates
<1>4. \A s \in Found : s # Absent => s \in Regular /\ s.data \in Data /\ s.mode \in Modes
  BY <1>2 DEF Found
<1>5. \A d \in Data, m \in Modes : /\ File(d, m) \in Regular /\ File(d, m) # Absent
                                  /\ File(d, m).data = d /\ File(d, m).mode = m
  BY DEF Regular, File, Absent
<1>6. \A u, s : Manifest(u, s).kind = "manifest" /\ Manifest(u, s).tx = u /\ Manifest(u, s).state = s
  BY DEF Manifest
<1>7. \A u, s : Manifest(u, s) # NoFile
  BY <1>1, <1>6
<1> QED
  BY <1>3, <1>4, <1>5, <1>6, <1>7 DEF ManifestFiles, ContentFiles

(* What the path leads to is a file or nothing. *)
LEMMA TargetFacts ==
  ASSUME path \in PathStates
  PROVE  /\ Target \in Found
         /\ path \in Found => Target = path
<1>1. CASE path \in Links
  <2>1. PICK s \in LinksTo : path = Link(s)
    BY <1>1 DEF Links
  <2>2. path.to = s
    BY <2>1 DEF Link
  <2> QED
    BY <1>1, <2>2, KindFacts, FileConstants DEF Target
<1>2. CASE path \notin Links
  BY <1>2, KindFacts DEF Target
<1> QED
  BY <1>1, <1>2

(* What Put writes is the state asked for, but for a mode of 0. *)
LEMMA EffectiveFacts ==
  ASSUME NEW s \in Found
  PROVE  /\ Effective(s) \in Found
         /\ Effective(s).kind = s.kind
         /\ s # Absent => Effective(s).data = s.data
<1>1. CASE s = Absent
  BY <1>1 DEF Effective
<1>2. CASE s # Absent
  <2>1. PICK d \in Data, m \in Modes : s = [kind |-> "file", data |-> d, mode |-> m]
    BY <1>2 DEF Found, Regular, File
  <2>2. [s EXCEPT !.mode = 384] = [kind |-> "file", data |-> d, mode |-> 384]
    BY <2>1
  <2>3. [s EXCEPT !.mode = 384] \in Regular
    BY <2>2, FileConstants DEF Regular, File
  <2> QED
    BY <1>2, <2>1, <2>2, <2>3 DEF Effective, DefaultMode, Found
<1> QED
  BY <1>1, <1>2

(* The initial states satisfy the invariant. *)
LEMMA FileInit == FileExecutorInit => FileInv
<1> SUFFICES ASSUME FileExecutorInit PROVE FileInv
  OBVIOUS
<1>1. FileTypeOK
  BY FileConstants
  DEF FileExecutorInit, FileTypeOK, PathStates, StepNames, ContentFiles, ManifestFiles
<1>2. ManifestInv /\ SnapInv /\ FreshInv /\ CommitInv /\ ProgressInv /\ MutatedInv
  BY FileConstants
  DEF FileExecutorInit, ManifestInv, SnapInv, FreshInv, CommitInv, ProgressInv, MutatedInv
<1> QED
  BY <1>1, <1>2 DEF FileInv

-----------------------------------------------------------------------------
(* A step that leaves the backups and what was found alone, and goes where *)
(* nothing more is claimed of the transaction in hand.                     *)
LEMMA QuietFileStep ==
  ASSUME FileInv, path' \in PathStates, disk' \subseteq PathStates,
         \/ step' = step /\ tx' = tx /\ snap' = snap
         \/ step' \in {"validate", "compare", "applied", "rollback", "end"} /\ tx' = tx /\ tx \in Tx
         \/ step = "apply" /\ step' = "write" /\ tx' = tx
         \/ step' \in {"fetch", "restore", "verify", "verifyRead"} /\ tx' = tx /\ tx \in Tx
              /\ orig[tx] # NoFile /\ snap' = Manifest(tx, orig[tx])
         \/ step' = "idle" /\ tx' = NoTx,
         UNCHANGED <<content, manifest, lossy, orig, mutated, touched>>
  PROVE  FileInv'
<1>1. FileTypeOK'
  BY DEF FileInv, FileTypeOK, StepNames
<1>2. ManifestInv' /\ FreshInv' /\ MutatedInv'
  BY DEF FileInv, ManifestInv, FreshInv, MutatedInv
<1>3. CommitInv'
  BY DEF FileInv, CommitInv, Complete
<1>4. SnapInv' /\ ProgressInv'
  BY FileConstants DEF FileInv, SnapInv, ProgressInv
<1> QED
  BY <1>1, <1>2, <1>3, <1>4 DEF FileInv

(* The steps that only move on: failures, checks and the end of a call. *)
LEMMA QuietStepsInv ==
  ASSUME FileInv,
         \/ BackupFails \/ CheckPath \/ ApplyFails \/ Validate \/ ValidateFails \/ Later
         \/ VerifyAbsence \/ VerifyRead \/ RollbackFails \/ Close
  PROVE  FileInv'
<1>1. /\ UNCHANGED <<path, disk, content, manifest, lossy, orig, mutated, touched>>
      /\ \/ /\ step # "idle" /\ tx' = tx
            /\ step' \in {"validate", "compare", "applied", "rollback", "end"}
         \/ step = "apply" /\ step' = "write" /\ tx' = tx
         \/ step' = "idle" /\ tx' = NoTx
  BY DEF BackupFails, CheckPath, ApplyFails, Validate, ValidateFails, Later, VerifyAbsence,
         VerifyRead, RollbackFails, Close, machine, backups, history
<1>2. path \in PathStates /\ disk \subseteq PathStates /\ (step # "idle" => tx \in Tx)
  BY DEF FileInv, FileTypeOK
<1> QED
  BY <1>1, <1>2, QuietFileStep

(* The steps of Rollback that only look. *)
LEMMA RollbackLooksInv == ASSUME FileInv, RollbackFetch \/ VerifyStat PROVE FileInv'
<1>1. /\ UNCHANGED <<path, disk, tx, snap, content, manifest, lossy, orig, mutated, touched>>
      /\ step \in {"fetch", "verify"} /\ step' \in {"restore", "verifyRead"}
  BY DEF RollbackFetch, VerifyStat, machine, backups, history
<1>2. /\ path \in PathStates /\ disk \subseteq PathStates /\ tx \in Tx
      /\ orig[tx] # NoFile /\ snap = Manifest(tx, orig[tx])
  BY <1>1 DEF FileInv, FileTypeOK, SnapInv
<1> QED
  BY <1>1, <1>2, QuietFileStep

(* Begin preserves the invariant: the transaction has no backup yet. *)
LEMMA FileBeginInv == ASSUME FileInv, NEW t \in Tx, Begin(t) PROVE FileInv'
<1>1. /\ step = "idle" /\ orig[t] = NoFile /\ tx' = t /\ step' = "backup" /\ snap' = snap
      /\ UNCHANGED <<path, disk, content, manifest, lossy, orig, mutated, touched>>
  BY DEF Begin, machine, backups, history
<1>2. FileTypeOK'
  BY <1>1 DEF FileInv, FileTypeOK, StepNames
<1>3. ManifestInv' /\ FreshInv' /\ MutatedInv'
  BY <1>1 DEF FileInv, ManifestInv, FreshInv, MutatedInv
<1>4. CommitInv'
  BY <1>1 DEF FileInv, CommitInv, Complete
<1>5. SnapInv'
  BY <1>1 DEF SnapInv
<1>6. t \notin touched => manifest[t] = NoFile
  <2> SUFFICES ASSUME t \notin touched, manifest[t] # NoFile PROVE FALSE
    OBVIOUS
  <2>1. manifest[t] = Manifest(t, NoFile)
    BY <1>1 DEF FileInv, CommitInv, Complete
  <2>2. PICK u \in Tx : orig[u] # NoFile /\ manifest[t] = Manifest(u, orig[u])
    BY DEF FileInv, ManifestInv
  <2>3. Manifest(t, NoFile).state = NoFile /\ Manifest(u, orig[u]).state = orig[u]
    BY KindFacts
  <2> QED
    BY <2>1, <2>2, <2>3
<1>7. ProgressInv'
  BY <1>1, <1>6 DEF ProgressInv
<1> QED
  BY <1>2, <1>3, <1>4, <1>5, <1>7 DEF FileInv

(* Backup has found what the transaction will go back to: no manifest of   *)
(* it exists anywhere yet.                                                 *)
LEMMA FoundInv ==
  ASSUME FileInv, tx \in Tx, step \in {"backup", "copy"},
         NEW seen \in Found,
         snap' = Manifest(tx, seen), orig' = [orig EXCEPT ![tx] = seen],
         step' \in {"content", "manifest"}, (step' = "manifest") <=> (seen = Absent),
         UNCHANGED <<path, disk, tx, content, manifest, lossy, mutated, touched>>
  PROVE  FileInv'
<1>1. orig \in [Tx -> Found \cup {NoFile}] /\ orig[tx] = NoFile /\ seen # NoFile
  BY KindFacts DEF FileInv, FileTypeOK, SnapInv
<1>2. /\ orig' \in [Tx -> Found \cup {NoFile}]
      /\ orig'[tx] = seen /\ \A u \in Tx : u # tx => orig'[u] = orig[u]
  BY <1>1
<1>3. FileTypeOK'
  BY <1>2 DEF FileInv, FileTypeOK, StepNames
<1>4. ManifestInv'
  BY <1>1, <1>2 DEF FileInv, ManifestInv
<1>5. SnapInv'
  BY <1>1, <1>2 DEF FileInv, FreshInv, SnapInv
<1>6. FreshInv' /\ MutatedInv'
  BY <1>1, <1>2 DEF FileInv, FreshInv, MutatedInv
<1>7. tx \notin touched => manifest[tx] = NoFile
  BY DEF FileInv, ProgressInv
<1>8. CommitInv'
  BY <1>2, <1>7 DEF FileInv, CommitInv, Complete
<1>9. ProgressInv'
  BY <1>1, <1>2, <1>7 DEF FileInv, ProgressInv, FreshInv
<1> QED
  BY <1>3, <1>4, <1>5, <1>6, <1>8, <1>9 DEF FileInv

(* BackupLstat preserves the invariant: no manifest of this transaction    *)
(* exists anywhere when it finds nothing at the path.                      *)
LEMMA BackupLstatInv == ASSUME FileInv, BackupLstat PROVE FileInv'
<1>1. /\ step = "backup" /\ path \notin Links
      /\ snap' = Manifest(tx, path)
      /\ UNCHANGED <<path, disk, tx, content, manifest, lossy, mutated, touched>>
      /\ \/ path = Absent /\ step' = "manifest" /\ orig' = [orig EXCEPT ![tx] = path]
         \/ path # Absent /\ step' = "copy" /\ orig' = orig
  BY DEF BackupLstat, SafePath, machine, backups
<1>2. tx \in Tx /\ path \in Found /\ orig \in [Tx -> Found \cup {NoFile}] /\ orig[tx] = NoFile
  BY <1>1, KindFacts DEF FileInv, FileTypeOK, SnapInv
<1>3. CASE path = Absent
  <2>1. step' = "manifest" /\ orig' = [orig EXCEPT ![tx] = path]
    BY <1>1, <1>3
  <2> QED
    BY <1>1, <1>2, <1>3, <2>1, FoundInv
<1>4. CASE path # Absent
  <2>1. path \in Regular /\ step' = "copy" /\ orig' = orig
    BY <1>1, <1>2, <1>4, KindFacts
  <2>2. FileTypeOK'
    BY <1>1, <2>1 DEF FileInv, FileTypeOK, StepNames
  <2>3. ManifestInv' /\ FreshInv' /\ MutatedInv' /\ SnapInv'
    BY <1>1, <1>2, <2>1 DEF FileInv, ManifestInv, FreshInv, MutatedInv, SnapInv
  <2>4. CommitInv' /\ ProgressInv'
    BY <1>1, <2>1 DEF FileInv, CommitInv, Complete, ProgressInv
  <2> QED
    BY <2>2, <2>3, <2>4 DEF FileInv
<1> QED
  BY <1>3, <1>4

(* BackupRead preserves the invariant. *)
LEMMA BackupReadInv == ASSUME FileInv, BackupRead PROVE FileInv'
<1>1. /\ step = "copy" /\ Target # Absent /\ step' = "content"
      /\ snap' = Manifest(tx, File(Target.data, snap.state.mode))
      /\ orig' = [orig EXCEPT ![tx] = File(Target.data, snap.state.mode)]
      /\ UNCHANGED <<path, disk, tx, content, manifest, lossy, mutated, touched>>
  BY DEF BackupRead, machine, backups
<1>2. PICK s \in Regular : snap = Manifest(tx, s)
  BY <1>1 DEF FileInv, SnapInv
<1>3. snap.state = s /\ s \in Found /\ s # Absent
  <2>1. s # Absent
    BY DEF Regular, File, Absent
  <2> QED
    BY <1>2, <2>1, KindFacts DEF Found
<1>4. path \in PathStates
  BY DEF FileInv, FileTypeOK
<1>5. Target.data \in Data /\ snap.state.mode \in Modes
  BY <1>1, <1>3, <1>4, TargetFacts, KindFacts
<1> DEFINE seen == File(Target.data, snap.state.mode)
<1>6. seen \in Found /\ seen # Absent
  BY <1>5, KindFacts DEF Found
<1>7. snap' = Manifest(tx, seen) /\ orig' = [orig EXCEPT ![tx] = seen]
  BY <1>1
<1> HIDE DEF seen
<1>8. tx \in Tx
  BY <1>1 DEF FileInv, FileTypeOK
<1> QED
  BY <1>1, <1>6, <1>7, <1>8, FoundInv

(* BackupContent preserves the invariant. *)
LEMMA BackupContentInv == ASSUME FileInv, BackupContent PROVE FileInv'
<1>1. /\ step = "content" /\ step' = "syncContent"
      /\ content' = [content EXCEPT ![tx] = Blob(snap.state.data)]
      /\ lossy' = lossy \cup {<<tx, "content">>}
      /\ UNCHANGED <<path, disk, tx, snap, manifest, orig, mutated, touched>>
  BY DEF BackupContent, machine, history
<1>2. /\ tx \in Tx /\ orig[tx] # NoFile /\ snap = Manifest(tx, orig[tx]) /\ orig[tx] # Absent
      /\ content \in [Tx -> ContentFiles] /\ orig[tx] \in Found \cup {NoFile}
  BY <1>1 DEF FileInv, FileTypeOK, SnapInv
<1>3. snap.state = orig[tx] /\ orig[tx].data \in Data /\ Blob(orig[tx].data) \in ContentFiles
  BY <1>2, KindFacts
<1>4. /\ content' \in [Tx -> ContentFiles] /\ content'[tx] = Blob(orig[tx].data)
      /\ \A u \in Tx : u # tx => content'[u] = content[u]
  BY <1>1, <1>2, <1>3
<1>5. FileTypeOK'
  BY <1>1, <1>2, <1>4 DEF FileInv, FileTypeOK, StepNames
<1>6. ManifestInv' /\ SnapInv' /\ FreshInv' /\ MutatedInv'
  BY <1>1, <1>2 DEF FileInv, ManifestInv, SnapInv, FreshInv, MutatedInv
<1>7. tx \notin touched => manifest[tx] = NoFile
  BY <1>1, <1>2 DEF FileInv, ProgressInv
<1>8. CommitInv'
  BY <1>1, <1>4, <1>7 DEF FileInv, CommitInv, Complete
<1>9. ProgressInv'
  BY <1>1, <1>2, <1>4, <1>7 DEF FileInv, ProgressInv
<1> QED
  BY <1>5, <1>6, <1>8, <1>9 DEF FileInv

(* SyncContent preserves the invariant. *)
LEMMA SyncContentInv == ASSUME FileInv, SyncContent PROVE FileInv'
<1>1. /\ step = "syncContent" /\ step' = "manifest"
      /\ lossy' = lossy \ ({tx} \X {"content", "manifest"})
      /\ UNCHANGED <<path, disk, tx, snap, content, manifest, orig, mutated, touched>>
  BY DEF SyncContent, machine, history
<1>2. FileTypeOK'
  BY <1>1 DEF FileInv, FileTypeOK, StepNames
<1>3. ManifestInv' /\ SnapInv' /\ FreshInv' /\ MutatedInv'
  BY <1>1 DEF FileInv, ManifestInv, SnapInv, FreshInv, MutatedInv
<1>4. CommitInv'
  BY <1>1 DEF FileInv, CommitInv, Complete
<1>5. ProgressInv'
  BY <1>1 DEF FileInv, ProgressInv
<1> QED
  BY <1>2, <1>3, <1>4, <1>5 DEF FileInv

(* BackupManifest preserves the invariant: the content is complete and     *)
(* synced when the manifest appears.                                       *)
LEMMA BackupManifestInv == ASSUME FileInv, BackupManifest PROVE FileInv'
<1>1. /\ step = "manifest" /\ step' = "syncManifest"
      /\ manifest' = [manifest EXCEPT ![tx] = snap]
      /\ lossy' = lossy \cup {<<tx, "manifest">>}
      /\ UNCHANGED <<path, disk, tx, snap, content, orig, mutated, touched>>
  BY DEF BackupManifest, machine, history
<1>2. /\ tx \in Tx /\ orig[tx] # NoFile /\ snap = Manifest(tx, orig[tx])
      /\ manifest \in [Tx -> ManifestFiles] /\ orig[tx] \in Found \cup {NoFile}
  BY <1>1 DEF FileInv, FileTypeOK, SnapInv
<1>3. /\ manifest' \in [Tx -> ManifestFiles] /\ manifest'[tx] = Manifest(tx, orig[tx])
      /\ \A u \in Tx : u # tx => manifest'[u] = manifest[u]
  BY <1>1, <1>2, KindFacts
<1>4. FileTypeOK'
  BY <1>1, <1>2, <1>3 DEF FileInv, FileTypeOK, StepNames
<1>5. ManifestInv'
  BY <1>1, <1>2, <1>3 DEF FileInv, ManifestInv
<1>6. SnapInv' /\ FreshInv'
  BY <1>1, <1>2 DEF FileInv, SnapInv, FreshInv
<1>7. CommitInv'
  BY <1>1, <1>2, <1>3 DEF FileInv, CommitInv, Complete, ProgressInv
<1>8. ProgressInv'
  BY <1>1, <1>3, KindFacts DEF ProgressInv
<1>9. MutatedInv'
  <2>1. \A t \in mutated : t \in Tx /\ t # tx
    BY <1>1 DEF FileInv, FileTypeOK, SnapInv
  <2> QED
    BY <1>1, <1>3, <2>1 DEF FileInv, MutatedInv
<1> QED
  BY <1>4, <1>5, <1>6, <1>7, <1>8, <1>9 DEF FileInv

(* SyncManifest preserves the invariant. *)
LEMMA SyncManifestInv == ASSUME FileInv, SyncManifest PROVE FileInv'
<1>1. /\ step = "syncManifest" /\ step' = "apply"
      /\ lossy' = lossy \ ({tx} \X {"content", "manifest"})
      /\ UNCHANGED <<path, disk, tx, snap, content, manifest, orig, mutated, touched>>
  BY DEF SyncManifest, machine, history
<1>2. FileTypeOK'
  BY <1>1 DEF FileInv, FileTypeOK, StepNames
<1>3. ManifestInv' /\ SnapInv' /\ FreshInv' /\ MutatedInv'
  BY <1>1 DEF FileInv, ManifestInv, SnapInv, FreshInv, MutatedInv
<1>4. CommitInv'
  BY <1>1 DEF FileInv, CommitInv, Complete
<1>5. ProgressInv'
  BY <1>1 DEF FileInv, ProgressInv
<1> QED
  BY <1>2, <1>3, <1>4, <1>5 DEF FileInv

(* Apply preserves the invariant: the backup is complete and durable. *)
LEMMA FileApplyInv == ASSUME FileInv, Apply PROVE FileInv'
<1>1. /\ step = "write" /\ step' = "validate"
      /\ path' = Effective(Desired[tx]) /\ disk' = disk \cup {path'}
      /\ mutated' = mutated \cup {tx}
      /\ UNCHANGED <<tx, snap, content, manifest, lossy, orig, touched>>
  BY DEF Apply, Put, backups
<1>2. tx \in Tx /\ Desired[tx] \in Found
  BY <1>1, FileConstants DEF FileInv, FileTypeOK, Found
<1>3. path' \in PathStates
  BY <1>1, <1>2, EffectiveFacts, KindFacts
<1>4. FileTypeOK'
  BY <1>1, <1>2, <1>3 DEF FileInv, FileTypeOK, StepNames
<1>5. ManifestInv' /\ SnapInv'
  BY <1>1 DEF FileInv, ManifestInv, SnapInv
<1>6. orig[tx] # NoFile
  BY <1>1, <1>2 DEF FileInv, SnapInv
<1>7. FreshInv'
  BY <1>1, <1>6 DEF FileInv, FreshInv
<1>8. CommitInv'
  BY <1>1 DEF FileInv, CommitInv, Complete
<1>9. ProgressInv' /\ MutatedInv'
  BY <1>1, <1>2 DEF FileInv, ProgressInv, MutatedInv
<1> QED
  BY <1>4, <1>5, <1>7, <1>8, <1>9 DEF FileInv

(* RollbackLoad preserves the invariant: a manifest that names this        *)
(* transaction says what this transaction found.                           *)
LEMMA RollbackLoadInv == ASSUME FileInv, RollbackLoad PROVE FileInv'
<1>1. /\ step = "rollback" /\ step' \in {"restore", "fetch"}
      /\ manifest[tx] # NoFile /\ manifest[tx].tx = tx /\ snap' = manifest[tx]
      /\ UNCHANGED <<path, disk, tx, content, manifest, lossy, orig, mutated, touched>>
  BY DEF RollbackLoad, ValidateAgainst, machine, backups, history
<1>2. tx \in Tx /\ path \in PathStates /\ disk \subseteq PathStates
  BY <1>1 DEF FileInv, FileTypeOK
<1>3. PICK u \in Tx : orig[u] # NoFile /\ manifest[tx] = Manifest(u, orig[u])
  BY <1>1, <1>2 DEF FileInv, ManifestInv
<1>4. Manifest(u, orig[u]).tx = u
  BY KindFacts
<1>5. u = tx
  BY <1>1, <1>3, <1>4
<1> QED
  BY <1>1, <1>2, <1>3, <1>5, QuietFileStep

(* RollbackRestore preserves the invariant. *)
LEMMA RollbackRestoreInv == ASSUME FileInv, RollbackRestore PROVE FileInv'
<1>1. /\ step = "restore" /\ step' = "verify"
      /\ path' = Effective(snap.state) /\ disk' = disk \cup {path'}
      /\ UNCHANGED <<tx, snap, content, manifest, lossy, orig, mutated, touched>>
  BY DEF RollbackRestore, Put, backups, history
<1>2. /\ tx \in Tx /\ orig[tx] # NoFile /\ snap = Manifest(tx, orig[tx]) /\ disk \subseteq PathStates
      /\ orig[tx] \in Found \cup {NoFile}
  BY <1>1 DEF FileInv, FileTypeOK, SnapInv
<1>3. snap.state = orig[tx] /\ orig[tx] \in Found
  BY <1>2, KindFacts
<1>4. path' \in PathStates
  BY <1>1, <1>3, EffectiveFacts, KindFacts
<1> QED
  BY <1>1, <1>2, <1>4, QuietFileStep

(* A change of the path by others preserves the invariant. *)
LEMMA FileOutsideInv == ASSUME FileInv, Outside PROVE FileInv'
<1>1. /\ path' \in PathStates /\ disk' = disk \cup {path'}
      /\ UNCHANGED <<step, tx, snap, content, manifest, lossy, orig, mutated, touched>>
  BY DEF Outside, Put, backups
<1>2. disk' \subseteq PathStates
  BY <1>1 DEF FileInv, FileTypeOK
<1> QED
  BY <1>1, <1>2, QuietFileStep

(* Tampering preserves the invariant: it marks the backup, and a misplaced *)
(* manifest still says whose it is.                                        *)
LEMMA TamperInv == ASSUME FileInv, NEW t \in Tx, Tamper(t) PROVE FileInv'
<1>1. /\ touched' = touched \cup {t}
      /\ UNCHANGED <<path, disk, step, tx, snap, lossy, orig, mutated>>
  BY DEF Tamper, machine
<1>2. content \in [Tx -> ContentFiles] /\ manifest \in [Tx -> ManifestFiles]
  BY DEF FileInv, FileTypeOK
<1>3. /\ content' \in [Tx -> ContentFiles] /\ manifest' \in [Tx -> ManifestFiles]
      /\ \A u \in Tx : u # t => content'[u] = content[u] /\ manifest'[u] = manifest[u]
      /\ \E u \in Tx : manifest'[t] = manifest[u]
  <2>1. CASE \E u \in Tx \ {t} :
                /\ content' = [content EXCEPT ![t] = content[u]]
                /\ manifest' = [manifest EXCEPT ![t] = manifest[u]]
    BY <1>2, <2>1
  <2>2. CASE content' = [content EXCEPT ![t] = [kind |-> "damaged"]] /\ manifest' = manifest
    BY <1>2, <2>2 DEF ContentFiles
  <2> QED
    BY <2>1, <2>2 DEF Tamper
<1>4. FileTypeOK'
  BY <1>1, <1>3 DEF FileInv, FileTypeOK
<1>5. ManifestInv'
  BY <1>1, <1>3 DEF FileInv, ManifestInv
<1>6. SnapInv' /\ FreshInv'
  BY <1>1 DEF FileInv, SnapInv, FreshInv
<1>7. CommitInv'
  BY <1>1, <1>3 DEF FileInv, CommitInv, Complete
<1>8. ProgressInv'
  BY <1>1, <1>3 DEF FileInv, ProgressInv
<1>9. MutatedInv'
  BY <1>1, <1>3 DEF FileInv, FileTypeOK, MutatedInv
<1> QED
  BY <1>4, <1>5, <1>6, <1>7, <1>8, <1>9 DEF FileInv

(* A power loss preserves the invariant: of a backup it spares, it takes   *)
(* the content only where there is no manifest.                            *)
LEMMA FilePowerLossInv == ASSUME FileInv, PowerLoss PROVE FileInv'
<1>1. /\ step' = "idle" /\ tx' = NoTx
      /\ path' \in disk /\ disk' = {path'} /\ lossy' = {}
      /\ UNCHANGED <<orig, mutated>>
  BY DEF PowerLoss
<1>2. PICK gone \in SUBSET Tx, undone \in SUBSET lossy :
        /\ content' = [t \in Tx |->
              IF t \in gone \/ <<t, "content">> \in undone THEN NoFile ELSE content[t]]
        /\ manifest' = [t \in Tx |->
              IF t \in gone \/ <<t, "manifest">> \in undone THEN NoFile ELSE manifest[t]]
        /\ touched' = touched \cup gone
  BY DEF PowerLoss
<1>3. FileTypeOK
  BY DEF FileInv
<1>4. content' \in [Tx -> ContentFiles] /\ manifest' \in [Tx -> ManifestFiles]
  BY <1>2, <1>3 DEF FileTypeOK, ContentFiles, ManifestFiles
<1>5. \A t \in Tx : manifest'[t] \in {NoFile, manifest[t]}
  BY <1>2
<1>6. FileTypeOK'
  BY <1>1, <1>3, <1>4 DEF FileTypeOK, StepNames
<1>7. ManifestInv'
  BY <1>1, <1>5 DEF FileInv, ManifestInv
<1>8. SnapInv' /\ FreshInv' /\ ProgressInv'
  BY <1>1, FileConstants DEF FileInv, SnapInv, FreshInv, ProgressInv
<1>9. CommitInv'
  <2> SUFFICES ASSUME NEW t \in Tx \ touched', manifest'[t] # NoFile
               PROVE  Complete(t)'
    BY <1>1 DEF CommitInv
  <2>1. t \notin touched /\ t \notin gone /\ manifest'[t] = manifest[t] /\ manifest[t] # NoFile
    BY <1>2, <1>5
  <2>2. Complete(t) /\ <<t, "content">> \notin lossy
    BY <2>1 DEF FileInv, CommitInv
  <2>3. content'[t] = content[t]
    BY <1>2, <2>1, <2>2
  <2> QED
    BY <1>1, <2>1, <2>2, <2>3 DEF Complete
<1>10. MutatedInv'
  <2> SUFFICES ASSUME NEW t \in mutated \ touched' PROVE manifest'[t] # NoFile
    BY <1>1 DEF MutatedInv
  <2>1. t \in Tx /\ t \notin touched /\ t \notin gone
    BY <1>2, <1>3 DEF FileTypeOK
  <2>2. manifest[t] # NoFile /\ <<t, "manifest">> \notin lossy
    BY <2>1 DEF FileInv, MutatedInv
  <2> QED
    BY <1>2, <2>1, <2>2
<1> QED
  BY <1>6, <1>7, <1>8, <1>9, <1>10 DEF FileInv

-----------------------------------------------------------------------------
(* Every step preserves the invariant. *)
LEMMA FileNext == FileInv /\ [FileExecutorNext]_fileExecutorVars => FileInv'
<1> SUFFICES ASSUME FileInv, [FileExecutorNext]_fileExecutorVars PROVE FileInv'
  OBVIOUS
<1>1. CASE FileExecutorNext
  BY <1>1, FileBeginInv, TamperInv, BackupLstatInv, BackupReadInv, BackupContentInv,
     SyncContentInv, BackupManifestInv, SyncManifestInv, QuietStepsInv, FileApplyInv,
     RollbackLoadInv, RollbackLooksInv, RollbackRestoreInv, FileOutsideInv, FilePowerLossInv DEF FileExecutorNext
<1>2. CASE UNCHANGED fileExecutorVars
  <2>1. path \in PathStates /\ disk \subseteq PathStates
    BY DEF FileInv, FileTypeOK
  <2> QED
    BY <1>2, <2>1, QuietFileStep DEF fileExecutorVars
<1> QED
  BY <1>1, <1>2

(* The inductive invariant holds in every execution. *)
THEOREM FileInvariant == FileExecutorSpec => []FileInv
  BY FileInit, FileNext, PTL DEF FileExecutorSpec

(* For any number of transactions, crashes and power losses: a manifest    *)
(* that is there has its content beside it, in every backup nobody         *)
(* interfered with.                                                        *)
THEOREM FileManifestIsCommitMarker == FileExecutorSpec => []ManifestIsCommitMarker
<1>1. FileInv => ManifestIsCommitMarker
  BY DEF FileInv, CommitInv, ManifestIsCommitMarker
<1> QED
  BY <1>1, FileInvariant, PTL

(* The path is changed only under the protection of a complete backup,     *)
(* which stays while nobody interferes with it.                            *)
THEOREM FileMutationIsBackedUp == FileExecutorSpec => []MutationIsBackedUp
<1>1. FileInv => MutationIsBackedUp
  BY DEF FileInv, FileTypeOK, CommitInv, MutatedInv, MutationIsBackedUp
<1> QED
  BY <1>1, FileInvariant, PTL

(* What the path has held since the restore: what the restore wrote, what  *)
(* is there now, and after the Stat something of the right mode.           *)
HeldInv ==
    /\ step \in {"verify", "verifyRead"} => path \in held /\ Effective(snap.state) \in held
    /\ step = "verifyRead" => snap.state # Absent /\ ModeSeen(snap.state.mode)

(* The Stat that is satisfied has seen the mode of what the path leads to. *)
LEMMA StatSees ==
  ASSUME path \in PathStates, path \in held, Target # Absent
  PROVE  ModeSeen(Target.mode)
<1>1. CASE path \in Links
  BY <1>1 DEF ModeSeen, Target
<1>2. CASE path \notin Links
  <2>1. path \in Regular /\ Target = path
    BY <1>2, KindFacts DEF Target
  <2> QED
    BY <2>1 DEF ModeSeen
<1> QED
  BY <1>1, <1>2

(* Every step preserves it. *)
LEMMA HeldStep == FileInv /\ HeldInv /\ [FileExecutorNext]_fileExecutorVars => HeldInv'
<1> SUFFICES ASSUME FileInv, HeldInv, [FileExecutorNext]_fileExecutorVars PROVE HeldInv'
  OBVIOUS
<1>1. CASE RollbackRestore
  <2>1. held' = {path'} /\ path' = Effective(snap.state) /\ snap' = snap /\ step' = "verify"
    BY <1>1 DEF RollbackRestore, Put
  <2> QED
    BY <2>1 DEF HeldInv
<1>2. CASE VerifyStat
  <2>1. /\ step = "verify" /\ snap.state # Absent /\ Target # Absent
        /\ Target.mode = snap.state.mode
        /\ UNCHANGED <<path, snap, held>>
    BY <1>2 DEF VerifyStat, machine, history
  <2>2. path \in PathStates /\ path \in held /\ Effective(snap.state) \in held
    BY <2>1 DEF FileInv, FileTypeOK, HeldInv
  <2>3. ModeSeen(snap.state.mode)
    BY <2>1, <2>2, StatSees
  <2> QED
    BY <2>1, <2>2, <2>3 DEF HeldInv, ModeSeen
<1>3. CASE Outside
  <2>1. /\ step' = step /\ snap' = snap
        /\ step \in {"verify", "verifyRead"} => held' = held \cup {path'}
    BY <1>3 DEF Outside
  <2> QED
    BY <2>1 DEF HeldInv, ModeSeen
<1>4. CASE \E t \in Tx : Tamper(t)
  <2>1. UNCHANGED <<path, step, snap, held>>
    BY <1>4 DEF Tamper, machine
  <2> QED
    BY <2>1 DEF HeldInv, ModeSeen
<1>5. CASE UNCHANGED fileExecutorVars
  BY <1>5 DEF fileExecutorVars, HeldInv, ModeSeen
<1>6. CASE \/ \E t \in Tx : Begin(t)
           \/ BackupLstat \/ BackupRead \/ BackupContent \/ SyncContent
           \/ BackupManifest \/ SyncManifest \/ BackupFails
           \/ CheckPath \/ Apply \/ ApplyFails \/ Validate \/ ValidateFails \/ Later
           \/ RollbackLoad \/ RollbackFetch \/ VerifyAbsence \/ VerifyRead \/ RollbackFails
           \/ Close \/ PowerLoss
  <2>1. step' \notin {"verify", "verifyRead"}
    BY <1>6 DEF Begin, BackupLstat, BackupRead, BackupContent, SyncContent, BackupManifest,
       SyncManifest, BackupFails, CheckPath, Apply, ApplyFails, Validate, ValidateFails, Later,
       RollbackLoad, RollbackFetch, VerifyAbsence, VerifyRead, RollbackFails, Close, PowerLoss
  <2> QED
    BY <2>1 DEF HeldInv
<1> QED
  BY <1>1, <1>2, <1>3, <1>4, <1>5, <1>6 DEF FileExecutorNext

(* If the path was left alone since the restore, a mode that was seen is   *)
(* the mode of what the restore wrote, and then that is what was saved.    *)
LEMMA LeftAlone ==
  ASSUME NEW s \in Found, s # Absent, held = {Effective(s)}, ModeSeen(s.mode)
  PROVE  Effective(s) = s
<1>1. Effective(s) \in Found
  BY EffectiveFacts
<1>2. Effective(s).mode = s.mode
  BY <1>1, KindFacts DEF ModeSeen
<1>3. CASE s.mode = 0
  <2>1. PICK d \in Data, m \in Modes : s = [kind |-> "file", data |-> d, mode |-> m]
    BY KindFacts DEF Regular, File
  <2>2. Effective(s) = [s EXCEPT !.mode = 384]
    BY <1>3 DEF Effective, DefaultMode
  <2>3. Effective(s).mode = 384
    BY <2>1, <2>2
  <2> QED
    BY <1>2, <1>3, <2>3
<1>4. CASE s.mode # 0
  BY <1>4 DEF Effective
<1> QED
  BY <1>3, <1>4

(* For any number of transactions and changes by others: when Rollback     *)
(* returns nil, a path that held nothing holds nothing, and one that held  *)
(* a file gives its data now and gave its mode at some moment since the    *)
(* restore; left alone since then it is exactly what it was.               *)
THEOREM FileNilRollbackIsProof == FileExecutorSpec => NilRollbackIsProof
<1>1. FileExecutorInit => HeldInv
  BY DEF FileExecutorInit, HeldInv
<1>2. ASSUME FileInv, HeldInv, NilReturn PROVE ProvedByNil
  <2>1. /\ step \in {"verify", "verifyRead"}
        /\ snap = Manifest(tx, orig[tx]) /\ tx \in Tx
        /\ orig[tx] \in Found /\ path \in PathStates
    BY <1>2 DEF FileInv, FileTypeOK, SnapInv, NilReturn, VerifyAbsence, VerifyRead
  <2>2. snap.state = orig[tx]
    BY <2>1, KindFacts
  <2>3. CASE VerifyAbsence
    BY <2>2, <2>3 DEF VerifyAbsence, ProvedByNil
  <2>4. CASE VerifyRead
    <3>1. step = "verifyRead" /\ Target # Absent /\ Target.data = orig[tx].data
      BY <2>2, <2>4 DEF VerifyRead
    <3>2. orig[tx] # Absent /\ ModeSeen(orig[tx].mode) /\ Effective(orig[tx]) \in held
      BY <1>2, <2>2, <3>1 DEF HeldInv
    <3>3. held = {path} => path = orig[tx]
      <4> SUFFICES ASSUME held = {path} PROVE path = orig[tx]
        OBVIOUS
      <4>1. path = Effective(orig[tx]) /\ held = {Effective(orig[tx])}
        BY <3>2
      <4> QED
        BY <2>1, <3>2, <4>1, LeftAlone
    <3> QED
      BY <3>1, <3>2, <3>3 DEF ProvedByNil, ModeSeen
  <2> QED
    BY <1>2, <2>3, <2>4 DEF NilReturn
<1>3. FileInv /\ HeldInv => [NilReturn => ProvedByNil]_fileExecutorVars
  BY <1>2
<1> QED
  BY <1>1, <1>3, HeldStep, FileInvariant, PTL DEF FileExecutorSpec, NilRollbackIsProof

(* Rollback never puts on the path data that this transaction did not find *)
(* there, whatever backup it is shown.                                     *)
THEOREM FileForeignBackupRefused == FileExecutorSpec => ForeignBackupRefused
<1>1. ASSUME FileInv, RollbackRestore
      PROVE  /\ path'.kind = orig[tx].kind
             /\ path'.kind = "file" => path'.data = orig[tx].data
  <2>1. /\ snap = Manifest(tx, orig[tx]) /\ orig[tx] # NoFile /\ orig[tx] \in Found \cup {NoFile}
        /\ path' = Effective(snap.state)
    BY <1>1 DEF FileInv, FileTypeOK, SnapInv, RollbackRestore, Put
  <2>2. Manifest(tx, orig[tx]).state = orig[tx]
    BY KindFacts
  <2>3. orig[tx] \in Found /\ path' = Effective(orig[tx])
    BY <2>1, <2>2
  <2>4. path'.kind = orig[tx].kind /\ (orig[tx] # Absent => path'.data = orig[tx].data)
    BY <2>3, EffectiveFacts
  <2>5. Absent.kind # "file"
    BY DEF Absent
  <2> QED
    BY <2>4, <2>5
<1>2. FileInv => [RollbackRestore =>
                    /\ path'.kind = orig[tx].kind
                    /\ path'.kind = "file" => path'.data = orig[tx].data]_fileExecutorVars
  BY <1>1
<1> QED
  BY <1>2, FileInvariant, PTL DEF ForeignBackupRefused

-----------------------------------------------------------------------------
(* The behaviours of the file executor beside the SSH move are behaviours  *)
(* of each, so what is proved of either holds of them.                     *)
THEOREM ExecutorsComposed == MCSpec => FileExecutorSpec /\ Spec
<1>1. MCInit => FileExecutorInit /\ Init
  BY DEF MCInit
<1>2. [MCNext]_<<topic, fileExecutorVars, vars>> =>
        [FileExecutorNext]_fileExecutorVars /\ [Next]_vars
  BY DEF MCNext
<1> QED
  BY <1>1, <1>2, PTL DEF MCSpec, FileExecutorSpec, Spec
=============================================================================
