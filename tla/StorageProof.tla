---------------------------- MODULE StorageProof ----------------------------
(***************************************************************************)
(* Proofs about what a transaction rests on: the lifecycle lock, for any   *)
(* number of processes and inodes; the durable write, for paths of any     *)
(* depth and any number of writes; and the journal, for any number of      *)
(* transactions and whatever records callers submit.                       *)
(***************************************************************************)
EXTENDS MCStorage, TLAPS

(* Neither property is inductive alone: a holder owns its flock only       *)
(* because the flock names a live holder, and both need that a descriptor  *)
(* is open between open and close, which is part of TypeOK.                *)
LockInv == TypeOK /\ NoStaleLock /\ HolderOwnsInode

(* The initial state satisfies the invariant. *)
LEMMA LockInit == Init => LockInv
  BY LockConstants DEF Init, LockInv, TypeOK, NoStaleLock, HolderOwnsInode, Stages

(* Every system call, and the death of a process, preserves it. *)
LEMMA LockStep == LockInv /\ [Next]_vars => LockInv'
<1> SUFFICES ASSUME LockInv, [Next]_vars PROVE LockInv'
  OBVIOUS
<1> USE LockConstants DEF LockInv, TypeOK, NoStaleLock, HolderOwnsInode, Stages
<1>1. ASSUME NEW p \in Procs, Open(p) PROVE LockInv'
  BY <1>1 DEF Open
<1>2. ASSUME NEW p \in Procs, FlockOk(p) PROVE LockInv'
  BY <1>2 DEF FlockOk
<1>3. ASSUME NEW p \in Procs, FlockBusy(p) PROVE LockInv'
  BY <1>3 DEF FlockBusy
<1>4. ASSUME NEW p \in Procs, Unlock(p) PROVE LockInv'
  BY <1>4 DEF Unlock
<1>5. ASSUME NEW p \in Procs, Close(p) PROVE LockInv'
  BY <1>5 DEF Close
<1>6. ASSUME NEW p \in Procs, Remove(p) PROVE LockInv'
  BY <1>6 DEF Remove
<1>7. ASSUME NEW p \in Procs, Crash(p) PROVE LockInv'
  BY <1>7 DEF Crash
<1>8. CASE UNCHANGED vars
  BY <1>8 DEF vars
<1> QED
  BY <1>1, <1>2, <1>3, <1>4, <1>5, <1>6, <1>7, <1>8 DEF Next

(* The variables of the lock always have their types. *)
THEOREM LockTypeCorrect == Spec => []TypeOK
<1>1. LockInv => TypeOK
  BY DEF LockInv
<1> QED
  BY <1>1, LockInit, LockStep, PTL DEF Spec

(* No crash and no interleaving leaves a flock behind that nobody holds.   *)
THEOREM LockNeverStale == Spec => []NoStaleLock
<1>1. LockInv => NoStaleLock
  BY DEF LockInv
<1> QED
  BY <1>1, LockInit, LockStep, PTL DEF Spec

(* A process inside its critical section owns the flock of its inode.      *)
THEOREM LockHolderOwns == Spec => []HolderOwnsInode
<1>1. LockInv => HolderOwnsInode
  BY DEF LockInv
<1> QED
  BY <1>1, LockInit, LockStep, PTL DEF Spec

(* Both: an inode's flock is held exactly by the process that is inside    *)
(* with this inode, whatever crashes and interleavings came before.        *)
THEOREM LockIsExact == Spec => []FlockIsExact
<1>1. LockInv => FlockIsExact
  BY DEF LockInv, FlockIsExact
<1> QED
  BY <1>1, LockInit, LockStep, PTL DEF Spec

-----------------------------------------------------------------------------
(* A version reaches the target path only from a synced file. *)
CleanInv ==
    /\ wpc = "rename" => tmp = "synced"
    /\ Torn \notin maybe /\ file # Torn

(* How far EnsureDir has come, as long as none was interrupted: the levels *)
(* still to sync are exactly the ones that are not yet durable.            *)
EnsureInv ==
    /\ wpc \in {"syncparent", "write", "sync", "rename", "syncdir"} => levels = Depth
    /\ ~interrupted =>
          /\ wpc \in {"idle", "stat"} => durable = 1..levels
          /\ wpc \in {"mkdir", "syncparent"} => durable \cup created = 1..Depth
          /\ wpc \in {"write", "sync", "rename", "syncdir"} => durable = 1..Depth

(* No version that may be found is older than the acknowledged one. *)
AckInv ==
    /\ acked <= ver
    /\ wpc = "syncdir" => file = ver
    /\ AckedVersionStays

FsInv == FsTypeOK /\ CleanInv /\ EnsureInv /\ AckInv

-----------------------------------------------------------------------------
(* The initial states satisfy the invariant. *)
LEMMA FsInitInv == FsInit => FsInv
<1> SUFFICES ASSUME FsInit PROVE FsInv
  OBVIOUS
<1> USE FsConstants DEF FsInit
<1>1. FsTypeOK
  <2>1. 0 \in 0..MaxVer /\ 0 \in Contents
    BY DEF Contents
  <2> QED
    BY <2>1 DEF FsTypeOK, Steps
<1>2. CleanInv
  BY DEF CleanInv, Torn
<1>3. EnsureInv
  BY DEF EnsureInv
<1>4. AckInv
  BY DEF AckInv, AckedVersionStays
<1> QED
  BY <1>1, <1>2, <1>3, <1>4 DEF FsInv

(* A new call preserves the invariant. *)
LEMMA CallInv == ASSUME FsInv, Call PROVE FsInv'
<1> USE FsConstants DEF FsInv
<1>1. /\ wpc = "idle" /\ wpc' = "stat" /\ ver < MaxVer /\ ver' = ver + 1
      /\ UNCHANGED <<levels, durable, created, file, maybe, tmp, acked, interrupted>>
  BY DEF Call, ensureVars
<1>2. FsTypeOK'
  BY <1>1 DEF FsTypeOK, Steps
<1>3. CleanInv' /\ EnsureInv'
  BY <1>1 DEF CleanInv, EnsureInv
<1>4. AckInv'
  BY <1>1 DEF AckInv, AckedVersionStays, FsTypeOK
<1> QED
  BY <1>2, <1>3, <1>4

(* EnsureDir's walk preserves the invariant: what is missing is what is    *)
(* not durable.                                                            *)
LEMMA StatInv == ASSUME FsInv, Stat PROVE FsInv'
<1> USE FsConstants DEF FsInv
<1>1. /\ wpc = "stat" /\ created' = (levels + 1)..Depth
      /\ wpc' = IF levels = Depth THEN "write" ELSE "mkdir"
      /\ UNCHANGED <<levels, durable, file, maybe, ver, tmp, acked, interrupted>>
  BY DEF Stat, writeVars
<1>2. levels \in 0..Depth
  BY DEF FsTypeOK
<1>3. FsTypeOK'
  BY <1>1, <1>2 DEF FsTypeOK, Steps
<1>4. CleanInv'
  BY <1>1 DEF CleanInv
<1>5. (1..levels) \cup ((levels + 1)..Depth) = 1..Depth
  BY <1>2
<1>6. EnsureInv'
  BY <1>1, <1>5 DEF EnsureInv
<1>7. AckInv'
  BY <1>1 DEF AckInv, AckedVersionStays
<1> QED
  BY <1>3, <1>4, <1>6, <1>7

(* Mkdir preserves the invariant. *)
LEMMA MkdirInv == ASSUME FsInv, Mkdir PROVE FsInv'
<1> USE FsConstants DEF FsInv
<1>1. /\ wpc = "mkdir" /\ levels < Depth /\ levels' = levels + 1
      /\ wpc' = IF levels + 1 = Depth THEN "syncparent" ELSE "mkdir"
      /\ UNCHANGED <<durable, created, file, maybe, ver, tmp, acked, interrupted>>
  BY DEF Mkdir, writeVars
<1>2. levels \in 0..Depth /\ durable \subseteq 1..levels
  BY DEF FsTypeOK
<1>3. levels' \in 0..Depth /\ 1..levels \subseteq 1..(levels + 1)
  BY <1>1, <1>2
<1>4. FsTypeOK'
  BY <1>1, <1>2, <1>3 DEF FsTypeOK, Steps
<1>5. CleanInv' /\ EnsureInv'
  BY <1>1 DEF CleanInv, EnsureInv
<1>6. AckInv'
  BY <1>1 DEF AckInv, AckedVersionStays
<1> QED
  BY <1>4, <1>5, <1>6

(* The sync of a parent directory preserves the invariant. *)
LEMMA SyncParentInv == ASSUME FsInv, SyncParent PROVE FsInv'
<1> USE FsConstants DEF FsInv
<1>1. PICK d \in created :
        /\ durable' = durable \cup {d}
        /\ created' = created \ {d}
        /\ wpc' = IF created = {d} THEN "write" ELSE "syncparent"
  BY DEF SyncParent
<1>2. wpc = "syncparent" /\ UNCHANGED <<levels, file, maybe, ver, tmp, acked, interrupted>>
  BY DEF SyncParent, writeVars
<1>3. levels = Depth /\ created \subseteq 1..Depth /\ durable \subseteq 1..Depth
  BY <1>2 DEF FsTypeOK, EnsureInv
<1>4. FsTypeOK'
  BY <1>1, <1>2, <1>3 DEF FsTypeOK, Steps
<1>5. CleanInv'
  BY <1>1, <1>2 DEF CleanInv
<1>6. EnsureInv'
  BY <1>1, <1>2, <1>3 DEF EnsureInv
<1>7. AckInv'
  <2>1. durable = 1..Depth => durable' = 1..Depth
    BY <1>1, <1>3
  <2> QED
    BY <1>1, <1>2, <2>1 DEF AckInv, AckedVersionStays
<1> QED
  BY <1>4, <1>5, <1>6, <1>7

(* Writing and syncing the temporary file preserves the invariant. *)
LEMMA TempInv == ASSUME FsInv, WriteTemp \/ SyncTemp PROVE FsInv'
<1> USE FsConstants DEF FsInv
<1>1. /\ UNCHANGED <<levels, durable, created, file, maybe, ver, acked, interrupted>>
      /\ \/ wpc = "write" /\ wpc' = "sync" /\ tmp' = "unsynced"
         \/ wpc = "sync" /\ wpc' = "rename" /\ tmp' = "synced"
  BY DEF WriteTemp, SyncTemp, ensureVars
<1>2. FsTypeOK'
  BY <1>1 DEF FsTypeOK, Steps
<1>3. CleanInv' /\ EnsureInv'
  BY <1>1 DEF CleanInv, EnsureInv
<1>4. AckInv'
  BY <1>1 DEF AckInv, AckedVersionStays
<1> QED
  BY <1>2, <1>3, <1>4

(* The rename preserves the invariant. *)
LEMMA RenameInv == ASSUME FsInv, Rename PROVE FsInv'
<1> USE FsConstants DEF FsInv
<1>1. /\ wpc = "rename" /\ wpc' = "syncdir" /\ file' = ver /\ tmp' = "none"
      /\ UNCHANGED <<levels, durable, created, ver, acked, interrupted>>
      /\ tmp = "synced" => maybe' = maybe \cup {ver}
  BY DEF Rename, ensureVars
<1>2. tmp = "synced" /\ ver \in 0..MaxVer /\ acked \in 0..MaxVer /\ ver # Torn
  BY <1>1 DEF CleanInv, FsTypeOK, Torn
<1>3. FsTypeOK'
  BY <1>1, <1>2 DEF FsTypeOK, Steps, Contents
<1>4. CleanInv' /\ EnsureInv'
  BY <1>1, <1>2 DEF CleanInv, EnsureInv
<1>5. AckInv'
  BY <1>1, <1>2 DEF AckInv, AckedVersionStays
<1> QED
  BY <1>3, <1>4, <1>5

(* The final sync preserves the invariant: what it acknowledges is what is *)
(* on disk, under a durable path.                                          *)
LEMMA SyncDirInv == ASSUME FsInv, SyncDir PROVE FsInv'
<1> USE FsConstants DEF FsInv
<1>1. /\ wpc = "syncdir" /\ wpc' = "idle" /\ maybe' = {file} /\ acked' = ver
      /\ UNCHANGED <<levels, durable, created, file, ver, tmp, interrupted>>
  BY DEF SyncDir, ensureVars
<1>2. file = ver /\ ver \in 0..MaxVer /\ levels = Depth
  BY <1>1 DEF FsTypeOK, AckInv, EnsureInv
<1>3. FsTypeOK'
  BY <1>1, <1>2 DEF FsTypeOK, Steps, Contents
<1>4. CleanInv' /\ EnsureInv'
  BY <1>1, <1>2 DEF CleanInv, EnsureInv
<1>5. AckInv'
  BY <1>1, <1>2 DEF AckInv, AckedVersionStays, EnsureInv
<1> QED
  BY <1>3, <1>4, <1>5

(* An error or the death of the process preserves the invariant. *)
LEMMA AbortInv == ASSUME FsInv, Abort PROVE FsInv'
<1> USE FsConstants DEF FsInv
<1>1. /\ wpc # "idle" /\ wpc' = "idle" /\ created' = {} /\ tmp' = "none"
      /\ interrupted' = (interrupted \/ wpc \in {"mkdir", "syncparent"})
      /\ UNCHANGED <<levels, durable, file, maybe, ver, acked>>
  BY DEF Abort
<1>2. FsTypeOK'
  BY <1>1 DEF FsTypeOK, Steps
<1>3. CleanInv'
  BY <1>1 DEF CleanInv
<1>4. EnsureInv'
  <2> SUFFICES ASSUME ~interrupted, wpc \notin {"mkdir", "syncparent"} PROVE durable = 1..levels
    BY <1>1 DEF EnsureInv
  <2>1. wpc \in {"stat", "write", "sync", "rename", "syncdir"}
    BY <1>1 DEF FsTypeOK, Steps
  <2> QED
    BY <2>1 DEF EnsureInv
<1>5. AckInv'
  BY <1>1 DEF AckInv, AckedVersionStays
<1> QED
  BY <1>2, <1>3, <1>4, <1>5

(* A power loss preserves the invariant: when something was acknowledged   *)
(* the whole path is durable, so the file's directory survives.            *)
LEMMA FsPowerLossInv == ASSUME FsInv, PowerLoss PROVE FsInv'
<1> USE FsConstants DEF FsInv
<1>1. PICK n \in 0..levels :
        /\ \A d \in (n + 1)..levels : \E e \in (n + 1)..d : e \notin durable
        /\ levels' = n
        /\ durable' = 1..n
        /\ IF n = Depth THEN file' \in maybe ELSE file' = 0
  BY DEF PowerLoss
<1>2. /\ maybe' = {file'} /\ wpc' = "idle" /\ created' = {} /\ tmp' = "none"
      /\ interrupted' = (interrupted \/ wpc \in {"mkdir", "syncparent"})
      /\ UNCHANGED <<ver, acked>>
  BY DEF PowerLoss
<1>3. levels \in 0..Depth /\ n \in 0..Depth /\ maybe \subseteq Contents /\ acked \in 0..MaxVer
  BY DEF FsTypeOK
<1>4. file' \in Contents /\ file' # Torn
  <2>1. 0 \in Contents /\ 0 # Torn
    BY DEF Contents, Torn
  <2>2. Torn \notin maybe
    BY DEF CleanInv
  <2> QED
    BY <1>1, <1>3, <2>1, <2>2
<1>5. FsTypeOK'
  <2>1. interrupted' \in BOOLEAN
    BY <1>2 DEF FsTypeOK
  <2>2. maybe' \subseteq Contents /\ maybe' # {} /\ file' \in Contents
    BY <1>2, <1>4
  <2>3. levels' \in 0..Depth /\ durable' \subseteq 1..levels' /\ created' \subseteq 1..Depth
    BY <1>1, <1>2, <1>3
  <2> QED
    BY <1>2, <2>1, <2>2, <2>3 DEF FsTypeOK, Steps
<1>6. CleanInv' /\ EnsureInv'
  BY <1>1, <1>2, <1>4 DEF CleanInv, EnsureInv
<1>7. ASSUME ~interrupted, acked > 0 PROVE n = Depth
  <2>1. durable = 1..Depth /\ durable \subseteq 1..levels
    BY <1>7 DEF AckInv, AckedVersionStays, FsTypeOK
  <2>2. levels = Depth
    BY <1>3, <2>1
  <2>3. n < Depth => \E e \in (n + 1)..(n + 1) : e \notin durable
    BY <1>1, <1>3, <2>2
  <2> QED
    BY <1>3, <2>1, <2>3
<1>8. AckInv'
  <2>1. acked <= ver /\ (wpc' # "syncdir")
    BY <1>2 DEF AckInv
  <2>2. ASSUME ~interrupted' PROVE file' >= acked /\ (acked > 0 => durable' = 1..Depth)
    <3>1. ~interrupted /\ \A v \in maybe : v >= acked
      BY <1>2, <2>2 DEF AckInv, AckedVersionStays
    <3>2. CASE acked > 0
      BY <1>1, <1>7, <3>1, <3>2
    <3>3. CASE acked = 0
      BY <1>1, <1>3, <3>1, <3>3
    <3> QED
      BY <1>3, <3>2, <3>3
  <2> QED
    BY <1>2, <2>1, <2>2 DEF AckInv, AckedVersionStays
<1> QED
  BY <1>5, <1>6, <1>8

(* Every step of the durable write preserves the invariant. *)
LEMMA FsStepInv == FsInv /\ [FsNext]_fsVars => FsInv'
<1> SUFFICES ASSUME FsInv, [FsNext]_fsVars PROVE FsInv'
  OBVIOUS
<1>1. CASE FsNext
  BY <1>1, CallInv, StatInv, MkdirInv, SyncParentInv, TempInv, RenameInv, SyncDirInv,
     AbortInv, FsPowerLossInv DEF FsNext
<1>2. CASE UNCHANGED fsVars
  BY <1>2 DEF fsVars, FsInv, FsTypeOK, CleanInv, EnsureInv, AckInv, AckedVersionStays
<1> QED
  BY <1>1, <1>2

(* The inductive invariant holds in every execution. *)
THEOREM FsInvariant == FsSpec => []FsInv
  BY FsInitInv, FsStepInv, PTL DEF FsSpec

(* For paths of any depth and any number of writes, errors and power       *)
(* losses: the target path never holds a torn file.                        *)
THEOREM FsNeverTorn == FsSpec => []NeverTorn
<1>1. FsInv => NeverTorn
  BY DEF FsInv, CleanInv, NeverTorn
<1> QED
  BY <1>1, FsInvariant, PTL

(* What WriteFileSyncDir acknowledged survives every power loss, unless an *)
(* EnsureDir stopped half way.                                             *)
THEOREM FsAckedVersionStays == FsSpec => []AckedVersionStays
<1>1. FsInv => AckedVersionStays
  BY DEF FsInv, AckInv
<1> QED
  BY <1>1, FsInvariant, PTL

-----------------------------------------------------------------------------
(* No version is found that was not written yet, and the one being written *)
(* is not found before its rename.                                         *)
VersionInv ==
    /\ file <= ver /\ \A v \in maybe : v <= ver
    /\ wpc \notin {"idle", "syncdir"} => file # ver

(* Unless an EnsureDir was interrupted, nothing was ever written below a   *)
(* path that is not durable.                                               *)
PathInv == ~interrupted /\ durable # 1..Depth => maybe = {0}

PromiseInv == VersionInv /\ PathInv

(* The initial states satisfy it. *)
LEMMA PromiseInit == FsInit => PromiseInv
  BY DEF FsInit, PromiseInv, VersionInv, PathInv

(* Every step preserves it. *)
LEMMA PromiseStep == FsInv /\ PromiseInv /\ [FsNext]_fsVars => PromiseInv'
<1> SUFFICES ASSUME FsInv, PromiseInv, [FsNext]_fsVars PROVE PromiseInv'
  OBVIOUS
<1> USE DEF PromiseInv
<1>1. /\ ver \in 0..MaxVer /\ file \in Contents /\ maybe \subseteq Contents
      /\ durable \subseteq 1..levels /\ levels \in 0..Depth /\ created \subseteq 1..Depth
      /\ MaxVer \in Nat /\ Depth \in Nat
  BY FsConstants DEF FsInv, FsTypeOK
<1>2. file \in Int /\ ver \in Int /\ \A v \in maybe : v \in Int
  BY <1>1 DEF Contents, Torn
<1>3. CASE Call
  <2>1. /\ wpc' = "stat" /\ ver' = ver + 1
        /\ UNCHANGED <<file, maybe, durable, interrupted>>
    BY <1>3 DEF Call, ensureVars
  <2> QED
    BY <2>1, <1>2 DEF VersionInv, PathInv
<1>4. CASE Stat \/ Mkdir \/ WriteTemp \/ SyncTemp
  <2>1. /\ wpc \notin {"idle", "syncdir"}
        /\ UNCHANGED <<file, maybe, ver, durable, interrupted>>
    BY <1>4 DEF Stat, Mkdir, WriteTemp, SyncTemp, ensureVars, writeVars
  <2> QED
    BY <2>1 DEF VersionInv, PathInv
<1>5. CASE SyncParent
  <2>1. /\ wpc \notin {"idle", "syncdir"} /\ levels = Depth
        /\ UNCHANGED <<file, maybe, ver, interrupted>>
    BY <1>5 DEF SyncParent, writeVars, FsInv, EnsureInv
  <2>2. \E d \in created : durable' = durable \cup {d}
    BY <1>5 DEF SyncParent
  <2>3. durable = 1..Depth => durable' = 1..Depth
    BY <2>1, <2>2, <1>1
  <2> QED
    BY <2>1, <2>3 DEF VersionInv, PathInv
<1>6. CASE Rename
  <2>1. /\ wpc' = "syncdir" /\ file' = ver /\ maybe' = maybe \cup {ver}
        /\ UNCHANGED <<ver, durable, interrupted>>
    BY <1>6 DEF Rename, ensureVars, FsInv, CleanInv
  <2>2. ~interrupted => durable = 1..Depth
    BY <1>6 DEF Rename, FsInv, EnsureInv
  <2> QED
    BY <2>1, <2>2, <1>2 DEF VersionInv, PathInv
<1>7. CASE SyncDir
  <2>1. /\ wpc' = "idle" /\ maybe' = {file}
        /\ UNCHANGED <<file, ver, durable, interrupted>>
    BY <1>7 DEF SyncDir, ensureVars
  <2>2. ~interrupted => durable = 1..Depth
    BY <1>7 DEF SyncDir, FsInv, EnsureInv
  <2> QED
    BY <2>1, <2>2 DEF VersionInv, PathInv
<1>8. CASE Abort
  <2>1. /\ wpc' = "idle" /\ interrupted' = (interrupted \/ wpc \in {"mkdir", "syncparent"})
        /\ UNCHANGED <<file, maybe, ver, durable>>
    BY <1>8 DEF Abort
  <2> QED
    BY <2>1 DEF VersionInv, PathInv
<1>9. CASE PowerLoss
  <2>1. PICK n \in 0..levels :
          durable' = 1..n /\ IF n = Depth THEN file' \in maybe ELSE file' = 0
    BY <1>9 DEF PowerLoss
  <2>2. wpc' = "idle" /\ maybe' = {file'} /\ UNCHANGED ver
    BY <1>9 DEF PowerLoss
  <2>3. file' <= ver
    BY <2>1, <1>1 DEF VersionInv
  <2>4. durable' # 1..Depth => file' = 0
    BY <2>1
  <2> QED
    BY <2>2, <2>3, <2>4 DEF VersionInv, PathInv
<1>10. CASE UNCHANGED fsVars
  BY <1>10 DEF fsVars, VersionInv, PathInv
<1> QED
  BY <1>3, <1>4, <1>5, <1>6, <1>7, <1>8, <1>9, <1>10 DEF FsNext

(* A power loss takes the file only with a directory that was not durable. *)
LEMMA PowerLossKeeps ==
  ASSUME FsInv, PromiseInv, PowerLoss
  PROVE  file' \in maybe \/ (interrupted /\ file' = 0)
<1>1. PICK n \in 0..levels :
        /\ \A d \in (n + 1)..levels : \E e \in (n + 1)..d : e \notin durable
        /\ IF n = Depth THEN file' \in maybe ELSE file' = 0
  BY DEF PowerLoss
<1>2. CASE n = Depth
  BY <1>1, <1>2
<1>3. CASE n # Depth
  <2>1. levels \in 0..Depth /\ Depth \in Nat /\ durable \subseteq 1..levels
    BY FsConstants DEF FsInv, FsTypeOK
  <2>2. durable # 1..Depth
    <3>1. CASE levels = Depth
      <4>1. n + 1 \in (n + 1)..levels
        BY <1>3, <2>1, <3>1
      <4>2. PICK e \in (n + 1)..(n + 1) : e \notin durable
        BY <1>1, <4>1
      <4>3. e \in 1..Depth
        BY <1>3, <2>1, <3>1, <4>1
      <4> QED
        BY <4>2, <4>3
    <3>2. CASE levels # Depth
      <4>1. Depth \in 1..Depth /\ Depth \notin durable
        BY <2>1, <3>2
      <4> QED
        BY <4>1
    <3> QED
      BY <3>1, <3>2
  <2>3. file' = 0
    BY <1>1, <1>3
  <2>4. ~interrupted => maybe = {0}
    BY <2>2 DEF PromiseInv, PathInv
  <2> QED
    BY <2>3, <2>4
<1> QED
  BY <1>2, <1>3

(* A step of the durable write is a step of its promise, or none. *)
LEMMA FsStepSimulates ==
  FsInv /\ PromiseInv /\ [FsNext]_fsVars => [Promise!Next]_(Promise!vars)
<1> SUFFICES ASSUME FsInv, PromiseInv, [FsNext]_fsVars
             PROVE  Promise!Next \/ UNCHANGED Promise!vars
  OBVIOUS
<1> USE DEF Promise!Next, Promise!vars
<1>1. CASE Call
  <2>1. /\ wpc = "idle" /\ wpc' = "stat" /\ ver' = ver + 1
        /\ UNCHANGED <<file, maybe, acked, interrupted>>
    BY <1>1 DEF Call
  <2> QED
    BY <2>1 DEF Promise!Begin
<1>2. CASE Stat \/ Mkdir \/ SyncParent \/ WriteTemp \/ SyncTemp
  <2>1. UNCHANGED <<file, maybe, ver, acked, interrupted>>
    BY <1>2 DEF Stat, Mkdir, SyncParent, WriteTemp, SyncTemp, writeVars
  <2>2. wpc # "idle" /\ wpc' # "idle"
    BY <1>2 DEF Stat, Mkdir, SyncParent, WriteTemp, SyncTemp
  <2> QED
    BY <2>1, <2>2
<1>3. CASE Rename
  <2>1. /\ wpc = "rename" /\ wpc' = "syncdir" /\ file' = ver /\ maybe' = maybe \cup {ver}
        /\ UNCHANGED <<ver, acked, interrupted>>
    BY <1>3 DEF Rename, FsInv, CleanInv
  <2>2. file # ver
    BY <2>1 DEF PromiseInv, VersionInv
  <2> QED
    BY <2>1, <2>2 DEF Promise!Publish, Promise!Published
<1>4. CASE SyncDir
  <2>1. /\ wpc = "syncdir" /\ wpc' = "idle" /\ maybe' = {file} /\ acked' = ver
        /\ UNCHANGED <<file, ver, interrupted>>
    BY <1>4 DEF SyncDir
  <2>2. file = ver
    BY <2>1 DEF FsInv, AckInv
  <2> QED
    BY <2>1, <2>2 DEF Promise!ReturnNil, Promise!Published
<1>5. ASSUME interrupted' = (interrupted \/ wpc \in {"mkdir", "syncparent"})
      PROVE  Promise!MayLoseDirectory
  <2>1. wpc \in {"mkdir", "syncparent"} => wpc # "idle" /\ file # ver
    BY DEF PromiseInv, VersionInv
  <2>2. interrupted \in BOOLEAN /\ interrupted' \in BOOLEAN
    BY <1>5 DEF FsInv, FsTypeOK
  <2>3. CASE wpc \in {"mkdir", "syncparent"}
    BY <1>5, <2>1, <2>3 DEF Promise!MayLoseDirectory, Promise!Published
  <2>4. CASE wpc \notin {"mkdir", "syncparent"}
    BY <1>5, <2>2, <2>4 DEF Promise!MayLoseDirectory
  <2> QED
    BY <2>3, <2>4
<1>6. CASE Abort
  <2>1. /\ wpc # "idle" /\ wpc' = "idle"
        /\ interrupted' = (interrupted \/ wpc \in {"mkdir", "syncparent"})
        /\ UNCHANGED <<file, maybe, ver, acked>>
    BY <1>6 DEF Abort
  <2> QED
    BY <2>1, <1>5 DEF Promise!Fail
<1>7. CASE PowerLoss
  <2>1. /\ maybe' = {file'} /\ wpc' = "idle"
        /\ interrupted' = (interrupted \/ wpc \in {"mkdir", "syncparent"})
        /\ UNCHANGED <<ver, acked>>
    BY <1>7 DEF PowerLoss
  <2>2. file' \in maybe \/ (interrupted /\ file' = 0)
    BY <1>7, PowerLossKeeps
  <2> QED
    BY <2>1, <2>2, <1>5 DEF Promise!PowerLoss
<1>8. CASE UNCHANGED fsVars
  BY <1>8 DEF fsVars
<1> QED
  BY <1>1, <1>2, <1>3, <1>4, <1>6, <1>7, <1>8 DEF FsNext

(* For paths of any depth, any number of writes, errors, process deaths    *)
(* and power losses: the durable write keeps the promise on which the      *)
(* journal and state.json rest.                                            *)
THEOREM FsImplementsDurableFile == FsSpec => ImplementsDurableFile
<1>1. FsInit => Promise!Init
  BY DEF FsInit, Promise!Init
<1> QED
  BY <1>1, FsInitInv, FsStepInv, PromiseInit, PromiseStep, FsStepSimulates, PTL
  DEF FsSpec, ImplementsDurableFile, Promise!Spec

-----------------------------------------------------------------------------
(* An action carries the ids asked for. *)
LEMMA WithIdFacts ==
  ASSUME NEW rec, NEW id
  PROVE  \A k : k \in WithId(rec, id) <=> k \in DOMAIN rec.acts /\ rec.acts[k].id = id
  BY DEF WithId

(* Pinned actions: the two records have the same actions, one for one. *)
LEMMA PinnedFacts ==
  ASSUME NEW old, NEW rec, NEW may \in BOOLEAN, ActionsPinned(old, rec, may)
  PROVE  /\ \A i \in DOMAIN old.acts : \E k \in DOMAIN rec.acts :
               /\ rec.acts[k].id = old.acts[i].id /\ rec.acts[k].ident = old.acts[i].ident
         /\ \A k \in DOMAIN rec.acts : \E i \in DOMAIN old.acts :
               /\ rec.acts[k].id = old.acts[i].id /\ rec.acts[k].ident = old.acts[i].ident
               /\ ~may /\ old.acts[i].obs = NoHash => rec.acts[k].obs = NoHash
<1>1. ASSUME NEW i \in DOMAIN old.acts
      PROVE  \E k \in DOMAIN rec.acts :
                /\ WithId(rec, old.acts[i].id) = {k}
                /\ rec.acts[k].id = old.acts[i].id /\ rec.acts[k].ident = old.acts[i].ident
                /\ ~may /\ old.acts[i].obs = NoHash => rec.acts[k].obs = NoHash
  <2>1. PICK k \in DOMAIN rec.acts :
          /\ WithId(rec, old.acts[i].id) = {k}
          /\ rec.acts[k].ident = old.acts[i].ident
          /\ (old.acts[i].obs = NoHash /\ rec.acts[k].obs # NoHash) => may
    BY DEF ActionsPinned
  <2>2. rec.acts[k].id = old.acts[i].id
    BY <2>1, WithIdFacts
  <2> QED
    BY <2>1, <2>2
<1>2. ASSUME NEW k \in DOMAIN rec.acts
      PROVE  \E i \in DOMAIN old.acts :
                /\ rec.acts[k].id = old.acts[i].id /\ rec.acts[k].ident = old.acts[i].ident
                /\ ~may /\ old.acts[i].obs = NoHash => rec.acts[k].obs = NoHash
  <2>1. WithId(old, rec.acts[k].id) # {}
    BY DEF ActionsPinned
  <2>2. PICK i \in DOMAIN old.acts : old.acts[i].id = rec.acts[k].id
    BY <2>1, WithIdFacts
  <2>3. PICK m \in DOMAIN rec.acts :
          /\ WithId(rec, old.acts[i].id) = {m}
          /\ rec.acts[m].id = old.acts[i].id /\ rec.acts[m].ident = old.acts[i].ident
          /\ ~may /\ old.acts[i].obs = NoHash => rec.acts[m].obs = NoHash
    BY <1>1
  <2>4. k \in WithId(rec, old.acts[i].id)
    BY <2>2, WithIdFacts
  <2>5. k = m
    BY <2>3, <2>4
  <2> QED
    BY <2>2, <2>3, <2>5
<1> QED
  BY <1>1, <1>2

(* What the gates of updateRecord let through: provenance, schema and the  *)
(* identities of the actions stay, observations stay, and without leave to *)
(* observe none is added.                                                  *)
LEMMA UpdateFacts ==
  ASSUME NEW old, NEW rec, NEW may \in BOOLEAN, UpdateAllowed(old, rec, may)
  PROVE  /\ rec.prov = old.prov /\ rec.schema = old.schema
         /\ IdentitySet(rec) = IdentitySet(old)
         /\ ObservedSet(old) \subseteq ObservedSet(rec)
         /\ ~may => ObservedSet(rec) \subseteq ObservedSet(old)
<1>1. /\ rec.prov = old.prov /\ rec.schema = old.schema
      /\ ActionsPinned(old, rec, may) /\ ObservedPinned(old, rec)
  BY DEF UpdateAllowed, ProvenancePinned
<1>2. \A i \in DOMAIN old.acts : \E k \in DOMAIN rec.acts :
         /\ rec.acts[k].id = old.acts[i].id /\ rec.acts[k].ident = old.acts[i].ident
  BY <1>1, PinnedFacts
<1>3. \A k \in DOMAIN rec.acts : \E i \in DOMAIN old.acts :
         /\ rec.acts[k].id = old.acts[i].id /\ rec.acts[k].ident = old.acts[i].ident
         /\ ~may /\ old.acts[i].obs = NoHash => rec.acts[k].obs = NoHash
  BY <1>1, PinnedFacts
<1>4. IdentitySet(rec) = IdentitySet(old)
  <2>1. ASSUME NEW e \in IdentitySet(old) PROVE e \in IdentitySet(rec)
    <3>1. PICK i \in DOMAIN old.acts : e = <<old.acts[i].id, old.acts[i].ident>>
      BY <2>1 DEF IdentitySet
    <3> QED
      BY <1>2, <3>1 DEF IdentitySet
  <2>2. ASSUME NEW e \in IdentitySet(rec) PROVE e \in IdentitySet(old)
    <3>1. PICK k \in DOMAIN rec.acts : e = <<rec.acts[k].id, rec.acts[k].ident>>
      BY <2>2 DEF IdentitySet
    <3> QED
      BY <1>3, <3>1 DEF IdentitySet
  <2> QED
    BY <2>1, <2>2
<1>5. \A i \in DOMAIN old.acts, k \in DOMAIN rec.acts :
         old.acts[i].obs # NoHash /\ rec.acts[k].id = old.acts[i].id
            => rec.acts[k].obs = old.acts[i].obs
  <2> SUFFICES ASSUME NEW i \in DOMAIN old.acts, NEW k \in DOMAIN rec.acts,
                      old.acts[i].obs # NoHash, rec.acts[k].id = old.acts[i].id
               PROVE  rec.acts[k].obs = old.acts[i].obs
    OBVIOUS
  <2>1. k \in WithId(rec, old.acts[i].id)
    BY WithIdFacts
  <2> QED
    BY <1>1, <2>1 DEF ObservedPinned
<1>6. ASSUME NEW e \in ObservedSet(old) PROVE e \in ObservedSet(rec)
  <2>1. PICK i \in DOMAIN old.acts :
           old.acts[i].obs # NoHash /\ e = <<old.acts[i].id, old.acts[i].obs>>
    BY <1>6 DEF ObservedSet
  <2>2. PICK k \in DOMAIN rec.acts : rec.acts[k].id = old.acts[i].id
    BY <1>2
  <2>3. rec.acts[k].obs = old.acts[i].obs
    BY <1>5, <2>1, <2>2
  <2> QED
    BY <2>1, <2>2, <2>3 DEF ObservedSet
<1>7. ASSUME ~may, NEW e \in ObservedSet(rec) PROVE e \in ObservedSet(old)
  <2>1. PICK k \in DOMAIN rec.acts :
           rec.acts[k].obs # NoHash /\ e = <<rec.acts[k].id, rec.acts[k].obs>>
    BY <1>7 DEF ObservedSet
  <2>2. PICK i \in DOMAIN old.acts :
           /\ rec.acts[k].id = old.acts[i].id
           /\ old.acts[i].obs = NoHash => rec.acts[k].obs = NoHash
    BY <1>3, <1>7
  <2>3. rec.acts[k].obs = old.acts[i].obs
    BY <1>5, <2>1, <2>2
  <2> QED
    BY <2>1, <2>2, <2>3 DEF ObservedSet
<1> QED
  BY <1>1, <1>4, <1>6, <1>7

(* What one call of the API may do to the journal: it writes one record,   *)
(* where there was none, or over a parsable one within the gates; and only *)
(* RecordObservedSpecHash, on an open transaction and with the whole       *)
(* journal readable, has leave to observe.                                 *)
LEMMA ApiFacts ==
  ASSUME JournalTypeOK, Api
  PROVE  \E t \in Tx, rec \in Record :
            /\ disk' = [disk EXCEPT ![t] = rec]
            /\ \/ disk[t] = Absent /\ ObservedSet(rec) = {}
               \/ /\ disk[t] \in Record
                  /\ UpdateAllowed(disk[t], rec, FALSE)
               \/ /\ disk[t] \in Record /\ Readable(disk[t]) /\ Loadable
                  /\ disk[t].outcome = "" /\ disk[t].mut
                  /\ UpdateAllowed(disk[t], rec, TRUE)
<1>1. ASSUME NEW t \in Tx, NEW r \in Submitted, Begin(t, r)
      PROVE  \E rec \in Record :
                disk' = [disk EXCEPT ![t] = rec] /\ disk[t] = Absent /\ ObservedSet(rec) = {}
  <2> DEFINE new == [r EXCEPT !.schema = 3]
  <2>1. r \in Record
    BY JournalConstants
  <2>2. new \in Record /\ new.acts = r.acts
    BY <2>1 DEF Record
  <2>3. \A i \in DOMAIN new.acts : new.acts[i].obs = NoHash
    BY <1>1, <2>2 DEF Begin
  <2>4. ObservedSet(new) = {}
    BY <2>3 DEF ObservedSet
  <2> QED
    BY <1>1, <2>2, <2>4 DEF Begin
<1>2. ASSUME NEW t \in Tx, NEW r \in Submitted, Update(t, r)
      PROVE  /\ r \in Record /\ disk' = [disk EXCEPT ![t] = r]
             /\ disk[t] \in Record
             /\ UpdateAllowed(disk[t], r, FALSE)
  BY <1>2, JournalConstants DEF Update, JournalTypeOK
<1>3. ASSUME NEW t \in Tx, NEW id \in Ids, NEW coord \in Idents \cup {NoHash}, NEW h \in Hashes,
             RecordObservedSpecHash(t, id, coord, h)
      PROVE  \E rec \in Record :
                /\ disk' = [disk EXCEPT ![t] = rec]
                /\ disk[t] \in Record /\ Readable(disk[t]) /\ Loadable
                /\ disk[t].outcome = "" /\ disk[t].mut
                /\ UpdateAllowed(disk[t], rec, TRUE)
  <2>1. /\ Loadable /\ disk[t] # Absent /\ disk[t].outcome = "" /\ disk[t].mut
    BY <1>3 DEF RecordObservedSpecHash
  <2>2. Readable(disk[t]) /\ disk[t] \in Record
    BY <2>1 DEF Loadable, Readable, JournalTypeOK
  <2>3. PICK k \in DOMAIN disk[t].acts :
          /\ UpdateAllowed(disk[t], [disk[t] EXCEPT !.acts[k].obs = h], TRUE)
          /\ disk' = [disk EXCEPT ![t] = [disk[t] EXCEPT !.acts[k].obs = h]]
    BY <1>3 DEF RecordObservedSpecHash
  <2>4. disk[t].acts \in Seq(Acts) /\ disk[t].acts[k] \in Acts
    BY <2>2 DEF Record
  <2>5. [disk[t].acts[k] EXCEPT !.obs = h] \in Acts
    BY <2>4 DEF Acts
  <2>6. [disk[t].acts EXCEPT ![k] = [disk[t].acts[k] EXCEPT !.obs = h]] \in Seq(Acts)
    BY <2>4, <2>5
  <2>7. [disk[t] EXCEPT !.acts[k].obs = h]
          = [disk[t] EXCEPT !.acts = [disk[t].acts EXCEPT ![k] = [disk[t].acts[k] EXCEPT !.obs = h]]]
    BY <2>2 DEF Record
  <2>8. [disk[t] EXCEPT !.acts[k].obs = h] \in Record
    BY <2>2, <2>6, <2>7 DEF Record
  <2> QED
    BY <2>1, <2>2, <2>3, <2>8
<1> QED
  BY <1>1, <1>2, <1>3 DEF Api

(* Every step of the journal keeps its type. *)
LEMMA JournalStepType == JournalTypeOK /\ [JournalNext]_disk => JournalTypeOK'
<1> SUFFICES ASSUME JournalTypeOK, [JournalNext]_disk PROVE JournalTypeOK'
  OBVIOUS
<1>1. CASE Api
  <2>1. PICK t \in Tx, rec \in Record : disk' = [disk EXCEPT ![t] = rec]
    BY <1>1, ApiFacts
  <2> QED
    BY <2>1 DEF JournalTypeOK
<1>2. CASE Outside
  <2>1. PICK t \in Tx, e \in Record \cup {Absent, Corrupt} : disk' = [disk EXCEPT ![t] = e]
    BY <1>2, JournalConstants DEF Outside, OperatorRemove, ForeignWrite
  <2> QED
    BY <2>1 DEF JournalTypeOK
<1>3. CASE UNCHANGED disk
  BY <1>3 DEF JournalTypeOK
<1> QED
  BY <1>1, <1>2, <1>3 DEF JournalNext

(* The journal's type is an invariant. *)
THEOREM JournalTypeCorrect == JournalSpec => []JournalTypeOK
<1>1. JournalInit => JournalTypeOK
  BY DEF JournalInit, JournalTypeOK
<1> QED
  BY <1>1, JournalStepType, PTL DEF JournalSpec

(* For any number of transactions and whatever copy of a record a caller   *)
(* submits: the API never changes what Begin established, nor an observed  *)
(* hash, and never makes a record disappear.                               *)
THEOREM JournalProvenanceImmutable == JournalSpec => ProvenanceImmutable
<1>1. ASSUME JournalTypeOK, Api, NEW u \in Tx, IsRecord(disk[u])
      PROVE  /\ IsRecord(disk'[u])
             /\ disk'[u].prov = disk[u].prov /\ disk'[u].schema = disk[u].schema
             /\ IdentitySet(disk'[u]) = IdentitySet(disk[u])
             /\ ObservedSet(disk[u]) \subseteq ObservedSet(disk'[u])
  <2>1. PICK t \in Tx, rec \in Record :
          /\ disk' = [disk EXCEPT ![t] = rec]
          /\ disk[t] # Absent => \E may \in BOOLEAN : UpdateAllowed(disk[t], rec, may)
    BY <1>1, ApiFacts
  <2>2. CASE u # t
    BY <1>1, <2>1, <2>2 DEF JournalTypeOK
  <2>3. CASE u = t
    <3>0. disk'[u] = rec
      BY <1>1, <2>1, <2>3 DEF JournalTypeOK
    <3>1. IsRecord(rec)
      BY JournalConstants DEF IsRecord
    <3>2. PICK may \in BOOLEAN : UpdateAllowed(disk[u], rec, may)
      BY <1>1, <2>1, <2>3 DEF IsRecord
    <3> QED
      BY <3>0, <3>1, <3>2, UpdateFacts
  <2> QED
    BY <2>2, <2>3
<1>2. JournalTypeOK => [~ProvenanceKept => ~Api]_disk
  BY <1>1 DEF ProvenanceKept
<1> QED
  BY <1>2, JournalTypeCorrect, PTL DEF ProvenanceImmutable

(* An observation enters only into an open mutating transaction, while the *)
(* whole journal can be read.                                              *)
THEOREM JournalNoObservationAfterTheFact == JournalSpec => NoObservationAfterTheFact
<1>1. ASSUME JournalTypeOK, Api, NEW u \in Tx,
             IsRecord(disk'[u]), ObservedSet(disk'[u]) # {},
             IsRecord(disk[u]) => ObservedSet(disk'[u]) # ObservedSet(disk[u])
      PROVE  /\ Loadable
             /\ IsRecord(disk[u])
             /\ disk[u].outcome = "" /\ disk[u].mut
  <2>1. PICK t \in Tx, rec \in Record :
          /\ disk' = [disk EXCEPT ![t] = rec]
          /\ \/ disk[t] = Absent /\ ObservedSet(rec) = {}
             \/ /\ disk[t] \in Record
                /\ UpdateAllowed(disk[t], rec, FALSE)
             \/ /\ disk[t] \in Record /\ Loadable
                /\ disk[t].outcome = "" /\ disk[t].mut
    BY <1>1, ApiFacts
  <2>2. u = t /\ disk'[u] = rec
    BY <1>1, <2>1 DEF JournalTypeOK
  <2>3. disk[t] \in Record => IsRecord(disk[t])
    BY JournalConstants DEF IsRecord
  <2>4. ASSUME disk[t] \in Record, UpdateAllowed(disk[t], rec, FALSE) PROVE FALSE
    <3>1. /\ ObservedSet(disk[t]) \subseteq ObservedSet(rec)
          /\ ObservedSet(rec) \subseteq ObservedSet(disk[t])
      <4>1. FALSE \in BOOLEAN
        OBVIOUS
      <4> QED
        BY <2>4, <4>1, UpdateFacts
    <3>2. ObservedSet(rec) = ObservedSet(disk[t])
      BY <3>1
    <3> QED
      BY <1>1, <2>2, <2>3, <2>4, <3>2
  <2> QED
    BY <1>1, <2>1, <2>2, <2>3, <2>4
<1>2. JournalTypeOK => [~NewObservationsLegitimate => ~Api]_disk
  BY <1>1 DEF NewObservationsLegitimate
<1> QED
  BY <1>2, JournalTypeCorrect, PTL DEF NoObservationAfterTheFact

(* No API call makes an unreadable file readable or removes it; and the    *)
(* only one it rewrites is a record whose plan fingerprint is blank.       *)
THEOREM JournalCorruptNeverLaundered == JournalSpec => CorruptNeverLaundered
<1>1. ASSUME JournalTypeOK, Api, NEW u \in Tx, disk[u] # Absent, ~Readable(disk[u])
      PROVE  /\ disk'[u] # Absent /\ ~Readable(disk'[u])
             /\ disk[u] = Corrupt \/ BadObserved(disk[u]) => disk'[u] = disk[u]
  <2>1. PICK t \in Tx, rec \in Record :
          /\ disk' = [disk EXCEPT ![t] = rec]
          /\ \/ disk[t] = Absent \/ Readable(disk[t])
             \/ disk[t] \in Record /\ UpdateAllowed(disk[t], rec, FALSE)
    BY <1>1, ApiFacts
  <2>2. CASE u # t
    BY <1>1, <2>1, <2>2 DEF JournalTypeOK
  <2>3. CASE u = t
    <3>1. disk'[u] = rec /\ rec # Absent
      BY <2>1, <2>3, <1>1, JournalConstants DEF JournalTypeOK
    <3>2. /\ disk[u] \in Record /\ ~BadObserved(disk[u])
          /\ rec.prov = disk[u].prov
      BY <1>1, <2>1, <2>3 DEF UpdateAllowed, ProvenancePinned
    <3>3. disk[u] # Corrupt
      BY <3>2, JournalConstants
    <3>4. ~Readable(rec)
      BY <1>1, <3>2, <3>3 DEF Readable
    <3> QED
      BY <3>1, <3>2, <3>3, <3>4
  <2> QED
    BY <2>2, <2>3
<1>2. JournalTypeOK => [~StaysUnreadable => ~Api]_disk
  BY <1>1 DEF StaysUnreadable
<1> QED
  BY <1>2, JournalTypeCorrect, PTL DEF CorruptNeverLaundered

-----------------------------------------------------------------------------
(* The three together keep their types, whichever of them a behaviour is   *)
(* about.                                                                  *)
THEOREM StorageTypeCorrect == MCSpec => []StorageTypeOK
<1> DEFINE Inv == LockInv /\ FsInv /\ JournalTypeOK
<1>1. MCInit => Inv
  BY LockInit, FsInitInv DEF MCInit, JournalInit, JournalTypeOK
<1>2. Inv /\ [MCNext]_<<topic, vars, fsVars, disk>> => Inv'
  <2> SUFFICES ASSUME Inv, [MCNext]_<<topic, vars, fsVars, disk>> PROVE Inv'
    OBVIOUS
  <2>1. [Next]_vars /\ [FsNext]_fsVars /\ [JournalNext]_disk
    BY DEF MCNext
  <2> QED
    BY <2>1, LockStep, FsStepInv, JournalStepType
<1>3. Inv => StorageTypeOK
  BY DEF LockInv, FsInv, StorageTypeOK
<1> QED
  BY <1>1, <1>2, <1>3, PTL DEF MCSpec

(* The behaviours of the three together are behaviours of each, so what is *)
(* proved of the lock, the durable write and the journal holds of them.    *)
THEOREM StorageComposed == MCSpec => Spec /\ FsSpec /\ JournalSpec
<1>1. MCInit => Init /\ FsInit /\ JournalInit
  BY DEF MCInit
<1>2. [MCNext]_<<topic, vars, fsVars, disk>> => [Next]_vars /\ [FsNext]_fsVars /\ [JournalNext]_disk
  BY DEF MCNext
<1> QED
  BY <1>1, <1>2, PTL DEF MCSpec, Spec, FsSpec, JournalSpec
=============================================================================
