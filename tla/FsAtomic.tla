------------------------------ MODULE FsAtomic ------------------------------
(***************************************************************************)
(* The durable write primitive (internal/fsatomic) as the journal uses it: *)
(* EnsureDir, then WriteFileSyncDir, over a filesystem with POSIX          *)
(* durability.                                                             *)
(*                                                                         *)
(* The directory path has Depth levels below one that always exists.  A    *)
(* directory entry (a level, or the file's name) becomes durable when the  *)
(* directory that contains it is fsynced, file data when the file is; a    *)
(* power loss keeps what is durable and any part of the rest.  Contents    *)
(* are version numbers: 0 is "no file", and each call writes the next one. *)
(* A failed system call and a killed process leave the same state behind,  *)
(* so one action stands for both.                                          *)
(***************************************************************************)
EXTENDS Integers

CONSTANTS
    Depth,      \* directory levels EnsureDir may have to create
    MaxVer      \* bound: number of write calls that are started

ASSUME FsConstants == Depth \in Nat \ {0} /\ MaxVer \in Nat \ {0}

Torn == -1
Contents == {Torn} \cup 0..MaxVer

VARIABLES
    levels,     \* levels of the directory path that exist now
    durable,    \* the levels whose directory entry is known to be on disk
    file,       \* content found at the target path now
    maybe,      \* contents a power loss may leave at the target path
    wpc,        \* next system call of the writer
    created,    \* levels the current EnsureDir found missing, still to sync
    ver,        \* version the current (or last) call writes
    tmp,        \* the temporary file of the current call
    acked,      \* history: newest version whose write returned nil
    interrupted \* history: an EnsureDir stopped between mkdir and its last sync

fsVars == <<levels, durable, file, maybe, wpc, created, ver, tmp, acked, interrupted>>

Steps == {"idle", "stat", "mkdir", "syncparent", "write", "sync", "rename", "syncdir"}

FsTypeOK ==
    /\ levels \in 0..Depth
    /\ durable \subseteq 1..levels
    /\ file \in Contents
    /\ maybe \subseteq Contents /\ maybe # {}
    /\ wpc \in Steps
    /\ created \subseteq 1..Depth
    /\ ver \in 0..MaxVer
    /\ tmp \in {"none", "unsynced", "synced"}
    /\ acked \in 0..MaxVer
    /\ interrupted \in BOOLEAN

FsInit ==
    /\ levels \in 0..Depth
    /\ durable = 1..levels
    /\ file = 0
    /\ maybe = {0}
    /\ wpc = "idle"
    /\ created = {}
    /\ ver = 0
    /\ tmp = "none"
    /\ acked = 0
    /\ interrupted = FALSE

ensureVars == <<levels, durable, created>>
writeVars == <<file, maybe, ver, tmp, acked>>

-----------------------------------------------------------------------------
(* A seeded fault, used by a mutant only. *)
RenameReturns ==
    /\ wpc = "rename"
    /\ file' = ver
    /\ maybe' = maybe \cup (IF tmp = "synced" THEN {ver} ELSE {ver, Torn})
    /\ tmp' = "none"
    /\ acked' = ver
    /\ wpc' = "idle"
    /\ UNCHANGED <<ensureVars, ver, interrupted>>

-----------------------------------------------------------------------------
(* A caller starts the next durable write. *)
Call ==
    /\ wpc = "idle"
    /\ ver < MaxVer
    /\ ver' = ver + 1
    /\ wpc' = "stat"
    /\ UNCHANGED <<ensureVars, file, maybe, tmp, acked, interrupted>>

(* EnsureDir walks up from the target directory: the missing levels are    *)
(* the ones to create; when there are none it returns at once.             *)
Stat ==
    /\ wpc = "stat"
    /\ created' = (levels + 1)..Depth
    /\ wpc' = IF levels = Depth THEN "write" ELSE "mkdir"
    /\ UNCHANGED <<levels, durable, writeVars, interrupted>>

(* os.MkdirAll makes one level after the other, topmost first. *)
Mkdir ==
    /\ wpc = "mkdir"
    /\ levels < Depth
    /\ levels' = levels + 1
    /\ wpc' = IF levels + 1 = Depth THEN "syncparent" ELSE "mkdir"
    /\ UNCHANGED <<durable, created, writeVars, interrupted>>

(* SyncDir on the parent of every created level, deepest first. *)
SyncParent ==
    /\ wpc = "syncparent"
    /\ \E d \in created :
          /\ \A e \in created : e <= d
          /\ durable' = durable \cup {d}
          /\ created' = created \ {d}
          /\ wpc' = IF created = {d} THEN "write" ELSE "syncparent"
    /\ UNCHANGED <<levels, writeVars, interrupted>>

(* WriteFile: CreateTemp, Chmod and Write; the data is not yet on disk. *)
WriteTemp ==
    /\ wpc = "write"
    /\ tmp' = "unsynced"
    /\ wpc' = "sync"
    /\ UNCHANGED <<ensureVars, file, maybe, ver, acked, interrupted>>

(* WriteFile: tmp.Sync and tmp.Close. *)
SyncTemp ==
    /\ wpc = "sync"
    /\ tmp' = "synced"
    /\ wpc' = "rename"
    /\ UNCHANGED <<ensureVars, file, maybe, ver, acked, interrupted>>

(* WriteFile: os.Rename over the target; the new entry is only in memory,  *)
(* and without a synced file behind it a power loss would leave it torn.   *)
Rename ==
    /\ wpc = "rename"
    /\ file' = ver
    /\ maybe' = maybe \cup (IF tmp = "synced" THEN {ver} ELSE {ver, Torn})
    /\ tmp' = "none"
    /\ wpc' = "syncdir"
    /\ UNCHANGED <<ensureVars, ver, acked, interrupted>>

(* WriteFileSyncDir: fsync of the containing directory, then return nil. *)
SyncDir ==
    /\ wpc = "syncdir"
    /\ maybe' = {file}
    /\ acked' = ver
    /\ wpc' = "idle"
    /\ UNCHANGED <<ensureVars, file, ver, tmp, interrupted>>

(* The pending system call fails and the call returns an error, or the     *)
(* process dies: WriteFile's deferred Remove drops the temporary file.     *)
Abort ==
    /\ wpc # "idle"
    /\ wpc' = "idle"
    /\ created' = {}
    /\ tmp' = "none"
    /\ interrupted' = (interrupted \/ wpc \in {"mkdir", "syncparent"})
    /\ UNCHANGED <<levels, durable, file, maybe, ver, acked>>

(* Power loss: every durable prefix of the path survives, possibly more;   *)
(* the file survives only if its directory does.                           *)
PowerLoss ==
    /\ \E n \in 0..levels :
          /\ \A d \in (n + 1)..levels : \E e \in (n + 1)..d : e \notin durable
          /\ levels' = n
          /\ durable' = 1..n
          /\ IF n = Depth THEN file' \in maybe ELSE file' = 0
    /\ maybe' = {file'}
    /\ wpc' = "idle"
    /\ created' = {}
    /\ tmp' = "none"
    /\ interrupted' = (interrupted \/ wpc \in {"mkdir", "syncparent"})
    /\ UNCHANGED <<ver, acked>>

FsNext ==
    \/ Call \/ Stat \/ Mkdir \/ SyncParent
    \/ WriteTemp \/ SyncTemp \/ Rename \/ SyncDir
    \/ Abort \/ PowerLoss

FsSpec == FsInit /\ [][FsNext]_fsVars

-----------------------------------------------------------------------------
(* "A crash never leaves a truncated file at the target path" (package     *)
(* comment): whatever fails and whenever power is lost, the path holds no  *)
(* file or a complete version.                                             *)
NeverTorn == file # Torn /\ Torn \notin maybe

(* What WriteFileSyncDir acknowledged stays: no power loss brings back an  *)
(* older version than the newest one whose write returned nil, and none    *)
(* takes a level of its directory path - provided no earlier EnsureDir     *)
(* stopped half way.                                                       *)
AckedVersionStays ==
    ~interrupted =>
        /\ \A v \in maybe : v >= acked
        /\ acked > 0 => durable = 1..Depth
=============================================================================
