-------------------------------- MODULE Lock --------------------------------
(***************************************************************************)
(* The machine-local lifecycle lock (internal/lock), as it runs on Linux:  *)
(* an advisory flock on an open file.                                      *)
(*                                                                         *)
(* Acquire opens the lock path (creating the file when it is missing) and  *)
(* then asks for a non-blocking flock on what it opened; Release unlocks,  *)
(* closes and finally unlinks the path.  Each system call is a step of its *)
(* own, because other processes run between them.  The kernel is modelled  *)
(* by what these calls do: the path names at most one inode, a flock       *)
(* belongs to an inode and not to a path, and the death of a process       *)
(* closes its descriptor and drops its flock.                              *)
(***************************************************************************)
EXTENDS FiniteSets

CONSTANTS
    Procs,      \* processes that use the lock path
    Inodes,     \* inodes the filesystem hands out (an unused one is reused)
    NoInode,    \* "the path does not exist" / "no open descriptor"
    NoProc      \* "nobody holds the flock of this inode"

ASSUME LockConstants ==
    /\ NoInode \notin Inodes
    /\ NoProc \notin Procs

VARIABLES
    link,       \* the inode the lock path names, or NoInode
    fd,         \* fd[p]: the inode of p's open descriptor, or NoInode
    flock,      \* flock[i]: the process that holds the flock of inode i
    pc          \* pc[p]: where p is in Acquire / Release

vars == <<link, fd, flock, pc>>

Stages == {"idle", "opened", "held", "unlocked", "closed"}

(* Types; a descriptor is open exactly between open and close. *)
TypeOK ==
    /\ link \in Inodes \cup {NoInode}
    /\ fd \in [Procs -> Inodes \cup {NoInode}]
    /\ flock \in [Inodes -> Procs \cup {NoProc}]
    /\ pc \in [Procs -> Stages]
    /\ \A p \in Procs : fd[p] = NoInode <=> pc[p] \in {"idle", "closed"}

Init ==
    /\ link = NoInode
    /\ fd = [p \in Procs |-> NoInode]
    /\ flock = [i \in Inodes |-> NoProc]
    /\ pc = [p \in Procs |-> "idle"]

(* An inode is free when neither the path nor a descriptor refers to it. *)
Free(i) == i # link /\ \A p \in Procs : fd[p] # i

-----------------------------------------------------------------------------
(* A seeded fault: an operation with a plausible mistake in it.  It is no  *)
(* part of Next; a mutant replaces the real operation by it to show that   *)
(* the property can fail.                                                  *)
FlockOkBlind(p) ==
    /\ pc[p] = "opened"
    /\ flock' = [flock EXCEPT ![fd[p]] = p]
    /\ pc' = [pc EXCEPT ![p] = "held"]
    /\ UNCHANGED <<link, fd>>

-----------------------------------------------------------------------------
(* os.OpenFile(path, O_RDWR|O_CREATE): the linked inode, or a new one. *)
Open(p) ==
    /\ pc[p] = "idle"
    /\ \E i \in Inodes :
          /\ IF link = NoInode THEN Free(i) ELSE i = link
          /\ link' = i
          /\ fd' = [fd EXCEPT ![p] = i]
    /\ pc' = [pc EXCEPT ![p] = "opened"]
    /\ UNCHANGED flock

(* flock(LOCK_EX|LOCK_NB) granted: Acquire returns the lock. *)
FlockOk(p) ==
    /\ pc[p] = "opened"
    /\ flock[fd[p]] = NoProc
    /\ flock' = [flock EXCEPT ![fd[p]] = p]
    /\ pc' = [pc EXCEPT ![p] = "held"]
    /\ UNCHANGED <<link, fd>>

(* flock refused: the descriptor is closed and Acquire reports an error.   *)
FlockBusy(p) ==
    /\ pc[p] = "opened"
    /\ flock[fd[p]] # NoProc
    /\ fd' = [fd EXCEPT ![p] = NoInode]
    /\ pc' = [pc EXCEPT ![p] = "idle"]
    /\ UNCHANGED <<link, flock>>

(* Release, first call: flock(LOCK_UN). *)
Unlock(p) ==
    /\ pc[p] = "held"
    /\ flock' = [flock EXCEPT ![fd[p]] = NoProc]
    /\ pc' = [pc EXCEPT ![p] = "unlocked"]
    /\ UNCHANGED <<link, fd>>

(* Release, second call: close the descriptor. *)
Close(p) ==
    /\ pc[p] = "unlocked"
    /\ fd' = [fd EXCEPT ![p] = NoInode]
    /\ pc' = [pc EXCEPT ![p] = "closed"]
    /\ UNCHANGED <<link, flock>>

(* Release, last call: os.Remove(path), whatever inode the path names now. *)
Remove(p) ==
    /\ pc[p] = "closed"
    /\ link' = NoInode
    /\ pc' = [pc EXCEPT ![p] = "idle"]
    /\ UNCHANGED <<fd, flock>>

(* The process dies: the kernel closes its descriptor and drops its flock. *)
Crash(p) ==
    /\ pc[p] # "idle"
    /\ fd' = [fd EXCEPT ![p] = NoInode]
    /\ flock' = [i \in Inodes |-> IF flock[i] = p THEN NoProc ELSE flock[i]]
    /\ pc' = [pc EXCEPT ![p] = "idle"]
    /\ UNCHANGED link

Next ==
    \E p \in Procs :
        \/ Open(p)
        \/ FlockOk(p)
        \/ FlockBusy(p)
        \/ Unlock(p)
        \/ Close(p)
        \/ Remove(p)
        \/ Crash(p)

Spec == Init /\ [][Next]_vars

-----------------------------------------------------------------------------
(* No stale lock: a flock is held only by a live process that is inside    *)
(* its critical section, on the very inode it opened.  "The kernel         *)
(* releases the flock automatically when the process dies, so a crashed    *)
(* bootstrap never leaves a stale lock" (acquireFile).                     *)
NoStaleLock ==
    \A i \in Inodes : flock[i] # NoProc =>
        pc[flock[i]] = "held" /\ fd[flock[i]] = i

(* What the flock does give: a process inside its critical section really  *)
(* owns the flock of its inode, so whenever two are inside at once they    *)
(* hold different inodes, and at most one of them is the file at the path. *)
HolderOwnsInode ==
    \A p \in Procs : pc[p] = "held" => flock[fd[p]] = p

(* The two together: the flock and the critical section agree. *)
FlockIsExact == NoStaleLock /\ HolderOwnsInode

(* What the package promises: "a minimal machine-local exclusive lock so   *)
(* two bootstrap operations cannot mutate state and configuration at the   *)
(* same time" (lock.go).  Release unlinks the path after it has unlocked,  *)
(* so a process that opened the old file in between can lock it while a    *)
(* third Acquire creates and locks a new one.                              *)
MutualExclusion ==
    \A p, q \in Procs : pc[p] = "held" /\ pc[q] = "held" => p = q

=============================================================================
