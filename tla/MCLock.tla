------------------------------- MODULE MCLock -------------------------------
(* The lock with a few processes and one inode more than descriptors. *)
EXTENDS Lock, TLC

Symmetry == Permutations(Procs) \cup Permutations(Inodes)
=============================================================================
