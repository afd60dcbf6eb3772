----------------------------- MODULE MCSSHMove -----------------------------
(* The SSH move over a few ports. *)
EXTENDS SSHMove
=============================================================================
