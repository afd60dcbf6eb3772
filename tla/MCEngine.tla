----------------------------- MODULE MCEngine -----------------------------
(* The engine over a short plan, and the promise it implements. *)
EXTENDS Engine

(* The engine's outcome as the abstract transaction sees it. *)
Phase ==
    IF epc # "done" THEN "open"
    ELSE IF verdict = "APPLIED" THEN "committed"
    ELSE IF \E j \in Actions : RollbackFailed(res[j]) THEN "unresolved"
    ELSE "reverted"

Abstract == INSTANCE AtomicTx WITH
    Irrevertible <- NoopRollback, phase <- Phase, world <- effect

(* The engine implements the abstract transaction: it commits only with    *)
(* every action in effect and claims a full revert only when the machine   *)
(* is back where it was (Engine.Apply, rollback).                          *)
ImplementsAtomicTx == Abstract!Spec
=============================================================================
