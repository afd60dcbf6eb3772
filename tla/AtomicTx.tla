------------------------------ MODULE AtomicTx ------------------------------
(***************************************************************************)
(* What a transaction of the engine promises, without the how: while it is *)
(* open it may change its actions' resources in any order; it ends either  *)
(* committed with every action in effect, or reverted with every           *)
(* revertible action back in its original state, or openly unresolved.     *)
(***************************************************************************)
CONSTANTS
    Actions,        \* the actions of the plan
    Irrevertible    \* actions without a real rollback

VARIABLES phase, world

vars == <<phase, world>>

Worlds == [Actions -> {"orig", "new", "dirty"}]

Init == phase = "open" /\ world = [a \in Actions |-> "orig"]

Work ==
    /\ phase = "open"
    /\ \E a \in Actions, e \in {"orig", "new", "dirty"} : world' = [world EXCEPT ![a] = e]
    /\ UNCHANGED phase

Commit ==
    /\ phase = "open"
    /\ \A a \in Actions : world[a] = "new"
    /\ phase' = "committed"
    /\ UNCHANGED world

Revert ==
    /\ phase = "open"
    /\ \A a \in Actions \ Irrevertible : world[a] = "orig"
    /\ phase' = "reverted"
    /\ UNCHANGED world

GiveUp ==
    /\ phase = "open"
    /\ phase' = "unresolved"
    /\ UNCHANGED world

Next == Work \/ Commit \/ Revert \/ GiveUp

Spec == Init /\ [][Next]_vars
=============================================================================
