------------------------------- MODULE Ledger -------------------------------
(***************************************************************************)
(* What the lifecycle promises to whoever reads the journal and state.json *)
(* afterwards, without locks, processes, engine or records.                *)
(*                                                                         *)
(* Every transaction has one life: it is opened, perhaps works on the      *)
(* machine, is settled once, and is spent when the operator clears it; a   *)
(* transaction left open by a dead run stays open and is never resumed.    *)
(* Only the transaction that is driven works, and only while no other one  *)
(* is open or latched.  What a settled life says is true of the machine.   *)
(***************************************************************************)
CONSTANTS
    Tx,             \* transaction ids
    NoTx,           \* no transaction
    Actions,        \* the actions of a plan
    Irrevertible,   \* actions without a real rollback
    RiskyTx         \* transactions with an action that must not be retried

VARIABLES
    life,       \* life[t]: what the journal says of t
    world,      \* world[t]: what t has done to the machine
    driven,     \* the transaction a run carries out, or NoTx
    claims      \* the transactions state.json appeals to

vars == <<life, world, driven, claims>>

Lives == {"none", "open", "completed", "reverted", "failed", "latched", "spent"}
Worlds == [Actions -> {"orig", "new", "dirty"}]
Untouched == [j \in Actions |-> "orig"]

Init ==
    /\ life = [t \in Tx |-> "none"]
    /\ world = [t \in Tx |-> Untouched]
    /\ driven = NoTx
    /\ claims = {}

(* No other transaction stands in the way of t. *)
Undisturbed(t) == \A u \in Tx \ {t} : life[u] \notin {"open", "latched"}

(* A new transaction is on record before anything of it is done; a run     *)
(* whose record is in doubt does not go on.                                *)
Open(t) ==
    /\ driven = NoTx /\ life[t] = "none" /\ Undisturbed(t)
    /\ life' = [life EXCEPT ![t] = "open"]
    /\ driven' \in {t, NoTx}
    /\ UNCHANGED <<world, claims>>

(* No record came about; the id is not used again. *)
Spend(t) ==
    /\ life[t] = "none"
    /\ life' = [life EXCEPT ![t] = "spent"]
    /\ UNCHANGED <<world, driven, claims>>

Work(t) ==
    /\ driven = t /\ life[t] = "open" /\ Undisturbed(t)
    /\ UNCHANGED <<life, driven, claims>>
    /\ \E w \in Worlds : world' = [world EXCEPT ![t] = w]

(* What may be written as the end of t. *)
True(t, end) ==
    \/ end = "completed" /\ \A j \in Actions : world[t][j] = "new"
    \/ end = "reverted" /\ t \notin RiskyTx /\ \A j \in Actions \ Irrevertible : world[t][j] = "orig"
    \/ end = "failed" /\ t \notin RiskyTx
    \/ end = "latched"

Settle(t) ==
    /\ driven = t /\ life[t] = "open"
    /\ UNCHANGED <<world, driven, claims>>
    /\ \E end \in Lives : True(t, end) /\ life' = [life EXCEPT ![t] = end]

(* The run returns, or dies, wherever it is. *)
Leave ==
    /\ driven' = NoTx
    /\ UNCHANGED <<life, world, claims>>

(* state.json is written: by a completed run, or by one that drives no     *)
(* transaction and finds nothing left behind.                              *)
Persist ==
    /\ driven # NoTx => life[driven] = "completed"
    /\ Undisturbed(driven)
    /\ driven = NoTx => \A t \in Tx : world[t] # Untouched => life[t] = "completed"
    /\ claims' \subseteq {t \in Tx : life[t] = "completed"}
    /\ UNCHANGED <<life, world, driven>>

(* The operator settles what did not complete, and it is forgotten. *)
Clear(t) ==
    /\ driven = NoTx /\ life[t] \in {"open", "reverted", "failed", "latched"}
    /\ life' = [life EXCEPT ![t] = "spent"]
    /\ world' = [world EXCEPT ![t] = Untouched]
    /\ UNCHANGED <<driven, claims>>

Next ==
    \/ \E t \in Tx : Open(t) \/ Spend(t) \/ Work(t) \/ Settle(t) \/ Clear(t)
    \/ Leave
    \/ Persist

Spec == Init /\ [][Next]_vars
=============================================================================
