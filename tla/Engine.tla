------------------------------- MODULE Engine -------------------------------
(***************************************************************************)
(* The transaction engine (internal/apply, Engine.Apply and rollback) with *)
(* the progress sink that orchestrate hands it.                            *)
(*                                                                         *)
(* A plan is a sequence of N actions.  For each one the engine calls the   *)
(* executor's Backup, Apply and Validate; the first failure rolls back     *)
(* what was done.  After every executor call that matters it reports to    *)
(* the progress sink, which changes the action's status in the in-memory   *)
(* journal record and rewrites the whole record on disk.  Executor calls   *)
(* and journal writes are separate steps, since a crash may come between.  *)
(*                                                                         *)
(* Executors (files, services, SSH) are modelled by their contract: Apply  *)
(* takes full effect or fails after having changed anything or nothing;    *)
(* Rollback returns nil when the original state is back, except for the    *)
(* actions in NoopRollback (a service action without a rollback operation  *)
(* reports success and does nothing).                                      *)
(***************************************************************************)
EXTENDS Integers, Sequences

CONSTANTS
    N,              \* number of actions in the plan
    NoopRollback    \* actions whose Rollback succeeds without reverting

ASSUME EngineConstants == N \in Nat /\ NoopRollback \subseteq 1..N

Actions == 1..N

VARIABLES
    epc,        \* next step of Engine.Apply
    cur,        \* index of the action in hand
    todo,       \* actions still to roll back, in order
    rbResult,   \* what the last executor Rollback returned
    res,        \* Transaction.Actions: status, and whether the error text
                \* carries "; rollback: "
    mem,        \* action statuses of the in-memory journal record
    durable,    \* action statuses of the journal record on disk
    effect,     \* what each action has done to the machine
    verdict     \* Transaction.Status

engineVars == <<epc, cur, todo, rbResult, res, mem, durable, effect, verdict>>

Statuses == {"PENDING", "APPLIED", "APPLY_FAILED", "BACKUP_FAILED",
             "VALIDATION_FAILED", "ROLLED_BACK", "ROLLBACK_FAILED"}

NoResult == [status |-> "PENDING", rbErr |-> FALSE]

EngineTypeOK ==
    /\ epc \in {"idle", "backup", "apply", "applied", "validate", "failed",
                "rollback", "rolledback", "done"}
    /\ cur \in 0..N
    /\ todo \in Seq(Actions)
    /\ rbResult \in {"nil", "error"}
    /\ res \in [Actions -> [status : Statuses, rbErr : BOOLEAN]]
    /\ mem \in [Actions -> Statuses]
    /\ durable \in [Actions -> Statuses]
    /\ effect \in [Actions -> {"orig", "new", "dirty"}]
    /\ verdict \in {"READY", "APPLIED", "ROLLED_BACK"}

EngineInit ==
    /\ epc = "idle"
    /\ cur = 0
    /\ todo = <<>>
    /\ rbResult = "nil"
    /\ res = [j \in Actions |-> NoResult]
    /\ mem = [j \in Actions |-> "PENDING"]
    /\ durable = [j \in Actions |-> "PENDING"]
    /\ effect = [j \in Actions |-> "orig"]
    /\ verdict = "READY"

(* The engine proceeds to action i, or ends when there is none. *)
GoTo(i) ==
    IF i > N
    THEN epc' = "done" /\ verdict' = "APPLIED" /\ UNCHANGED cur
    ELSE epc' = "backup" /\ cur' = i /\ UNCHANGED verdict

(* i, i-1, ..., 1 *)
Down(i) == [k \in 1..i |-> i + 1 - k]

(* Seeded fault, used by a mutant only: the failed action itself is not undone. *)
UndoOrderForgetsCurrent(i, status) ==
    CASE status = "VALIDATION_FAILED" -> Down(i)
      [] OTHER                        -> Down(i - 1)

(* The order in which a failure of action i is undone: the completed       *)
(* actions from the last to the first, and an action whose Apply failed    *)
(* after all of them.                                                      *)
UndoOrder(i, status) ==
    CASE status = "BACKUP_FAILED"     -> Down(i - 1)
      [] status = "VALIDATION_FAILED" -> Down(i)
      [] OTHER                        -> Append(Down(i - 1), i)

(* The progress sink: set the status in memory, then Journal.Update.  The  *)
(* write succeeds; or it fails and leaves the old file, or the new one     *)
(* when only the directory fsync failed.                                   *)
Emit(i, status) == mem' = [mem EXCEPT ![i] = status]
WriteOk == durable' = mem'
WriteFails == durable' \in {durable, mem'}

-----------------------------------------------------------------------------
(* Seeded faults, used by the mutants only. *)
AppliedIgnoresWrite ==
    /\ epc = "applied"
    /\ Emit(cur, "APPLIED")
    /\ WriteOk \/ WriteFails
    /\ epc' = "validate"
    /\ UNCHANGED <<cur, todo, rbResult, res, effect, verdict>>

RolledBackWithoutResult ==
    /\ epc = "rolledback"
    /\ LET j == Head(todo) IN
          /\ Emit(j, "ROLLED_BACK")
          /\ WriteOk
          /\ res' = [res EXCEPT ![j].status = "ROLLED_BACK"]
    /\ todo' = Tail(todo)
    /\ epc' = "rollback"
    /\ UNCHANGED <<cur, rbResult, effect, verdict>>

RolledBackRetries ==
    /\ epc = "rolledback"
    /\ LET j == Head(todo)
       IN  \/ /\ rbResult = "nil"
              /\ Emit(j, "ROLLED_BACK")
              /\ WriteOk
              /\ res' = [res EXCEPT ![j].status = "ROLLED_BACK"]
              /\ todo' = Tail(todo)
           \/ rbResult = "error" /\ UNCHANGED <<mem, durable, res, todo>>
    /\ epc' = "rollback"
    /\ UNCHANGED <<cur, rbResult, effect, verdict>>

RollbackOnce ==
    /\ epc = "rollback"
    /\ todo # <<>>
    /\ \E r \in {"nil", "error"}, e \in {"orig", "new", "dirty"} :
          /\ r = "nil" => e = IF Head(todo) \in NoopRollback THEN effect[Head(todo)] ELSE "orig"
          /\ rbResult' = r
          /\ effect' = [effect EXCEPT ![Head(todo)] = e]
    /\ epc' = "done"
    /\ UNCHANGED <<cur, todo, res, mem, durable, verdict>>

-----------------------------------------------------------------------------
(* Engine.Apply is called with a ready preflight gate. *)
Start ==
    /\ epc = "idle"
    /\ GoTo(1)
    /\ UNCHANGED <<todo, rbResult, res, mem, durable, effect>>

(* Executor.Backup *)
Backup ==
    /\ epc = "backup"
    /\ \/ epc' = "apply" /\ UNCHANGED res
       \/ epc' = "failed" /\ res' = [res EXCEPT ![cur].status = "BACKUP_FAILED"]
    /\ UNCHANGED <<cur, todo, rbResult, mem, durable, effect, verdict>>

(* Executor.Apply: nil, or an error after any change to the machine. *)
Apply ==
    /\ epc = "apply"
    /\ \/ /\ effect' = [effect EXCEPT ![cur] = "new"]
          /\ epc' = "applied"
          /\ UNCHANGED res
       \/ /\ \E e \in {"orig", "new", "dirty"} : effect' = [effect EXCEPT ![cur] = e]
          /\ res' = [res EXCEPT ![cur].status = "APPLY_FAILED"]
          /\ epc' = "failed"
    /\ UNCHANGED <<cur, todo, rbResult, mem, durable, verdict>>

(* progress(APPLIED): losing this proof fails the action. *)
Applied ==
    /\ epc = "applied"
    /\ Emit(cur, "APPLIED")
    /\ \/ WriteOk /\ epc' = "validate" /\ UNCHANGED res
       \/ WriteFails /\ epc' = "failed" /\ res' = [res EXCEPT ![cur].status = "APPLY_FAILED"]
    /\ UNCHANGED <<cur, todo, rbResult, effect, verdict>>

(* Executor.Validate *)
Validate ==
    /\ epc = "validate"
    /\ \/ /\ res' = [res EXCEPT ![cur].status = "APPLIED"]
          /\ GoTo(cur + 1)
       \/ /\ res' = [res EXCEPT ![cur].status = "VALIDATION_FAILED"]
          /\ epc' = "failed"
          /\ UNCHANGED <<cur, verdict>>
    /\ UNCHANGED <<todo, rbResult, mem, durable, effect>>

(* progress of the failure, whose own write result is ignored; the actions *)
(* to undo are now fixed.                                                  *)
Failed ==
    /\ epc = "failed"
    /\ Emit(cur, res[cur].status)
    /\ WriteOk \/ WriteFails
    /\ todo' = UndoOrder(cur, res[cur].status)
    /\ epc' = "rollback"
    /\ UNCHANGED <<cur, rbResult, res, effect, verdict>>

(* Executor.Rollback of the next action to undo. *)
Rollback ==
    /\ epc = "rollback"
    /\ todo # <<>>
    /\ \E r \in {"nil", "error"}, e \in {"orig", "new", "dirty"} :
          /\ r = "nil" => e = IF Head(todo) \in NoopRollback THEN effect[Head(todo)] ELSE "orig"
          /\ rbResult' = r
          /\ effect' = [effect EXCEPT ![Head(todo)] = e]
    /\ epc' = "rolledback"
    /\ UNCHANGED <<cur, todo, res, mem, durable, verdict>>

(* progress(ROLLED_BACK or ROLLBACK_FAILED): a revert without durable      *)
(* proof counts as a failed rollback; when the rollback of the action      *)
(* whose Apply failed fails too, its status stays APPLY_FAILED and the     *)
(* error text gets "; rollback: ".                                         *)
RolledBack ==
    /\ epc = "rolledback"
    /\ LET j == Head(todo)
           applyFailed == j = cur /\ res[cur].status = "APPLY_FAILED"
       IN  \/ /\ rbResult = "nil"
              /\ Emit(j, "ROLLED_BACK")
              /\ \/ WriteOk /\ res' = [res EXCEPT ![j].status = "ROLLED_BACK"]
                 \/ WriteFails /\ res' = [res EXCEPT ![j].status = "ROLLBACK_FAILED"]
           \/ /\ rbResult = "error"
              /\ Emit(j, "ROLLBACK_FAILED")
              /\ WriteOk \/ WriteFails
              /\ res' = IF applyFailed
                        THEN [res EXCEPT ![j].rbErr = TRUE]
                        ELSE [res EXCEPT ![j].status = "ROLLBACK_FAILED"]
    /\ todo' = Tail(todo)
    /\ epc' = "rollback"
    /\ UNCHANGED <<cur, rbResult, effect, verdict>>

(* Nothing left to undo: the transaction is reported ROLLED_BACK. *)
Finish ==
    /\ epc = "rollback"
    /\ todo = <<>>
    /\ epc' = "done"
    /\ verdict' = "ROLLED_BACK"
    /\ UNCHANGED <<cur, todo, rbResult, res, mem, durable, effect>>

EngineStep ==
    \/ Start \/ Backup \/ Apply \/ Applied \/ Validate
    \/ Failed \/ Rollback \/ RolledBack \/ Finish

(* Executor calls and file operations return, so the engine never stalls. *)
EngineSpec == EngineInit /\ [][EngineStep]_engineVars /\ WF_engineVars(EngineStep)

-----------------------------------------------------------------------------
(* copyActionStatuses: the transaction carries a failed rollback. *)
RollbackFailed(r) == r.status = "ROLLBACK_FAILED" \/ r.rbErr

(* A durable ROLLED_BACK is proof of the revert, at every moment at which  *)
(* the process may die: "a nil return is proof" of the executor contract   *)
(* carried over to the journal.                                            *)
RolledBackIsProof ==
    \A j \in Actions \ NoopRollback : durable[j] = "ROLLED_BACK" => effect[j] = "orig"

(* "A successful mutation without durable evidence must not continue as if *)
(* proof existed": the engine touches an action only after every earlier   *)
(* one is durably APPLIED.                                                 *)
ProofBeforeNextAction ==
    epc \in {"backup", "apply"} => \A j \in 1..(cur - 1) : durable[j] = "APPLIED"

(* When the engine ends without APPLIED, every action that still differs   *)
(* from its original state is reported as a failed rollback: nothing is    *)
(* left behind silently.                                                   *)
NothingLeftSilently ==
    epc = "done" /\ verdict # "APPLIED" =>
        \A j \in Actions \ NoopRollback : effect[j] # "orig" => RollbackFailed(res[j])

(* What the classifier relies on ("Apply never ran for this action"): a    *)
(* status PENDING or BACKUP_FAILED in the engine's final report means that *)
(* the action changed nothing.                                             *)
UntouchedIsUntouched ==
    epc = "done" =>
        \A j \in Actions : res[j].status \in {"PENDING", "BACKUP_FAILED"} => effect[j] = "orig"

(* A bound on the steps the engine can still take: four for each action it *)
(* has yet to do, two for each action it may have to undo, and the end.    *)
StepsLeft ==
    CASE epc = "idle"       -> 6 * N + 3
      [] epc = "backup"     -> 4 * (N - cur) + 2 * N + 6
      [] epc = "apply"      -> 4 * (N - cur) + 2 * N + 5
      [] epc = "applied"    -> 4 * (N - cur) + 2 * N + 4
      [] epc = "validate"   -> 4 * (N - cur) + 2 * N + 3
      [] epc = "failed"     -> 2 * N + 2
      [] epc = "rollback"   -> 2 * Len(todo) + 1
      [] epc = "rolledback" -> 2 * Len(todo)
      [] OTHER              -> 0

(* Every step of Engine.Apply brings its end nearer, whatever fails: a     *)
(* plan is tried once and undone once, no executor call is repeated, and   *)
(* no failure - not even one of a rollback or of a journal write - leads   *)
(* back to work already done.                                              *)
EngineIsBounded == [][StepsLeft' \in 0..(StepsLeft - 1)]_engineVars

(* The engine always comes to an end. *)
EngineTerminates == <>(epc = "done")
=============================================================================
