---------------------------- MODULE Orchestrate ----------------------------
(***************************************************************************)
(* The lifecycle of a run (internal/orchestrate, Prepare and Execute): the *)
(* engine, the journal, the lifecycle lock and state.json put together,    *)
(* with several processes, crashes at every step, failing writes, changes  *)
(* to the machine by others, and an operator who clears blocking records.  *)
(*                                                                         *)
(* One configuration is being enforced.  The machine is seen as a whole:   *)
(* "G" meets the configuration (the plan is empty), "A" and "M" do not     *)
(* ("M" is what a half-applied transaction leaves); the plan made from a   *)
(* view is determined by it, so equal views have equal fingerprints.       *)
(* While a mutating run is in flight the engine's variables describe its   *)
(* transaction; when the run ends or dies they are folded into base,       *)
(* final and the record.                                                   *)
(*                                                                         *)
(* The lock is the mutual exclusion the package documents; module Lock     *)
(* models how it is built.  All gates of Execute that precede the lock     *)
(* (readiness, typed specs, capabilities, executor coverage, provenance,   *)
(* confirmation, management probes) change nothing and refuse or pass.     *)
(***************************************************************************)
EXTENDS Engine, JournalOps

CONSTANTS
    Procs,          \* processes that run the program
    NoProc,         \* the lock is free
    Tx,             \* transaction ids; their number bounds the mutating runs
    Kind,           \* Kind[t][j]: kind of the j-th action of the plan that
                    \* runs as transaction t
    LoadsState      \* does the caller of Prepare pass the persisted state?

ASSUME OrchestrateConstants ==
    /\ NoProc \notin Procs
    /\ 0 \notin Tx
    /\ Kind \in [Tx -> [Actions -> STRING]]
    /\ N > 0
    /\ LoadsState \in BOOLEAN

NoTx == 0

VARIABLES
    ppc,        \* ppc[p]: next step of p's run
    view,       \* view[p]: the machine as p's plan saw it
    prior,      \* prior[p]: evidence claims of the state p was given
    holder,     \* the process that holds the lifecycle lock
    stage,      \* Outcome.Stage of the run that holds the lock
    base,       \* the machine without the transaction in flight
    tx,         \* the transaction in flight, or NoTx
    used,       \* transaction ids handed out
    journal,    \* journal[t]: the record on disk, or Absent
    final,      \* history: what transaction t did to the machine in the end
    saved       \* state.json: the machine it records, and its claims

lifeVars == <<ppc, view, prior, holder, stage>>
diskVars == <<journal, saved>>
vars == <<engineVars, lifeVars, base, tx, used, final, diskVars>>

Views == {"A", "G", "M"}
NoClaims == [j \in Actions |-> NoTx]
Claims == [Actions -> Tx \cup {NoTx}]
NoAct == [j \in Actions |-> "PENDING"]
Unchanged == [j \in Actions |-> "orig"]

PStates == {"idle", "planned", "locked", "fresh", "begin", "engine", "rediscover",
            "terminal", "gate", "save", "finalize", "release"}

StageNames == {"", "BLOCKED_PRE_MUTATION", "FAILED_TRANSACTION", "FAILED_REDISCOVERY",
               "FAILED_FINAL_VALIDATION", "FAILED_PERSIST", "COMPLETED"}

Outcomes == {"", "COMPLETED", "FAILED", "RECOVERY_REQUIRED"}

Record == [outcome : Outcomes, recovery : BOOLEAN, mut : {TRUE}, stage : StageNames \cup {"MUTATING"},
           rollback : {"", "ROLLED_BACK", "ROLLBACK_FAILED"}, status : [Actions -> Statuses]]

(* No record is the value that stands for a missing file. *)
ASSUME AbsentIsNoRecord == Absent \notin Record

TypeOK ==
    /\ EngineTypeOK
    /\ ppc \in [Procs -> PStates]
    /\ view \in [Procs -> Views]
    /\ prior \in [Procs -> Claims]
    /\ holder \in Procs \cup {NoProc}
    /\ stage \in StageNames
    /\ base \in Views
    /\ tx \in Tx \cup {NoTx}
    /\ used \subseteq Tx
    /\ journal \in [Tx -> Record \cup {Absent}]
    /\ final \in [Tx -> [Actions -> {"orig", "new", "dirty"}]]
    /\ saved \in [machine : Views \cup {"none"}, claims : Claims]

Init ==
    /\ EngineInit
    /\ ppc = [p \in Procs |-> "idle"]
    /\ view = [p \in Procs |-> "G"]
    /\ prior = [p \in Procs |-> NoClaims]
    /\ holder = NoProc
    /\ stage = ""
    /\ base \in {"A", "G"}
    /\ tx = NoTx
    /\ used = {}
    /\ journal = [t \in Tx |-> Absent]
    /\ final = [t \in Tx |-> Unchanged]
    /\ saved = [machine |-> "none", claims |-> NoClaims]

-----------------------------------------------------------------------------
(* NewTransactionID: ids are never handed out twice. *)
NextTx == CHOOSE t \in Tx \ used : TRUE

(* What a discovery of the machine finds now. *)
Machine ==
    IF effect = Unchanged THEN base
    ELSE IF \A j \in Actions : effect[j] = "new" THEN "G"
    ELSE "M"

(* planHasMutation: the plan made from this view has a mutating action. *)
Mutates(p) == view[p] # "G"

Goto(p, where) == ppc' = [ppc EXCEPT ![p] = where]

(* Execute returns with this stage; what is deferred still runs. *)
ReturnAt(p, where, st) == Goto(p, where) /\ stage' = st

(* The run is over: what it had in memory is gone. *)
Forget(p) ==
    /\ Goto(p, "idle")
    /\ view' = [view EXCEPT ![p] = "G"]
    /\ prior' = [prior EXCEPT ![p] = NoClaims]

Present == {t \in Tx : journal[t] # Absent}

(* The engine's variables go back to their initial values. *)
EngineReset ==
    /\ epc' = "idle" /\ cur' = 0 /\ todo' = <<>> /\ rbResult' = "nil"
    /\ res' = [j \in Actions |-> NoResult]
    /\ mem' = NoAct /\ durable' = NoAct /\ effect' = Unchanged
    /\ verdict' = "READY"

(* The run that holds the lock is over: keep what it did. *)
Fold ==
    /\ base' = Machine
    /\ final' = IF tx = NoTx THEN final ELSE [final EXCEPT ![tx] = effect]
    /\ tx' = NoTx
    /\ EngineReset

(* The record Begin writes: every action PENDING, no outcome yet. *)
NewRecord ==
    [outcome |-> "", recovery |-> FALSE, mut |-> TRUE, stage |-> "MUTATING",
     rollback |-> "", status |-> NoAct]

(* copyActionStatuses, its boolean result: a rollback failed. *)
AnyRollbackFailed == \E j \in Actions : RollbackFailed(res[j])

(* Seeded faults, used by the mutants only: the engine's verdict is taken  *)
(* for the outcome; the retry class of the actions is not considered.      *)
FailureRecordVerdict(st) ==
    [outcome |-> verdict, recovery |-> FALSE, mut |-> TRUE, stage |-> st, rollback |-> "",
     status |-> [j \in Actions |-> res[j].status]]

FailureRecordNoClass(st) ==
    [outcome  |-> IF AnyRollbackFailed THEN "RECOVERY_REQUIRED" ELSE "FAILED",
     recovery |-> AnyRollbackFailed, mut |-> TRUE, stage |-> st,
     rollback |-> IF AnyRollbackFailed THEN "ROLLBACK_FAILED"
                  ELSE IF verdict = "ROLLED_BACK" THEN "ROLLED_BACK" ELSE "",
     status   |-> [j \in Actions |-> res[j].status]]

(* The plan of transaction t has a no-autonomous-retry action. *)
Risky(t) == \E j \in Actions : ClassifyRetry(Kind[t][j]) = "no-autonomous-retry"

(* finalizeJournal: the record of a run that failed after the engine was   *)
(* reached.  A failed rollback latches always, any failure latches when    *)
(* the plan has a no-autonomous-retry action.                              *)
FailureRecord(st) ==
    LET latch == AnyRollbackFailed \/ Risky(tx)
    IN  [outcome  |-> IF latch THEN "RECOVERY_REQUIRED" ELSE "FAILED",
         recovery |-> latch,
         mut      |-> TRUE,
         stage    |-> st,
         rollback |-> IF AnyRollbackFailed THEN "ROLLBACK_FAILED"
                      ELSE IF verdict = "ROLLED_BACK" THEN "ROLLED_BACK" ELSE "",
         status   |-> [j \in Actions |-> res[j].status]]

(* finalizeJournalTerminal: the record of a verified success. *)
SuccessRecord ==
    [outcome |-> "COMPLETED", recovery |-> FALSE, mut |-> TRUE, stage |-> "COMPLETED",
     rollback |-> "", status |-> [j \in Actions |-> res[j].status]]

(* MintTransactionEvidence over the prior claims: each applied file action *)
(* gets a claim of this transaction, other identities keep theirs.         *)
Mint(claims) ==
    [j \in Actions |->
        IF Kind[tx][j] \in {"CREATE_FILE", "UPDATE_FILE"} /\ res[j].status = "APPLIED"
        THEN tx ELSE claims[j]]

-----------------------------------------------------------------------------
(* Seeded faults, used by the mutants only. *)
BeginIgnoresFailure(p) ==
    /\ ppc[p] = "begin"
    /\ LET t == NextTx IN
          /\ used' = used \cup {t}
          /\ tx' = t
          /\ journal' \in {journal, [journal EXCEPT ![t] = NewRecord]}
          /\ Goto(p, "engine")
    /\ UNCHANGED <<engineVars, view, prior, holder, stage, base, final, saved>>

JournalGateOpen(p) ==
    /\ ppc[p] = "fresh"
    /\ \/ /\ Mutates(p)
          /\ Tx \ used # {}
          /\ Goto(p, "begin") /\ UNCHANGED stage
       \/ ~Mutates(p) /\ Goto(p, "rediscover") /\ UNCHANGED stage
    /\ UNCHANGED <<engineVars, view, prior, holder, base, tx, used, final, diskVars>>

EngineReturnedBlind(p) ==
    /\ ppc[p] = "engine"
    /\ epc = "done"
    /\ Goto(p, "rediscover")
    /\ UNCHANGED <<engineVars, view, prior, holder, stage, base, tx, used, final, diskVars>>

RediscoverRetries(p) ==
    /\ ppc[p] = "rediscover"
    /\ Machine = "G"
    /\ Goto(p, IF tx = NoTx THEN "gate" ELSE "terminal")
    /\ UNCHANGED <<engineVars, view, prior, holder, stage, base, tx, used, final, diskVars>>

PersistGateRetries(p) ==
    /\ ppc[p] = "gate"
    /\ \/ /\ \A t \in Present \ {tx} : ~BlocksPersistence(journal[t], Mutates(p))
          /\ Goto(p, "save")
       \/ Goto(p, "rediscover")
    /\ UNCHANGED <<engineVars, view, prior, holder, stage, base, tx, used, final, diskVars>>

TerminalWriteThenFinalize(p) ==
    /\ ppc[p] = "terminal"
    /\ \/ /\ journal' = [journal EXCEPT ![tx] = SuccessRecord]
          /\ Goto(p, "gate")
          /\ UNCHANGED stage
       \/ /\ journal' \in {journal, [journal EXCEPT ![tx] = SuccessRecord]}
          /\ ReturnAt(p, "finalize", "FAILED_PERSIST")
    /\ UNCHANGED <<engineVars, view, prior, holder, base, tx, used, final, saved>>

TerminalWriteIgnored(p) ==
    /\ ppc[p] = "terminal"
    /\ journal' \in {journal, [journal EXCEPT ![tx] = SuccessRecord]}
    /\ Goto(p, "gate")
    /\ UNCHANGED <<engineVars, view, prior, holder, stage, base, tx, used, final, saved>>

-----------------------------------------------------------------------------
(* Prepare: read-only.  The plan is made from the machine as it is now,    *)
(* and the caller may hand over the state file as it is now.               *)
Prepare(p) ==
    /\ ppc[p] = "idle"
    /\ view' = [view EXCEPT ![p] = Machine]
    /\ prior' = [prior EXCEPT ![p] = IF LoadsState THEN saved.claims ELSE NoClaims]
    /\ Goto(p, "planned")
    /\ UNCHANGED <<engineVars, holder, stage, base, tx, used, final, diskVars>>

(* Execute up to the lock: a gate refuses, or the lock is taken by another. *)
Refused(p) ==
    /\ ppc[p] = "planned"
    /\ Forget(p)
    /\ UNCHANGED <<engineVars, holder, stage, base, tx, used, final, diskVars>>

AcquireLock(p) ==
    /\ ppc[p] = "planned"
    /\ holder = NoProc
    /\ holder' = p
    /\ Goto(p, "locked")
    /\ stage' = ""
    /\ UNCHANGED <<engineVars, view, prior, base, tx, used, final, diskVars>>

(* Staleness gate: discover again under the lock and compare fingerprints; *)
(* then the executors' own preflight, which may also refuse.               *)
CheckFresh(p) ==
    /\ ppc[p] = "locked"
    /\ \/ Machine = view[p] /\ Goto(p, "fresh") /\ UNCHANGED stage
       \/ ReturnAt(p, "release", "BLOCKED_PRE_MUTATION")
    /\ UNCHANGED <<engineVars, view, prior, holder, base, tx, used, final, diskVars>>

(* Journal gate of a mutating run: no blocking record, every kind has a    *)
(* retry class; the host identity may be unavailable.  A run that mutates  *)
(* nothing needs no record; its actions, if any, only validate.            *)
JournalGate(p) ==
    /\ ppc[p] = "fresh"
    /\ \/ /\ Mutates(p)
          /\ \A t \in Present : ~Blocking(journal[t])
          /\ Tx \ used # {}     \* bound: transaction ids
          /\ \A j \in Actions : ClassifyRetry(Kind[NextTx][j]) # "unclassified"
          /\ Goto(p, "begin") /\ UNCHANGED stage
       \/ Mutates(p) /\ ReturnAt(p, "release", "BLOCKED_PRE_MUTATION")
       \/ ~Mutates(p) /\ Goto(p, "rediscover") /\ UNCHANGED stage
       \/ ~Mutates(p) /\ ReturnAt(p, "release", "FAILED_TRANSACTION")
    /\ UNCHANGED <<engineVars, view, prior, holder, base, tx, used, final, diskVars>>

(* Journal.Begin under a fresh id.  A failed write leaves no file, or the  *)
(* file when only the directory fsync failed; either way the run is        *)
(* blocked before the first executor call.                                 *)
Begin(p) ==
    /\ ppc[p] = "begin"
    /\ LET t == NextTx IN
          /\ used' = used \cup {t}
          /\ \/ /\ journal' = [journal EXCEPT ![t] = NewRecord]
                /\ tx' = t
                /\ Goto(p, "engine") /\ UNCHANGED stage
             \/ /\ journal' \in {journal, [journal EXCEPT ![t] = NewRecord]}
                /\ UNCHANGED tx
                /\ ReturnAt(p, "release", "BLOCKED_PRE_MUTATION")
    /\ UNCHANGED <<engineVars, view, prior, holder, base, final, saved>>

(* One step of Engine.Apply; the progress sink writes the record's action  *)
(* statuses, and never creates a record.                                   *)
RunEngine(p) ==
    /\ ppc[p] = "engine"
    /\ EngineStep
    /\ journal' = [t \in Tx |-> IF t = tx /\ journal[t] # Absent
                               THEN [journal[t] EXCEPT !.status = durable'] ELSE journal[t]]
    /\ UNCHANGED <<lifeVars, base, tx, used, final, saved>>

(* The engine returned. *)
EngineReturned(p) ==
    /\ ppc[p] = "engine"
    /\ epc = "done"
    /\ \/ verdict = "APPLIED" /\ Goto(p, "rediscover") /\ UNCHANGED stage
       \/ verdict # "APPLIED" /\ ReturnAt(p, "finalize", "FAILED_TRANSACTION")
    /\ UNCHANGED <<engineVars, view, prior, holder, base, tx, used, final, diskVars>>

(* Discovery, validation of every action and of the machine, convergence   *)
(* of the rebuilt model: only a machine that meets the configuration       *)
(* passes.  A failure of a mutating run goes to the deferred finalizer.    *)
Rediscover(p) ==
    /\ ppc[p] = "rediscover"
    /\ \/ /\ Machine = "G"
          /\ Goto(p, IF tx = NoTx THEN "gate" ELSE "terminal") /\ UNCHANGED stage
       \/ \E st \in {"FAILED_REDISCOVERY", "FAILED_FINAL_VALIDATION"} :
             ReturnAt(p, IF tx = NoTx THEN "release" ELSE "finalize", st)
    /\ UNCHANGED <<engineVars, view, prior, holder, base, tx, used, final, diskVars>>

(* The terminal COMPLETED write, before any state is persisted.  When it   *)
(* fails the run ends without another write to the journal.                *)
TerminalWrite(p) ==
    /\ ppc[p] = "terminal"
    /\ \/ /\ journal' = [journal EXCEPT ![tx] = SuccessRecord]
          /\ Goto(p, "gate")
          /\ UNCHANGED stage
       \/ /\ journal' \in {journal, [journal EXCEPT ![tx] = SuccessRecord]}
          /\ ReturnAt(p, "release", "FAILED_PERSIST")
    /\ UNCHANGED <<engineVars, view, prior, holder, base, tx, used, final, saved>>

(* Anti-laundering: PersistenceBlockers over the other transactions; the   *)
(* journal may also fail to load, and minting the evidence may fail.       *)
PersistGate(p) ==
    /\ ppc[p] = "gate"
    /\ \/ /\ \A t \in Present \ {tx} : ~BlocksPersistence(journal[t], Mutates(p))
          /\ Goto(p, "save") /\ UNCHANGED stage
       \/ ReturnAt(p, "release", "FAILED_FINAL_VALIDATION")
    /\ UNCHANGED <<engineVars, view, prior, holder, base, tx, used, final, diskVars>>

(* SaveModel with the claims of the state handed to Prepare, those of this *)
(* transaction merged in.  A failed write leaves the old file or the new.  *)
Save(p) ==
    /\ ppc[p] = "save"
    /\ LET new == [machine |-> "G", claims |-> IF tx = NoTx THEN prior[p] ELSE Mint(prior[p])]
       IN  \/ saved' = new /\ ReturnAt(p, "release", "COMPLETED")
           \/ saved' \in {saved, new} /\ ReturnAt(p, "release", "FAILED_PERSIST")
    /\ UNCHANGED <<engineVars, view, prior, holder, base, tx, used, final, journal>>

(* The deferred finalizer of a failed mutating run; its write may fail. *)
Finalize(p) ==
    /\ ppc[p] = "finalize"
    /\ journal' \in {journal, [journal EXCEPT ![tx] = FailureRecord(stage)]}
    /\ Goto(p, "release")
    /\ UNCHANGED <<engineVars, view, prior, holder, stage, base, tx, used, final, saved>>

(* The deferred lock release: Execute has returned. *)
ReleaseLock(p) ==
    /\ ppc[p] = "release"
    /\ holder' = NoProc
    /\ stage' = ""
    /\ Forget(p)
    /\ Fold
    /\ UNCHANGED <<used, diskVars>>

(* The process dies.  The kernel frees the lock; disk and machine stay. *)
Crash(p) ==
    /\ ppc[p] # "idle"
    /\ Forget(p)
    /\ IF holder = p
       THEN holder' = NoProc /\ stage' = "" /\ Fold
       ELSE UNCHANGED <<engineVars, holder, stage, base, tx, final>>
    /\ UNCHANGED <<used, diskVars>>

(* Somebody else changes the machine, whenever no transaction has touched  *)
(* it yet.                                                                 *)
Drift ==
    /\ effect = Unchanged
    /\ base' \in {"A", "G"} \ {base}
    /\ UNCHANGED <<engineVars, lifeVars, tx, used, final, diskVars>>

(* After review an operator removes a blocking or failed record while      *)
(* nothing runs; the transaction is settled and its history forgotten.     *)
OperatorClear ==
    /\ holder = NoProc
    /\ \E t \in Present :
          /\ journal[t].outcome # "COMPLETED"
          /\ journal' = [journal EXCEPT ![t] = Absent]
          /\ final' = [final EXCEPT ![t] = Unchanged]
    /\ UNCHANGED <<engineVars, lifeVars, base, tx, used, saved>>

(* The part of a run that goes on by itself once the lock is held. *)
Execute(p) ==
    \/ CheckFresh(p) \/ JournalGate(p) \/ Begin(p)
    \/ RunEngine(p) \/ EngineReturned(p) \/ Rediscover(p)
    \/ TerminalWrite(p) \/ PersistGate(p) \/ Save(p)
    \/ Finalize(p) \/ ReleaseLock(p)

Next ==
    \/ \E p \in Procs : Prepare(p) \/ Refused(p) \/ AcquireLock(p) \/ Execute(p) \/ Crash(p)
    \/ Drift
    \/ OperatorClear

(* A process that holds the lock is not suspended for ever and every call  *)
(* it makes returns.                                                       *)
Fairness == \A p \in Procs : WF_vars(Execute(p))

Spec == Init /\ [][Next]_vars /\ Fairness

-----------------------------------------------------------------------------
(* What transaction t has done to the machine so far. *)
EffectOf(t) == IF t = tx THEN effect ELSE final[t]

(* Write-ahead: "every mutating transaction journals BEFORE the first      *)
(* possibly mutating operation".  Whenever an action has changed the       *)
(* machine, its transaction has a record on disk, in progress for as long  *)
(* as the engine runs - also at the moment the process dies.               *)
JournaledBeforeMutation ==
    effect # Unchanged =>
        /\ tx # NoTx
        /\ journal[tx] # Absent
        /\ epc # "done" => journal[tx].outcome = ""

(* A crashed transaction stops everything: there is never more than one    *)
(* record without an outcome, and while one is open or latched no other    *)
(* transaction changes the machine.                                        *)
CrashedBlocksOthers ==
    \A t \in Present : Blocking(journal[t]) =>
        /\ \A u \in Present \ {t} : journal[u].outcome # ""
        /\ tx # t => effect = Unchanged

(* "Clearing a recovery-required record is an operator action - no code    *)
(* path clears it", and a COMPLETED record is never downgraded: a record   *)
(* with an outcome changes no more, except by the operator.                *)
TerminalIsFinal ==
    [][\A t \in Tx : journal[t] # Absent /\ journal[t].outcome # "" /\ journal'[t] # journal[t]
          => holder = NoProc /\ journal'[t] = Absent]_vars

(* A failure is never played down.  A record that reports a plain FAILED   *)
(* after a rollback stands for a machine on which nothing of the           *)
(* transaction is left (finalizeJournal, Engine.rollback); and a           *)
(* transaction with a no-autonomous-retry action never ends as a plain     *)
(* FAILED after it changed something, so it blocks later mutations until   *)
(* the operator clears it - also when it dies.                             *)
FailureLatches ==
    \A t \in Present :
        /\ journal[t].outcome = "FAILED" /\ journal[t].rollback = "ROLLED_BACK" =>
              \A j \in Actions \ NoopRollback : EffectOf(t)[j] = "orig"
        /\ Risky(t) /\ EffectOf(t) # Unchanged /\ t # tx =>
              Blocking(journal[t]) \/ journal[t].outcome = "COMPLETED"

(* A COMPLETED record is proof: every action is recorded APPLIED and was   *)
(* in effect when the run ended.                                           *)
CompletedIsProof ==
    \A t \in Present : journal[t].outcome = "COMPLETED" =>
        \A j \in Actions : journal[t].status[j] = "APPLIED" /\ EffectOf(t)[j] = "new"

(* Anti-laundering: state.json is never written while the journal holds a  *)
(* transaction of somebody else that is open or latched; and a run that    *)
(* changes nothing never writes it over a failed transaction whose changes *)
(* are still on the machine.                                               *)
NoLaundering ==
    [][saved' # saved =>
          \A t \in Present \ {tx} :
             /\ ~Blocking(journal[t])
             /\ tx = NoTx /\ EffectOf(t) # Unchanged => journal[t].outcome = "COMPLETED"]_vars

(* Journal-terminal-first: every evidence claim in state.json names a      *)
(* transaction whose COMPLETED record is on disk, whatever crashed.        *)
EvidenceHasProof ==
    \A j \in Actions : saved.claims[j] # NoTx =>
        /\ saved.claims[j] \in Present
        /\ journal[saved.claims[j]].outcome = "COMPLETED"

(* A bound on the steps the run of p can still take once it holds the lock. *)
RunStepsLeft(p) ==
    CASE ppc[p] = "locked"     -> 6 * N + 12
      [] ppc[p] = "fresh"      -> 6 * N + 11
      [] ppc[p] = "begin"      -> 6 * N + 10
      [] ppc[p] = "engine"     -> StepsLeft + 6
      [] ppc[p] = "rediscover" -> 5
      [] ppc[p] = "terminal"   -> 4
      [] ppc[p] = "gate"       -> 3
      [] ppc[p] \in {"save", "finalize"} -> 2
      [] ppc[p] = "release"    -> 1
      [] OTHER                 -> 0

(* Execute holds the lifecycle lock for a bounded number of steps, on      *)
(* every path through its gates, the engine, its rollback and the deferred *)
(* finalizer: each step of the holder gives the lock back or brings that   *)
(* nearer, and what others do meanwhile neither sets it back nor writes    *)
(* the journal or state.json.                                              *)
RunIsBounded ==
    [][\A p \in Procs : holder = p =>
          \/ holder' # p
          \/ RunStepsLeft(p)' \in 1..(RunStepsLeft(p) - 1)
          \/ UNCHANGED <<ppc[p], engineVars, stage, tx, diskVars>>]_vars

(* A run that holds the lock always comes to an end and gives it back. *)
LockIsReleased == \A p \in Procs : holder = p ~> holder # p
=============================================================================
