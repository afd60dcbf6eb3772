--------------------------- MODULE LifecycleProof ---------------------------
(***************************************************************************)
(* Proofs about the lifecycle of a run, for any number of processes, any   *)
(* number of transactions and plans of any length.  The engine's part of   *)
(* the argument is the invariant of EngineProof; what is added here is who *)
(* may write which record, and when.                                       *)
(***************************************************************************)
EXTENDS MCLifecycle, EngineProof

InFlight == {"engine", "rediscover", "terminal", "gate", "save", "finalize", "release"}
AfterEngine == InFlight \ {"engine"}

(* A process is past its plan exactly when it holds the lock. *)
LockInv == \A p \in Procs : holder = p <=> ppc[p] \notin {"idle", "planned"}

(* Without a transaction in flight the engine is at rest. *)
RestInv == tx = NoTx => EngineInit

(* A transaction in flight belongs to the holder of the lock, has a record *)
(* on disk, and no other record blocks.                                    *)
FlightInv ==
    tx # NoTx =>
        /\ holder \in Procs
        /\ ppc[holder] \in InFlight
        /\ journal[tx] # Absent
        /\ \A t \in Present \ {tx} : ~Blocking(journal[t])

(* What a run knows at each of its steps. *)
Knows(p) ==
    /\ ppc[p] = "begin" => Tx \ used # {} /\ \A t \in Present : ~Blocking(journal[t])
    /\ ppc[p] \in {"engine", "terminal", "finalize"} => tx # NoTx
    /\ ppc[p] \in {"engine", "rediscover", "terminal", "finalize"} /\ tx # NoTx =>
          journal[tx].outcome = ""
    /\ ppc[p] \in AfterEngine /\ tx # NoTx => epc = "done"
    /\ ppc[p] \in {"rediscover", "terminal", "gate", "save"} /\ tx # NoTx => verdict = "APPLIED"
    /\ ppc[p] \in {"gate", "save"} /\ tx # NoTx => journal[tx].outcome = "COMPLETED"
    /\ ppc[p] \in {"rediscover", "gate", "save"} /\ tx = NoTx => ~Mutates(p)
    /\ ppc[p] = "save" => \A t \in Present \ {tx} : ~BlocksPersistence(journal[t], Mutates(p))

RunInv == \A p \in Procs : Knows(p)

(* At most one record blocks. *)
BlockInv == \A t, u \in Present : Blocking(journal[t]) /\ Blocking(journal[u]) => t = u

UsedInv == Present \subseteq used

Reverted(eff) == \A j \in Actions \ NoopRollback : eff[j] = "orig"

(* A record of transaction t is true of what the transaction did. *)
Truthful(t, rec, eff) ==
    /\ rec.outcome = "" => ~rec.recovery /\ rec.rollback = ""
    /\ rec.outcome = "RECOVERY_REQUIRED" => rec.recovery
    /\ rec.outcome = "COMPLETED" =>
          /\ ~rec.recovery /\ rec.rollback = ""
          /\ \A j \in Actions : rec.status[j] = "APPLIED" /\ eff[j] = "new"
    /\ rec.outcome = "FAILED" =>
          /\ ~rec.recovery /\ rec.rollback # "ROLLBACK_FAILED" /\ ~Risky(t)
          /\ \A j \in Actions : rec.status[j] # "ROLLBACK_FAILED"
          /\ rec.rollback = "ROLLED_BACK" => Reverted(eff)
          /\ (\A j \in Actions : rec.status[j] \in {"PENDING", "BACKUP_FAILED", "ROLLED_BACK"})
                => Reverted(eff)

TruthInv == \A t \in Present : Truthful(t, journal[t], EffectOf(t))

(* Claims name transactions whose COMPLETED record is on disk. *)
Proved(claims) ==
    \A j \in Actions : claims[j] # NoTx =>
        claims[j] \in Present /\ journal[claims[j]].outcome = "COMPLETED"

ClaimInv == Proved(saved.claims) /\ \A p \in Procs : Proved(prior[p])

LifeInv ==
    /\ TypeOK
    /\ EngineInv
    /\ LockInv
    /\ RestInv
    /\ FlightInv
    /\ RunInv
    /\ BlockInv
    /\ UsedInv
    /\ TruthInv
    /\ ClaimInv
-----------------------------------------------------------------------------
(* The initial states satisfy the invariant. *)
LEMMA LifeInit == Init => LifeInv
<1> SUFFICES ASSUME Init PROVE LifeInv
  OBVIOUS
<1>1. EngineInv /\ EngineTypeOK
  BY EngineInitInv DEF Init, EngineInv
<1>2. Present = {}
  BY DEF Init, Present
<1>3. TypeOK
  BY <1>1 DEF Init, TypeOK, PStates, Views, NoClaims, Claims, StageNames, Unchanged
<1>4. LockInv /\ RestInv /\ FlightInv /\ RunInv
  BY OrchestrateConstants
  DEF Init, LockInv, RestInv, FlightInv, RunInv, Knows, AfterEngine, InFlight
<1>5. BlockInv /\ UsedInv /\ TruthInv /\ ClaimInv
  BY <1>2 DEF Init, BlockInv, UsedInv, TruthInv, ClaimInv, Proved, NoClaims
<1> QED
  BY <1>1, <1>3, <1>4, <1>5 DEF LifeInv

-----------------------------------------------------------------------------
(* A process without the lock has nothing to know. *)
LEMMA Bystander ==
  ASSUME NEW q \in Procs, ppc'[q] \in {"idle", "planned"}
  PROVE  Knows(q)'
  BY DEF Knows, AfterEngine, InFlight

(* A step of the holder of the lock to another step of its run: it keeps   *)
(* the lock and the others stay without it.                                *)
LEMMA HolderGoes ==
  ASSUME LifeInv, NEW p \in Procs, NEW w \in PStates \ {"idle", "planned"},
         ppc[p] \notin {"idle", "planned"}, Goto(p, w), UNCHANGED holder
  PROVE  /\ holder = p
         /\ ppc'[p] = w
         /\ ppc' \in [Procs -> PStates]
         /\ LockInv'
         /\ Knows(p)' => RunInv'
<1>1. ppc \in [Procs -> PStates] /\ holder = p
  BY DEF LifeInv, TypeOK, LockInv
<1>2. ppc' \in [Procs -> PStates] /\ ppc'[p] = w /\ \A q \in Procs : q # p => ppc'[q] = ppc[q]
  BY <1>1 DEF Goto
<1>3. \A q \in Procs : q # p => ppc'[q] \in {"idle", "planned"}
  BY <1>1, <1>2 DEF LifeInv, LockInv
<1>4. LockInv'
  BY <1>1, <1>2, <1>3 DEF LockInv
<1>5. Knows(p)' => RunInv'
  <2> SUFFICES ASSUME Knows(p)', NEW q \in Procs PROVE Knows(q)'
    BY DEF RunInv
  <2>1. CASE q = p
    BY <2>1
  <2>2. CASE q # p
    BY <2>2, <1>3, Bystander
  <2> QED
    BY <2>1, <2>2
<1> QED
  BY <1>1, <1>2, <1>4, <1>5

(* A step that leaves the engine, the transaction and the disk alone keeps *)
(* what the invariant says of them.                                        *)
LEMMA QuietStep ==
  ASSUME LifeInv, UNCHANGED <<engineVars, tx, used, final, diskVars>>
  PROVE  /\ EngineInv' /\ EngineTypeOK'
         /\ RestInv' /\ BlockInv' /\ UsedInv' /\ TruthInv'
         /\ Present' = Present
         /\ tx' = tx /\ journal' = journal /\ saved' = saved /\ used' = used
         /\ final' = final /\ epc' = epc /\ verdict' = verdict /\ effect' = effect
<1>1. UNCHANGED engineVars /\ UNCHANGED <<tx, used, final, journal, saved>>
  BY DEF diskVars
<1>2. UNCHANGED <<epc, cur, todo, rbResult, res, mem, durable, effect, verdict>>
  BY <1>1 DEF engineVars
<1>3. EngineInv' /\ EngineTypeOK'
  BY <1>1, EngineStepInv DEF LifeInv, EngineInv
<1>4. RestInv'
  BY <1>1, <1>2 DEF LifeInv, RestInv, EngineInit
<1>5. Present' = Present
  BY <1>1 DEF Present
<1>6. BlockInv' /\ UsedInv'
  BY <1>1, <1>5 DEF LifeInv, BlockInv, UsedInv
<1>7. TruthInv'
  <2>1. \A t : EffectOf(t)' = EffectOf(t)
    BY <1>1, <1>2 DEF EffectOf
  <2> QED
    BY <1>1, <1>5, <2>1 DEF LifeInv, TruthInv
<1> QED
  BY <1>1, <1>2, <1>3, <1>4, <1>5, <1>6, <1>7

(* A step of a process that neither has nor takes the lock. *)
LEMMA OutsiderStep ==
  ASSUME LifeInv, NEW p \in Procs, NEW w \in {"idle", "planned"}, NEW v \in Views,
         NEW c \in Claims, Proved(c),
         ppc[p] \in {"idle", "planned"}, Goto(p, w),
         view' = [view EXCEPT ![p] = v], prior' = [prior EXCEPT ![p] = c],
         UNCHANGED <<engineVars, holder, stage, base, tx, used, final, diskVars>>
  PROVE  LifeInv'
<1>1. /\ EngineInv' /\ EngineTypeOK'
      /\ RestInv' /\ BlockInv' /\ UsedInv' /\ TruthInv'
      /\ Present' = Present
      /\ tx' = tx /\ journal' = journal /\ saved' = saved /\ used' = used
      /\ final' = final /\ epc' = epc /\ verdict' = verdict /\ effect' = effect
  BY QuietStep
<1>2. TypeOK
  BY DEF LifeInv
<1>3. /\ ppc' \in [Procs -> PStates] /\ ppc'[p] = w
      /\ \A q \in Procs : q # p => ppc'[q] = ppc[q] /\ view'[q] = view[q] /\ prior'[q] = prior[q]
      /\ prior'[p] = c
  BY <1>2 DEF TypeOK, Goto, PStates
<1>4. TypeOK'
  BY <1>1, <1>2, <1>3 DEF TypeOK
<1>5. LockInv'
  BY <1>3 DEF LifeInv, LockInv
<1>6. FlightInv'
  <2>1. tx # NoTx => holder # p
    BY DEF LifeInv, FlightInv, InFlight
  <2> QED
    BY <1>1, <1>3, <2>1 DEF LifeInv, FlightInv
<1>7. RunInv'
  <2> SUFFICES ASSUME NEW q \in Procs PROVE Knows(q)'
    BY DEF RunInv
  <2>1. CASE q = p
    BY <2>1, <1>3, Bystander
  <2>2. CASE q # p
    BY <2>2, <1>1, <1>3 DEF LifeInv, RunInv, Knows, Mutates
  <2> QED
    BY <2>1, <2>2
<1>8. ClaimInv'
  BY <1>1, <1>3 DEF LifeInv, ClaimInv, Proved
<1> QED
  BY <1>1, <1>4, <1>5, <1>6, <1>7, <1>8 DEF LifeInv

(* A step of the holder of the lock that writes nothing. *)
LEMMA HolderQuietStep ==
  ASSUME LifeInv, NEW p \in Procs, NEW w \in PStates \ {"idle", "planned"},
         ppc[p] \notin {"idle", "planned"}, Goto(p, w), stage' \in StageNames,
         tx # NoTx => w \in InFlight, Knows(p)',
         UNCHANGED <<engineVars, view, prior, holder, base, tx, used, final, diskVars>>
  PROVE  LifeInv'
<1>1. /\ EngineInv' /\ EngineTypeOK'
      /\ RestInv' /\ BlockInv' /\ UsedInv' /\ TruthInv'
      /\ Present' = Present
      /\ tx' = tx /\ journal' = journal /\ saved' = saved /\ used' = used
      /\ final' = final /\ epc' = epc /\ verdict' = verdict /\ effect' = effect
  BY QuietStep
<1>2. /\ holder = p
      /\ ppc'[p] = w
      /\ ppc' \in [Procs -> PStates]
      /\ LockInv'
      /\ RunInv'
  BY HolderGoes
<1>3. TypeOK'
  BY <1>1, <1>2 DEF LifeInv, TypeOK
<1>4. FlightInv'
  BY <1>1, <1>2 DEF LifeInv, FlightInv
<1>5. ClaimInv'
  BY <1>1 DEF LifeInv, ClaimInv, Proved
<1> QED
  BY <1>1, <1>2, <1>3, <1>4, <1>5 DEF LifeInv

-----------------------------------------------------------------------------
(* No claims are proved claims. *)
LEMMA NoClaimsProved == NoClaims \in Claims /\ Proved(NoClaims)
  BY DEF NoClaims, Claims, Proved

(* Prepare preserves the invariant. *)
LEMMA PrepareInv == ASSUME LifeInv, NEW p \in Procs, Prepare(p) PROVE LifeInv'
<1>1. Machine \in Views
  BY DEF Machine, Views, LifeInv, TypeOK
<1>2. \E c \in Claims : Proved(c) /\ prior' = [prior EXCEPT ![p] = c]
  <2>1. saved.claims \in Claims /\ Proved(saved.claims)
    BY DEF LifeInv, TypeOK, ClaimInv
  <2> QED
    BY <2>1, NoClaimsProved DEF Prepare
<1> QED
  BY <1>1, <1>2, OutsiderStep DEF Prepare

(* Refused preserves the invariant. *)
LEMMA RefusedInv == ASSUME LifeInv, NEW p \in Procs, Refused(p) PROVE LifeInv'
<1>1. "G" \in Views
  BY DEF Views
<1> QED
  BY <1>1, NoClaimsProved, OutsiderStep DEF Refused, Forget

(* AcquireLock preserves the invariant: the lock was free, so nothing is   *)
(* in flight.                                                              *)
LEMMA AcquireLockInv == ASSUME LifeInv, NEW p \in Procs, AcquireLock(p) PROVE LifeInv'
<1>1. /\ EngineInv' /\ EngineTypeOK'
      /\ RestInv' /\ BlockInv' /\ UsedInv' /\ TruthInv'
      /\ Present' = Present
      /\ tx' = tx /\ journal' = journal /\ saved' = saved /\ used' = used
      /\ final' = final /\ epc' = epc /\ verdict' = verdict /\ effect' = effect
  BY QuietStep DEF AcquireLock
<1>2. /\ ppc[p] = "planned" /\ holder = NoProc /\ holder' = p /\ stage' = ""
      /\ ppc' = [ppc EXCEPT ![p] = "locked"]
      /\ UNCHANGED <<view, prior, base>>
  BY DEF AcquireLock, Goto
<1>3. TypeOK
  BY DEF LifeInv
<1>4. tx = NoTx
  BY <1>2, OrchestrateConstants DEF LifeInv, FlightInv
<1>5. \A q \in Procs : ppc[q] \in {"idle", "planned"}
  BY <1>2, OrchestrateConstants DEF LifeInv, LockInv
<1>6. /\ ppc' \in [Procs -> PStates] /\ ppc'[p] = "locked"
      /\ \A q \in Procs : q # p => ppc'[q] \in {"idle", "planned"}
  BY <1>2, <1>3, <1>5 DEF TypeOK, PStates
<1>7. TypeOK'
  BY <1>1, <1>2, <1>3, <1>6 DEF TypeOK, StageNames
<1>8. LockInv'
  BY <1>2, <1>6 DEF LockInv
<1>9. FlightInv'
  BY <1>1, <1>4 DEF FlightInv
<1>10. RunInv'
  BY <1>6 DEF RunInv, Knows, AfterEngine, InFlight
<1>11. ClaimInv'
  BY <1>1, <1>2 DEF LifeInv, ClaimInv, Proved
<1> QED
  BY <1>1, <1>7, <1>8, <1>9, <1>10, <1>11 DEF LifeInv

(* CheckFresh preserves the invariant. *)
LEMMA CheckFreshInv == ASSUME LifeInv, NEW p \in Procs, CheckFresh(p) PROVE LifeInv'
<1>1. PICK w \in {"fresh", "release"} : Goto(p, w) /\ stage' \in StageNames
  BY DEF CheckFresh, ReturnAt, StageNames, LifeInv, TypeOK
<1>2. /\ ppc[p] = "locked"
      /\ UNCHANGED <<engineVars, view, prior, holder, base, tx, used, final, diskVars>>
  BY DEF CheckFresh
<1>3. tx = NoTx
  BY <1>2 DEF LifeInv, LockInv, FlightInv, InFlight
<1>4. ppc'[p] = w
  BY <1>1 DEF Goto, LifeInv, TypeOK
<1>5. Knows(p)'
  BY <1>2, <1>3, <1>4 DEF Knows, AfterEngine, InFlight
<1>6. w \in PStates \ {"idle", "planned"}
  BY DEF PStates
<1> QED
  BY <1>1, <1>2, <1>3, <1>5, <1>6, HolderQuietStep

(* JournalGate preserves the invariant. *)
LEMMA JournalGateInv == ASSUME LifeInv, NEW p \in Procs, JournalGate(p) PROVE LifeInv'
<1>1. PICK w \in {"begin", "release", "rediscover"} :
         /\ Goto(p, w) /\ stage' \in StageNames
         /\ w = "begin" => Tx \ used # {} /\ \A t \in Present : ~Blocking(journal[t])
         /\ w = "rediscover" => ~Mutates(p)
  BY DEF JournalGate, ReturnAt, StageNames, LifeInv, TypeOK
<1>2. /\ ppc[p] = "fresh"
      /\ UNCHANGED <<engineVars, view, prior, holder, base, tx, used, final, diskVars>>
  BY DEF JournalGate
<1>3. tx = NoTx
  BY <1>2 DEF LifeInv, LockInv, FlightInv, InFlight
<1>4. ppc'[p] = w
  BY <1>1 DEF Goto, LifeInv, TypeOK
<1>5. Knows(p)'
  BY <1>1, <1>2, <1>3, <1>4 DEF Knows, AfterEngine, InFlight, Mutates, Present, diskVars
<1>6. w \in PStates \ {"idle", "planned"}
  BY DEF PStates
<1> QED
  BY <1>1, <1>2, <1>3, <1>5, <1>6, HolderQuietStep

(* EngineReturned preserves the invariant. *)
LEMMA EngineReturnedInv == ASSUME LifeInv, NEW p \in Procs, EngineReturned(p) PROVE LifeInv'
<1>1. PICK w \in {"rediscover", "finalize"} :
         /\ Goto(p, w) /\ stage' \in StageNames
         /\ w = "rediscover" => verdict = "APPLIED"
  BY DEF EngineReturned, ReturnAt, StageNames, LifeInv, TypeOK
<1>2. /\ ppc[p] = "engine" /\ epc = "done"
      /\ UNCHANGED <<engineVars, view, prior, holder, base, tx, used, final, diskVars>>
  BY DEF EngineReturned
<1>3. tx # NoTx /\ journal[tx].outcome = ""
  BY <1>2 DEF LifeInv, RunInv, Knows
<1>4. ppc'[p] = w
  BY <1>1 DEF Goto, LifeInv, TypeOK
<1>5. Knows(p)'
  BY <1>1, <1>2, <1>3, <1>4 DEF Knows, AfterEngine, InFlight, diskVars, engineVars
<1>6. w \in PStates \ {"idle", "planned"} /\ w \in InFlight
  BY DEF PStates, InFlight
<1> QED
  BY <1>1, <1>2, <1>5, <1>6, HolderQuietStep

(* Rediscover preserves the invariant. *)
LEMMA RediscoverInv == ASSUME LifeInv, NEW p \in Procs, Rediscover(p) PROVE LifeInv'
<1>1. PICK w \in {"gate", "terminal", "release", "finalize"} :
         /\ Goto(p, w) /\ stage' \in StageNames
         /\ w \in {"gate", "release"} <=> tx = NoTx
  BY DEF Rediscover, ReturnAt, StageNames, LifeInv, TypeOK
<1>2. /\ ppc[p] = "rediscover"
      /\ UNCHANGED <<engineVars, view, prior, holder, base, tx, used, final, diskVars>>
  BY DEF Rediscover
<1>3. /\ tx # NoTx => journal[tx].outcome = "" /\ epc = "done" /\ verdict = "APPLIED"
      /\ tx = NoTx => ~Mutates(p)
  BY <1>2 DEF LifeInv, RunInv, Knows, AfterEngine, InFlight
<1>4. ppc'[p] = w
  BY <1>1 DEF Goto, LifeInv, TypeOK
<1>5. Knows(p)'
  BY <1>1, <1>2, <1>3, <1>4 DEF Knows, AfterEngine, InFlight, diskVars, engineVars, Mutates
<1>6. w \in PStates \ {"idle", "planned"} /\ w \in InFlight
  BY DEF PStates, InFlight
<1> QED
  BY <1>1, <1>2, <1>5, <1>6, HolderQuietStep

(* PersistGate preserves the invariant. *)
LEMMA PersistGateInv == ASSUME LifeInv, NEW p \in Procs, PersistGate(p) PROVE LifeInv'
<1>1. PICK w \in {"save", "release"} :
         /\ Goto(p, w) /\ stage' \in StageNames
         /\ w = "save" => \A t \in Present \ {tx} : ~BlocksPersistence(journal[t], Mutates(p))
  BY DEF PersistGate, ReturnAt, StageNames, LifeInv, TypeOK
<1>2. /\ ppc[p] = "gate"
      /\ UNCHANGED <<engineVars, view, prior, holder, base, tx, used, final, diskVars>>
  BY DEF PersistGate
<1>3. /\ tx # NoTx => journal[tx].outcome = "COMPLETED" /\ epc = "done" /\ verdict = "APPLIED"
      /\ tx = NoTx => ~Mutates(p)
  BY <1>2 DEF LifeInv, RunInv, Knows, AfterEngine, InFlight
<1>4. ppc'[p] = w /\ Present' = Present /\ Mutates(p)' = Mutates(p)
  BY <1>1, <1>2 DEF Goto, LifeInv, TypeOK, Present, diskVars, Mutates
<1>5. Knows(p)'
  BY <1>1, <1>2, <1>3, <1>4 DEF Knows, AfterEngine, InFlight, diskVars, engineVars
<1>6. w \in PStates \ {"idle", "planned"} /\ w \in InFlight
  BY DEF PStates, InFlight
<1> QED
  BY <1>1, <1>2, <1>5, <1>6, HolderQuietStep

-----------------------------------------------------------------------------
(* A record on disk is a record. *)
LEMMA PresentFacts ==
  ASSUME TypeOK
  PROVE  \A t \in Tx : t \in Present <=> journal[t] \in Record
  BY AbsentIsNoRecord DEF TypeOK, Present

(* Rewriting the open record of the transaction in flight by a true one    *)
(* disturbs nothing else: no claim rests on it, no other record blocks.    *)
LEMMA RewriteFacts ==
  ASSUME LifeInv, tx # NoTx, journal[tx].outcome = "", NEW rec \in Record,
         journal' = [journal EXCEPT ![tx] = rec]
  PROVE  /\ journal' \in [Tx -> Record \cup {Absent}]
         /\ Present' = Present /\ tx \in Present
         /\ journal'[tx] = rec /\ \A t \in Present : t # tx => journal'[t] = journal[t]
         /\ \A t, u \in Present : Blocking(journal'[t]) /\ Blocking(journal'[u]) => t = u
         /\ \A c : c \in Present /\ journal[c].outcome = "COMPLETED"
               => c \in Present /\ journal'[c].outcome = "COMPLETED"
<1>1. tx \in Tx /\ journal \in [Tx -> Record \cup {Absent}] /\ journal[tx] # Absent
  BY DEF LifeInv, TypeOK, FlightInv
<1>2. /\ journal' \in [Tx -> Record \cup {Absent}]
      /\ journal'[tx] = rec /\ \A t \in Tx : t # tx => journal'[t] = journal[t]
  BY <1>1
<1>3. Present' = Present /\ tx \in Present
  BY <1>1, <1>2, AbsentIsNoRecord DEF Present
<1>4. \A t \in Present : t # tx => ~Blocking(journal'[t])
  BY <1>2 DEF LifeInv, FlightInv, Present
<1>5. \A t, u \in Present : Blocking(journal'[t]) /\ Blocking(journal'[u]) => t = u
  BY <1>4
<1>6. \A c : c \in Present /\ journal[c].outcome = "COMPLETED" => journal'[c].outcome = "COMPLETED"
  BY <1>2 DEF Present
<1> QED
  BY <1>2, <1>3, <1>5, <1>6 DEF Present

(* Begin preserves the invariant: no record blocks when it writes one. *)
LEMMA BeginInv == ASSUME LifeInv, NEW p \in Procs, Begin(p) PROVE LifeInv'
<1> DEFINE n == NextTx
<1>1. /\ ppc[p] = "begin"
      /\ used' = used \cup {n}
      /\ journal' \in {journal, [journal EXCEPT ![n] = NewRecord]}
      /\ UNCHANGED <<engineVars, view, prior, holder, base, final, saved>>
  BY DEF Begin
<1>2. Tx \ used # {} /\ \A t \in Present : ~Blocking(journal[t])
  BY <1>1 DEF LifeInv, RunInv, Knows
<1>3. n \in Tx \ used
  BY <1>2 DEF NextTx
<1>4. PICK w \in {"engine", "release"} :
         /\ Goto(p, w) /\ stage' \in StageNames
         /\ w = "engine" => tx' = n /\ journal' = [journal EXCEPT ![n] = NewRecord]
         /\ w = "release" => tx' = tx
  BY DEF Begin, ReturnAt, StageNames, LifeInv, TypeOK
<1> HIDE DEF n
<1>5. tx = NoTx /\ EngineInit
  BY <1>1 DEF LifeInv, LockInv, FlightInv, InFlight, RestInv
<1>6. NewRecord \in Record
  BY DEF NewRecord, Record, Outcomes, StageNames, NoAct, Statuses
<1>7. n \notin Present /\ n # NoTx
  BY <1>3, OrchestrateConstants DEF LifeInv, UsedInv, NoTx
<1>8. /\ journal' \in [Tx -> Record \cup {Absent}]
      /\ \A t \in Tx : t # n => journal'[t] = journal[t]
      /\ journal'[n] \in {Absent, NewRecord}
      /\ w = "engine" => journal'[n] = NewRecord
  BY <1>1, <1>3, <1>4, <1>6, <1>7 DEF LifeInv, TypeOK, Present
<1>9. /\ Present \subseteq Present' /\ Present' \subseteq Present \cup {n}
      /\ n \in Present' => journal'[n] = NewRecord
      /\ \A t \in Present : t # n /\ journal'[t] = journal[t]
  BY <1>3, <1>7, <1>8 DEF Present
<1>10. EngineInv' /\ EngineTypeOK' /\ EngineInit'
  BY <1>1, <1>5, EngineStepInv DEF LifeInv, EngineInv, EngineInit, engineVars
<1>11. NewRecord.outcome = "" /\ NewRecord.recovery = FALSE /\ NewRecord.rollback = ""
  BY DEF NewRecord
<1>12. w \in PStates \ {"idle", "planned"} /\ ppc[p] \notin {"idle", "planned"}
  BY <1>1 DEF PStates
<1>13. /\ holder = p
       /\ ppc'[p] = w
       /\ ppc' \in [Procs -> PStates]
       /\ LockInv'
       /\ Knows(p)' => RunInv'
  BY <1>1, <1>4, <1>12, HolderGoes
<1>14. TypeOK'
  BY <1>1, <1>3, <1>4, <1>8, <1>10, <1>13 DEF LifeInv, TypeOK
<1>15. FlightInv'
  <2> SUFFICES ASSUME tx' # NoTx PROVE FlightInv'
    BY DEF FlightInv
  <2>1. w = "engine" /\ tx' = n
    BY <1>4, <1>5
  <2>2. journal'[n] # Absent
    BY <1>6, <1>8, <2>1, AbsentIsNoRecord
  <2>3. \A t \in Present' \ {n} : ~Blocking(journal'[t])
    BY <1>2, <1>9
  <2> QED
    BY <1>1, <1>13, <2>1, <2>2, <2>3 DEF FlightInv, InFlight
<1>16. Knows(p)'
  BY <1>4, <1>5, <1>7, <1>8, <1>11, <1>13 DEF Knows, AfterEngine, InFlight
<1>17. BlockInv' /\ UsedInv'
  BY <1>1, <1>2, <1>9 DEF LifeInv, BlockInv, UsedInv
<1>18. TruthInv'
  <2> SUFFICES ASSUME NEW t \in Present' PROVE Truthful(t, journal'[t], EffectOf(t)')
    BY DEF TruthInv
  <2>1. CASE t = n
    BY <1>9, <1>11, <2>1 DEF Truthful
  <2>2. CASE t # n
    <3>1. t \in Present /\ journal'[t] = journal[t] /\ t \in Tx
      BY <1>9, <2>2 DEF Present
    <3>2. EffectOf(t)' = final[t] /\ EffectOf(t) = final[t]
      BY <1>1, <1>4, <1>5, <2>2, <3>1, OrchestrateConstants DEF EffectOf, NoTx
    <3> QED
      BY <3>1, <3>2 DEF LifeInv, TruthInv
  <2> QED
    BY <2>1, <2>2
<1>19. ClaimInv'
  BY <1>1, <1>9 DEF LifeInv, ClaimInv, Proved
<1>20. RestInv'
  BY <1>10 DEF RestInv
<1> QED
  BY <1>10, <1>13, <1>14, <1>15, <1>16, <1>17, <1>18, <1>19, <1>20 DEF LifeInv

(* A step of the engine preserves the invariant: it writes the statuses of *)
(* an open record and nothing else on disk.                                *)
LEMMA RunEngineInv == ASSUME LifeInv, NEW p \in Procs, RunEngine(p) PROVE LifeInv'
<1> DEFINE rec == [journal[tx] EXCEPT !.status = durable']
<1>1. /\ ppc[p] = "engine" /\ EngineStep
      /\ UNCHANGED <<ppc, view, prior, holder, stage>>
      /\ UNCHANGED <<base, tx, used, final, saved>>
  BY DEF RunEngine, lifeVars
<1>2. tx # NoTx /\ journal[tx].outcome = ""
  BY <1>1 DEF LifeInv, RunInv, Knows
<1>3. EngineInv' /\ EngineTypeOK'
  BY <1>1, EngineStepInv DEF LifeInv, EngineInv
<1>4. tx \in Tx /\ journal[tx] \in Record
  BY <1>2 DEF LifeInv, TypeOK, FlightInv
<1>5. rec \in Record
  BY <1>3, <1>4 DEF Record, EngineTypeOK
<1>6. /\ rec.outcome = journal[tx].outcome /\ rec.recovery = journal[tx].recovery
      /\ rec.rollback = journal[tx].rollback
  BY <1>4 DEF Record
<1>7. journal' = [journal EXCEPT ![tx] = rec]
  <2>1. journal \in [Tx -> Record \cup {Absent}] /\ journal[tx] # Absent
    BY <1>2 DEF LifeInv, TypeOK, FlightInv
  <2> QED
    BY <2>1, <1>4 DEF RunEngine
<1> HIDE DEF rec
<1>8. /\ journal' \in [Tx -> Record \cup {Absent}]
      /\ Present' = Present /\ tx \in Present
      /\ journal'[tx] = rec /\ \A t \in Present : t # tx => journal'[t] = journal[t]
      /\ \A t, u \in Present : Blocking(journal'[t]) /\ Blocking(journal'[u]) => t = u
      /\ \A c : c \in Present /\ journal[c].outcome = "COMPLETED"
            => c \in Present /\ journal'[c].outcome = "COMPLETED"
  BY <1>2, <1>5, <1>7, RewriteFacts
<1>9. holder = p /\ \A q \in Procs : q # p => ppc[q] \in {"idle", "planned"}
  BY <1>1 DEF LifeInv, LockInv
<1>10. TypeOK'
  BY <1>1, <1>3, <1>8 DEF LifeInv, TypeOK
<1>11. LockInv' /\ RestInv' /\ UsedInv' /\ BlockInv'
  BY <1>1, <1>2, <1>8 DEF LifeInv, LockInv, RestInv, UsedInv, BlockInv
<1>12. FlightInv'
  BY <1>1, <1>2, <1>5, <1>8, AbsentIsNoRecord DEF LifeInv, FlightInv
<1>13. RunInv'
  <2>1. Knows(p)'
    BY <1>1, <1>2, <1>6, <1>8 DEF Knows, AfterEngine, InFlight
  <2>2. \A q \in Procs : q # p => Knows(q)'
    BY <1>1, <1>9, Bystander
  <2> QED
    BY <2>1, <2>2 DEF RunInv
<1>14. TruthInv'
  <2> SUFFICES ASSUME NEW t \in Present PROVE Truthful(t, journal'[t], EffectOf(t)')
    BY <1>8 DEF TruthInv
  <2>1. CASE t = tx
    <3>1. Truthful(t, journal[t], EffectOf(t))
      BY DEF LifeInv, TruthInv
    <3> QED
      BY <1>2, <1>6, <1>8, <2>1, <3>1 DEF Truthful
  <2>2. CASE t # tx
    <3>1. EffectOf(t)' = EffectOf(t)
      BY <1>1, <2>2 DEF EffectOf
    <3> QED
      BY <1>8, <2>2, <3>1 DEF LifeInv, TruthInv
  <2> QED
    BY <2>1, <2>2
<1>15. ClaimInv'
  BY <1>1, <1>8 DEF LifeInv, ClaimInv, Proved
<1> QED
  BY <1>3, <1>10, <1>11, <1>12, <1>13, <1>14, <1>15 DEF LifeInv

-----------------------------------------------------------------------------
(* A run whose engine is done writes the outcome, or fails to, and goes on *)
(* to the persistence gate or to the release of the lock.                  *)
LEMMA ClosingStep ==
  ASSUME LifeInv, NEW p \in Procs, NEW w \in {"gate", "release"},
         ppc[p] \in {"terminal", "finalize"}, Goto(p, w), stage' \in StageNames,
         NEW rec \in Record, Truthful(tx, rec, effect),
         journal' \in {journal, [journal EXCEPT ![tx] = rec]},
         w = "gate" => /\ journal' = [journal EXCEPT ![tx] = rec]
                       /\ rec.outcome = "COMPLETED" /\ verdict = "APPLIED",
         UNCHANGED <<engineVars, view, prior, holder, base, tx, used, final, saved>>
  PROVE  LifeInv'
<1>1. tx # NoTx /\ journal[tx].outcome = "" /\ epc = "done"
  BY DEF LifeInv, RunInv, Knows, AfterEngine, InFlight
<1>2. PICK r \in Record :
        /\ journal' = [journal EXCEPT ![tx] = r]
        /\ Truthful(tx, r, effect)
        /\ w = "gate" => r.outcome = "COMPLETED" /\ verdict = "APPLIED"
  <2>1. CASE journal' = [journal EXCEPT ![tx] = rec]
    BY <2>1
  <2>2. CASE journal' = journal /\ w # "gate"
    <3>1. tx \in Tx /\ journal \in [Tx -> Record \cup {Absent}] /\ journal[tx] # Absent
      BY <1>1 DEF LifeInv, TypeOK, FlightInv
    <3>2. journal[tx] \in Record /\ [journal EXCEPT ![tx] = journal[tx]] = journal
      BY <3>1
    <3>3. Truthful(tx, journal[tx], effect)
      BY <3>1 DEF LifeInv, TruthInv, Present, EffectOf
    <3> QED
      BY <2>2, <3>2, <3>3
  <2> QED
    BY <2>1, <2>2
<1>3. /\ journal' \in [Tx -> Record \cup {Absent}]
      /\ Present' = Present /\ tx \in Present
      /\ journal'[tx] = r /\ \A t \in Present : t # tx => journal'[t] = journal[t]
      /\ \A t, u \in Present : Blocking(journal'[t]) /\ Blocking(journal'[u]) => t = u
      /\ \A c : c \in Present /\ journal[c].outcome = "COMPLETED"
            => c \in Present /\ journal'[c].outcome = "COMPLETED"
  BY <1>1, <1>2, RewriteFacts
<1>4. w \in PStates \ {"idle", "planned"} /\ ppc[p] \notin {"idle", "planned"} /\ w \in InFlight
  BY DEF PStates, InFlight
<1>5. /\ holder = p
      /\ ppc'[p] = w
      /\ ppc' \in [Procs -> PStates]
      /\ LockInv'
      /\ Knows(p)' => RunInv'
  BY <1>4, HolderGoes
<1>6. EngineInv' /\ EngineTypeOK'
  BY EngineStepInv DEF LifeInv, EngineInv
<1>7. TypeOK'
  BY <1>3, <1>5, <1>6 DEF LifeInv, TypeOK
<1>8. RestInv' /\ UsedInv' /\ BlockInv'
  BY <1>1, <1>3 DEF LifeInv, RestInv, UsedInv, BlockInv
<1>9. FlightInv'
  BY <1>1, <1>3, <1>4, <1>5, AbsentIsNoRecord DEF LifeInv, FlightInv
<1>10. Knows(p)'
  BY <1>1, <1>2, <1>3, <1>5 DEF Knows, AfterEngine, InFlight, engineVars
<1>11. TruthInv'
  <2> SUFFICES ASSUME NEW t \in Present PROVE Truthful(t, journal'[t], EffectOf(t)')
    BY <1>3 DEF TruthInv
  <2>1. EffectOf(t)' = EffectOf(t)
    BY DEF EffectOf, engineVars
  <2>2. CASE t = tx
    BY <1>2, <1>3, <2>1, <2>2 DEF EffectOf
  <2>3. CASE t # tx
    BY <1>3, <2>1, <2>3 DEF LifeInv, TruthInv
  <2> QED
    BY <2>2, <2>3
<1>12. ClaimInv'
  BY <1>3 DEF LifeInv, ClaimInv, Proved
<1> QED
  BY <1>5, <1>6, <1>7, <1>8, <1>9, <1>10, <1>11, <1>12 DEF LifeInv

(* TerminalWrite preserves the invariant: the success record is true. *)
LEMMA TerminalWriteInv == ASSUME LifeInv, NEW p \in Procs, TerminalWrite(p) PROVE LifeInv'
<1>1. /\ ppc[p] = "terminal"
      /\ UNCHANGED <<engineVars, view, prior, holder, base, tx, used, final, saved>>
  BY DEF TerminalWrite
<1>2. PICK w \in {"gate", "release"} :
        /\ Goto(p, w) /\ stage' \in StageNames
        /\ journal' \in {journal, [journal EXCEPT ![tx] = SuccessRecord]}
        /\ w = "gate" => journal' = [journal EXCEPT ![tx] = SuccessRecord]
  BY DEF TerminalWrite, ReturnAt, StageNames, LifeInv, TypeOK
<1>3. epc = "done" /\ verdict = "APPLIED" /\ tx # NoTx
  BY <1>1 DEF LifeInv, RunInv, Knows, AfterEngine, InFlight
<1>4. \A j \in Actions : effect[j] = "new" /\ res[j].status = "APPLIED"
  BY <1>3 DEF LifeInv, EngineInv, DoneInv
<1>5. SuccessRecord \in Record /\ SuccessRecord.outcome = "COMPLETED"
  BY <1>4 DEF SuccessRecord, Record, Outcomes, StageNames, Statuses
<1>6. Truthful(tx, SuccessRecord, effect)
  BY <1>4 DEF SuccessRecord, Truthful
<1> QED
  BY <1>1, <1>2, <1>3, <1>5, <1>6, ClosingStep

(* The failure record is a record, and true. *)
LEMMA FailureRecordFacts ==
  ASSUME LifeInv, tx # NoTx, epc = "done", NEW st \in StageNames
  PROVE  FailureRecord(st) \in Record /\ Truthful(tx, FailureRecord(st), effect)
<1> DEFINE f == FailureRecord(st)
           failing == AnyRollbackFailed \/ Risky(tx)
<1>1. EngineTypeOK /\ NothingLeftSilently /\ UntouchedIsUntouched
  BY DEF LifeInv, EngineInv, DoneInv
<1>2. failing \in BOOLEAN
  BY DEF AnyRollbackFailed, Risky
<1>3. /\ f.outcome = IF failing THEN "RECOVERY_REQUIRED" ELSE "FAILED"
      /\ f.recovery = failing /\ f.mut = TRUE /\ f.stage = st
      /\ f.rollback = IF AnyRollbackFailed THEN "ROLLBACK_FAILED"
                      ELSE IF verdict = "ROLLED_BACK" THEN "ROLLED_BACK" ELSE ""
      /\ \A j \in Actions : f.status[j] = res[j].status
  BY DEF FailureRecord
<1>4. f \in Record
  <2>1. [j \in Actions |-> res[j].status] \in [Actions -> Statuses]
    BY <1>1 DEF EngineTypeOK
  <2> QED
    BY <1>2, <2>1 DEF FailureRecord, Record, Outcomes
<1>5. ASSUME ~failing
      PROVE  /\ ~AnyRollbackFailed /\ ~Risky(tx)
             /\ \A j \in Actions : res[j].status # "ROLLBACK_FAILED"
             /\ verdict # "APPLIED" => Reverted(effect)
  <2>1. \A j \in Actions : ~RollbackFailed(res[j])
    BY <1>5 DEF AnyRollbackFailed
  <2> QED
    BY <1>1, <1>5, <2>1 DEF NothingLeftSilently, RollbackFailed, Reverted
<1>6. verdict = "APPLIED" => \E j \in Actions : res[j].status = "APPLIED"
  <2>1. 1 \in Actions
    BY OrchestrateConstants, EngineConstants DEF Actions
  <2> QED
    BY <2>1 DEF LifeInv, EngineInv, DoneInv
<1> HIDE DEF f
<1>7. Truthful(tx, f, effect)
  <2>1. CASE failing
    BY <1>2, <1>3, <2>1 DEF Truthful
  <2>2. CASE ~failing
    BY <1>2, <1>3, <1>5, <1>6, <2>2 DEF Truthful
  <2> QED
    BY <2>1, <2>2
<1> QED
  BY <1>4, <1>7 DEF f

(* Finalize preserves the invariant. *)
LEMMA FinalizeInv == ASSUME LifeInv, NEW p \in Procs, Finalize(p) PROVE LifeInv'
<1>1. /\ ppc[p] = "finalize" /\ Goto(p, "release") /\ stage' = stage
      /\ journal' \in {journal, [journal EXCEPT ![tx] = FailureRecord(stage)]}
      /\ UNCHANGED <<engineVars, view, prior, holder, base, tx, used, final, saved>>
  BY DEF Finalize
<1>2. tx # NoTx /\ epc = "done" /\ stage \in StageNames
  BY <1>1 DEF LifeInv, RunInv, Knows, AfterEngine, InFlight, TypeOK
<1>3. FailureRecord(stage) \in Record /\ Truthful(tx, FailureRecord(stage), effect)
  BY <1>2, FailureRecordFacts
<1> QED
  BY <1>1, <1>2, <1>3, ClosingStep

(* Save preserves the invariant: the claims it writes are those the run    *)
(* was given and those of its own completed transaction.                   *)
LEMMA SaveInv == ASSUME LifeInv, NEW p \in Procs, Save(p) PROVE LifeInv'
<1> DEFINE claims == IF tx = NoTx THEN prior[p] ELSE Mint(prior[p])
           new == [machine |-> "G", claims |-> claims]
<1>1. /\ ppc[p] = "save" /\ Goto(p, "release") /\ stage' \in StageNames
      /\ saved' \in {saved, new}
      /\ UNCHANGED <<engineVars, view, prior, holder, base, tx, used, final, journal>>
  BY DEF Save, ReturnAt, StageNames
<1>2. tx # NoTx => journal[tx].outcome = "COMPLETED" /\ tx \in Present /\ epc = "done"
  BY <1>1 DEF LifeInv, RunInv, Knows, FlightInv, TypeOK, Present, AfterEngine, InFlight
<1>3. prior[p] \in Claims /\ Proved(prior[p]) /\ tx \in Tx \cup {NoTx}
  BY DEF LifeInv, TypeOK, ClaimInv
<1>4. claims \in Claims /\ Proved(claims)
  BY <1>2, <1>3 DEF Mint, Claims, Proved
<1> HIDE DEF claims
<1>5. saved' \in [machine : Views \cup {"none"}, claims : Claims] /\ Proved(saved'.claims)
  <2>1. saved \in [machine : Views \cup {"none"}, claims : Claims] /\ Proved(saved.claims)
    BY DEF LifeInv, TypeOK, ClaimInv
  <2>2. new \in [machine : Views \cup {"none"}, claims : Claims] /\ Proved(new.claims)
    BY <1>4 DEF Views
  <2> QED
    BY <1>1, <2>1, <2>2
<1> HIDE DEF new
<1>6. "release" \in PStates \ {"idle", "planned"} /\ ppc[p] \notin {"idle", "planned"}
  BY <1>1 DEF PStates
<1>7. /\ holder = p
      /\ ppc'[p] = "release"
      /\ ppc' \in [Procs -> PStates]
      /\ LockInv'
      /\ Knows(p)' => RunInv'
  BY <1>1, <1>6, HolderGoes
<1>8. EngineInv' /\ EngineTypeOK'
  BY <1>1, EngineStepInv DEF LifeInv, EngineInv
<1>9. TypeOK'
  BY <1>1, <1>5, <1>7, <1>8 DEF LifeInv, TypeOK
<1>10. Present' = Present
  BY <1>1 DEF Present
<1>11. RestInv' /\ UsedInv' /\ BlockInv'
  BY <1>1, <1>10 DEF LifeInv, RestInv, UsedInv, BlockInv, EngineInit, engineVars
<1>12. FlightInv'
  BY <1>1, <1>7, <1>10 DEF LifeInv, FlightInv, InFlight
<1>13. Knows(p)'
  BY <1>1, <1>2, <1>7 DEF Knows, AfterEngine, InFlight, engineVars
<1>14. TruthInv'
  <2>1. \A t : EffectOf(t)' = EffectOf(t)
    BY <1>1 DEF EffectOf, engineVars
  <2> QED
    BY <1>1, <1>10, <2>1 DEF LifeInv, TruthInv
<1>15. ClaimInv'
  BY <1>1, <1>5, <1>10 DEF LifeInv, ClaimInv, Proved
<1> QED
  BY <1>7, <1>8, <1>9, <1>11, <1>12, <1>13, <1>14, <1>15 DEF LifeInv

-----------------------------------------------------------------------------
(* The run that holds the lock ends or dies: what it did is kept, record   *)
(* by record.                                                              *)
LEMMA RunEnds ==
  ASSUME LifeInv, NEW p \in Procs, holder = p, holder' = NoProc, stage' = "",
         Forget(p), Fold, UNCHANGED <<used, diskVars>>
  PROVE  LifeInv'
<1>1. TypeOK
  BY DEF LifeInv
<1>2. /\ ppc' \in [Procs -> PStates] /\ view' \in [Procs -> Views] /\ prior' \in [Procs -> Claims]
      /\ \A q \in Procs : ppc'[q] \in {"idle", "planned"}
      /\ \A q \in Procs : prior'[q] \in {NoClaims, prior[q]}
  <2>1. \A q \in Procs : q # p => ppc[q] \in {"idle", "planned"}
    BY DEF LifeInv, LockInv
  <2> QED
    BY <1>1, <2>1, NoClaimsProved DEF Forget, Goto, TypeOK, PStates, Views
<1>3. base' \in Views
  BY <1>1 DEF Fold, Machine, TypeOK, Views
<1>4. EngineInit'
  BY DEF Fold, EngineReset, EngineInit, NoAct, Unchanged
<1>5. EngineInv' /\ EngineTypeOK'
  <2>1. EngineInv'
    BY <1>4, EngineInitInv, PTL
  <2> QED
    BY <2>1 DEF EngineInv
<1>6. tx' = NoTx /\ journal' = journal /\ saved' = saved /\ used' = used /\ Present' = Present
  BY DEF Fold, diskVars, Present
<1>7. /\ final' \in [Tx -> [Actions -> {"orig", "new", "dirty"}]]
      /\ \A t \in Tx : final'[t] = EffectOf(t)
  <2>1. CASE tx = NoTx
    BY <1>1, <2>1, OrchestrateConstants DEF Fold, EffectOf, TypeOK, NoTx
  <2>2. CASE tx # NoTx
    BY <1>1, <2>2 DEF Fold, EffectOf, TypeOK, EngineTypeOK
  <2> QED
    BY <2>1, <2>2
<1>8. TypeOK'
  BY <1>1, <1>2, <1>3, <1>5, <1>6, <1>7 DEF TypeOK, StageNames
<1>9. LockInv' /\ RestInv' /\ FlightInv' /\ BlockInv' /\ UsedInv'
  BY <1>2, <1>4, <1>6, OrchestrateConstants
  DEF LifeInv, LockInv, RestInv, FlightInv, BlockInv, UsedInv
<1>10. RunInv'
  BY <1>2, Bystander DEF RunInv
<1>11. TruthInv'
  <2>1. \A t \in Present : EffectOf(t)' = EffectOf(t)
    BY <1>6, <1>7, OrchestrateConstants DEF EffectOf, Present, NoTx
  <2> QED
    BY <1>6, <2>1 DEF LifeInv, TruthInv
<1>12. ClaimInv'
  <2>1. Proved(NoClaims) /\ Proved(saved.claims) /\ \A q \in Procs : Proved(prior[q])
    BY NoClaimsProved DEF LifeInv, ClaimInv
  <2>2. \A q \in Procs : Proved(prior'[q])
    BY <1>2, <2>1
  <2> QED
    BY <1>6, <2>1, <2>2 DEF ClaimInv, Proved
<1> QED
  BY <1>5, <1>8, <1>9, <1>10, <1>11, <1>12 DEF LifeInv

(* ReleaseLock preserves the invariant. *)
LEMMA ReleaseLockInv == ASSUME LifeInv, NEW p \in Procs, ReleaseLock(p) PROVE LifeInv'
<1>1. holder = p
  BY DEF ReleaseLock, LifeInv, LockInv
<1> QED
  BY <1>1, RunEnds DEF ReleaseLock

(* Crash preserves the invariant, at every step of a run. *)
LEMMA CrashInv == ASSUME LifeInv, NEW p \in Procs, Crash(p) PROVE LifeInv'
<1>1. CASE holder = p
  BY <1>1, RunEnds DEF Crash
<1>2. CASE holder # p
  <2>1. ppc[p] \in {"idle", "planned"} /\ "G" \in Views
    BY <1>2 DEF LifeInv, LockInv, Views
  <2>2. UNCHANGED <<engineVars, holder, stage, base, tx, used, final, diskVars>>
    BY <1>2 DEF Crash
  <2> QED
    BY <2>1, <2>2, NoClaimsProved, OutsiderStep DEF Crash, Forget
<1> QED
  BY <1>1, <1>2

(* Drift preserves the invariant. *)
LEMMA DriftInv == ASSUME LifeInv, Drift PROVE LifeInv'
<1>1. /\ UNCHANGED <<engineVars, tx, used, final, diskVars>>
      /\ UNCHANGED <<ppc, view, prior, holder, stage>>
      /\ base' \in {"A", "G"}
  BY DEF Drift, lifeVars
<1>2. /\ EngineInv' /\ EngineTypeOK'
      /\ RestInv' /\ BlockInv' /\ UsedInv' /\ TruthInv'
      /\ Present' = Present
      /\ tx' = tx /\ journal' = journal /\ saved' = saved /\ used' = used
      /\ final' = final /\ epc' = epc /\ verdict' = verdict /\ effect' = effect
  BY <1>1, QuietStep
<1>3. TypeOK'
  BY <1>1, <1>2 DEF LifeInv, TypeOK, Views
<1>4. LockInv' /\ FlightInv'
  BY <1>1, <1>2 DEF LifeInv, LockInv, FlightInv
<1>5. RunInv'
  BY <1>1, <1>2 DEF LifeInv, RunInv, Knows, Mutates
<1>6. ClaimInv'
  BY <1>1, <1>2 DEF LifeInv, ClaimInv, Proved
<1> QED
  BY <1>2, <1>3, <1>4, <1>5, <1>6 DEF LifeInv

(* OperatorClear preserves the invariant: nothing is in flight, and no     *)
(* claim rests on the record removed.                                      *)
LEMMA OperatorClearInv == ASSUME LifeInv, OperatorClear PROVE LifeInv'
<1>1. /\ holder = NoProc
      /\ UNCHANGED <<engineVars, base, tx, used, saved>>
      /\ UNCHANGED <<ppc, view, prior, holder, stage>>
  BY DEF OperatorClear, lifeVars
<1>2. PICK d \in Present :
        /\ journal[d].outcome # "COMPLETED"
        /\ journal' = [journal EXCEPT ![d] = Absent]
        /\ final' = [final EXCEPT ![d] = Unchanged]
  BY DEF OperatorClear
<1>3. tx = NoTx
  BY <1>1, OrchestrateConstants DEF LifeInv, FlightInv
<1>4. \A q \in Procs : ppc[q] \in {"idle", "planned"}
  BY <1>1, OrchestrateConstants DEF LifeInv, LockInv
<1>5. /\ journal' \in [Tx -> Record \cup {Absent}]
      /\ final' \in [Tx -> [Actions -> {"orig", "new", "dirty"}]]
      /\ \A t \in Tx : t # d => journal'[t] = journal[t] /\ final'[t] = final[t]
      /\ journal'[d] = Absent
  BY <1>2 DEF LifeInv, TypeOK, Present, Unchanged
<1>6. Present' = Present \ {d}
  BY <1>5 DEF Present
<1>7. EngineInv' /\ EngineTypeOK'
  BY <1>1, EngineStepInv DEF LifeInv, EngineInv
<1>8. TypeOK'
  BY <1>1, <1>5, <1>7 DEF LifeInv, TypeOK
<1>9. \A t \in Present' : t \in Tx /\ t \in Present /\ journal'[t] = journal[t] /\ final'[t] = final[t]
  BY <1>5, <1>6 DEF Present
<1>10. LockInv' /\ RestInv' /\ FlightInv' /\ UsedInv'
  BY <1>1, <1>3, <1>9
  DEF LifeInv, LockInv, RestInv, FlightInv, UsedInv, EngineInit, engineVars
<1>11. BlockInv'
  BY <1>9 DEF LifeInv, BlockInv
<1>12. RunInv'
  BY <1>1, <1>4, Bystander DEF RunInv
<1>13. TruthInv'
  <2> SUFFICES ASSUME NEW t \in Present' PROVE Truthful(t, journal'[t], EffectOf(t)')
    BY DEF TruthInv
  <2>1. EffectOf(t)' = EffectOf(t)
    BY <1>1, <1>9 DEF EffectOf, engineVars
  <2> QED
    BY <1>9, <2>1 DEF LifeInv, TruthInv
<1>14. ClaimInv'
  BY <1>1, <1>2, <1>5, <1>6 DEF LifeInv, ClaimInv, Proved, Present
<1> QED
  BY <1>7, <1>8, <1>10, <1>11, <1>12, <1>13, <1>14 DEF LifeInv

-----------------------------------------------------------------------------
(* Every step of the lifecycle preserves the invariant. *)
LEMMA LifeNext == LifeInv /\ [Next]_vars => LifeInv'
<1> SUFFICES ASSUME LifeInv, [Next]_vars PROVE LifeInv'
  OBVIOUS
<1>1. ASSUME NEW p \in Procs, Execute(p) PROVE LifeInv'
  BY <1>1, CheckFreshInv, JournalGateInv, BeginInv, RunEngineInv, EngineReturnedInv,
     RediscoverInv, TerminalWriteInv, PersistGateInv, SaveInv, FinalizeInv, ReleaseLockInv
  DEF Execute
<1>2. CASE Next
  BY <1>1, <1>2, PrepareInv, RefusedInv, AcquireLockInv, CrashInv, DriftInv, OperatorClearInv
  DEF Next
<1>3. CASE UNCHANGED vars
  <2>1. /\ UNCHANGED <<engineVars, tx, used, final, diskVars>>
        /\ UNCHANGED <<ppc, view, prior, holder, stage, base>>
    BY <1>3 DEF vars, lifeVars
  <2>2. /\ EngineInv' /\ EngineTypeOK'
        /\ RestInv' /\ BlockInv' /\ UsedInv' /\ TruthInv'
        /\ Present' = Present
        /\ tx' = tx /\ journal' = journal /\ saved' = saved /\ used' = used
        /\ final' = final /\ epc' = epc /\ verdict' = verdict /\ effect' = effect
    BY <2>1, QuietStep
  <2>3. TypeOK' /\ LockInv' /\ FlightInv' /\ RunInv' /\ ClaimInv'
    BY <2>1, <2>2
    DEF LifeInv, TypeOK, LockInv, FlightInv, RunInv, Knows, Mutates, ClaimInv, Proved
  <2> QED
    BY <2>2, <2>3 DEF LifeInv
<1> QED
  BY <1>2, <1>3

(* The inductive invariant holds in every execution. *)
THEOREM LifeInvariant == Spec => []LifeInv
  BY LifeInit, LifeNext, PTL DEF Spec

(* The variables of the lifecycle always have their types. *)
THEOREM LifecycleTypeCorrect == Spec => []TypeOK
<1>1. LifeInv => TypeOK
  BY DEF LifeInv
<1> QED
  BY <1>1, LifeInvariant, PTL

(* Write-ahead, for any number of processes and crashes: whatever an       *)
(* action has changed, the record of its transaction is on disk, and open  *)
(* for as long as the engine runs.                                         *)
THEOREM LifecycleJournaledBeforeMutation == Spec => []JournaledBeforeMutation
<1>1. ASSUME LifeInv, effect # Unchanged
      PROVE  tx # NoTx /\ journal[tx] # Absent /\ (epc # "done" => journal[tx].outcome = "")
  <2>1. tx # NoTx
    BY <1>1 DEF LifeInv, RestInv, EngineInit, Unchanged
  <2>2. holder \in Procs /\ ppc[holder] \in InFlight /\ journal[tx] # Absent
    BY <1>1, <2>1 DEF LifeInv, FlightInv
  <2>3. epc # "done" => ppc[holder] = "engine"
    BY <1>1, <2>1, <2>2 DEF LifeInv, RunInv, Knows, AfterEngine
  <2> QED
    BY <1>1, <2>1, <2>2, <2>3 DEF LifeInv, RunInv, Knows
<1>2. LifeInv => JournaledBeforeMutation
  BY <1>1 DEF JournaledBeforeMutation
<1> QED
  BY <1>2, LifeInvariant, PTL

(* Crash isolation: at most one record is open or latched, and while it is *)
(* no other transaction changes the machine.                               *)
THEOREM LifecycleCrashedBlocksOthers == Spec => []CrashedBlocksOthers
<1>1. ASSUME LifeInv, NEW t \in Present, Blocking(journal[t])
      PROVE  /\ \A u \in Present \ {t} : journal[u].outcome # ""
             /\ tx # t => effect = Unchanged
  <2>1. \A u \in Present \ {t} : ~Blocking(journal[u])
    BY <1>1 DEF LifeInv, BlockInv
  <2>2. tx # t => tx = NoTx
    BY <1>1 DEF LifeInv, FlightInv
  <2> QED
    BY <1>1, <2>1, <2>2 DEF Blocking, LifeInv, RestInv, EngineInit, Unchanged
<1>2. LifeInv => CrashedBlocksOthers
  BY <1>1 DEF CrashedBlocksOthers
<1> QED
  BY <1>2, LifeInvariant, PTL

(* A failure is never played down: a FAILED record that reports a rollback *)
(* stands for a reverted machine, and a risky transaction that changed     *)
(* anything blocks or is completed.                                        *)
THEOREM LifecycleFailureLatches == Spec => []FailureLatches
<1>1. ASSUME LifeInv, NEW t \in Present
      PROVE  /\ journal[t].outcome = "FAILED" /\ journal[t].rollback = "ROLLED_BACK" =>
                   \A j \in Actions \ NoopRollback : EffectOf(t)[j] = "orig"
             /\ Risky(t) => Blocking(journal[t]) \/ journal[t].outcome = "COMPLETED"
  <2>1. Truthful(t, journal[t], EffectOf(t))
    BY <1>1 DEF LifeInv, TruthInv
  <2>2. journal[t].outcome \in Outcomes
    BY <1>1, PresentFacts DEF LifeInv, Present, Record
  <2> QED
    BY <2>1, <2>2 DEF Truthful, Reverted, Blocking, Outcomes
<1>2. LifeInv => FailureLatches
  BY <1>1 DEF FailureLatches
<1> QED
  BY <1>2, LifeInvariant, PTL

(* A COMPLETED record proves that every action was applied. *)
THEOREM LifecycleCompletedIsProof == Spec => []CompletedIsProof
<1>1. LifeInv => CompletedIsProof
  BY DEF LifeInv, TruthInv, Truthful, CompletedIsProof
<1> QED
  BY <1>1, LifeInvariant, PTL

(* Journal-terminal-first: every claim in state.json has its COMPLETED     *)
(* record on disk, whatever crashed.                                       *)
THEOREM LifecycleEvidenceHasProof == Spec => []EvidenceHasProof
<1>1. LifeInv => EvidenceHasProof
  BY DEF LifeInv, ClaimInv, Proved, EvidenceHasProof
<1> QED
  BY <1>1, LifeInvariant, PTL

(* The classifier's verdicts are true of the machine and it never meets a  *)
(* contradictory record.                                                   *)
THEOREM LifecycleClassifierSound == Spec => []ClassifierSound
<1>1. ASSUME LifeInv, NEW t \in Present, Valid(journal[t])
      PROVE  /\ Classify(journal[t]) = "COMPLETED" =>
                   \A j \in Actions : EffectOf(t)[j] = "new"
             /\ Classify(journal[t]) = "FAILED_RESOLVED" =>
                   \A j \in Actions \ NoopRollback : EffectOf(t)[j] = "orig"
             /\ t = tx /\ epc # "done" => Classify(journal[t]) = "IN_PROGRESS"
             /\ Classify(journal[t]) # "INDETERMINATE"
  <2> DEFINE rec == journal[t]
  <2>1. rec \in Record
    BY <1>1, PresentFacts DEF LifeInv, Present
  <2>2. rec.status \in [Actions -> Statuses] /\ rec.outcome \in Outcomes
    BY <2>1 DEF Record
  <2>3. \A j \in Actions : rec.status[j] \in StatusesOf(rec)
    BY <2>2 DEF StatusesOf
  <2>4. \A s \in StatusesOf(rec) : \E j \in Actions : s = rec.status[j]
    BY <2>2 DEF StatusesOf
  <2>5. Truthful(t, rec, EffectOf(t))
    BY <1>1 DEF LifeInv, TruthInv
  <2>6. t = tx /\ epc # "done" => rec.outcome = ""
    <3>1. t \in Tx /\ t # NoTx
      BY OrchestrateConstants DEF Present, NoTx
    <3>2. tx # NoTx /\ epc # "done" => holder \in Procs /\ ppc[holder] = "engine"
      BY <1>1 DEF LifeInv, FlightInv, RunInv, Knows, AfterEngine
    <3> QED
      BY <1>1, <3>1, <3>2 DEF LifeInv, RunInv, Knows
  <2>7. StatusesOf(rec) \subseteq KnownStatus
    BY <1>1 DEF Valid
  <2> HIDE DEF rec
  <2>8. CASE rec.outcome = ""
    BY <2>5, <2>8 DEF Truthful, Classify, rec
  <2>9. CASE rec.outcome = "RECOVERY_REQUIRED"
    BY <2>5, <2>6, <2>9 DEF Truthful, Classify, rec
  <2>10. CASE rec.outcome = "COMPLETED"
    <3>1. StatusesOf(rec) \subseteq {"APPLIED"}
      BY <2>4, <2>5, <2>10 DEF Truthful
    <3> QED
      BY <2>5, <2>6, <2>10, <3>1 DEF Truthful, Classify, rec
  <2>11. CASE rec.outcome = "FAILED"
    <3>1. "ROLLBACK_FAILED" \notin StatusesOf(rec)
      BY <2>4, <2>5, <2>11 DEF Truthful
    <3>2. Classify(rec) = ClassifyFailed(rec)
      BY <2>5, <2>11 DEF Truthful, Classify
    <3>3. Classify(rec) \in {"FAILED_UNRESOLVED", "FAILED_RESOLVED"}
      BY <3>1, <3>2 DEF ClassifyFailed
    <3>4. ASSUME Classify(rec) = "FAILED_RESOLVED" PROVE Reverted(EffectOf(t))
      <4>1. StatusesOf(rec) \cap {"APPLIED", "VALIDATION_FAILED"} = {}
        BY <3>1, <3>2, <3>4 DEF ClassifyFailed
      <4>2. \A j \in Actions : rec.status[j] \in {"PENDING", "BACKUP_FAILED", "ROLLED_BACK"}
        BY <2>3, <2>7, <3>1, <4>1 DEF KnownStatus
      <4> QED
        BY <2>5, <2>11, <4>2 DEF Truthful
    <3> QED
      BY <2>6, <2>11, <3>3, <3>4 DEF Reverted, rec
  <2> QED
    BY <2>2, <2>8, <2>9, <2>10, <2>11 DEF Outcomes
<1>2. LifeInv => ClassifierSound
  BY <1>1 DEF ClassifierSound
<1> QED
  BY <1>2, LifeInvariant, PTL

-----------------------------------------------------------------------------
(* Which steps may change a record that has an outcome: none but the       *)
(* operator's, while nobody holds the lock.                                *)
LEMMA OutcomeStays ==
  ASSUME LifeInv, [Next]_vars, NEW t \in Tx, journal[t] # Absent, journal[t].outcome # "",
         journal'[t] # journal[t]
  PROVE  holder = NoProc /\ journal'[t] = Absent
<1>0. journal \in [Tx -> Record \cup {Absent}]
  BY DEF LifeInv, TypeOK
<1>1. CASE OperatorClear
  <2>1. PICK d \in Present : journal' = [journal EXCEPT ![d] = Absent]
    BY <1>1 DEF OperatorClear
  <2> QED
    BY <1>0, <1>1, <2>1 DEF OperatorClear, Present
<1>2. ASSUME NEW p \in Procs, Begin(p) PROVE FALSE
  <2>1. NextTx \in Tx \ used
    BY <1>2 DEF Begin, LifeInv, RunInv, Knows, NextTx
  <2>2. t # NextTx
    BY <2>1 DEF LifeInv, UsedInv, Present
  <2> QED
    BY <1>0, <1>2, <2>1, <2>2 DEF Begin
<1>3. ASSUME NEW p \in Procs, RunEngine(p) \/ TerminalWrite(p) \/ Finalize(p) PROVE FALSE
  <2>1. tx # NoTx /\ journal[tx].outcome = ""
    BY <1>3 DEF RunEngine, TerminalWrite, Finalize, LifeInv, RunInv, Knows
  <2>2. t # tx
    BY <2>1
  <2>3. journal'[t] = journal[t]
    <3>1. CASE RunEngine(p)
      BY <2>2, <3>1 DEF RunEngine
    <3>2. CASE TerminalWrite(p) \/ Finalize(p)
      BY <1>0, <2>2, <3>2 DEF TerminalWrite, Finalize
    <3> QED
      BY <1>3, <3>1, <3>2
  <2> QED
    BY <2>3
<1>4. CASE UNCHANGED journal
  BY <1>4
<1> QED
  BY <1>1, <1>2, <1>3, <1>4
  DEF Next, Execute, vars, diskVars, Prepare, Refused, AcquireLock, Crash, Drift,
      CheckFresh, JournalGate, EngineReturned, Rediscover, PersistGate, Save, ReleaseLock

(* A terminal record changes no more, except when the operator clears it.  *)
THEOREM LifecycleTerminalIsFinal == Spec => TerminalIsFinal
<1>1. LifeInv /\ [Next]_vars =>
        [\A t \in Tx : journal[t] # Absent /\ journal[t].outcome # "" /\ journal'[t] # journal[t]
            => holder = NoProc /\ journal'[t] = Absent]_vars
  BY OutcomeStays
<1> QED
  BY <1>1, LifeInvariant, PTL DEF Spec, TerminalIsFinal

(* state.json is written only by Save. *)
LEMMA OnlySaveSaves ==
  ASSUME [Next]_vars, saved' # saved
  PROVE  \E p \in Procs : Save(p)
  BY DEF Next, Execute, vars, diskVars, lifeVars, Prepare, Refused, AcquireLock, Crash, Drift,
         OperatorClear, CheckFresh, JournalGate, Begin, RunEngine, EngineReturned, Rediscover,
         TerminalWrite, PersistGate, Finalize, ReleaseLock

(* Anti-laundering, for any number of processes: state.json is never       *)
(* written while another transaction is open or latched, nor by a run that *)
(* changes nothing over what a failed transaction left.                    *)
THEOREM LifecycleNoLaundering == Spec => NoLaundering
<1>1. ASSUME LifeInv, [Next]_vars, saved' # saved, NEW t \in Present \ {tx}
      PROVE  /\ ~Blocking(journal[t])
             /\ tx = NoTx => journal[t].outcome = "COMPLETED"
  <2>1. PICK p \in Procs : Save(p)
    BY <1>1, OnlySaveSaves
  <2>2. /\ ~BlocksPersistence(journal[t], Mutates(p))
        /\ tx = NoTx => ~Mutates(p)
    BY <1>1, <2>1 DEF Save, LifeInv, RunInv, Knows
  <2>3. journal[t] \in Record /\ Truthful(t, journal[t], EffectOf(t))
    BY <1>1, PresentFacts DEF LifeInv, TruthInv, Present
  <2> QED
    BY <2>2, <2>3 DEF BlocksPersistence, Blocking, Record, Outcomes, Truthful
<1>2. LifeInv /\ [Next]_vars =>
        [saved' # saved =>
            \A t \in Present \ {tx} :
               /\ ~Blocking(journal[t])
               /\ tx = NoTx /\ EffectOf(t) # Unchanged => journal[t].outcome = "COMPLETED"]_vars
  BY <1>1
<1> QED
  BY <1>2, LifeInvariant, PTL DEF Spec, NoLaundering

-----------------------------------------------------------------------------
(* What a run has left at each of its steps. *)
LEMMA RunStepsLeftAt ==
  ASSUME NEW p \in Procs
  PROVE  /\ ppc[p] = "locked"     => RunStepsLeft(p) = 6 * N + 12
         /\ ppc[p] = "fresh"      => RunStepsLeft(p) = 6 * N + 11
         /\ ppc[p] = "begin"      => RunStepsLeft(p) = 6 * N + 10
         /\ ppc[p] = "engine"     => RunStepsLeft(p) = StepsLeft + 6
         /\ ppc[p] = "rediscover" => RunStepsLeft(p) = 5
         /\ ppc[p] = "terminal"   => RunStepsLeft(p) = 4
         /\ ppc[p] = "gate"       => RunStepsLeft(p) = 3
         /\ ppc[p] \in {"save", "finalize"} => RunStepsLeft(p) = 2
         /\ ppc[p] = "release"    => RunStepsLeft(p) = 1
  BY DEF RunStepsLeft

(* A bound that is lowered stays below the old one when six are added. *)
LEMMA BelowInRange ==
  \A m, n \in Nat : \A a, b : n < m /\ a = m + 6 /\ b = n + 6 => b \in 1..(a - 1)
  OBVIOUS

(* Each step of Execute but the release brings the release nearer. *)
LEMMA ExecuteDecreases ==
  ASSUME LifeInv, NEW p \in Procs, Execute(p), ~ReleaseLock(p)
  PROVE  RunStepsLeft(p)' \in 1..(RunStepsLeft(p) - 1)
<1> DEFINE after == ppc'[p]
           left == RunStepsLeft(p)
           next == RunStepsLeft(p)'
<1>1. ppc \in [Procs -> PStates] /\ N \in Nat
  BY EngineConstants DEF LifeInv, TypeOK
<1>2. \A w : Goto(p, w) => after = w
  BY <1>1 DEF Goto
<1>3. \A w, st : ReturnAt(p, w, st) => after = w
  BY <1>2 DEF ReturnAt
<1>4. /\ after = "fresh"      => next = 6 * N + 11
      /\ after = "begin"      => next = 6 * N + 10
      /\ after = "engine"     => next = StepsLeft' + 6
      /\ after = "rediscover" => next = 5
      /\ after = "terminal"   => next = 4
      /\ after = "gate"       => next = 3
      /\ after \in {"save", "finalize"} => next = 2
      /\ after = "release"    => next = 1
  BY DEF RunStepsLeft
<1>5. /\ ppc[p] = "locked"     => left = 6 * N + 12
      /\ ppc[p] = "fresh"      => left = 6 * N + 11
      /\ ppc[p] = "begin"      => left = 6 * N + 10
      /\ ppc[p] = "engine"     => left = StepsLeft + 6
      /\ ppc[p] = "rediscover" => left = 5
      /\ ppc[p] = "terminal"   => left = 4
      /\ ppc[p] = "gate"       => left = 3
      /\ ppc[p] \in {"save", "finalize"} => left = 2
  BY RunStepsLeftAt
<1> HIDE DEF after, left, next
<1>6. CASE CheckFresh(p) \/ JournalGate(p)
  <2>1. \/ ppc[p] = "locked" /\ after \in {"fresh", "release"}
        \/ ppc[p] = "fresh" /\ after \in {"begin", "rediscover", "release"}
    BY <1>6, <1>2, <1>3 DEF CheckFresh, JournalGate
  <2> QED
    BY <2>1, <1>1, <1>4, <1>5 DEF left, next
<1>7. CASE Begin(p)
  <2>1. ppc[p] = "begin" /\ after \in {"engine", "release"} /\ UNCHANGED engineVars
    BY <1>7, <1>2, <1>3 DEF Begin
  <2>2. tx = NoTx
    <3>1. holder = p
      BY <2>1 DEF LifeInv, LockInv
    <3> QED
      BY <2>1, <3>1 DEF LifeInv, FlightInv, InFlight
  <2>3. epc = "idle"
    BY <2>2 DEF LifeInv, RestInv, EngineInit
  <2>4. StepsLeft' = 6 * N + 3
    BY <2>1, <2>3 DEF StepsLeft, engineVars
  <2> QED
    BY <2>1, <2>4, <1>1, <1>4, <1>5 DEF left, next
<1>8. CASE RunEngine(p)
  <2>1. ppc[p] = "engine" /\ after = "engine" /\ EngineStep
    BY <1>8 DEF RunEngine, lifeVars, after
  <2>2. StepsLeft \in Nat /\ StepsLeft' \in Nat /\ StepsLeft' < StepsLeft
    BY <2>1, StepsDecrease DEF LifeInv
  <2>3. RunStepsLeft(p) = StepsLeft + 6
    BY <2>1, RunStepsLeftAt
  <2>4. RunStepsLeft(p)' = StepsLeft' + 6
    BY <2>1, <1>4 DEF next
  <2> QED
    BY <2>2, <2>3, <2>4, BelowInRange, Zenon
<1>9. CASE EngineReturned(p)
  <2>1. ppc[p] = "engine" /\ epc = "done" /\ after \in {"rediscover", "finalize"}
    BY <1>9, <1>2, <1>3 DEF EngineReturned
  <2> QED
    BY <2>1, <1>4, <1>5, StepsLeftAt DEF left, next
<1>10. CASE Rediscover(p) \/ TerminalWrite(p) \/ PersistGate(p) \/ Save(p) \/ Finalize(p)
  <2>1. CASE Rediscover(p)
    <3>1. ppc[p] = "rediscover" /\ after \in {"gate", "terminal", "release", "finalize"}
      BY <2>1, <1>2, <1>3 DEF Rediscover
    <3> QED
      BY <3>1, <1>4, <1>5 DEF left, next
  <2>2. CASE TerminalWrite(p)
    <3>1. ppc[p] = "terminal" /\ after \in {"gate", "release"}
      BY <2>2, <1>2, <1>3 DEF TerminalWrite
    <3> QED
      BY <3>1, <1>4, <1>5 DEF left, next
  <2>3. CASE PersistGate(p)
    <3>1. ppc[p] = "gate" /\ after \in {"save", "release"}
      BY <2>3, <1>2, <1>3 DEF PersistGate
    <3> QED
      BY <3>1, <1>4, <1>5 DEF left, next
  <2>4. CASE Save(p) \/ Finalize(p)
    <3>1. ppc[p] \in {"save", "finalize"} /\ after = "release"
      BY <2>4, <1>2, <1>3 DEF Save, Finalize
    <3> QED
      BY <3>1, <1>4, <1>5 DEF left, next
  <2> QED
    BY <1>10, <2>1, <2>2, <2>3, <2>4
<1> QED
  BY <1>6, <1>7, <1>8, <1>9, <1>10 DEF Execute

(* What somebody else does while p holds the lock leaves p's run alone. *)
LEMMA OthersLeaveTheRun ==
  ASSUME LifeInv, [Next]_vars, NEW p \in Procs, holder = p, ~Execute(p), ~Crash(p)
  PROVE  UNCHANGED <<ppc[p], engineVars, stage, tx, diskVars>>
<1>1. ppc \in [Procs -> PStates] /\ ppc[p] \notin {"idle", "planned"} /\ holder # NoProc
  BY OrchestrateConstants DEF LifeInv, TypeOK, LockInv
<1>2. \A q \in Procs : q # p => ppc[q] \in {"idle", "planned"}
  BY DEF LifeInv, LockInv
<1>3. ASSUME NEW q \in Procs, Execute(q) PROVE FALSE
  <2>1. ppc[q] \notin {"idle", "planned"}
    BY <1>3 DEF Execute, CheckFresh, JournalGate, Begin, RunEngine, EngineReturned, Rediscover,
       TerminalWrite, PersistGate, Save, Finalize, ReleaseLock
  <2> QED
    BY <2>1, <1>2, <1>3
<1>4. ASSUME NEW q \in Procs, Prepare(q) \/ Refused(q) \/ Crash(q)
      PROVE  UNCHANGED <<ppc[p], engineVars, stage, tx, diskVars>>
  <2>1. q # p
    BY <1>1, <1>4 DEF Prepare, Refused
  <2>2. ppc'[p] = ppc[p]
    BY <2>1, <1>1, <1>4 DEF Prepare, Refused, Crash, Forget, Goto
  <2> QED
    BY <2>1, <2>2, <1>4 DEF Prepare, Refused, Crash
<1>5. ASSUME NEW q \in Procs, AcquireLock(q) PROVE FALSE
  BY <1>1, <1>5 DEF AcquireLock
<1>6. CASE Drift
  BY <1>6 DEF Drift, lifeVars
<1>7. ~OperatorClear
  BY <1>1 DEF OperatorClear
<1>8. CASE UNCHANGED vars
  BY <1>8 DEF vars, lifeVars
<1> QED
  BY <1>3, <1>4, <1>5, <1>6, <1>7, <1>8 DEF Next

(* For any number of processes and plans of any length: whoever holds the  *)
(* lifecycle lock gives it back after at most 6 * N + 12 steps of its own, *)
(* and nobody else can set it back or touches the journal and state.json   *)
(* meanwhile - the safety half of LockIsReleased.                          *)
THEOREM LifecycleRunIsBounded == Spec => RunIsBounded
<1>1. ASSUME LifeInv, [Next]_vars, NEW p \in Procs, holder = p
      PROVE  \/ holder' # p
             \/ RunStepsLeft(p)' \in 1..(RunStepsLeft(p) - 1)
             \/ UNCHANGED <<ppc[p], engineVars, stage, tx, diskVars>>
  <2>1. CASE ReleaseLock(p) \/ Crash(p)
    <3>1. holder' = NoProc
      BY <1>1, <2>1 DEF ReleaseLock, Crash
    <3> QED
      BY <1>1, <3>1, OrchestrateConstants
  <2>2. CASE Execute(p) /\ ~ReleaseLock(p)
    BY <1>1, <2>2, ExecuteDecreases
  <2>3. CASE ~Execute(p) /\ ~Crash(p)
    BY <1>1, <2>3, OthersLeaveTheRun
  <2> QED
    BY <2>1, <2>2, <2>3
<1>2. LifeInv /\ [Next]_vars =>
        [\A p \in Procs : holder = p =>
            \/ holder' # p
            \/ RunStepsLeft(p)' \in 1..(RunStepsLeft(p) - 1)
            \/ UNCHANGED <<ppc[p], engineVars, stage, tx, diskVars>>]_vars
  BY <1>1
<1> QED
  BY <1>2, LifeInvariant, PTL DEF Spec, RunIsBounded

-----------------------------------------------------------------------------
(* A transaction without a record has done nothing that is remembered. *)
GoneInv == \A t \in Tx : t \notin Present => final[t] = Unchanged

BookInv == LifeInv /\ GoneInv

(* No step but the operator's takes a record away. *)
LEMMA RecordsStay ==
  ASSUME LifeInv, [Next]_vars, ~OperatorClear
  PROVE  Present \subseteq Present'
<1> SUFFICES ASSUME NEW t \in Present PROVE t \in Present'
  OBVIOUS
<1>1. /\ journal \in [Tx -> Record \cup {Absent}] /\ t \in Tx /\ journal[t] # Absent
  BY DEF LifeInv, TypeOK, Present
<1>2. LifeInv'
  BY LifeNext
<1>3. ASSUME NEW p \in Procs, Begin(p) PROVE t \in Present'
  <2>1. journal' = journal \/ journal' = [journal EXCEPT ![NextTx] = NewRecord]
    BY <1>3 DEF Begin
  <2>2. NewRecord \in Record
    BY DEF NewRecord, Record, Outcomes, StageNames, NoAct, Statuses
  <2> QED
    BY <1>1, <2>1, <2>2, AbsentIsNoRecord DEF Present
<1>4. ASSUME NEW p \in Procs, RunEngine(p) PROVE t \in Present'
  <2>1. journal'[t] = IF t = tx THEN [journal[t] EXCEPT !.status = durable'] ELSE journal[t]
    BY <1>1, <1>4 DEF RunEngine
  <2>2. durable' \in [Actions -> Statuses]
    BY <1>2 DEF LifeInv, TypeOK, EngineTypeOK
  <2>3. [journal[t] EXCEPT !.status = durable'] \in Record /\ journal[t] \in Record
    <3>1. journal[t] \in Record
      BY <1>1
    <3> QED
      BY <2>2, <3>1 DEF Record
  <2>4. journal'[t] # Absent
    BY <2>1, <2>3, AbsentIsNoRecord
  <2> QED
    BY <1>1, <2>4 DEF Present
<1>5. ASSUME NEW p \in Procs, TerminalWrite(p) \/ Finalize(p) PROVE t \in Present'
  <2>1. tx # NoTx /\ epc = "done" /\ stage \in StageNames
    BY <1>5 DEF TerminalWrite, Finalize, LifeInv, RunInv, Knows, AfterEngine, InFlight, TypeOK
  <2>2. FailureRecord(stage) \in Record
    BY <2>1, FailureRecordFacts
  <2>3. SuccessRecord # Absent
    <3>1. [j \in Actions |-> res[j].status] \in [Actions -> Statuses]
      BY DEF LifeInv, TypeOK, EngineTypeOK
    <3>2. SuccessRecord \in Record
      BY <3>1 DEF SuccessRecord, Record, Outcomes, StageNames
    <3> QED
      BY <3>2, AbsentIsNoRecord
  <2>4. FailureRecord(stage) # Absent
    BY <2>2, AbsentIsNoRecord
  <2>5. \/ journal' = journal
        \/ journal' = [journal EXCEPT ![tx] = SuccessRecord]
        \/ journal' = [journal EXCEPT ![tx] = FailureRecord(stage)]
    BY <1>5 DEF TerminalWrite, Finalize
  <2> QED
    BY <1>1, <2>3, <2>4, <2>5 DEF Present
<1>6. CASE UNCHANGED journal
  BY <1>6 DEF Present
<1> QED
  BY <1>3, <1>4, <1>5, <1>6
  DEF Next, Execute, vars, diskVars, Prepare, Refused, AcquireLock, Crash, Drift,
      CheckFresh, JournalGate, EngineReturned, Rediscover, PersistGate, Save, ReleaseLock

(* What a transaction did is settled when its run is over, and changes no  *)
(* more.                                                                   *)
LEMMA GoneStep == BookInv /\ [Next]_vars => BookInv'
<1> SUFFICES ASSUME BookInv, [Next]_vars PROVE GoneInv'
  BY LifeNext DEF BookInv
<1>1. LifeInv /\ GoneInv /\ final \in [Tx -> [Actions -> {"orig", "new", "dirty"}]]
  BY DEF BookInv, LifeInv, TypeOK
<1>2. CASE OperatorClear
  <2>1. PICK d \in Present : /\ journal' = [journal EXCEPT ![d] = Absent]
                             /\ final' = [final EXCEPT ![d] = Unchanged]
    BY <1>2 DEF OperatorClear
  <2>2. d \in Tx /\ journal \in [Tx -> Record \cup {Absent}]
    BY <1>1 DEF Present, LifeInv, TypeOK
  <2>3. \A t \in Tx : t # d => (t \in Present' <=> t \in Present) /\ final'[t] = final[t]
    BY <1>1, <2>1, <2>2 DEF Present
  <2>4. final'[d] = Unchanged
    BY <1>1, <2>1, <2>2
  <2> QED
    BY <1>1, <2>3, <2>4 DEF GoneInv
<1>3. CASE ~OperatorClear
  <2>1. Present \subseteq Present'
    BY <1>1, <1>3, RecordsStay
  <2>2. \/ final' = final
        \/ tx # NoTx /\ final' = [final EXCEPT ![tx] = effect]
    BY <1>3 DEF Next, Execute, vars, Prepare, Refused, AcquireLock, Crash, Drift, Fold,
       CheckFresh, JournalGate, Begin, RunEngine, EngineReturned, Rediscover, TerminalWrite,
       PersistGate, Save, Finalize, ReleaseLock
  <2>3. tx # NoTx => tx \in Present
    BY <1>1 DEF LifeInv, TypeOK, FlightInv, Present
  <2>4. \A t \in Tx : t \notin Present' => t \notin Present /\ final'[t] = final[t]
    BY <1>1, <2>1, <2>2, <2>3
  <2> QED
    BY <1>1, <2>4 DEF GoneInv
<1> QED
  BY <1>2, <1>3

(* The invariant of the refinement holds in every execution. *)
LEMMA BookInvariant == Spec => []BookInv
<1>1. Init => BookInv
  BY LifeInit DEF BookInv, GoneInv, Init
<1> QED
  BY <1>1, GoneStep, PTL DEF Spec

-----------------------------------------------------------------------------
(* What a record tells, outcome by outcome. *)
LEMMA ToldFacts ==
  ASSUME NEW rec \in Record
  PROVE  /\ rec.outcome = "" => Told(rec) = "open"
         /\ rec.outcome = "COMPLETED" => Told(rec) = "completed"
         /\ rec.outcome = "RECOVERY_REQUIRED" => Told(rec) = "latched"
         /\ rec.outcome = "FAILED" => Told(rec) = IF rec.rollback = "ROLLED_BACK" THEN "reverted"
                                                  ELSE "failed"
         /\ rec.outcome \in {"", "COMPLETED", "RECOVERY_REQUIRED", "FAILED"}
<1>1. rec.outcome = "" => Told(rec) = "open"
  BY DEF Told
<1>2. rec.outcome = "COMPLETED" => Told(rec) = "completed"
  BY DEF Told
<1>3. rec.outcome = "RECOVERY_REQUIRED" => Told(rec) = "latched"
  BY DEF Told
<1>4. rec.outcome = "FAILED" => Told(rec) = IF rec.rollback = "ROLLED_BACK" THEN "reverted"
                                            ELSE "failed"
  BY DEF Told
<1>5. rec.outcome \in {"", "COMPLETED", "RECOVERY_REQUIRED", "FAILED"}
  BY DEF Record, Outcomes
<1> QED
  BY <1>1, <1>2, <1>3, <1>4, <1>5

(* What the ledger says of a transaction, in terms of its record. *)
LEMMA LifeFacts ==
  ASSUME LifeInv
  PROVE  /\ \A t \in Tx : Lives[t] = Life(t) /\ Worlds[t] = EffectOf(t)
         /\ \A t \in Tx : Lives[t] \in {"open", "latched"} => t \in Present /\ Blocking(journal[t])
         /\ \A t \in Present : journal[t].outcome = "" => Lives[t] = "open"
         /\ \A t \in Present : journal[t].outcome = "COMPLETED" => Lives[t] = "completed"
         /\ \A t \in Present : Lives[t] # "spent" /\ Lives[t] # "none"
         /\ \A t \in Present : Lives[t] = "completed" => journal[t].outcome = "COMPLETED"
<1>1. \A t \in Tx : Lives[t] = Life(t) /\ Worlds[t] = EffectOf(t)
  BY DEF Lives, Worlds
<1>2. ASSUME NEW t \in Present
      PROVE  /\ t \in Tx /\ Life(t) = Told(journal[t]) /\ journal[t] \in Record
             /\ journal[t].outcome = "RECOVERY_REQUIRED" => journal[t].recovery
  <2>1. t \in Tx /\ journal[t] # Absent
    BY DEF Present
  <2>2. journal[t] \in Record
    BY <2>1, PresentFacts DEF LifeInv
  <2>3. journal[t].outcome = "RECOVERY_REQUIRED" => journal[t].recovery
    BY DEF LifeInv, TruthInv, Truthful
  <2> QED
    BY <2>1, <2>2, <2>3 DEF Life
<1>3. ASSUME NEW t \in Tx, Life(t) \in {"open", "latched"}
      PROVE  t \in Present
  BY <1>3 DEF Life, Present
<1>4. \A t \in Present : Life(t) \in {"open", "latched"} => Blocking(journal[t])
  BY <1>2, ToldFacts DEF Blocking
<1>5. \A t \in Present :
        /\ journal[t].outcome = "" => Life(t) = "open"
        /\ journal[t].outcome = "COMPLETED" => Life(t) = "completed"
        /\ Life(t) # "spent" /\ Life(t) # "none"
        /\ Life(t) = "completed" => journal[t].outcome = "COMPLETED"
  BY <1>2, ToldFacts
<1> QED
  BY <1>1, <1>2, <1>3, <1>4, <1>5

(* A step that leaves the transactions and the disk alone is none of the   *)
(* ledger's.                                                               *)
LEMMA QuietBook ==
  ASSUME UNCHANGED <<tx, used, final, effect, journal, saved>>
  PROVE  UNCHANGED Book!vars
<1>1. \A t \in Tx : Life(t)' = Life(t) /\ EffectOf(t)' = EffectOf(t)
  BY DEF Life, EffectOf
<1>2. Lives' = Lives /\ Worlds' = Worlds /\ Appeals' = Appeals
  BY <1>1 DEF Lives, Worlds, Appeals
<1> QED
  BY <1>2 DEF Book!vars

(* The end of a run, by return or by death. *)
LEMMA FoldBook ==
  ASSUME LifeInv, Fold, UNCHANGED <<used, journal, saved>>
  PROVE  Book!Leave
<1>1. \A t \in Tx : t # NoTx
  BY OrchestrateConstants DEF NoTx
<1>2. final \in [Tx -> [Actions -> {"orig", "new", "dirty"}]] /\ tx \in Tx \cup {NoTx}
  BY DEF LifeInv, TypeOK
<1>3. tx' = NoTx /\ final' = IF tx = NoTx THEN final ELSE [final EXCEPT ![tx] = effect]
  BY DEF Fold
<1>4. \A t \in Tx : EffectOf(t)' = EffectOf(t)
  <2> SUFFICES ASSUME NEW t \in Tx PROVE EffectOf(t)' = EffectOf(t)
    OBVIOUS
  <2>1. EffectOf(t)' = final'[t]
    BY <1>1, <1>3 DEF EffectOf
  <2>2. CASE t = tx
    BY <1>1, <1>2, <1>3, <2>1, <2>2 DEF EffectOf
  <2>3. CASE t # tx
    BY <1>2, <1>3, <2>1, <2>3 DEF EffectOf
  <2> QED
    BY <2>2, <2>3
<1>5. \A t \in Tx : Life(t)' = Life(t)
  BY DEF Life
<1>6. Lives' = Lives /\ Worlds' = Worlds /\ Appeals' = Appeals
  BY <1>4, <1>5 DEF Lives, Worlds, Appeals
<1> QED
  BY <1>3, <1>6 DEF Book!Leave

(* One transaction enters a new stage of its life. *)
LEMMA OneLife ==
  ASSUME NEW n \in Tx, NEW x, Life(n)' = x, \A t \in Tx : t # n => Life(t)' = Life(t)
  PROVE  Lives' = [Lives EXCEPT ![n] = x]
<1>1. \A t \in Tx : Lives[t] = Life(t) /\ Lives'[t] = Life(t)'
  BY DEF Lives
<1>2. \A t \in Tx : Lives'[t] = IF t = n THEN x ELSE Lives[t]
  BY <1>1
<1> QED
  BY <1>2 DEF Lives

(* While a run is in flight nobody else's transaction is open or latched. *)
LEMMA FlightUndisturbed == ASSUME LifeInv, tx # NoTx PROVE tx \in Tx /\ Book!Undisturbed(tx)
<1>1. tx \in Tx /\ \A t \in Present \ {tx} : ~Blocking(journal[t])
  BY DEF LifeInv, TypeOK, FlightInv
<1> QED
  BY <1>1, LifeFacts DEF Book!Undisturbed

(* Begin: the record comes before the work, or the id is spent. *)
LEMMA BeginBook ==
  ASSUME BookInv, NEW p \in Procs, Begin(p)
  PROVE  \E t \in Tx : Book!Open(t) \/ Book!Spend(t)
<1>0. PICK n : n = NextTx
  OBVIOUS
<1>1. /\ ppc[p] = "begin"
      /\ used' = used \cup {n}
      /\ journal' \in {journal, [journal EXCEPT ![n] = NewRecord]}
      /\ tx' \in {tx, n}
      /\ tx' = tx \/ journal' = [journal EXCEPT ![n] = NewRecord]
      /\ effect' = effect /\ final' = final /\ saved' = saved
  BY <1>0 DEF Begin, engineVars
<1>2. LifeInv /\ GoneInv /\ journal \in [Tx -> Record \cup {Absent}]
  BY DEF BookInv, LifeInv, TypeOK
<1>3. Tx \ used # {} /\ \A t \in Present : ~Blocking(journal[t])
  BY <1>1, <1>2 DEF LifeInv, RunInv, Knows
<1>4. n \in Tx \ used /\ n \in Tx /\ n # NoTx
  BY <1>0, <1>3, OrchestrateConstants DEF NextTx, NoTx
<1>5. tx = NoTx /\ effect = Unchanged
  BY <1>1, <1>2 DEF LifeInv, LockInv, FlightInv, InFlight, RestInv, EngineInit, Unchanged
<1>6. n \notin Present
  BY <1>2, <1>4 DEF LifeInv, UsedInv
<1>7. NewRecord \in Record /\ NewRecord.outcome = ""
  BY DEF NewRecord, Record, Outcomes, StageNames, NoAct, Statuses
<1>8. \A t \in Tx : t # n => Life(t)' = Life(t)
  BY <1>1, <1>2, <1>4 DEF Life
<1>9. Life(n) = "none"
  BY <1>4, <1>6 DEF Life, Present
<1>10. Worlds' = Worlds
  <2>1. ASSUME NEW t \in Tx PROVE EffectOf(t)' = EffectOf(t)
    <3>1. CASE t # n
      BY <1>1, <1>4, <1>5, <3>1, OrchestrateConstants DEF EffectOf, NoTx
    <3>2. CASE t = n
      <4>1. final[n] = Unchanged
        BY <1>2, <1>4, <1>6 DEF GoneInv
      <4> QED
        BY <1>1, <1>4, <1>5, <3>2, <4>1 DEF EffectOf
    <3> QED
      BY <3>1, <3>2
  <2> QED
    BY <2>1 DEF Worlds
<1>11. Appeals' = Appeals /\ Lives[n] = "none"
  BY <1>1, <1>4, <1>9 DEF Appeals, Lives
<1>12. CASE journal' = [journal EXCEPT ![n] = NewRecord]
  <2>1. journal'[n] = NewRecord
    BY <1>2, <1>4, <1>12
  <2>2. Life(n)' = "open"
    BY <1>7, <2>1, ToldFacts, AbsentIsNoRecord DEF Life
  <2>3. Lives' = [Lives EXCEPT ![n] = "open"]
    BY <1>4, <1>8, <2>2, OneLife
  <2>4. Book!Undisturbed(n)
    BY <1>2, <1>3, LifeFacts DEF Book!Undisturbed
  <2>5. Book!Open(n)
    BY <1>1, <1>5, <1>10, <1>11, <2>3, <2>4 DEF Book!Open
  <2> QED
    BY <1>4, <2>5
<1>13. CASE journal' = journal /\ tx' = tx
  <2>1. Life(n)' = "spent"
    BY <1>1, <1>6, <1>4, <1>13 DEF Life, Present
  <2>2. Lives' = [Lives EXCEPT ![n] = "spent"]
    BY <1>4, <1>8, <2>1, OneLife
  <2>3. Book!Spend(n)
    BY <1>10, <1>11, <1>13, <2>2 DEF Book!Spend
  <2> QED
    BY <1>4, <2>3
<1> QED
  BY <1>1, <1>12, <1>13

(* RunEngine: only the transaction in flight works, while it is open. *)
LEMMA RunEngineBook == ASSUME LifeInv, NEW p \in Procs, RunEngine(p) PROVE Book!Work(tx)
<1>1. /\ ppc[p] = "engine" /\ EngineStep
      /\ UNCHANGED <<tx, used, final, saved>>
      /\ journal' = [t \in Tx |-> IF t = tx /\ journal[t] # Absent
                               THEN [journal[t] EXCEPT !.status = durable'] ELSE journal[t]]
  BY DEF RunEngine
<1>2. tx # NoTx /\ journal[tx].outcome = ""
  BY <1>1 DEF LifeInv, RunInv, Knows
<1>3. tx \in Tx /\ journal[tx] # Absent /\ journal[tx] \in Record
  BY <1>2 DEF LifeInv, TypeOK, FlightInv
<1>4. EngineTypeOK'
  BY <1>1, EngineStepInv DEF LifeInv, EngineInv
<1> DEFINE rec == [journal[tx] EXCEPT !.status = durable']
<1>5. rec \in Record /\ rec.outcome = ""
  BY <1>2, <1>3, <1>4 DEF Record, EngineTypeOK
<1>6. journal'[tx] = rec /\ \A t \in Tx : t # tx => journal'[t] = journal[t]
  BY <1>1, <1>3
<1> HIDE DEF rec
<1>7. Life(tx)' = "open"
  BY <1>1, <1>3, <1>5, <1>6, ToldFacts, AbsentIsNoRecord DEF Life
<1>8. Life(tx) = "open"
  BY <1>2, <1>3, ToldFacts DEF Life
<1>9. \A t \in Tx : Life(t)' = Life(t)
  BY <1>1, <1>6, <1>7, <1>8 DEF Life
<1>10. Lives' = Lives /\ Lives[tx] = "open" /\ Appeals' = Appeals
  BY <1>1, <1>3, <1>8, <1>9 DEF Lives, Appeals
<1>11. effect' \in Book!Worlds
  BY <1>4 DEF EngineTypeOK, Book!Worlds
<1>12. Worlds' = [Worlds EXCEPT ![tx] = effect']
  <2>1. \A t \in Tx : EffectOf(t)' = IF t = tx THEN effect' ELSE EffectOf(t)
    BY <1>1 DEF EffectOf
  <2> QED
    BY <1>1, <2>1 DEF Worlds
<1> QED
  BY <1>1, <1>2, <1>10, <1>11, <1>12, FlightUndisturbed DEF Book!Work

(* TerminalWrite and Finalize: the outcome that is written is true. *)
LEMMA SettleBook ==
  ASSUME LifeInv, tx # NoTx, journal[tx].outcome = "",
         NEW rec \in Record, Truthful(tx, rec, effect), rec.outcome # "",
         journal' = [journal EXCEPT ![tx] = rec],
         UNCHANGED <<tx, used, final, effect, saved>>
  PROVE  Book!Settle(tx)
<1>1. tx \in Tx /\ journal \in [Tx -> Record \cup {Absent}] /\ journal[tx] # Absent
  BY DEF LifeInv, TypeOK, FlightInv
<1>2. /\ journal'[tx] = rec /\ \A t \in Tx : t # tx => journal'[t] = journal[t]
      /\ tx' = tx /\ used' = used
  BY <1>1
<1>3. Life(tx)' = Told(rec)
  BY <1>2, AbsentIsNoRecord DEF Life
<1>4. \A t \in Tx : t # tx => Life(t)' = Life(t)
  BY <1>1, <1>2 DEF Life
<1>5. Lives' = [Lives EXCEPT ![tx] = Told(rec)]
  BY <1>1, <1>3, <1>4, OneLife
<1>6. Lives[tx] = "open" /\ Worlds[tx] = effect
  BY <1>1, LifeFacts DEF Present, EffectOf
<1>7. Worlds' = Worlds /\ Appeals' = Appeals
  BY DEF Worlds, Appeals, EffectOf
<1>8. Told(rec) \in Book!Lives
  BY ToldFacts DEF Book!Lives
<1>9. Book!True(tx, Told(rec))
  <2>1. rec.outcome = "COMPLETED" => \A j \in Actions : effect[j] = "new"
    BY DEF Truthful
  <2>2. rec.outcome = "FAILED" => ~Risky(tx) /\ (rec.rollback = "ROLLED_BACK" => Reverted(effect))
    BY DEF Truthful
  <2>3. CASE rec.outcome = "COMPLETED"
    BY <1>6, <2>1, <2>3, ToldFacts DEF Book!True
  <2>4. CASE rec.outcome = "RECOVERY_REQUIRED"
    BY <2>4, ToldFacts DEF Book!True
  <2>5. CASE rec.outcome = "FAILED"
    BY <1>6, <2>2, <2>5, ToldFacts DEF Book!True, Reverted
  <2> QED
    BY <2>3, <2>4, <2>5, ToldFacts
<1> QED
  BY <1>5, <1>6, <1>7, <1>8, <1>9 DEF Book!Settle

(* TerminalWrite and Finalize: nothing is written, or the truth. *)
LEMMA ClosingBook ==
  ASSUME LifeInv, NEW p \in Procs, TerminalWrite(p) \/ Finalize(p)
  PROVE  UNCHANGED Book!vars \/ \E t \in Tx : Book!Settle(t)
<1>1. /\ ppc[p] \in {"terminal", "finalize"}
      /\ ppc[p] = "terminal" => journal' \in {journal, [journal EXCEPT ![tx] = SuccessRecord]}
      /\ ppc[p] = "finalize" => journal' \in {journal, [journal EXCEPT ![tx] = FailureRecord(stage)]}
      /\ UNCHANGED <<tx, used, final, effect, saved>>
  BY DEF TerminalWrite, Finalize, engineVars
<1>2. tx # NoTx /\ journal[tx].outcome = "" /\ epc = "done" /\ stage \in StageNames
  BY <1>1 DEF LifeInv, RunInv, Knows, AfterEngine, InFlight, TypeOK
<1>3. tx \in Tx
  BY <1>2, FlightUndisturbed
<1>4. CASE journal' = journal
  BY <1>1, <1>4, QuietBook
<1>5. CASE ppc[p] = "terminal" /\ journal' = [journal EXCEPT ![tx] = SuccessRecord]
  <2>1. verdict = "APPLIED"
    BY <1>2, <1>5 DEF LifeInv, RunInv, Knows
  <2>2. \A j \in Actions : effect[j] = "new" /\ res[j].status = "APPLIED"
    BY <1>2, <2>1 DEF LifeInv, EngineInv, DoneInv
  <2>3. SuccessRecord \in Record /\ SuccessRecord.outcome # ""
    BY <2>2 DEF SuccessRecord, Record, Outcomes, StageNames, Statuses
  <2>4. Truthful(tx, SuccessRecord, effect)
    BY <2>2 DEF SuccessRecord, Truthful
  <2>5. PICK rec : rec = SuccessRecord
    OBVIOUS
  <2> QED
    BY <1>1, <1>2, <1>3, <1>5, <2>3, <2>4, <2>5, SettleBook
<1>6. CASE ppc[p] = "finalize" /\ journal' = [journal EXCEPT ![tx] = FailureRecord(stage)]
  <2>1. FailureRecord(stage) \in Record /\ Truthful(tx, FailureRecord(stage), effect)
    BY <1>2, FailureRecordFacts
  <2>2. FailureRecord(stage).outcome # ""
    BY DEF FailureRecord
  <2>3. PICK rec : rec = FailureRecord(stage)
    OBVIOUS
  <2> QED
    BY <1>1, <1>2, <1>3, <1>6, <2>1, <2>2, <2>3, SettleBook
<1> QED
  BY <1>1, <1>4, <1>5, <1>6

(* Save: nobody's open or failed work is declared to be the configured     *)
(* state, and every claim has its completed transaction.                   *)
LEMMA SaveBook ==
  ASSUME BookInv, NEW p \in Procs, Save(p)
  PROVE  Book!Persist
<1>1. /\ ppc[p] = "save"
      /\ UNCHANGED <<tx, used, final, effect, journal>>
  BY DEF Save, engineVars
<1>2. LifeInv /\ GoneInv /\ LifeInv'
  BY LifeNext DEF BookInv, Next, Execute
<1>3. /\ tx # NoTx => journal[tx].outcome = "COMPLETED"
      /\ tx = NoTx => ~Mutates(p)
      /\ \A t \in Present \ {tx} : ~BlocksPersistence(journal[t], Mutates(p))
  BY <1>1, <1>2 DEF LifeInv, RunInv, Knows
<1>4. tx # NoTx => tx \in Present
  BY <1>2 DEF LifeInv, TypeOK, FlightInv, Present
<1>5. Lives' = Lives /\ Worlds' = Worlds
  BY <1>1 DEF Lives, Worlds, Life, EffectOf
<1>6. tx # NoTx => Lives[tx] = "completed"
  BY <1>2, <1>3, <1>4, LifeFacts
<1>7. Book!Undisturbed(tx)
  BY <1>2, <1>3, LifeFacts DEF Book!Undisturbed, BlocksPersistence
<1>8. ASSUME tx = NoTx, NEW t \in Tx, Worlds[t] # Book!Untouched PROVE Lives[t] = "completed"
  <2>1. t # tx /\ Worlds[t] = final[t]
    BY <1>2, <1>8, LifeFacts, OrchestrateConstants DEF EffectOf, NoTx
  <2>2. t \in Present
    BY <1>2, <1>8, <2>1 DEF GoneInv, Unchanged, Book!Untouched
  <2>3. journal[t] \in Record
    BY <1>2, <2>2, PresentFacts DEF LifeInv, Present
  <2>4. journal[t].mut = TRUE /\ journal[t].outcome \in Outcomes
    BY <2>3 DEF Record
  <2>5. ~BlocksPersistence(journal[t], FALSE) /\ ~Blocking(journal[t])
    BY <1>3, <1>8, <2>1, <2>2 DEF BlocksPersistence, Mutates
  <2>6. journal[t].outcome # "FAILED" /\ journal[t].outcome # "RECOVERY_REQUIRED"
    BY <1>2, <2>2, <2>4, <2>5 DEF BlocksPersistence, Blocking, LifeInv, TruthInv, Truthful
  <2>7. journal[t].outcome = "COMPLETED"
    BY <2>4, <2>5, <2>6 DEF Outcomes, Blocking
  <2> QED
    BY <1>2, <2>2, <2>7, LifeFacts
<1>9. Appeals' \subseteq {t \in Tx : Lives[t] = "completed"}
  <2>1. ASSUME NEW j \in Actions, saved'.claims[j] # NoTx
        PROVE  saved'.claims[j] \in Present /\ journal[saved'.claims[j]].outcome = "COMPLETED"
    <3>1. Present' = Present
      BY <1>1 DEF Present
    <3> QED
      BY <1>1, <1>2, <2>1, <3>1 DEF LifeInv, ClaimInv, Proved
  <2>2. \A c \in Present : journal[c].outcome = "COMPLETED" => c \in Tx /\ Lives[c] = "completed"
    BY <1>2, LifeFacts DEF Present
  <2>3. Appeals' = {saved'.claims[j] : j \in Actions} \ {NoTx}
    BY DEF Appeals
  <2> QED
    BY <2>1, <2>2, <2>3
<1> QED
  BY <1>1, <1>5, <1>6, <1>7, <1>8, <1>9 DEF Book!Persist

(* OperatorClear: what is cleared had come to a stop. *)
LEMMA ClearBook ==
  ASSUME LifeInv, OperatorClear
  PROVE  \E t \in Tx : Book!Clear(t)
<1>1. holder = NoProc /\ UNCHANGED <<effect, tx, used, saved>>
  BY DEF OperatorClear, engineVars
<1>2. PICK d \in Present :
         /\ journal[d].outcome # "COMPLETED"
         /\ journal' = [journal EXCEPT ![d] = Absent]
         /\ final' = [final EXCEPT ![d] = Unchanged]
  BY DEF OperatorClear
<1>3. /\ d \in Tx /\ d \in used /\ d # NoTx
      /\ journal \in [Tx -> Record \cup {Absent}] /\ journal[d] \in Record
      /\ final \in [Tx -> [Actions -> {"orig", "new", "dirty"}]]
  BY OrchestrateConstants, PresentFacts DEF LifeInv, TypeOK, UsedInv, Present, NoTx
<1>4. tx = NoTx
  BY <1>1, OrchestrateConstants DEF LifeInv, FlightInv
<1>5. Lives[d] \in {"open", "reverted", "failed", "latched"}
  <2>1. Lives[d] = Told(journal[d])
    BY <1>3, LifeFacts DEF Life, Present
  <2> QED
    BY <1>2, <1>3, <2>1, ToldFacts
<1>6. Life(d)' = "spent"
  BY <1>1, <1>2, <1>3 DEF Life
<1>7. \A t \in Tx : t # d => Life(t)' = Life(t)
  BY <1>1, <1>2, <1>3 DEF Life
<1>8. Lives' = [Lives EXCEPT ![d] = "spent"]
  BY <1>3, <1>6, <1>7, OneLife
<1>9. Worlds' = [Worlds EXCEPT ![d] = Book!Untouched]
  <2>1. \A t \in Tx : EffectOf(t)' = IF t = d THEN Unchanged ELSE EffectOf(t)
    BY <1>1, <1>2, <1>3, <1>4 DEF EffectOf
  <2> QED
    BY <1>3, <2>1 DEF Worlds, Unchanged, Book!Untouched
<1>10. Appeals' = Appeals
  BY <1>1 DEF Appeals
<1>11. Book!Clear(d)
  BY <1>1, <1>4, <1>5, <1>8, <1>9, <1>10 DEF Book!Clear
<1> QED
  BY <1>3, <1>11

-----------------------------------------------------------------------------
(* Every step of the lifecycle is one of the ledger, or none. *)
LEMMA BookStep == BookInv /\ [Next]_vars => [Book!Next]_(Book!vars)
<1> SUFFICES ASSUME BookInv, [Next]_vars PROVE [Book!Next]_(Book!vars)
  OBVIOUS
<1>1. LifeInv
  BY DEF BookInv
<1>2. ASSUME NEW p \in Procs,
             \/ Prepare(p) \/ Refused(p) \/ AcquireLock(p) \/ CheckFresh(p) \/ JournalGate(p)
             \/ EngineReturned(p) \/ Rediscover(p) \/ PersistGate(p)
      PROVE  UNCHANGED Book!vars
  BY <1>2, QuietBook
  DEF Prepare, Refused, AcquireLock, CheckFresh, JournalGate, EngineReturned, Rediscover,
      PersistGate, engineVars, diskVars
<1>3. ASSUME NEW p \in Procs, Begin(p) PROVE Book!Next
  BY <1>3, BeginBook DEF Book!Next
<1>4. ASSUME NEW p \in Procs, RunEngine(p) PROVE Book!Next
  <2>1. tx \in Tx
    BY <1>1, <1>4, FlightUndisturbed DEF RunEngine, LifeInv, RunInv, Knows
  <2> QED
    BY <1>1, <1>4, <2>1, RunEngineBook DEF Book!Next
<1>5. ASSUME NEW p \in Procs, TerminalWrite(p) \/ Finalize(p)
      PROVE  UNCHANGED Book!vars \/ Book!Next
  BY <1>1, <1>5, ClosingBook DEF Book!Next
<1>6. ASSUME NEW p \in Procs, Save(p) PROVE Book!Next
  BY <1>6, SaveBook DEF Book!Next
<1>7. ASSUME NEW p \in Procs, ReleaseLock(p) PROVE Book!Next
  BY <1>1, <1>7, FoldBook DEF ReleaseLock, diskVars, Book!Next
<1>8. ASSUME NEW p \in Procs, Crash(p) PROVE UNCHANGED Book!vars \/ Book!Next
  <2>1. CASE holder = p
    BY <1>1, <1>8, <2>1, FoldBook DEF Crash, diskVars, Book!Next
  <2>2. CASE holder # p
    BY <1>8, <2>2, QuietBook DEF Crash, engineVars, diskVars
  <2> QED
    BY <2>1, <2>2
<1>9. CASE Drift \/ UNCHANGED vars
  BY <1>9, QuietBook DEF Drift, vars, engineVars, diskVars
<1>10. CASE OperatorClear
  BY <1>1, <1>10, ClearBook DEF Book!Next
<1> QED
  BY <1>2, <1>3, <1>4, <1>5, <1>6, <1>7, <1>8, <1>9, <1>10 DEF Next, Execute

(* For any number of processes and transactions and plans of any length:   *)
(* through every interleaving of runs, crash, failed write and operator    *)
(* action, the lifecycle keeps the promise of module Ledger.               *)
THEOREM LifecycleImplementsLedger == Spec => ImplementsLedger
<1>1. Init => Book!Init
  <2> SUFFICES ASSUME Init PROVE Book!Init
    OBVIOUS
  <2>1. Lives = [t \in Tx |-> "none"]
    BY DEF Init, Lives, Life
  <2>2. Worlds = [t \in Tx |-> Book!Untouched]
    BY DEF Init, EngineInit, Worlds, EffectOf, Unchanged, Book!Untouched
  <2>3. Appeals = {} /\ tx = NoTx
    BY DEF Init, Appeals, NoClaims
  <2> QED
    BY <2>1, <2>2, <2>3 DEF Book!Init
<1> QED
  BY <1>1, BookInvariant, BookStep, PTL DEF Spec, ImplementsLedger, Book!Spec
=============================================================================
