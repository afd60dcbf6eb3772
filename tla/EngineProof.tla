---------------------------- MODULE EngineProof ----------------------------
(***************************************************************************)
(* Proofs about the transaction engine, for plans of any length and any    *)
(* set of actions without a rollback.                                      *)
(***************************************************************************)
EXTENDS MCEngine, TLAPS

InSeq(s, j) == \E k \in 1..Len(s) : s[k] = j
Distinct(s) == \A k, l \in 1..Len(s) : s[k] = s[l] => k = l

Forward == {"backup", "apply", "applied", "validate"}
Undoing == {"rollback", "rolledback"}
FailureStatuses == {"BACKUP_FAILED", "APPLY_FAILED", "VALIDATION_FAILED"}

(* Before it starts the engine has done nothing. *)
IdleInv ==
    epc = "idle" => \A j \in Actions : res[j] = NoResult /\ effect[j] = "orig"

(* On the way forward: what lies behind is in effect and durably APPLIED,  *)
(* what lies ahead is untouched.                                           *)
ForwardInv ==
    epc \in Forward =>
        /\ cur \in Actions
        /\ \A j \in Actions : j < cur =>
              res[j].status = "APPLIED" /\ effect[j] = "new"
              /\ mem[j] = "APPLIED" /\ durable[j] = "APPLIED"
        /\ \A j \in Actions : j > cur => res[j] = NoResult /\ effect[j] = "orig"
        /\ res[cur] = NoResult
        /\ epc \in {"backup", "apply"} => effect[cur] = "orig"
        /\ epc \in {"applied", "validate"} => effect[cur] = "new"
        /\ epc = "validate" => mem[cur] = "APPLIED" /\ durable[cur] = "APPLIED"

(* At the failure of an action, before its rollback is planned. *)
FailedInv ==
    epc = "failed" =>
        /\ cur \in Actions
        /\ res[cur].status \in FailureStatuses
        /\ res[cur].status = "BACKUP_FAILED" => effect[cur] = "orig"
        /\ \A j \in Actions : j < cur => res[j].status = "APPLIED"
        /\ \A j \in Actions : j > cur => res[j] = NoResult /\ effect[j] = "orig"

(* On the way back: whatever differs from its original state is still to   *)
(* be undone or already reported, and nothing untouched is on the list.    *)
UndoInv ==
    epc \in Undoing =>
        /\ Distinct(todo)
        /\ \A j \in Actions : InSeq(todo, j) =>
              res[j].status \in {"APPLIED", "APPLY_FAILED", "VALIDATION_FAILED"}
        /\ \A j \in Actions : res[j].status \in {"PENDING", "BACKUP_FAILED"} => effect[j] = "orig"
        /\ \A j \in Actions \ NoopRollback :
              effect[j] # "orig" => InSeq(todo, j) \/ RollbackFailed(res[j])
        /\ epc = "rolledback" =>
              /\ todo # <<>>
              /\ rbResult = "nil" /\ Head(todo) \notin NoopRollback => effect[Head(todo)] = "orig"

(* A ROLLED_BACK in the record, in memory or on disk, is true and final. *)
RecordInv ==
    \A j \in Actions : "ROLLED_BACK" \in {mem[j], durable[j]} =>
        /\ epc \in Undoing \cup {"done"}
        /\ epc \in Undoing => ~InSeq(todo, j)
        /\ j \notin NoopRollback => effect[j] = "orig"

(* At the end. *)
DoneInv ==
    /\ NothingLeftSilently
    /\ UntouchedIsUntouched
    /\ epc = "done" /\ verdict = "APPLIED" =>
          \A j \in Actions : effect[j] = "new" /\ res[j].status = "APPLIED"

EngineInv ==
    /\ EngineTypeOK
    /\ IdleInv
    /\ ForwardInv
    /\ FailedInv
    /\ UndoInv
    /\ RecordInv
    /\ DoneInv
    /\ verdict = "APPLIED" => epc = "done"

-----------------------------------------------------------------------------
(* Taking the head off a duplicate-free list of actions removes exactly it. *)
LEMMA PopFacts ==
  ASSUME NEW s \in Seq(Actions), s # <<>>, Distinct(s)
  PROVE  /\ Head(s) \in Actions
         /\ InSeq(s, Head(s))
         /\ Tail(s) \in Seq(Actions)
         /\ Distinct(Tail(s))
         /\ \A j \in Actions : InSeq(Tail(s), j) <=> InSeq(s, j) /\ j # Head(s)
<1>1. Len(s) \in Nat \ {0}
  OBVIOUS
<1>2. Head(s) = s[1] /\ s[1] \in Actions
  BY <1>1
<1>3. Tail(s) \in Seq(Actions) /\ Len(Tail(s)) = Len(s) - 1
  BY <1>1
<1>4. \A k \in 1..Len(Tail(s)) : Tail(s)[k] = s[k + 1]
  BY <1>1, <1>3
<1>5. Distinct(Tail(s))
  <2> SUFFICES ASSUME NEW k \in 1..Len(Tail(s)), NEW l \in 1..Len(Tail(s)),
                      Tail(s)[k] = Tail(s)[l]
               PROVE  k = l
    BY DEF Distinct
  <2>1. k + 1 \in 1..Len(s) /\ l + 1 \in 1..Len(s) /\ s[k + 1] = s[l + 1]
    BY <1>1, <1>3, <1>4
  <2> QED
    BY <2>1, <1>1, <1>3 DEF Distinct
<1>6. ASSUME NEW j \in Actions PROVE InSeq(Tail(s), j) <=> InSeq(s, j) /\ j # Head(s)
  <2>1. ASSUME InSeq(Tail(s), j) PROVE InSeq(s, j) /\ j # Head(s)
    <3>1. PICK k \in 1..Len(Tail(s)) : Tail(s)[k] = j
      BY <2>1 DEF InSeq
    <3>2. k + 1 \in 1..Len(s) /\ s[k + 1] = j /\ k + 1 # 1 /\ 1 \in 1..Len(s)
      BY <3>1, <1>1, <1>3, <1>4
    <3> QED
      BY <3>2, <1>2 DEF InSeq, Distinct
  <2>2. ASSUME InSeq(s, j), j # Head(s) PROVE InSeq(Tail(s), j)
    <3>1. PICK k \in 1..Len(s) : s[k] = j
      BY <2>2 DEF InSeq
    <3>2. k # 1
      BY <3>1, <2>2, <1>2
    <3>3. k - 1 \in 1..Len(Tail(s)) /\ (k - 1) + 1 = k
      BY <3>1, <3>2, <1>1, <1>3
    <3>4. Tail(s)[k - 1] = j
      BY <3>3, <3>1, <1>4
    <3> QED
      BY <3>3, <3>4 DEF InSeq
  <2> QED
    BY <2>1, <2>2
<1>7. InSeq(s, Head(s))
  <2>1. 1 \in 1..Len(s)
    BY <1>1
  <2> QED
    BY <2>1, <1>2 DEF InSeq
<1> QED
  BY <1>2, <1>3, <1>5, <1>6, <1>7

(* Down(i) lists 1..i without repetition. *)
LEMMA DownFacts ==
  ASSUME NEW i \in 0..N
  PROVE  /\ Down(i) \in Seq(Actions)
         /\ Len(Down(i)) = i
         /\ Distinct(Down(i))
         /\ \A j \in Actions : InSeq(Down(i), j) <=> j <= i
<1> USE EngineConstants DEF Actions
<1>1. Down(i) \in Seq(Actions) /\ Len(Down(i)) = i
  <2>1. \A k \in 1..i : i + 1 - k \in Actions
    OBVIOUS
  <2> QED
    BY <2>1 DEF Down
<1>2. \A k \in 1..i : Down(i)[k] = i + 1 - k
  BY DEF Down
<1>3. Distinct(Down(i))
  BY <1>1, <1>2 DEF Distinct
<1>4. ASSUME NEW j \in Actions PROVE InSeq(Down(i), j) <=> j <= i
  <2>1. ASSUME InSeq(Down(i), j) PROVE j <= i
    BY <2>1, <1>1, <1>2 DEF InSeq
  <2>2. ASSUME j <= i PROVE InSeq(Down(i), j)
    <3>1. i + 1 - j \in 1..Len(Down(i)) /\ i + 1 - (i + 1 - j) = j
      BY <2>2, <1>1
    <3> QED
      BY <3>1, <1>1, <1>2 DEF InSeq
  <2> QED
    BY <2>1, <2>2
<1> QED
  BY <1>1, <1>3, <1>4

(* UndoOrder lists, once each, the completed actions before the failed one *)
(* and the failed one too unless its Backup failed.                        *)
LEMMA UndoOrderFacts ==
  ASSUME NEW i \in Actions, NEW st \in FailureStatuses
  PROVE  /\ UndoOrder(i, st) \in Seq(Actions)
         /\ Distinct(UndoOrder(i, st))
         /\ \A j \in Actions :
               InSeq(UndoOrder(i, st), j) <=> j < i \/ (j = i /\ st # "BACKUP_FAILED")
<1>0. i \in 0..N /\ i - 1 \in 0..N /\ (i - 1) + 1 = i
  BY EngineConstants DEF Actions
<1>d. \A j \in Actions : (j <= i - 1 <=> j < i) /\ (j <= i <=> j < i \/ j = i)
  BY EngineConstants DEF Actions
<1>1. CASE st = "BACKUP_FAILED"
  <2>1. UndoOrder(i, st) = Down(i - 1)
    BY <1>1 DEF UndoOrder
  <2> QED
    BY <2>1, <1>1, <1>0, <1>d, DownFacts
<1>2. CASE st = "VALIDATION_FAILED"
  <2>1. UndoOrder(i, st) = Down(i)
    BY <1>2 DEF UndoOrder
  <2> QED
    BY <2>1, <1>2, <1>0, <1>d, DownFacts
<1>3. CASE st = "APPLY_FAILED"
  <2> DEFINE d == Down(i - 1)
             u == Append(d, i)
  <2>1. UndoOrder(i, st) = u
    BY <1>3 DEF UndoOrder
  <2>2. /\ d \in Seq(Actions)
        /\ Len(d) = i - 1
        /\ Distinct(d)
        /\ \A j \in Actions : InSeq(d, j) <=> j <= i - 1
    BY <1>0, DownFacts
  <2> HIDE DEF d
  <2>3. u \in Seq(Actions) /\ Len(u) = i /\ u[i] = i
    BY <2>2, <1>0
  <2>4. \A k \in 1..Len(d) : u[k] = d[k]
    BY <2>2, <1>0
  <2> HIDE DEF u
  <2>5. \A k \in 1..i : k = i \/ k \in 1..Len(d)
    BY <2>2, <1>0
  <2>6. \A k \in 1..Len(d) : d[k] \in Actions /\ InSeq(d, d[k])
    BY <2>2 DEF InSeq
  <2>7. \A k \in 1..Len(d) : d[k] # i
    BY <2>6, <2>2, <1>0 DEF Actions
  <2>8. Distinct(u)
    <3> SUFFICES ASSUME NEW k \in 1..i, NEW l \in 1..i, u[k] = u[l] PROVE k = l
      BY <2>3 DEF Distinct
    <3>1. CASE k = i /\ l # i
      BY <3>1, <2>3, <2>4, <2>5, <2>7
    <3>2. CASE l = i /\ k # i
      BY <3>2, <2>3, <2>4, <2>5, <2>7
    <3>3. CASE k # i /\ l # i
      BY <3>3, <2>2, <2>4, <2>5 DEF Distinct
    <3> QED
      BY <3>1, <3>2, <3>3
  <2>9. ASSUME NEW j \in Actions PROVE InSeq(u, j) <=> InSeq(d, j) \/ j = i
    <3>1. ASSUME InSeq(u, j) PROVE InSeq(d, j) \/ j = i
      BY <3>1, <2>3, <2>4, <2>5 DEF InSeq
    <3>2. ASSUME InSeq(d, j) PROVE InSeq(u, j)
      <4>1. 1..Len(d) \subseteq 1..Len(u)
        BY <2>2, <2>3, <1>0
      <4> QED
        BY <3>2, <2>4, <4>1 DEF InSeq
    <3>3. ASSUME j = i PROVE InSeq(u, j)
      <4>1. i \in 1..Len(u)
        BY <2>3, EngineConstants DEF Actions
      <4> QED
        BY <3>3, <4>1, <2>3 DEF InSeq
    <3> QED
      BY <3>1, <3>2, <3>3
  <2> QED
    BY <2>1, <2>2, <2>3, <2>8, <2>9, <1>3, <1>d
<1> QED
  BY <1>1, <1>2, <1>3 DEF FailureStatuses

-----------------------------------------------------------------------------
(* The engine starts in a state of the invariant. *)
LEMMA EngineInitInv == EngineInit => EngineInv
<1> SUFFICES ASSUME EngineInit PROVE EngineInv
  OBVIOUS
<1> USE EngineConstants DEF EngineInit, Actions
<1>1. EngineTypeOK
  BY DEF EngineTypeOK, Statuses, NoResult
<1>2. IdleInv /\ ForwardInv /\ FailedInv /\ UndoInv /\ RecordInv /\ DoneInv
  BY DEF IdleInv, ForwardInv, Forward, FailedInv, UndoInv, Undoing, RecordInv, DoneInv,
         NothingLeftSilently, UntouchedIsUntouched
<1> QED
  BY <1>1, <1>2 DEF EngineInv

Results == [Actions -> [status : Statuses, rbErr : BOOLEAN]]

(* Actions are ordered. *)
LEMMA Ordered ==
  \A i, j \in Actions : (i < j => i # j) /\ (i > j => i # j) /\ (i < j \/ i = j \/ i > j)
  BY EngineConstants DEF Actions

(* A fresh result is PENDING. *)
LEMMA Fresh == NoResult.status = "PENDING"
  BY DEF NoResult

(* Start preserves the invariant. *)
LEMMA StartInv == EngineInv /\ Start => EngineInv'
<1> SUFFICES ASSUME EngineInv, Start PROVE EngineInv'
  OBVIOUS
<1> USE DEF EngineInv
<1>1. /\ epc = "idle"
      /\ UNCHANGED <<todo, rbResult, res, mem, durable, effect>>
      /\ \/ 1 > N /\ epc' = "done" /\ verdict' = "APPLIED" /\ cur' = cur
         \/ ~(1 > N) /\ epc' = "backup" /\ cur' = 1 /\ verdict' = verdict
  BY DEF Start, GoTo
<1>2. /\ \A j \in Actions : res[j] = NoResult /\ effect[j] = "orig"
      /\ \A j \in Actions : "ROLLED_BACK" \notin {mem[j], durable[j]}
  BY <1>1 DEF IdleInv, RecordInv, Undoing
<1>3. CASE 1 > N
  <2>1. Actions = {}
    BY <1>3, EngineConstants DEF Actions
  <2>2. epc' = "done" /\ verdict' = "APPLIED" /\ cur' = cur
    BY <1>1, <1>3
  <2> QED
    BY <1>1, <2>1, <2>2
    DEF EngineTypeOK, IdleInv, ForwardInv, Forward, FailedInv, UndoInv, Undoing,
        RecordInv, DoneInv, NothingLeftSilently, UntouchedIsUntouched
<1>4. CASE ~(1 > N)
  <2>1. epc' = "backup" /\ cur' = 1 /\ verdict' = verdict
    BY <1>1, <1>4
  <2>2. 1 \in Actions /\ 1 \in 0..N /\ \A j \in Actions : ~(j < 1)
    BY <1>4, EngineConstants DEF Actions
  <2>3. ForwardInv'
    BY <1>1, <1>2, <2>1, <2>2 DEF ForwardInv, Forward
  <2>4. EngineTypeOK'
    BY <1>1, <2>1, <2>2 DEF EngineTypeOK
  <2>5. verdict' # "APPLIED"
    BY <1>1, <2>1
  <2> QED
    BY <1>1, <1>2, <2>1, <2>3, <2>4, <2>5
    DEF IdleInv, FailedInv, UndoInv, Undoing,
        RecordInv, DoneInv, NothingLeftSilently, UntouchedIsUntouched
<1> QED
  BY <1>3, <1>4

(* Backup preserves the invariant. *)
LEMMA BackupInv == EngineInv /\ Backup => EngineInv'
<1> SUFFICES ASSUME EngineInv, Backup PROVE EngineInv'
  OBVIOUS
<1> USE DEF EngineInv
<1>1. /\ epc = "backup"
      /\ UNCHANGED <<cur, todo, rbResult, mem, durable, effect, verdict>>
      /\ \/ epc' = "apply" /\ res' = res
         \/ epc' = "failed" /\ res' = [res EXCEPT ![cur].status = "BACKUP_FAILED"]
  BY DEF Backup
<1>2. /\ cur \in Actions
      /\ \A j \in Actions : j < cur =>
              res[j].status = "APPLIED" /\ effect[j] = "new"
              /\ mem[j] = "APPLIED" /\ durable[j] = "APPLIED"
      /\ \A j \in Actions : j > cur => res[j] = NoResult /\ effect[j] = "orig"
      /\ res[cur] = NoResult
      /\ effect[cur] = "orig"
  BY <1>1 DEF ForwardInv, Forward
<1>3. \A j \in Actions : "ROLLED_BACK" \notin {mem[j], durable[j]}
  BY <1>1 DEF RecordInv, Undoing
<1>4. verdict # "APPLIED" /\ res \in Results
  BY <1>1 DEF EngineTypeOK, Results
<1>5. CASE epc' = "apply" /\ res' = res
  <2>1. EngineTypeOK'
    BY <1>1, <1>5 DEF EngineTypeOK
  <2> QED
    BY <1>1, <1>2, <1>3, <1>4, <1>5, <2>1
    DEF IdleInv, ForwardInv, Forward, FailedInv, UndoInv, Undoing,
        RecordInv, DoneInv, NothingLeftSilently, UntouchedIsUntouched
<1>6. CASE epc' = "failed" /\ res' = [res EXCEPT ![cur].status = "BACKUP_FAILED"]
  <2>1. /\ res' \in Results
        /\ res'[cur].status = "BACKUP_FAILED"
        /\ \A j \in Actions : j # cur => res'[j] = res[j]
    BY <1>2, <1>4, <1>6 DEF Results, Statuses
  <2>2. EngineTypeOK'
    BY <1>1, <1>6, <2>1 DEF EngineTypeOK, Results
  <2>3. FailedInv'
    BY <1>1, <1>2, <1>6, <2>1, Ordered DEF FailedInv, FailureStatuses
  <2> QED
    BY <1>1, <1>3, <1>4, <1>6, <2>2, <2>3
    DEF IdleInv, ForwardInv, Forward, UndoInv, Undoing,
        RecordInv, DoneInv, NothingLeftSilently, UntouchedIsUntouched
<1> QED
  BY <1>1, <1>5, <1>6

(* Apply preserves the invariant. *)
LEMMA ApplyInv == EngineInv /\ Apply => EngineInv'
<1> SUFFICES ASSUME EngineInv, Apply PROVE EngineInv'
  OBVIOUS
<1> USE DEF EngineInv
<1>1. /\ epc = "apply"
      /\ UNCHANGED <<cur, todo, rbResult, mem, durable, verdict>>
  BY DEF Apply
<1>2. PICK e \in {"orig", "new", "dirty"} :
         /\ effect' = [effect EXCEPT ![cur] = e]
         /\ \/ e = "new" /\ epc' = "applied" /\ res' = res
            \/ epc' = "failed" /\ res' = [res EXCEPT ![cur].status = "APPLY_FAILED"]
  BY DEF Apply
<1>3. /\ cur \in Actions
      /\ \A j \in Actions : j < cur =>
              res[j].status = "APPLIED" /\ effect[j] = "new"
              /\ mem[j] = "APPLIED" /\ durable[j] = "APPLIED"
      /\ \A j \in Actions : j > cur => res[j] = NoResult /\ effect[j] = "orig"
      /\ res[cur] = NoResult
  BY <1>1 DEF ForwardInv, Forward
<1>4. \A j \in Actions : "ROLLED_BACK" \notin {mem[j], durable[j]}
  BY <1>1 DEF RecordInv, Undoing
<1>5. verdict # "APPLIED" /\ res \in Results /\ effect \in [Actions -> {"orig", "new", "dirty"}]
  BY <1>1 DEF EngineTypeOK, Results
<1>6. /\ effect' \in [Actions -> {"orig", "new", "dirty"}]
      /\ effect'[cur] = e
      /\ \A j \in Actions : j # cur => effect'[j] = effect[j]
  BY <1>2, <1>3, <1>5
<1>7. CASE e = "new" /\ epc' = "applied" /\ res' = res
  <2>1. EngineTypeOK'
    BY <1>1, <1>6, <1>7 DEF EngineTypeOK
  <2>2. ForwardInv'
    BY <1>1, <1>3, <1>6, <1>7, Ordered DEF ForwardInv, Forward
  <2> QED
    BY <1>1, <1>4, <1>5, <1>7, <2>1, <2>2
    DEF IdleInv, FailedInv, UndoInv, Undoing,
        RecordInv, DoneInv, NothingLeftSilently, UntouchedIsUntouched
<1>8. CASE epc' = "failed" /\ res' = [res EXCEPT ![cur].status = "APPLY_FAILED"]
  <2>1. /\ res' \in Results
        /\ res'[cur].status = "APPLY_FAILED"
        /\ \A j \in Actions : j # cur => res'[j] = res[j]
    BY <1>3, <1>5, <1>8 DEF Results, Statuses
  <2>2. EngineTypeOK'
    BY <1>1, <1>6, <1>8, <2>1 DEF EngineTypeOK, Results
  <2>3. FailedInv'
    BY <1>1, <1>3, <1>6, <1>8, <2>1, Ordered DEF FailedInv, FailureStatuses
  <2> QED
    BY <1>1, <1>4, <1>5, <1>8, <2>2, <2>3
    DEF IdleInv, ForwardInv, Forward, UndoInv, Undoing,
        RecordInv, DoneInv, NothingLeftSilently, UntouchedIsUntouched
<1> QED
  BY <1>2, <1>7, <1>8

(* The progress sink changes the record of one action; what a failed write *)
(* leaves on disk is the old record or the new one.                        *)
LEMMA SinkFacts ==
  ASSUME EngineTypeOK, NEW i \in Actions, NEW st \in Statuses,
         Emit(i, st), WriteOk \/ WriteFails
  PROVE  /\ mem' \in [Actions -> Statuses]
         /\ durable' \in [Actions -> Statuses]
         /\ mem'[i] = st
         /\ \A j \in Actions : j # i => mem'[j] = mem[j]
         /\ \A j \in Actions : durable'[j] \in {durable[j], mem'[j]}
  BY DEF EngineTypeOK, Emit, WriteOk, WriteFails

(* Applied preserves the invariant. *)
LEMMA AppliedInv == EngineInv /\ Applied => EngineInv'
<1> SUFFICES ASSUME EngineInv, Applied PROVE EngineInv'
  OBVIOUS
<1> USE DEF EngineInv
<1>1. /\ epc = "applied"
      /\ Emit(cur, "APPLIED")
      /\ UNCHANGED <<cur, todo, rbResult, effect, verdict>>
      /\ \/ WriteOk /\ epc' = "validate" /\ res' = res
         \/ WriteFails /\ epc' = "failed" /\ res' = [res EXCEPT ![cur].status = "APPLY_FAILED"]
  BY DEF Applied
<1>2. /\ cur \in Actions
      /\ \A j \in Actions : j < cur =>
              res[j].status = "APPLIED" /\ effect[j] = "new"
              /\ mem[j] = "APPLIED" /\ durable[j] = "APPLIED"
      /\ \A j \in Actions : j > cur => res[j] = NoResult /\ effect[j] = "orig"
      /\ res[cur] = NoResult
      /\ effect[cur] = "new"
  BY <1>1 DEF ForwardInv, Forward
<1>3. \A j \in Actions : "ROLLED_BACK" \notin {mem[j], durable[j]}
  BY <1>1 DEF RecordInv, Undoing
<1>4. verdict # "APPLIED" /\ res \in Results
  BY <1>1 DEF EngineTypeOK, Results
<1>5. /\ mem' \in [Actions -> Statuses]
      /\ durable' \in [Actions -> Statuses]
      /\ mem'[cur] = "APPLIED"
      /\ \A j \in Actions : j # cur => mem'[j] = mem[j]
      /\ \A j \in Actions : durable'[j] \in {durable[j], mem'[j]}
  BY <1>1, <1>2, SinkFacts DEF Statuses
<1>6. \A j \in Actions : "ROLLED_BACK" \notin {mem'[j], durable'[j]}
  BY <1>3, <1>5
<1>7. CASE WriteOk /\ epc' = "validate" /\ res' = res
  <2>1. EngineTypeOK'
    BY <1>1, <1>5, <1>7 DEF EngineTypeOK
  <2>2. ForwardInv'
    BY <1>1, <1>2, <1>5, <1>7, Ordered DEF ForwardInv, Forward, WriteOk
  <2> QED
    BY <1>1, <1>4, <1>6, <1>7, <2>1, <2>2
    DEF IdleInv, FailedInv, UndoInv, Undoing,
        RecordInv, DoneInv, NothingLeftSilently, UntouchedIsUntouched
<1>8. CASE epc' = "failed" /\ res' = [res EXCEPT ![cur].status = "APPLY_FAILED"]
  <2>1. /\ res' \in Results
        /\ res'[cur].status = "APPLY_FAILED"
        /\ \A j \in Actions : j # cur => res'[j] = res[j]
    BY <1>2, <1>4, <1>8 DEF Results, Statuses
  <2>2. EngineTypeOK'
    BY <1>1, <1>5, <1>8, <2>1 DEF EngineTypeOK, Results
  <2>3. FailedInv'
    BY <1>1, <1>2, <1>8, <2>1, Ordered DEF FailedInv, FailureStatuses
  <2> QED
    BY <1>1, <1>4, <1>6, <1>8, <2>2, <2>3
    DEF IdleInv, ForwardInv, Forward, UndoInv, Undoing,
        RecordInv, DoneInv, NothingLeftSilently, UntouchedIsUntouched
<1> QED
  BY <1>1, <1>7, <1>8

(* Validate preserves the invariant. *)
LEMMA ValidateInv == EngineInv /\ Validate => EngineInv'
<1> SUFFICES ASSUME EngineInv, Validate PROVE EngineInv'
  OBVIOUS
<1> USE DEF EngineInv
<1>1. /\ epc = "validate"
      /\ UNCHANGED <<todo, rbResult, mem, durable, effect>>
  BY DEF Validate
<1>2. PICK st \in {"APPLIED", "VALIDATION_FAILED"} :
         /\ res' = [res EXCEPT ![cur].status = st]
         /\ \/ /\ st = "APPLIED" /\ cur + 1 > N
               /\ epc' = "done" /\ verdict' = "APPLIED" /\ cur' = cur
            \/ /\ st = "APPLIED" /\ ~(cur + 1 > N)
               /\ epc' = "backup" /\ cur' = cur + 1 /\ verdict' = verdict
            \/ /\ st = "VALIDATION_FAILED"
               /\ epc' = "failed" /\ cur' = cur /\ verdict' = verdict
  BY DEF Validate, GoTo
<1>3. /\ cur \in Actions
      /\ \A j \in Actions : j < cur =>
              res[j].status = "APPLIED" /\ effect[j] = "new"
              /\ mem[j] = "APPLIED" /\ durable[j] = "APPLIED"
      /\ \A j \in Actions : j > cur => res[j] = NoResult /\ effect[j] = "orig"
      /\ effect[cur] = "new" /\ mem[cur] = "APPLIED" /\ durable[cur] = "APPLIED"
  BY <1>1 DEF ForwardInv, Forward
<1>4. \A j \in Actions : "ROLLED_BACK" \notin {mem[j], durable[j]}
  BY <1>1 DEF RecordInv, Undoing
<1>5. verdict # "APPLIED" /\ res \in Results
  BY <1>1 DEF EngineTypeOK, Results
<1>6. /\ res' \in Results
      /\ res'[cur].status = st
      /\ \A j \in Actions : j # cur => res'[j] = res[j]
  BY <1>2, <1>3, <1>5 DEF Results, Statuses
<1>7. CASE epc' = "done" /\ st = "APPLIED" /\ cur + 1 > N /\ verdict' = "APPLIED" /\ cur' = cur
  <2>1. EngineTypeOK'
    BY <1>1, <1>6, <1>7 DEF EngineTypeOK, Results
  <2>2. \A j \in Actions : ~(j > cur)
    BY <1>3, <1>7, EngineConstants DEF Actions
  <2>3. \A j \in Actions : res'[j].status = "APPLIED" /\ effect'[j] = "new"
    BY <1>1, <1>3, <1>6, <1>7, <2>2, Ordered
  <2> QED
    BY <1>1, <1>4, <1>7, <2>1, <2>3
    DEF IdleInv, ForwardInv, Forward, FailedInv, UndoInv, Undoing,
        RecordInv, DoneInv, NothingLeftSilently, UntouchedIsUntouched
<1>8. CASE epc' = "backup" /\ st = "APPLIED" /\ ~(cur + 1 > N) /\ cur' = cur + 1 /\ verdict' = verdict
  <2>1. /\ cur + 1 \in Actions /\ cur + 1 \in 0..N /\ cur + 1 > cur
        /\ \A j \in Actions : (j < cur + 1 => j < cur \/ j = cur) /\ (j > cur + 1 => j > cur)
    BY <1>3, <1>8, EngineConstants DEF Actions
  <2>2. EngineTypeOK'
    BY <1>1, <1>6, <1>8, <2>1 DEF EngineTypeOK, Results
  <2>3. ForwardInv'
    BY <1>1, <1>3, <1>6, <1>8, <2>1, Ordered DEF ForwardInv, Forward
  <2> QED
    BY <1>1, <1>4, <1>5, <1>8, <2>2, <2>3
    DEF IdleInv, FailedInv, UndoInv, Undoing,
        RecordInv, DoneInv, NothingLeftSilently, UntouchedIsUntouched
<1>9. CASE epc' = "failed" /\ st = "VALIDATION_FAILED" /\ cur' = cur /\ verdict' = verdict
  <2>1. EngineTypeOK'
    BY <1>1, <1>6, <1>9 DEF EngineTypeOK, Results
  <2>2. FailedInv'
    BY <1>1, <1>3, <1>6, <1>9, Ordered DEF FailedInv, FailureStatuses
  <2> QED
    BY <1>1, <1>4, <1>5, <1>9, <2>1, <2>2
    DEF IdleInv, ForwardInv, Forward, UndoInv, Undoing,
        RecordInv, DoneInv, NothingLeftSilently, UntouchedIsUntouched
<1> QED
  BY <1>2, <1>7, <1>8, <1>9

(* Failed preserves the invariant. *)
LEMMA FailedStepInv == EngineInv /\ Failed => EngineInv'
<1> SUFFICES ASSUME EngineInv, Failed PROVE EngineInv'
  OBVIOUS
<1> USE DEF EngineInv
<1>1. /\ epc = "failed" /\ epc' = "rollback"
      /\ Emit(cur, res[cur].status)
      /\ WriteOk \/ WriteFails
      /\ todo' = UndoOrder(cur, res[cur].status)
      /\ UNCHANGED <<cur, rbResult, res, effect, verdict>>
  BY DEF Failed
<1>2. /\ cur \in Actions
      /\ res[cur].status \in FailureStatuses
      /\ res[cur].status = "BACKUP_FAILED" => effect[cur] = "orig"
      /\ \A j \in Actions : j < cur => res[j].status = "APPLIED"
      /\ \A j \in Actions : j > cur => res[j] = NoResult /\ effect[j] = "orig"
  BY <1>1 DEF FailedInv
<1>3. /\ todo' \in Seq(Actions)
      /\ Distinct(todo')
      /\ \A j \in Actions :
            InSeq(todo', j) <=> j < cur \/ (j = cur /\ res[cur].status # "BACKUP_FAILED")
  BY <1>1, <1>2, UndoOrderFacts
<1>4. res[cur].status \in Statuses /\ res[cur].status # "ROLLED_BACK"
  BY <1>2 DEF FailureStatuses, Statuses
<1>5. /\ mem' \in [Actions -> Statuses]
      /\ durable' \in [Actions -> Statuses]
      /\ mem'[cur] = res[cur].status
      /\ \A j \in Actions : j # cur => mem'[j] = mem[j]
      /\ \A j \in Actions : durable'[j] \in {durable[j], mem'[j]}
  BY <1>1, <1>2, <1>4, SinkFacts
<1>6. \A j \in Actions : "ROLLED_BACK" \notin {mem[j], durable[j]}
  BY <1>1 DEF RecordInv, Undoing
<1>7. \A j \in Actions : "ROLLED_BACK" \notin {mem'[j], durable'[j]}
  BY <1>4, <1>5, <1>6
<1>8. EngineTypeOK'
  BY <1>1, <1>3, <1>5 DEF EngineTypeOK
<1>9. UndoInv'
  <2>1. \A j \in Actions : InSeq(todo', j) =>
            res'[j].status \in {"APPLIED", "APPLY_FAILED", "VALIDATION_FAILED"}
    BY <1>1, <1>2, <1>3 DEF FailureStatuses
  <2>2. \A j \in Actions : res'[j].status \in {"PENDING", "BACKUP_FAILED"} => effect'[j] = "orig"
    BY <1>1, <1>2, Ordered DEF FailureStatuses
  <2>3. \A j \in Actions : effect'[j] # "orig" => InSeq(todo', j)
    BY <1>1, <1>2, <1>3, Ordered
  <2> QED
    BY <1>1, <1>3, <2>1, <2>2, <2>3 DEF UndoInv
<1> QED
  BY <1>1, <1>7, <1>8, <1>9
  DEF IdleInv, ForwardInv, Forward, FailedInv, RecordInv, DoneInv,
      NothingLeftSilently, UntouchedIsUntouched

(* Rollback preserves the invariant. *)
LEMMA RollbackStepInv == EngineInv /\ Rollback => EngineInv'
<1> SUFFICES ASSUME EngineInv, Rollback PROVE EngineInv'
  OBVIOUS
<1> USE DEF EngineInv
<1> DEFINE h == Head(todo)
<1>1. /\ epc = "rollback" /\ epc' = "rolledback"
      /\ todo # <<>>
      /\ UNCHANGED <<cur, todo, res, mem, durable, verdict>>
  BY DEF Rollback
<1>2. PICK r \in {"nil", "error"}, e \in {"orig", "new", "dirty"} :
         /\ r = "nil" => e = IF h \in NoopRollback THEN effect[h] ELSE "orig"
         /\ rbResult' = r
         /\ effect' = [effect EXCEPT ![h] = e]
  BY DEF Rollback
<1>3. todo \in Seq(Actions) /\ Distinct(todo)
  BY <1>1 DEF EngineTypeOK, UndoInv, Undoing
<1>4. h \in Actions /\ InSeq(todo, h)
  BY <1>1, <1>3, PopFacts
<1> HIDE DEF h
<1>5. /\ effect' \in [Actions -> {"orig", "new", "dirty"}]
      /\ effect'[h] = e
      /\ \A j \in Actions : j # h => effect'[j] = effect[j]
  BY <1>2, <1>4 DEF EngineTypeOK
<1>6. EngineTypeOK'
  BY <1>1, <1>2, <1>5 DEF EngineTypeOK
<1>7. UndoInv'
  <2>1. /\ \A j \in Actions : InSeq(todo, j) =>
              res[j].status \in {"APPLIED", "APPLY_FAILED", "VALIDATION_FAILED"}
        /\ \A j \in Actions : res[j].status \in {"PENDING", "BACKUP_FAILED"} => effect[j] = "orig"
        /\ \A j \in Actions \ NoopRollback :
              effect[j] # "orig" => InSeq(todo, j) \/ RollbackFailed(res[j])
    BY <1>1 DEF UndoInv, Undoing
  <2>2. \A j \in Actions : res'[j].status \in {"PENDING", "BACKUP_FAILED"} => effect'[j] = "orig"
    BY <1>1, <1>4, <1>5, <2>1
  <2>3. \A j \in Actions \ NoopRollback :
            effect'[j] # "orig" => InSeq(todo, j) \/ RollbackFailed(res[j])
    BY <1>4, <1>5, <2>1
  <2>4. rbResult' = "nil" /\ h \notin NoopRollback => effect'[h] = "orig"
    BY <1>2, <1>5
  <2> QED
    BY <1>1, <1>3, <2>1, <2>2, <2>3, <2>4 DEF UndoInv, h
<1>8. RecordInv'
  <2>1. \A j \in Actions : "ROLLED_BACK" \in {mem[j], durable[j]} =>
           ~InSeq(todo, j) /\ (j \notin NoopRollback => effect[j] = "orig")
    BY <1>1 DEF RecordInv, Undoing
  <2>2. \A j \in Actions : "ROLLED_BACK" \in {mem[j], durable[j]} => j # h
    BY <1>4, <2>1
  <2> QED
    BY <1>1, <1>5, <2>1, <2>2 DEF RecordInv, Undoing
<1> QED
  BY <1>1, <1>6, <1>7, <1>8
  DEF IdleInv, ForwardInv, Forward, FailedInv, DoneInv,
      NothingLeftSilently, UntouchedIsUntouched

(* RolledBack preserves the invariant. *)
LEMMA RolledBackInv == EngineInv /\ RolledBack => EngineInv'
<1> SUFFICES ASSUME EngineInv, RolledBack PROVE EngineInv'
  OBVIOUS
<1> USE DEF EngineInv
<1> DEFINE h == Head(todo)
<1>1. /\ epc = "rolledback" /\ epc' = "rollback"
      /\ todo' = Tail(todo)
      /\ UNCHANGED <<cur, rbResult, effect, verdict>>
  BY DEF RolledBack
<1>2. PICK st \in {"ROLLED_BACK", "ROLLBACK_FAILED"} :
         /\ Emit(h, st)
         /\ WriteOk \/ WriteFails
         /\ st = "ROLLED_BACK" <=> rbResult = "nil"
         /\ \/ res' = [res EXCEPT ![h].status = "ROLLED_BACK"] /\ rbResult = "nil"
            \/ res' = [res EXCEPT ![h].status = "ROLLBACK_FAILED"]
            \/ res' = [res EXCEPT ![h].rbErr = TRUE]
  BY DEF RolledBack, EngineTypeOK
<1>3. /\ todo \in Seq(Actions) /\ todo # <<>> /\ Distinct(todo)
      /\ rbResult = "nil" /\ h \notin NoopRollback => effect[h] = "orig"
      /\ \A j \in Actions : InSeq(todo, j) =>
            res[j].status \in {"APPLIED", "APPLY_FAILED", "VALIDATION_FAILED"}
      /\ \A j \in Actions : res[j].status \in {"PENDING", "BACKUP_FAILED"} => effect[j] = "orig"
      /\ \A j \in Actions \ NoopRollback :
            effect[j] # "orig" => InSeq(todo, j) \/ RollbackFailed(res[j])
  BY <1>1 DEF EngineTypeOK, UndoInv, Undoing
<1>4. /\ h \in Actions
      /\ InSeq(todo, h)
      /\ todo' \in Seq(Actions)
      /\ Distinct(todo')
      /\ \A j \in Actions : InSeq(todo', j) <=> InSeq(todo, j) /\ j # h
  BY <1>1, <1>3, PopFacts
<1>5. \A j \in Actions : "ROLLED_BACK" \in {mem[j], durable[j]} =>
         ~InSeq(todo, j) /\ (j \notin NoopRollback => effect[j] = "orig")
  BY <1>1 DEF RecordInv, Undoing
<1> HIDE DEF h
<1>6. res \in Results
  BY DEF EngineTypeOK, Results
<1>7. /\ res' \in Results
      /\ \A j \in Actions : j # h => res'[j] = res[j]
      /\ res'[h].status \notin {"PENDING", "BACKUP_FAILED"}
      /\ RollbackFailed(res'[h]) \/ rbResult = "nil"
  <2>1. CASE res' = [res EXCEPT ![h].status = "ROLLED_BACK"] /\ rbResult = "nil"
    BY <1>4, <1>6, <2>1 DEF Results, Statuses
  <2>2. CASE res' = [res EXCEPT ![h].status = "ROLLBACK_FAILED"]
    BY <1>4, <1>6, <2>2 DEF Results, Statuses, RollbackFailed
  <2>3. CASE res' = [res EXCEPT ![h].rbErr = TRUE]
    <3>1. res[h].status \notin {"PENDING", "BACKUP_FAILED"}
      BY <1>3, <1>4
    <3>2. res'[h].status = res[h].status /\ res'[h].rbErr = TRUE
      BY <1>4, <1>6, <2>3 DEF Results
    <3>3. res' \in Results /\ \A j \in Actions : j # h => res'[j] = res[j]
      BY <1>4, <1>6, <2>3 DEF Results
    <3> QED
      BY <3>1, <3>2, <3>3 DEF RollbackFailed
  <2> QED
    BY <1>2, <2>1, <2>2, <2>3
<1>8. /\ mem' \in [Actions -> Statuses]
      /\ durable' \in [Actions -> Statuses]
      /\ mem'[h] = st
      /\ \A j \in Actions : j # h => mem'[j] = mem[j]
      /\ \A j \in Actions : durable'[j] \in {durable[j], mem'[j]}
  BY <1>2, <1>4, SinkFacts DEF Statuses
<1>9. EngineTypeOK'
  BY <1>1, <1>4, <1>7, <1>8 DEF EngineTypeOK, Results
<1>10. UndoInv'
  <2>1. \A j \in Actions : InSeq(todo', j) =>
            res'[j].status \in {"APPLIED", "APPLY_FAILED", "VALIDATION_FAILED"}
    BY <1>3, <1>4, <1>7
  <2>2. \A j \in Actions : res'[j].status \in {"PENDING", "BACKUP_FAILED"} => effect'[j] = "orig"
    BY <1>1, <1>3, <1>7
  <2>3. \A j \in Actions \ NoopRollback :
            effect'[j] # "orig" => InSeq(todo', j) \/ RollbackFailed(res'[j])
    BY <1>1, <1>3, <1>4, <1>7
  <2> QED
    BY <1>1, <1>4, <2>1, <2>2, <2>3 DEF UndoInv
<1>11. RecordInv'
  <2> SUFFICES ASSUME NEW j \in Actions, "ROLLED_BACK" \in {mem'[j], durable'[j]}
               PROVE  ~InSeq(todo', j) /\ (j \notin NoopRollback => effect'[j] = "orig")
    BY <1>1 DEF RecordInv, Undoing
  <2>1. CASE j # h
    BY <1>1, <1>4, <1>5, <1>8, <2>1
  <2>2. CASE j = h
    <3>1. durable[j] # "ROLLED_BACK"
      BY <1>4, <1>5, <2>2
    <3>2. st = "ROLLED_BACK"
      BY <1>8, <2>2, <3>1
    <3> QED
      BY <1>1, <1>2, <1>3, <1>4, <2>2, <3>2
  <2> QED
    BY <2>1, <2>2
<1> QED
  BY <1>1, <1>9, <1>10, <1>11
  DEF IdleInv, ForwardInv, Forward, FailedInv, DoneInv,
      NothingLeftSilently, UntouchedIsUntouched

(* Finish preserves the invariant. *)
LEMMA FinishInv == EngineInv /\ Finish => EngineInv'
<1> SUFFICES ASSUME EngineInv, Finish PROVE EngineInv'
  OBVIOUS
<1> USE DEF EngineInv
<1>1. /\ epc = "rollback" /\ epc' = "done" /\ verdict' = "ROLLED_BACK"
      /\ todo = <<>>
      /\ UNCHANGED <<cur, todo, rbResult, res, mem, durable, effect>>
  BY DEF Finish
<1>2. \A j \in Actions : ~InSeq(todo, j)
  BY <1>1 DEF InSeq
<1>3. EngineTypeOK'
  BY <1>1 DEF EngineTypeOK
<1>4. DoneInv'
  BY <1>1, <1>2
  DEF UndoInv, Undoing, DoneInv, NothingLeftSilently, UntouchedIsUntouched, RollbackFailed
<1> QED
  BY <1>1, <1>3, <1>4
  DEF IdleInv, ForwardInv, Forward, FailedInv, UndoInv, Undoing, RecordInv

-----------------------------------------------------------------------------
(* Every step of the engine preserves the invariant. *)
LEMMA EngineStepInv == EngineInv /\ [EngineStep]_engineVars => EngineInv'
<1> SUFFICES ASSUME EngineInv, [EngineStep]_engineVars PROVE EngineInv'
  OBVIOUS
<1>1. CASE EngineStep
  BY <1>1, StartInv, BackupInv, ApplyInv, AppliedInv, ValidateInv, FailedStepInv,
     RollbackStepInv, RolledBackInv, FinishInv DEF EngineStep
<1>2. CASE UNCHANGED engineVars
  BY <1>2
  DEF engineVars, EngineInv, EngineTypeOK, IdleInv, ForwardInv, FailedInv, UndoInv,
      RecordInv, DoneInv, NothingLeftSilently, UntouchedIsUntouched
<1> QED
  BY <1>1, <1>2

(* The engine's inductive invariant holds in every execution. *)
THEOREM EngineInvariant == EngineSpec => []EngineInv
  BY EngineInitInv, EngineStepInv, PTL DEF EngineSpec

(* The engine's variables always have their types. *)
THEOREM EngineTypeCorrect == EngineSpec => []EngineTypeOK
<1>1. EngineInv => EngineTypeOK
  BY DEF EngineInv
<1> QED
  BY <1>1, EngineInvariant, PTL

(* For plans of any length: wherever the process dies, an action that the  *)
(* journal on disk calls ROLLED_BACK is back in its original state.        *)
THEOREM EngineRolledBackIsProof == EngineSpec => []RolledBackIsProof
<1>1. EngineInv => RolledBackIsProof
  BY DEF EngineInv, RecordInv, RolledBackIsProof
<1> QED
  BY <1>1, EngineInvariant, PTL

(* For plans of any length: no action is begun before every earlier one is *)
(* durably APPLIED.                                                        *)
THEOREM EngineProofBeforeNextAction == EngineSpec => []ProofBeforeNextAction
<1>1. ASSUME EngineInv PROVE ProofBeforeNextAction
  <2> SUFFICES ASSUME epc \in {"backup", "apply"}, NEW j \in 1..(cur - 1)
               PROVE  durable[j] = "APPLIED"
    BY DEF ProofBeforeNextAction
  <2>1. cur \in Actions /\ \A i \in Actions : i < cur => durable[i] = "APPLIED"
    BY <1>1 DEF EngineInv, ForwardInv, Forward
  <2>2. j \in Actions /\ j < cur
    BY <2>1, EngineConstants DEF Actions
  <2> QED
    BY <2>1, <2>2
<1> QED
  BY <1>1, EngineInvariant, PTL

(* For plans of any length: a transaction that ends without APPLIED        *)
(* reports every action that is not back in its original state.            *)
THEOREM EngineNothingLeftSilently == EngineSpec => []NothingLeftSilently
<1>1. EngineInv => NothingLeftSilently
  BY DEF EngineInv, DoneInv
<1> QED
  BY <1>1, EngineInvariant, PTL

(* For plans of any length: what the final report calls PENDING or         *)
(* BACKUP_FAILED was not changed.                                          *)
THEOREM EngineUntouchedIsUntouched == EngineSpec => []UntouchedIsUntouched
<1>1. EngineInv => UntouchedIsUntouched
  BY DEF EngineInv, DoneInv
<1> QED
  BY <1>1, EngineInvariant, PTL

-----------------------------------------------------------------------------
(* An undo list has at most one entry per action. *)
LEMMA UndoOrderLength ==
  ASSUME NEW i \in Actions, NEW st \in FailureStatuses
  PROVE  Len(UndoOrder(i, st)) \in 0..N
<1>1. i \in 0..N /\ i - 1 \in 0..N /\ N \in Nat
  BY EngineConstants DEF Actions
<1>2. /\ Down(i) \in Seq(Actions) /\ Len(Down(i)) = i
      /\ Down(i - 1) \in Seq(Actions) /\ Len(Down(i - 1)) = i - 1
  BY <1>1, DownFacts
<1>3. Len(Append(Down(i - 1), i)) = i
  BY <1>1, <1>2
<1> QED
  BY <1>1, <1>2, <1>3 DEF UndoOrder

(* What is left at each point of the engine's control. *)
LEMMA StepsLeftAt ==
  /\ epc = "idle"       => StepsLeft = 6 * N + 3
  /\ epc = "backup"     => StepsLeft = 4 * (N - cur) + 2 * N + 6
  /\ epc = "apply"      => StepsLeft = 4 * (N - cur) + 2 * N + 5
  /\ epc = "applied"    => StepsLeft = 4 * (N - cur) + 2 * N + 4
  /\ epc = "validate"   => StepsLeft = 4 * (N - cur) + 2 * N + 3
  /\ epc = "failed"     => StepsLeft = 2 * N + 2
  /\ epc = "rollback"   => StepsLeft = 2 * Len(todo) + 1
  /\ epc = "rolledback" => StepsLeft = 2 * Len(todo)
  /\ epc = "done"       => StepsLeft = 0
  BY DEF StepsLeft

(* Every step of the engine lowers the bound. *)
LEMMA StepsDecrease ==
  ASSUME EngineInv, EngineStep
  PROVE  /\ StepsLeft \in Nat /\ StepsLeft' \in Nat
         /\ StepsLeft' < StepsLeft
<1>1. N \in Nat /\ cur \in 0..N /\ todo \in Seq(Actions) /\ Len(todo) \in Nat
  BY EngineConstants DEF EngineInv, EngineTypeOK
<1>2. /\ epc' = "backup"     => StepsLeft' = 4 * (N - cur') + 2 * N + 6
      /\ epc' = "apply"      => StepsLeft' = 4 * (N - cur') + 2 * N + 5
      /\ epc' = "applied"    => StepsLeft' = 4 * (N - cur') + 2 * N + 4
      /\ epc' = "validate"   => StepsLeft' = 4 * (N - cur') + 2 * N + 3
      /\ epc' = "failed"     => StepsLeft' = 2 * N + 2
      /\ epc' = "rollback"   => StepsLeft' = 2 * Len(todo') + 1
      /\ epc' = "rolledback" => StepsLeft' = 2 * Len(todo')
      /\ epc' = "done"       => StepsLeft' = 0
  BY DEF StepsLeft
<1>3. CASE Start
  <2>1. epc = "idle" /\ ((epc' = "done") \/ (epc' = "backup" /\ cur' = 1))
    BY <1>3 DEF Start, GoTo
  <2> QED
    BY <2>1, <1>1, <1>2, StepsLeftAt
<1>4. CASE Backup \/ Apply \/ Applied
  <2>1. /\ cur' = cur
        /\ \/ epc = "backup" /\ epc' \in {"apply", "failed"}
           \/ epc = "apply" /\ epc' \in {"applied", "failed"}
           \/ epc = "applied" /\ epc' \in {"validate", "failed"}
    BY <1>4 DEF Backup, Apply, Applied
  <2> QED
    BY <2>1, <1>1, <1>2, StepsLeftAt
<1>5. CASE Validate
  <2>1. /\ epc = "validate"
        /\ \/ epc' = "done"
           \/ epc' = "backup" /\ cur' = cur + 1
           \/ epc' = "failed" /\ cur' = cur
    BY <1>5 DEF Validate, GoTo
  <2>2. epc' = "backup" => cur + 1 \in 0..N
    BY <1>1, <1>5 DEF Validate, GoTo
  <2> QED
    BY <2>1, <2>2, <1>1, <1>2, StepsLeftAt
<1>6. CASE Failed
  <2>1. epc = "failed" /\ epc' = "rollback" /\ todo' = UndoOrder(cur, res[cur].status)
    BY <1>6 DEF Failed
  <2>2. cur \in Actions /\ res[cur].status \in FailureStatuses
    BY <2>1 DEF EngineInv, FailedInv
  <2>3. Len(todo') \in 0..N
    BY <2>1, <2>2, UndoOrderLength
  <2> QED
    BY <2>1, <2>3, <1>1, <1>2, StepsLeftAt
<1>7. CASE Rollback
  <2>1. epc = "rollback" /\ epc' = "rolledback" /\ todo' = todo
    BY <1>7 DEF Rollback
  <2> QED
    BY <2>1, <1>1, <1>2, StepsLeftAt
<1>8. CASE RolledBack
  <2>1. epc = "rolledback" /\ epc' = "rollback" /\ todo' = Tail(todo)
    BY <1>8 DEF RolledBack
  <2>2. todo # <<>>
    BY <2>1 DEF EngineInv, UndoInv, Undoing
  <2>3. Len(todo') = Len(todo) - 1 /\ Len(todo) > 0
    BY <2>1, <2>2, <1>1
  <2> QED
    BY <2>1, <2>3, <1>1, <1>2, StepsLeftAt
<1>9. CASE Finish
  <2>1. epc = "rollback" /\ epc' = "done"
    BY <1>9 DEF Finish
  <2> QED
    BY <2>1, <1>1, <1>2, StepsLeftAt
<1> QED
  BY <1>3, <1>4, <1>5, <1>6, <1>7, <1>8, <1>9 DEF EngineStep

(* For plans of any length: every step the engine takes lowers the number  *)
(* of steps it has left, so it takes at most 6 * N + 3 of them whatever    *)
(* fails - the safety half of its termination.                             *)
THEOREM EngineStepsAreBounded == EngineSpec => EngineIsBounded
<1>1. ASSUME EngineInv, [EngineStep]_engineVars
      PROVE  [StepsLeft' \in 0..(StepsLeft - 1)]_engineVars
  <2>1. CASE EngineStep
    <3>1. StepsLeft \in Nat /\ StepsLeft' \in Nat /\ StepsLeft' < StepsLeft
      BY <1>1, <2>1, StepsDecrease
    <3> QED
      BY <3>1
  <2>2. CASE UNCHANGED engineVars
    BY <2>2
  <2> QED
    BY <1>1, <2>1, <2>2
<1> QED
  BY <1>1, EngineInvariant, PTL DEF EngineSpec, EngineIsBounded

-----------------------------------------------------------------------------
(* A step of the engine is a step of the abstract transaction, or none. *)
LEMMA EngineStepSimulates ==
  EngineInv /\ EngineInv' /\ [EngineStep]_engineVars => [Abstract!Next]_(Abstract!vars)
<1> SUFFICES ASSUME EngineInv, EngineInv', [EngineStep]_engineVars
             PROVE  Abstract!Next \/ UNCHANGED Abstract!vars
  OBVIOUS
<1> USE DEF Abstract!Next, Abstract!vars, Abstract!Work, Abstract!Commit, Abstract!Revert,
            Abstract!GiveUp
<1>1. CASE Start \/ Validate
  <2>1. epc # "done" /\ UNCHANGED effect
    BY <1>1 DEF Start, Validate
  <2>2. Phase = "open"
    BY <2>1 DEF Phase
  <2>3. CASE epc' # "done"
    BY <2>1, <2>2, <2>3 DEF Phase
  <2>4. CASE epc' = "done"
    <3>1. verdict' = "APPLIED"
      BY <1>1, <2>4 DEF Start, Validate, GoTo
    <3>2. Phase' = "committed"
      BY <2>4, <3>1 DEF Phase
    <3>3. \A a \in Actions : effect[a] = "new"
      BY <2>1, <2>4, <3>1 DEF EngineInv, DoneInv
    <3> QED
      BY <2>1, <2>2, <3>2, <3>3
  <2> QED
    BY <2>3, <2>4
<1>2. CASE Backup \/ Applied \/ Failed \/ RolledBack
  <2>1. epc # "done" /\ epc' # "done" /\ UNCHANGED effect
    BY <1>2 DEF Backup, Applied, Failed, RolledBack
  <2> QED
    BY <2>1 DEF Phase
<1>3. CASE Apply
  <2>1. epc # "done" /\ epc' # "done"
    BY <1>3 DEF Apply
  <2>2. cur \in Actions
    BY <1>3 DEF Apply, EngineInv, ForwardInv, Forward
  <2>3. \E e \in {"orig", "new", "dirty"} : effect' = [effect EXCEPT ![cur] = e]
    BY <1>3 DEF Apply
  <2> QED
    BY <2>1, <2>2, <2>3 DEF Phase
<1>4. CASE Rollback
  <2>1. epc # "done" /\ epc' # "done"
    BY <1>4 DEF Rollback
  <2>2. Head(todo) \in Actions
    BY <1>4, PopFacts DEF Rollback, EngineInv, EngineTypeOK, UndoInv, Undoing
  <2>3. \E e \in {"orig", "new", "dirty"} : effect' = [effect EXCEPT ![Head(todo)] = e]
    BY <1>4 DEF Rollback
  <2> QED
    BY <2>1, <2>2, <2>3 DEF Phase
<1>5. CASE Finish
  <2>1. epc # "done" /\ epc' = "done" /\ verdict' # "APPLIED" /\ UNCHANGED <<effect, res>>
    BY <1>5 DEF Finish
  <2>2. Phase = "open"
    BY <2>1 DEF Phase
  <2>3. CASE \E j \in Actions : RollbackFailed(res[j])
    <3>1. Phase' = "unresolved"
      BY <2>1, <2>3 DEF Phase, RollbackFailed
    <3> QED
      BY <2>1, <2>2, <3>1
  <2>4. CASE ~\E j \in Actions : RollbackFailed(res[j])
    <3>1. Phase' = "reverted"
      BY <2>1, <2>4 DEF Phase, RollbackFailed
    <3>2. \A a \in Actions \ NoopRollback : effect[a] = "orig"
      BY <2>1, <2>4 DEF EngineInv, DoneInv, NothingLeftSilently, RollbackFailed
    <3> QED
      BY <2>1, <2>2, <3>1, <3>2
  <2> QED
    BY <2>3, <2>4
<1>6. CASE UNCHANGED engineVars
  BY <1>6 DEF engineVars, Phase, RollbackFailed
<1> QED
  BY <1>1, <1>2, <1>3, <1>4, <1>5, <1>6 DEF EngineStep

(* For plans of any length the engine implements the abstract transaction: *)
(* it commits only with every action in effect, and claims a full revert   *)
(* only when every revertible action is back.                              *)
THEOREM EngineImplementsAtomicTx == EngineSpec => ImplementsAtomicTx
<1>1. EngineInit => Abstract!Init
  BY DEF EngineInit, Abstract!Init, Phase
<1> QED
  BY <1>1, EngineInvariant, EngineStepSimulates, PTL
  DEF EngineSpec, ImplementsAtomicTx, Abstract!Spec
=============================================================================
