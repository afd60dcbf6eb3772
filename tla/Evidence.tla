------------------------------ MODULE Evidence ------------------------------
(***************************************************************************)
(* The evidence plane: claims minted by completed transactions into        *)
(* state.json (orchestrate/evidence.go), the state file protocol           *)
(* (state/persist.go, state/evidence.go), the reconstruction of lost       *)
(* claims from the journal (evidence_reconstruct.go, evidence_recover.go)  *)
(* and their translation for the ownership verifier (journal/fact.go).     *)
(*                                                                         *)
(* Runs, crashes, failed writes, files edited or removed by others, a      *)
(* clock that stands still or is set back, records and state files copied  *)
(* from another machine or written by another version.  The steps of a run *)
(* that module Orchestrate takes apart are one step here: what matters is  *)
(* which record, which claims and which file content each leaves behind.   *)
(* The plane is a function of the resource: neither a run nor a recovery   *)
(* writes two claims for one identity.                                     *)
(***************************************************************************)
EXTENDS Ownership, JournalOps

CONSTANTS
    Files,          \* resources of file actions
    Identity,       \* Identity[f]: the resource identity of f
    Specs,          \* specifications of a file, by their hash
    Foreign,        \* content that is no specification of a plan
    Tx,             \* local transactions 1..n: their number bounds the runs
    Copied,         \* transactions of another machine
    Here, There,    \* this machine and another one
    MaxClock        \* bound: start times 1..MaxClock

ASSUME EvidenceConstants ==
    /\ Here \in Hosts /\ There \in Hosts \ {Here} /\ Nil \notin Hosts
    /\ Tx \subseteq Nat \ {0} /\ Copied \cap Tx = {} /\ 0 \notin Copied
    /\ Nil \notin Specs \cup {Foreign} /\ Nil \notin Tx \cup Copied /\ Nil \notin Files
    /\ Foreign \notin Specs
    /\ MaxClock \in Nat \ {0}

VARIABLES
    journal,    \* journal[t]: the record of t, or Absent
    state,      \* state.json: [ver, claims], ver "none" when there is no file
    live,       \* live[f]: the content of f, Nil when it does not exist
    next,       \* the next transaction id; ids are never handed out twice
    run,        \* the run in progress: [pc, tx, prior, before]
    planted,    \* history: claims of another machine may be in state.json
    wrote,      \* history: wrote[f]: [tx, spec] of completed local transactions
    last,       \* history: last[f]: the last of them
    recovered   \* history: a recovery succeeded and nothing has changed since

vars == <<journal, state, live, next, run, planted, wrote, last, recovered>>

AllTx == Tx \cup Copied
NoTx == 0
Plan(t) == t            \* the fingerprint of the plan of transaction t
NoClaims == [f \in Files |-> Nil]

(* Versions of a state file: no file; supported; supported with a body     *)
(* that ParseState refuses (a key it does not know or finds twice, a claim *)
(* out of form); and a file that is no JSON or whose version is newer,     *)
(* unknown or missing.                                                     *)
Versions == {"none", "v1", "v2", "damaged", "unreadable"}

(* A record of transaction t as a run of this or of another machine leaves *)
(* it, a claim, and an entry of the history.                               *)
Contents == Specs \cup {Foreign, Nil}
Acts == UNION {[S -> [status : ActionStatuses, spec : Specs, obs : Contents]] : S \in SUBSET Files}
Record(t) ==
    [tx : {t}, plan : {t}, host : {Here, There, Nil}, start : 0..MaxClock, schema : {1, 3},
     outcome : TransactionOutcomes, recovery : BOOLEAN, rollback : RollbackResults, mut : {TRUE},
     acts : Acts]
Claim ==
    [identity : {Identity[f] : f \in Files}, spec : Specs, tx : AllTx, plan : AllTx,
     host : {Here, There, Nil}, at : 0..MaxClock]

ASSUME NoValueIsNoRecord ==
    /\ \A t \in AllTx : Absent \notin Record(t)
    /\ Nil \notin Claim /\ Nil \notin [tx : AllTx, spec : Specs]

Idle == [pc |-> "idle", tx |-> NoTx, prior |-> NoClaims, before |-> [f \in Files |-> Nil]]

Init ==
    /\ journal = [t \in AllTx |-> Absent]
    /\ state = [ver |-> "none", claims |-> NoClaims]
    /\ live = [f \in Files |-> Nil]
    /\ next = 1
    /\ run = Idle
    /\ planted = FALSE
    /\ wrote = [f \in Files |-> {}]
    /\ last = NoClaims
    /\ recovered = FALSE

Present == {t \in AllTx : journal[t] # Absent}

-----------------------------------------------------------------------------
(* Minting and the state file. *)

(* fileResourceIdentity: only identities in the compiled namespaces. *)
Mintable(f) == ValidIdentity(Identity[f]) /\ BirthrightEligible(Identity[f])

ClaimOf(rec, f) ==
    [identity |-> Identity[f], spec |-> rec.acts[f].spec, tx |-> rec.tx, plan |-> rec.plan,
     host |-> rec.host, at |-> rec.start]

(* The files a record mints a claim for. *)
Minted(rec) ==
    {f \in DOMAIN rec.acts : rec.acts[f].status = "APPLIED" /\ Mintable(f)}

(* MintTransactionEvidence refuses the record. *)
MintRefused(rec) ==
    \/ rec.outcome # "COMPLETED" \/ rec.recovery
    \/ ~ValidHost(rec.host)
    \/ \E f \in DOMAIN rec.acts : rec.acts[f].status = "APPLIED" /\ ~ValidHash(rec.acts[f].spec)

(* mergeEvidence: the claims of this transaction replace those of the same *)
(* identity, all others stay.                                              *)
MergeEvidence(prior, rec) ==
    [f \in Files |-> IF f \in Minted(rec) THEN ClaimOf(rec, f) ELSE prior[f]]

(* ValidateEvidenceRecords and the claim checks of ParseState. *)
ValidPlane(claims) == \A f \in {g \in Files : claims[g] # Nil} : ValidClaim(claims[f])

(* ParseState, LoadModel and LoadModelIfPresent: v1 documents carry no     *)
(* claims; a document with claims that do not validate is not loaded.      *)
Loadable(s) ==
    /\ s.ver \in {"v1", "v2"}
    /\ ValidPlane(s.claims)

(* Seeded fault, used by the mutants only: whatever is there is replaced. *)
SaveAllowedBlind(ver, claims) == ValidPlane(claims)

(* SaveModel over the file there is: a valid plane, and no file of a newer *)
(* or unknown version is replaced.  existingStateVersion looks at the      *)
(* version alone, so a damaged body does not stop it.                      *)
SaveAllowed(ver, claims) ==
    /\ ValidPlane(claims)
    /\ ver \in {"none", "v1", "v2", "damaged"}

-----------------------------------------------------------------------------
(* Reconstruction. *)

(* The record is skipped: latched, failed, in progress, contradictory,     *)
(* too old or unreadable, without a host or a start time, or refused by    *)
(* the mint itself.                                                        *)
Skipped(rec) ==
    \/ rec.recovery \/ rec.outcome # "COMPLETED" \/ rec.rollback # ""
    \/ rec.schema \notin {2, 3}
    \/ rec.start = 0
    \/ MintRefused(rec)

(* The claims of the history of one identity on one host. *)
History(f, h) ==
    {ClaimOf(journal[t], f) :
        t \in {u \in Present : ~Skipped(journal[u]) /\ journal[u].host = h /\ f \in Minted(journal[u])}}

(* Newest start time wins ... *)
Latest(claims) == {c \in claims : \A d \in claims : d.at <= c.at}

(* ... unless two transactions share it: then the history has no order. *)
Ambiguous(f) == \E h \in Hosts : \E c, d \in Latest(History(f, h)) : c # d

(* The reconstructed claims of an identity, at most one per host. *)
Reconstructed(f) ==
    UNION {Latest(History(f, h)) : h \in {g \in Hosts : \A c, d \in Latest(History(f, g)) : c = d}}

(* Seeded fault, used by the mutants only: the persisted claim always stays. *)
MergeReconstructedKeeps(p, r) == IF p = Nil THEN r ELSE p

(* mergeReconstructed for one identity: p is persisted, r reconstructed;   *)
(* a strictly newer claim replaces, an older one never does.               *)
MergeReconstructed(p, r) ==
    IF r = Nil THEN p
    ELSE IF p = Nil \/ r.at > p.at THEN r
    ELSE p

(* One reconstructed claim, if there is exactly one. *)
Only(claims) == IF \E c \in claims : claims = {c} THEN CHOOSE c \in claims : TRUE ELSE Nil

(* ReconstructEvidence reports a conflict for this identity. *)
Conflict(f, prior) ==
    \/ Ambiguous(f)
    \/ \E c, d \in Reconstructed(f) : c.host # d.host
    \/ LET r == Only(Reconstructed(f))
       IN  r # Nil /\ prior[f] # Nil /\ r.at = prior[f].at /\ r # prior[f]

ReconstructEvidence(prior) ==
    [f \in Files |-> MergeReconstructed(prior[f], Only(Reconstructed(f)))]

(* RecoverEvidence up to the save: what it reports.  Nothing is written    *)
(* unless the result is PERSISTED.  A v1 model is loaded, and then refused *)
(* by SaveModel, which writes v2 only.                                     *)
RecoverStatus ==
    LET claims == ReconstructEvidence(state.claims)
    IN  IF ~Loadable(state) THEN Error
        ELSE IF \E f \in Files : Conflict(f, state.claims) THEN "CONFLICT"
        ELSE IF \E t \in Present : BlocksPersistence(journal[t], FALSE) THEN "BLOCKED"
        ELSE IF claims = state.claims THEN "NO_CHANGE"
        ELSE IF state.ver # "v2" \/ ~SaveAllowed(state.ver, claims) THEN Error
        ELSE "PERSISTED"

-----------------------------------------------------------------------------
(* A run. *)

NewRecord(t, fs, s, now) ==
    [tx |-> t, plan |-> Plan(t), host |-> Here, start |-> now, schema |-> 3, outcome |-> "",
     recovery |-> FALSE, rollback |-> "", mut |-> TRUE,
     acts |-> [f \in fs |-> [status |-> "PENDING", spec |-> s, obs |-> Nil]]]

WithStatus(rec, st) == [rec EXCEPT !.acts = [f \in DOMAIN rec.acts |-> [rec.acts[f] EXCEPT !.status = st]]]

(* Prepare, before the lock: the caller hands over the claims of the state *)
(* file as it is now, or none.  The last run is the last transaction's.    *)
Prepare ==
    /\ run.pc = "idle" /\ next \in Tx
    /\ \E p \in {NoClaims} \cup (IF Loadable(state) THEN {state.claims} ELSE {}) :
          run' = [Idle EXCEPT !.pc = "planned", !.prior = p]
    /\ UNCHANGED <<next, journal, state, live, planted, wrote, last, recovered>>

(* Execute takes the lock and begins a transaction; the start time is what *)
(* the clock says, which may be what it said before, or less.              *)
Begin(fs, s, now) ==
    /\ run.pc = "planned"
    /\ \A t \in Present : ~Blocking(journal[t])
    /\ \E f \in fs : live[f] # s
    /\ next \in Tx
    /\ journal' = [journal EXCEPT ![next] = NewRecord(next, fs, s, now)]
    /\ run' = [run EXCEPT !.pc = "begun", !.tx = next, !.before = live]
    /\ next' = next + 1
    /\ recovered' = FALSE
    /\ UNCHANGED <<state, live, planted, wrote, last>>

(* The engine applied every action. *)
Apply ==
    /\ run.pc = "begun"
    /\ LET rec == journal[run.tx] IN
          /\ journal' = [journal EXCEPT ![run.tx] = WithStatus(rec, "APPLIED")]
          /\ live' = [f \in Files |-> IF f \in DOMAIN rec.acts THEN rec.acts[f].spec ELSE live[f]]
    /\ run' = [run EXCEPT !.pc = "applied"]
    /\ UNCHANGED <<next, state, planted, wrote, last, recovered>>

(* RecordObservedSpecHash: the file as it is now, if it is there. *)
Observe(f) ==
    /\ run.pc = "applied"
    /\ f \in DOMAIN journal[run.tx].acts /\ journal[run.tx].acts[f].obs = Nil
    /\ live[f] # Nil
    /\ journal' = [journal EXCEPT ![run.tx].acts[f].obs = live[f]]
    /\ UNCHANGED <<next, state, live, run, planted, wrote, last, recovered>>

(* The transaction fails: rolled back, left changed, or latched.  Failures *)
(* before the first effect leave such records too.                         *)
Fail ==
    /\ run.pc = "applied"
    /\ LET rec == journal[run.tx] IN
          \/ /\ journal' = [journal EXCEPT ![run.tx] =
                   [WithStatus(rec, "ROLLED_BACK") EXCEPT !.outcome = "FAILED", !.rollback = "ROLLED_BACK"]]
             /\ live' = [f \in Files |-> IF f \in DOMAIN rec.acts THEN run.before[f] ELSE live[f]]
          \/ /\ journal' = [journal EXCEPT ![run.tx].outcome = "FAILED"]
             /\ UNCHANGED live
          \/ /\ journal' = [journal EXCEPT ![run.tx] =
                   [@ EXCEPT !.outcome = "RECOVERY_REQUIRED", !.recovery = TRUE, !.rollback = "ROLLBACK_FAILED"]]
             /\ UNCHANGED live
    /\ run' = Idle
    /\ UNCHANGED <<next, state, planted, wrote, last, recovered>>

(* Final validation passed; the terminal record is written before anything *)
(* is persisted.                                                           *)
Complete ==
    /\ run.pc = "applied"
    /\ LET rec == journal[run.tx] IN
          /\ \A f \in DOMAIN rec.acts : live[f] = rec.acts[f].spec
          /\ journal' = [journal EXCEPT ![run.tx].outcome = "COMPLETED"]
          /\ wrote' = [f \in Files |-> wrote[f] \cup
                (IF f \in DOMAIN rec.acts THEN {[tx |-> run.tx, spec |-> rec.acts[f].spec]} ELSE {})]
          /\ last' = [f \in Files |-> IF f \in DOMAIN rec.acts /\ Mintable(f)
                                     THEN [tx |-> run.tx, spec |-> rec.acts[f].spec] ELSE last[f]]
    /\ run' = [run EXCEPT !.pc = "completed", !.before = Idle.before]
    /\ UNCHANGED <<next, state, live, planted, recovered>>

(* The claims a run persists: those it was handed, merged with its own. *)
RunClaims == IF run.tx = NoTx THEN run.prior ELSE MergeEvidence(run.prior, journal[run.tx])

(* The run, which may have had nothing to change, persists the state. *)
Save ==
    /\ run.pc = "completed" \/ run.pc = "planned"
    /\ \A t \in Present \ {run.tx} : ~BlocksPersistence(journal[t], run.tx # NoTx)
    /\ run.tx # NoTx => ~MintRefused(journal[run.tx])
    /\ SaveAllowed(state.ver, RunClaims)
    /\ state' = [ver |-> "v2", claims |-> RunClaims]
    /\ run' = Idle
    /\ recovered' = FALSE
    /\ UNCHANGED <<next, journal, live, planted, wrote, last>>

(* The process dies, or the run ends without persisting. *)
Stop ==
    /\ run.pc # "idle"
    /\ run' = Idle
    /\ UNCHANGED <<next, journal, state, live, planted, wrote, last, recovered>>

-----------------------------------------------------------------------------
(* RecoverEvidence under the lock; the write may fail, leaving either file. *)
RecoverEvidence ==
    LET status == RecoverStatus
        merged == [state EXCEPT !.claims = ReconstructEvidence(@)]
    IN  /\ run.pc \in {"idle", "planned"}
        /\ \/ /\ recovered' = (status \in {"PERSISTED", "NO_CHANGE"})
              /\ state' = IF status = "PERSISTED" THEN merged ELSE state
           \/ status = "PERSISTED" /\ recovered' = FALSE /\ state' \in {state, merged}
        /\ UNCHANGED <<next, journal, live, run, planted, wrote, last>>

(* Others edit or remove the file; what happens to it between Prepare and  *)
(* Begin is caught by the staleness gate.                                  *)
Drift(f) ==
    /\ run.pc \in {"idle", "applied"}
    /\ \E c \in {Foreign, Nil} \ {live[f]} : live' = [live EXCEPT ![f] = c]
    /\ UNCHANGED <<next, journal, state, run, planted, wrote, last, recovered>>

(* The records of another machine: completed there, on paths that exist    *)
(* here too; some of an older program, without host or schema.             *)
ForeignRecord(t, f, s, at) ==
    [tx |-> t, plan |-> Plan(t), host |-> There, start |-> at, schema |-> 3, outcome |-> "COMPLETED",
     recovery |-> FALSE, rollback |-> "", mut |-> TRUE,
     acts |-> [g \in {f} |-> [status |-> "APPLIED", spec |-> s, obs |-> s]]]

CopyRecord(t) ==
    /\ run.pc = "idle"
    /\ journal[t] = Absent
    /\ \E f \in Files, s \in Specs, at \in 1..MaxClock :
          LET rec == ForeignRecord(t, f, s, at) IN
          journal' = [journal EXCEPT ![t] = rec] \/ journal' = [journal EXCEPT ![t] = [rec EXCEPT !.host = Nil]]
             \/ journal' = [journal EXCEPT ![t] = [rec EXCEPT !.schema = 1, !.start = 0, !.acts[f].obs = Nil]]
    /\ recovered' = FALSE
    /\ UNCHANGED <<next, state, live, run, planted, wrote, last>>

(* Another version of the program, a lost or damaged file, or the state    *)
(* file of another machine.                                                *)
ReplaceState ==
    /\ run.pc \in {"idle", "completed"}
    /\ \/ /\ \E v \in Versions : state' = [ver |-> v, claims |-> NoClaims]
          /\ planted' = (planted /\ run.pc # "idle")
       \/ \E t \in Copied : \E f \in Files :
             /\ journal[t] # Absent /\ f \in DOMAIN journal[t].acts
             /\ state' = [ver |-> "v2", claims |-> [NoClaims EXCEPT ![f] = ClaimOf(journal[t], f)]]
             /\ planted' = TRUE
    /\ recovered' = FALSE
    /\ UNCHANGED <<next, journal, live, run, wrote, last>>

(* The operator settles a record that did not complete. *)
OperatorClear ==
    /\ run.pc \in {"idle", "planned"}
    /\ \E t \in Present :
          /\ journal[t].outcome # "COMPLETED"
          /\ journal' = [journal EXCEPT ![t] = Absent]
    /\ recovered' = FALSE
    /\ UNCHANGED <<next, state, live, run, planted, wrote, last>>

Next ==
    \/ Prepare
    \/ \E fs \in SUBSET Files \ {{}}, s \in Specs, now \in 1..MaxClock : Begin(fs, s, now)
    \/ Apply \/ Fail \/ Complete \/ Save \/ Stop
    \/ \E f \in Files : Observe(f) \/ Drift(f)
    \/ RecoverEvidence
    \/ \E t \in Copied : CopyRecord(t)
    \/ ReplaceState \/ OperatorClear

Spec == Init /\ [][Next]_vars

-----------------------------------------------------------------------------
(* The admission question, as the ownership package would be asked it.     *)

(* CorroborationFacts: one record that cannot be translated fails all. *)
FactsAvailable == \A t \in Present : journal[t].schema \in 1..3 /\ ValidFact(journal[t])

(* A v1 record never carried hashes. *)
CorroborationFact(rec) ==
    [tx |-> rec.tx, plan |-> rec.plan, host |-> rec.host, outcome |-> rec.outcome,
     recovery |-> rec.recovery, rollback |-> rec.rollback,
     acts |-> [f \in DOMAIN rec.acts |->
                 [status |-> rec.acts[f].status,
                  spec |-> IF rec.schema >= 2 THEN rec.acts[f].spec ELSE Nil,
                  obs |-> IF rec.schema >= 3 THEN rec.acts[f].obs ELSE Nil]]]

Facts == {CorroborationFact(journal[t]) : t \in Present}

(* What a live observation may report: the file as it is, a file that      *)
(* cannot be read, nothing certain; and an external owner.                 *)
Observations(f) ==
    [state : {IF live[f] = Nil THEN "ABSENT" ELSE "PRESENT"}, hash : {live[f], Nil}, external : {Nil}]
      \cup [state : {"UNKNOWN"}, hash : {Nil}, external : {Nil}]
      \cup (IF live[f] = Nil THEN {} ELSE [state : {"PRESENT"}, hash : {live[f]}, external : {"docker"}])

Verdict(f, obs) == DeriveVerdict(Identity[f], obs, state.claims[f], f, Facts, Here)
Sufficiency(f, obs) == ClassifyObservedEvidence(Identity[f], obs, state.claims[f], f, Facts, Here)
Admissible(op, f, obs) == FactsAvailable /\ Loadable(state) /\ Admit(op, Verdict(f, obs), Identity[f]) = "ALLOW"

(* Admission rests on what really happened on this machine: a resource may *)
(* be modified only if a completed transaction of this machine wrote it,   *)
(* is called verified only if its content is what that transaction wrote,  *)
(* and may be created only where nothing is.  Copied records, planted      *)
(* claims, lost claims, edits by others and clock changes never help.      *)
AdmissionIsGrounded ==
    \A f \in Files : \A obs \in Observations(f) :
        /\ Admissible("MODIFY", f, obs) => \E w \in wrote[f] :
              /\ w.tx = state.claims[f].tx /\ w.spec = state.claims[f].spec
              /\ Verdict(f, obs) = "OWNED_VERIFIED" => live[f] = w.spec
        /\ Admissible("CREATE", f, obs) => live[f] = Nil
        /\ ~Admissible("DELETE", f, obs)
        /\ FactsAvailable /\ Sufficiency(f, obs) = "SUFFICIENT" => \E w \in wrote[f] :
              w.tx = state.claims[f].tx /\ w.spec = state.claims[f].spec

(* No local transaction started, by its record, before an earlier one. *)
ClockMonotone ==
    \A t, u \in Present \cap Tx : t < u => journal[t].start <= journal[u].start

(* After a successful recovery, and until something changes, the plane is  *)
(* the one an uninterrupted history would have left: every file that a     *)
(* transaction of this machine completed has the claim of the last one,    *)
(* whatever crashes, stale callers and lost state files did; and another   *)
(* recovery has nothing to do.  A clock set back or claims planted from    *)
(* another machine are beyond the reach of the order by start time.        *)
RecoveryIsExact ==
    recovered =>
        /\ RecoverStatus = "NO_CHANGE"
        /\ ClockMonotone /\ ~planted => \A f \in Files : last[f] # Nil =>
              /\ state.claims[f] # Nil
              /\ state.claims[f].tx = last[f].tx /\ state.claims[f].spec = last[f].spec
              /\ state.claims[f].host = Here

(* What the program never does to a state file that is there.  A run that  *)
(* saves replaces no file whose version is newer, unknown or missing; a    *)
(* body that does not parse under a supported version it replaces.  A      *)
(* recovery replaces only a file it could read in full, and takes no claim *)
(* in it back: a claim stays or makes way for one that started later, even *)
(* under copied records and a clock that stands still.                     *)
StateFileIsKept ==
    [][/\ Save => state.ver # "unreadable"
       /\ RecoverEvidence /\ state' # state =>
            /\ Loadable(state)
            /\ \A f \in Files : state.claims[f] # Nil =>
                  \/ state'.claims[f] = state.claims[f]
                  \/ state'.claims[f].at > state.claims[f].at]_vars
=============================================================================
