----------------------------- MODULE ServiceObs -----------------------------
(***************************************************************************)
(* The report-only service observation: two snapshots of one unit around   *)
(* the engine's attempt (orchestrate/serviceobservation.go), each one      *)
(* systemctl query (serviceobs/runner.go, Observe), and the comparison     *)
(* that says what happened to the unit in between (Compare).               *)
(*                                                                         *)
(* The unit belongs to systemd: a start acquires a fresh invocation, a     *)
(* main-process handoff does not but refreshes the start time; process     *)
(* ids and start times may repeat.  A query may fail, or answer with       *)
(* properties that are missing or malformed.                               *)
(***************************************************************************)
EXTENDS Integers, FiniteSets

CONSTANTS
    MaxStarts,      \* bound on the starts of the unit
    Pids,           \* process ids; 0 is none
    MaxClock,       \* bound on the start times
    ServicePlans,   \* plans: [observer, actions, kind, pinned]
    TxStatuses,     \* how the engine's attempt may end
    NoSnap,
    Missing, Garbled    \* a property that is absent, one that is malformed

ASSUME ServiceConstants ==
    /\ MaxStarts \in Nat /\ 0 \in Pids /\ MaxClock \in Nat
    /\ Missing \notin {"active", "activating", "inactive", "failed"}

VARIABLES
    unit,       \* [load, active, pid, inv, mono]
    starts,     \* history: starts so far; also the next invocation
    spc,        \* next step of the orchestrator
    plan,       \* the plan in hand
    before,     \* the first snapshot, or NoSnap
    happened,   \* history: what happened to the unit between the queries
    report      \* the report attached to the outcome

serviceVars == <<unit, starts, spc, plan, before, happened, report>>

NoReport == [made |-> FALSE, applied |-> FALSE, verdict |-> ""]
NoPlan == [observer |-> FALSE, actions |-> 0, kind |-> "", pinned |-> FALSE]

ServiceInit ==
    /\ unit = [load |-> "loaded", active |-> "inactive", pid |-> 0, inv |-> 0, mono |-> 0]
    /\ starts = 0 /\ spc = "idle" /\ plan = NoPlan
    /\ before = NoSnap /\ happened = {} /\ report = NoReport

-----------------------------------------------------------------------------
(* The answers a query of unit u may give.  The start time is monotonic,   *)
(* or, where that is unusable, formatted, and then coarser.                *)
Answers(u) ==
    IF u.load = "not-found"
    THEN {[load |-> "not-found", active |-> "inactive", pid |-> 0, inv |-> Missing, time |-> <<"mono", 0>>]}
    ELSE [load : {u.load}, active : {u.active, Missing}, pid : {u.pid, Garbled},
          inv : {IF u.inv = 0 THEN Missing ELSE u.inv, Missing, Garbled},
          time : {<<"mono", u.mono>>, <<"ts", u.mono \div 2>>, Missing}]

(* Observe: the status the answer supports; the rest is carried verbatim. *)
Observe(a) ==
    [a EXCEPT !.load = IF a.load = "not-found" \/ a.active = Missing \/ a.pid = Garbled
                       THEN "UNKNOWN" ELSE "PRESENT"]

UsableInvocationID(o) == o.inv \notin {Missing, Garbled}
StartIdentityKnown(o, p) == Missing \notin {o.time, p.time} /\ o.time[1] = p.time[1]
Started(o) == o.pid # 0
WasDown(o) == o.active \in {"inactive", "failed"} /\ ~Started(o)

(* Seeded fault, used by the mutants only: a new process is a new          *)
(* invocation.                                                             *)
CompareByProcess(o, p) ==
    IF o.load # "PRESENT" \/ p.load # "PRESENT" THEN "NOT_COMPARABLE"
    ELSE IF o.pid # p.pid \/ o.time # p.time THEN "NEW_INVOCATION_OBSERVED" ELSE "NO_NEW_INVOCATION"

(* Compare: the manager's own identifier decides; without a pair of them   *)
(* only a settled active unit says anything.                               *)
Compare(o, p) ==
    IF o.load # "PRESENT" \/ p.load # "PRESENT" THEN "NOT_COMPARABLE"
    ELSE IF UsableInvocationID(o) /\ UsableInvocationID(p)
         THEN IF o.inv = p.inv THEN "NO_NEW_INVOCATION" ELSE "NEW_INVOCATION_OBSERVED"
    ELSE IF p.active # "active" \/ ~Started(p) THEN "INVOCATION_UNPROVABLE"
    ELSE IF WasDown(o) THEN "NEW_INVOCATION_OBSERVED"
    ELSE IF StartIdentityKnown(o, p) /\ o.time # p.time THEN "MAIN_PROCESS_CHANGED"
    ELSE IF o.pid # p.pid THEN "INVOCATION_UNPROVABLE"
    ELSE IF StartIdentityKnown(o, p) THEN "INVOCATION_NOT_PROVEN"
    ELSE "INVOCATION_UNPROVABLE"

(* ReportableServiceResource: one service action on the pinned unit. *)
ReportableServiceAction(p) == p.actions = 1 /\ p.kind = "SERVICE" /\ p.pinned

(* One bounded query: an answer, or nothing (failure, timeout, panic). *)
Snapshots == {Observe(a) : a \in Answers(unit)} \cup {NoSnap}

-----------------------------------------------------------------------------
(* Execute reaches the window: no observer or another plan opens none. *)
BeginServiceObservation ==
    /\ spc \in {"idle", "done"}
    /\ plan' \in ServicePlans
    /\ report' = NoReport /\ happened' = {}
    /\ spc' = "attempt"
    /\ before' \in IF plan'.observer /\ ReportableServiceAction(plan') THEN Snapshots ELSE {NoSnap}
    /\ UNCHANGED <<unit, starts>>

(* The transaction is final before the window is closed. *)
EndServiceObservation ==
    /\ spc = "attempt" /\ spc' = "done"
    /\ \E status \in TxStatuses, after \in Snapshots :
          report' = IF plan.observer /\ ReportableServiceAction(plan)
                    THEN [made |-> TRUE, applied |-> status = "APPLIED",
                          verdict |-> IF NoSnap \in {before, after} THEN "" ELSE Compare(before, after)]
                    ELSE NoReport
    /\ UNCHANGED <<unit, starts, plan, before, happened>>

-----------------------------------------------------------------------------
(* systemd and whoever commands it, the engine's executor included. *)
Times == unit.mono .. MaxClock
Happens(e) == happened' = IF spc = "attempt" THEN happened \cup e ELSE happened

StartUnit ==
    /\ unit.load = "loaded" /\ unit.active \in {"inactive", "failed"} /\ starts < MaxStarts
    /\ starts' = starts + 1 /\ Happens({"start", "process"})
    /\ \E a \in {"active", "activating"}, p \in Pids, m \in Times :
          unit' = [unit EXCEPT !.active = a, !.pid = p, !.inv = starts + 1, !.mono = m]
    /\ UNCHANGED <<spc, plan, before, report>>
Settle ==
    /\ unit.active = "activating" /\ unit' = [unit EXCEPT !.active = "active"]
    /\ UNCHANGED <<starts, spc, plan, before, happened, report>>
StopUnit ==
    /\ unit.active \in {"active", "activating"}
    /\ \E a \in {"inactive", "failed"} : unit' = [unit EXCEPT !.active = a, !.pid = 0]
    /\ UNCHANGED <<starts, spc, plan, before, happened, report>>
Handoff ==
    /\ unit.active = "active"
    /\ Happens({"process"})
    /\ \E p \in Pids \ {0}, m \in Times : unit' = [unit EXCEPT !.pid = p, !.mono = m]
    /\ UNCHANGED <<starts, spc, plan, before, report>>
(* The unit file goes and comes back while nothing runs. *)
Unload ==
    /\ unit.active \in {"inactive", "failed"}
    /\ unit' = [load |-> IF unit.load = "loaded" THEN "not-found" ELSE "loaded",
                active |-> "inactive", pid |-> 0, inv |-> 0, mono |-> unit.mono]
    /\ UNCHANGED <<starts, spc, plan, before, happened, report>>

ServiceNext ==
    \/ BeginServiceObservation \/ EndServiceObservation
    \/ StartUnit \/ Settle \/ StopUnit \/ Handoff \/ Unload

ServiceSpec == ServiceInit /\ [][ServiceNext]_serviceVars

-----------------------------------------------------------------------------
(* A verdict says what really happened between the two queries: a new      *)
(* invocation only when the unit was started, none only when it was not, a *)
(* replaced process only when one was - through reused process ids, equal  *)
(* start times, handoffs, lost identifiers and units that vanish.  There   *)
(* is a report only for the one plan that may be observed, and no verdict  *)
(* without both snapshots.                                                 *)
VerdictIsTrue ==
    spc = "done" =>
        /\ report.verdict = "NEW_INVOCATION_OBSERVED" => "start" \in happened
        /\ report.verdict = "NO_NEW_INVOCATION" => "start" \notin happened
        /\ report.verdict = "MAIN_PROCESS_CHANGED" => "process" \in happened
        /\ report.verdict # "" => before # NoSnap /\ plan.observer /\ plan.actions = 1
=============================================================================
