------------------------------ MODULE SSHMove ------------------------------
(***************************************************************************)
(* Moving sshd to another port without losing the machine: planning        *)
(* (state/diff.go, state/plan.go), the staged action (ssh_executor.go) and *)
(* its finalisation (ssh_finalize_executor.go), as the engine runs them.   *)
(*                                                                         *)
(* sshd listens on every port its configuration names, the main file and   *)
(* the managed fragment together, and on DefaultPort when they name none.  *)
(* It reads them when it is reloaded by the executor or restarted by       *)
(* anyone; a reload may report either result and take effect or not.       *)
(* "proven" are the ports the operator is known to get in through: one     *)
(* that was used from the start, and those a management probe reached.     *)
(***************************************************************************)
EXTENDS Integers, FiniteSets

CONSTANTS
    Ports,          \* port numbers
    DefaultPort,    \* where sshd listens when no port is configured
    NoPort          \* OldPort 0: not a unique old port

ASSUME SSHConstants ==
    /\ DefaultPort \in Ports
    /\ NoPort \notin Ports
    /\ IsFiniteSet(Ports)

VARIABLES
    socket,     \* sshd is socket-activated
    base,       \* ports named in the main configuration
    frag,       \* ports named in the managed fragment, {} when there is none
    listeners,  \* ports sshd listens on
    pc,         \* next step
    spec,       \* the action in hand: [kind, old, new, content]
    saved,      \* the fragment as Backup found it
    proven,     \* ports the operator gets in through
    oldless     \* history: a plan without an old port wrote its fragment

vars == <<socket, base, frag, listeners, pc, spec, saved, proven, oldless>>

Kinds == {"SSH", "SSH_FINALIZE"}
Specs == [kind : Kinds, old : Ports \cup {NoPort}, new : Ports, content : SUBSET Ports]
NoSpec == [kind |-> "none"]

Configured(f) == IF base \cup f = {} THEN {DefaultPort} ELSE base \cup f

TypeOK ==
    /\ socket \in BOOLEAN
    /\ base \subseteq Ports /\ frag \subseteq Ports /\ saved \subseteq Ports
    /\ listeners \subseteq Ports /\ listeners # {}
    /\ pc \in {"idle", "planned", "backup", "gate", "probe", "write", "test", "reload",
               "listening", "validate", "restore", "rereload"}
    /\ spec \in Specs \cup {NoSpec} /\ (pc = "idle" <=> spec = NoSpec)
    /\ proven \subseteq Ports
    /\ oldless \in BOOLEAN

Init ==
    /\ socket \in BOOLEAN
    /\ base \in SUBSET Ports
    /\ frag = {}
    /\ listeners = Configured({})
    /\ pc = "idle"
    /\ spec = NoSpec
    /\ saved = {}
    /\ \E p \in listeners : proven = {p}
    /\ oldless = FALSE

sshd == <<socket, base, listeners>>
world == <<socket, base, frag, listeners, proven>>

-----------------------------------------------------------------------------
(* What discovery may report: the configured ports (sshd -T) and the       *)
(* sockets of sshd, or one of them when the other command fails; preflight *)
(* refuses to go on with none.                                             *)
EffectivePorts == {Configured(frag) \cup listeners, Configured(frag), listeners}

(* The unique port among those discovered, if there is one. *)
OldPort(ports) == IF Cardinality(ports) = 1 THEN CHOOSE p \in ports : TRUE ELSE NoPort

(* Seeded fault, used by the mutants only: the finalisation asks for no    *)
(* probe.                                                                  *)
GateSkipsProbe ==
    /\ pc = "gate"
    /\ \/ /\ spec.kind = "SSH"
          /\ spec.old # NoPort => spec.old \in listeners
       \/ /\ spec.kind = "SSH_FINALIZE"
          /\ spec.old # spec.new /\ {spec.old, spec.new} \subseteq listeners
    /\ pc' = "write"
    /\ UNCHANGED <<world, spec, saved, oldless>>

(* sshPortSpec: the old port is kept in the fragment when it is known,     *)
(* that is, when sshd has exactly one.                                     *)
SSHPortSpec(ports, new) ==
    [kind |-> "SSH", old |-> OldPort(ports), new |-> new,
     content |-> {new} \cup ({OldPort(ports)} \ {NoPort})]

(* BuildDiff, BuildPlan: ssh.port is an UPDATE unless the desired port is  *)
(* the only one.                                                           *)
Plan(new) ==
    /\ pc = "idle"
    /\ \E ports \in EffectivePorts \ {{new}} : spec' = SSHPortSpec(ports, new)
    /\ pc' = "planned"
    /\ UNCHANGED <<world, saved, oldless>>

(* Execute plans again under the lock and refuses a plan that has changed. *)
Execute ==
    /\ pc = "planned"
    /\ \E ports \in EffectivePorts \ {{spec.new}} : SSHPortSpec(ports, spec.new) = spec
    /\ pc' = "backup"
    /\ UNCHANGED <<world, spec, saved, oldless>>

(* The second phase is never planned: it is built by hand from the staged  *)
(* specification (NewSSHFinalizeAction) and run by the engine.             *)
Finalize(old, new) ==
    /\ pc = "idle"
    /\ spec' = [kind |-> "SSH_FINALIZE", old |-> old, new |-> new, content |-> {old, new}]
    /\ pc' = "backup"
    /\ UNCHANGED <<world, saved, oldless>>

(* Backup.  The fragment of a socket-activated sshd lies outside the       *)
(* namespace that safePath accepts.                                        *)
Backup ==
    /\ pc = "backup"
    /\ ~socket
    /\ saved' = frag
    /\ pc' = "gate"
    /\ UNCHANGED <<world, spec, oldless>>

(* Apply, first gates: the old listener is there; for the finalisation old *)
(* and new differ and both are listening.                                  *)
Gate ==
    /\ pc = "gate"
    /\ \/ /\ spec.kind = "SSH"
          /\ spec.old # NoPort => spec.old \in listeners
          /\ pc' = "write"
       \/ /\ spec.kind = "SSH_FINALIZE"
          /\ spec.old # spec.new /\ {spec.old, spec.new} \subseteq listeners
          /\ pc' = "probe"
    /\ UNCHANGED <<world, spec, saved, oldless>>

(* probeManagement: the controller reaches the new port from outside. *)
Probe ==
    /\ pc = "probe"
    /\ spec.new \in listeners
    /\ proven' = proven \cup {spec.new}
    /\ pc' = "write"
    /\ UNCHANGED <<sshd, frag, spec, saved, oldless>>

(* writeConfig of the staged content, or of the content without the old    *)
(* listener (removeSSHListener).                                           *)
Write ==
    /\ pc = "write"
    /\ frag' = IF spec.kind = "SSH" THEN spec.content ELSE spec.content \ {spec.old}
    /\ oldless' = (oldless \/ (spec.kind = "SSH" /\ spec.old = NoPort))
    /\ pc' = "test"
    /\ UNCHANGED <<sshd, proven, spec, saved>>

(* sshd -t *)
Test ==
    /\ pc = "test"
    /\ pc' = "reload"
    /\ UNCHANGED <<world, spec, saved, oldless>>

(* systemctl reload reports success. *)
Reload ==
    /\ pc = "reload"
    /\ listeners' \in {listeners, Configured(frag)}
    /\ pc' = "listening"
    /\ UNCHANGED <<socket, base, frag, proven, spec, saved, oldless>>

(* The listener gates at the end of Apply, and those of Validate. *)
Listening ==
    /\ pc \in {"listening", "validate"}
    /\ spec.new \in listeners
    /\ IF spec.kind = "SSH" THEN spec.old # NoPort => spec.old \in listeners
       ELSE spec.old \notin listeners
    /\ pc' = IF pc = "listening" THEN "validate" ELSE "idle"
    /\ spec' = IF pc = "listening" THEN spec ELSE NoSpec
    /\ UNCHANGED <<world, saved, oldless>>

(* Any step of Apply or Validate fails, a gate included, and the engine    *)
(* rolls the action back.  A failing reload may have taken effect.         *)
Fails ==
    /\ pc \in {"gate", "probe", "write", "test", "reload", "listening", "validate"}
    /\ listeners' \in {listeners} \cup (IF pc = "reload" THEN {Configured(frag)} ELSE {})
    /\ pc' = "restore"
    /\ UNCHANGED <<socket, base, frag, proven, spec, saved, oldless>>

(* Rollback: restoreConfigVerified. *)
Restore ==
    /\ pc = "restore"
    /\ frag' = saved
    /\ pc' = "rereload"
    /\ UNCHANGED <<sshd, proven, spec, saved, oldless>>

(* Rollback: the reload that makes the restored fragment effective. *)
Rereload ==
    /\ pc = "rereload"
    /\ listeners' \in {listeners, Configured(frag)}
    /\ pc' = "idle"
    /\ spec' = NoSpec
    /\ UNCHANGED <<socket, base, frag, proven, saved, oldless>>

(* A stale plan or a failed Backup is dropped; a failed Rollback ends the  *)
(* transaction; the process may die anywhere, and an operator then clears  *)
(* the journal's record of it.                                             *)
GiveUp ==
    /\ pc # "idle"
    /\ pc' = "idle"
    /\ spec' = NoSpec
    /\ UNCHANGED <<world, saved, oldless>>

(* Anyone restarts sshd, or the machine. *)
Restart ==
    /\ listeners' = Configured(frag)
    /\ listeners' # listeners
    /\ UNCHANGED <<socket, base, frag, proven, pc, spec, saved, oldless>>

Next ==
    \/ \E new \in Ports : Plan(new)
    \/ \E old, new \in Ports : Finalize(old, new)
    \/ Execute \/ Backup \/ Gate \/ Probe \/ Write \/ Test \/ Reload \/ Listening
    \/ Fails \/ Restore \/ Rereload \/ GiveUp \/ Restart

Spec == Init /\ [][Next]_vars

-----------------------------------------------------------------------------
Reachable(s) == s \cap proven # {}

(* Nothing the program does - a staged move, its finalisation, a rollback, *)
(* a crash in any of them followed by a restart of sshd - closes the last  *)
(* port the operator gets in through, provided every move was planned on a *)
(* machine with one SSH port (ssh_executor.go, "the old listener is kept   *)
(* until a separate, explicitly validated cleanup operation").             *)
NeverStranded ==
    ~oldless => Reachable(listeners) /\ Reachable(Configured(frag))

(* The same without the proviso: "removing the old listener is a separate, *)
(* explicitly validated operation so a local reload can never strand the   *)
(* management connection" (plan.go).  A staged move leaves two ports; the  *)
(* next plan then knows no old port and its fragment names the new alone.  *)
ReloadNeverStrands == Reachable(listeners)
=============================================================================
