---------------------------- MODULE SSHMoveProof ----------------------------
(* Proof, for any finite set of ports, that a staged move never closes the *)
(* operator's last port.                                                   *)
EXTENDS SSHMove, FiniteSetTheorems, TLAPS

(* From Backup on, the saved fragment is one to go back to. *)
Saved == {"gate", "probe", "write", "test", "reload", "listening", "validate",
          "restore", "rereload"}

(* What the action in hand may write. *)
SpecInv ==
    /\ spec.kind = "SSH" => spec.content = {spec.new} \cup ({spec.old} \ {NoPort})
    /\ spec.kind = "SSH_FINALIZE" => spec.content = {spec.old, spec.new}
    /\ spec.kind = "SSH_FINALIZE" /\ pc \in {"probe", "write"} => spec.new # spec.old
    /\ spec.kind = "SSH_FINALIZE" /\ pc = "write" => spec.new \in proven

(* The ports through which the operator gets in, at every point from which *)
(* sshd's configuration may be restored or reloaded.                       *)
WayIn ==
    /\ Reachable(listeners)
    /\ Reachable(Configured(frag))
    /\ pc \in Saved => Reachable(Configured(saved))
    /\ spec.kind = "SSH" /\ spec.old # NoPort => spec.old \in proven

SSHInv == TypeOK /\ SpecInv /\ (~oldless => WayIn)

(* sshd always listens somewhere. *)
LEMMA ConfiguredType ==
    ASSUME base \subseteq Ports, NEW f \in SUBSET Ports
    PROVE  Configured(f) \subseteq Ports /\ Configured(f) # {}
  BY SSHConstants DEF Configured

(* A unique discovered port is the operator's way in, if there is one.  *)
LEMMA UniquePort ==
    ASSUME NEW ports \in SUBSET Ports, OldPort(ports) # NoPort
    PROVE  ports = {OldPort(ports)}
  <1>1. IsFiniteSet(ports)
    BY SSHConstants, FS_Subset
  <1>2. Cardinality(ports) = 1
    BY DEF OldPort
  <1>3. PICK p : ports = {p}
    BY <1>1, <1>2, FS_Singleton
  <1>. QED
    BY <1>2, <1>3 DEF OldPort

LEMMA OldPortType ==
    ASSUME NEW ports \in SUBSET Ports
    PROVE  OldPort(ports) \in Ports \cup {NoPort}
  <1>1. CASE OldPort(ports) = NoPort
    BY <1>1
  <1>2. CASE OldPort(ports) # NoPort
    BY <1>2, UniquePort
  <1>. QED
    BY <1>1, <1>2

(* What Plan puts into its specification. *)
LEMMA PlannedSpec ==
    ASSUME NEW ports \in SUBSET Ports, NEW new \in Ports
    PROVE  LET s == SSHPortSpec(ports, new)
           IN  /\ s \in Specs /\ s # NoSpec /\ s.kind = "SSH"
               /\ s.old = OldPort(ports)
               /\ s.content = {s.new} \cup ({s.old} \ {NoPort})
  <1>1. OldPort(ports) \in Ports \cup {NoPort}
    BY OldPortType
  <1>. QED
    BY <1>1 DEF SSHPortSpec, Specs, Kinds, NoSpec

LEMMA SSHInitially == Init => SSHInv
  <1>. SUFFICES ASSUME Init PROVE SSHInv
    OBVIOUS
  <1>1. Configured({}) \subseteq Ports /\ Configured({}) # {}
    BY ConfiguredType DEF Init
  <1>2. TypeOK
    BY <1>1 DEF Init, TypeOK
  <1>3. SpecInv
    BY DEF Init, SpecInv, NoSpec
  <1>4. WayIn
    BY DEF Init, WayIn, NoSpec, Reachable, Saved
  <1>. QED
    BY <1>2, <1>3, <1>4 DEF SSHInv

(* Planning: the old port is a way in, since it is all that was found.  *)
LEMMA PlanStep ==
    ASSUME SSHInv, NEW new \in Ports, Plan(new)
    PROVE  SSHInv'
  <1>1. PICK ports \in EffectivePorts : spec' = SSHPortSpec(ports, new)
    BY DEF Plan
  <1>2. Configured(frag) \subseteq Ports /\ listeners \subseteq Ports
    BY ConfiguredType DEF SSHInv, TypeOK
  <1>3. ports \in SUBSET Ports
    BY <1>2 DEF EffectivePorts
  <1>4. /\ spec' \in Specs /\ spec' # NoSpec /\ spec'.kind = "SSH"
        /\ spec'.old = OldPort(ports)
        /\ spec'.content = {spec'.new} \cup ({spec'.old} \ {NoPort})
    BY <1>1, <1>3, PlannedSpec
  <1>5. TypeOK'
    BY <1>4 DEF SSHInv, TypeOK, Plan, world
  <1>6. SpecInv'
    BY <1>4 DEF SpecInv
  <1>7. ASSUME ~oldless', spec'.old # NoPort PROVE spec'.old \in proven'
    <2>1. ports = {spec'.old}
      BY <1>3, <1>4, <1>7, UniquePort
    <2>2. Reachable(ports)
      BY <1>1, <1>7 DEF SSHInv, WayIn, Plan, EffectivePorts, Reachable
    <2>. QED
      BY <2>1, <2>2 DEF Reachable, Plan, world
  <1>8. ~oldless' => WayIn'
    BY <1>7 DEF SSHInv, WayIn, Plan, world, Reachable, Configured, Saved
  <1>. QED
    BY <1>5, <1>6, <1>8 DEF SSHInv

LEMMA FinalizeStep ==
    ASSUME SSHInv, NEW old \in Ports, NEW new \in Ports, Finalize(old, new)
    PROVE  SSHInv'
  <1>1. spec' \in Specs /\ spec' # NoSpec /\ spec'.kind = "SSH_FINALIZE"
    BY DEF Finalize, Specs, Kinds, NoSpec
  <1>2. TypeOK'
    BY <1>1 DEF SSHInv, TypeOK, Finalize, world
  <1>3. SpecInv'
    BY <1>1 DEF Finalize, SpecInv
  <1>4. ~oldless' => WayIn'
    BY <1>1 DEF SSHInv, WayIn, Finalize, world, Reachable, Configured, Saved
  <1>. QED
    BY <1>2, <1>3, <1>4 DEF SSHInv

(* Writing the fragment: it names a way in, or the proviso is lost.  *)
LEMMA WriteStep ==
    ASSUME SSHInv, Write
    PROVE  SSHInv'
  <1>. USE DEF Write, sshd
  <1>1. spec \in Specs /\ spec.kind \in Kinds
    BY DEF SSHInv, TypeOK, Specs, NoSpec
  <1>2. TypeOK'
    BY <1>1 DEF SSHInv, TypeOK, Specs
  <1>3. SpecInv'
    BY DEF SSHInv, SpecInv
  <1>4. ASSUME ~oldless' PROVE Reachable(frag)'
    <2>1. CASE spec.kind = "SSH"
      <3>1. spec.old # NoPort /\ spec.old \in proven
        BY <1>4, <2>1 DEF SSHInv, WayIn
      <3>2. spec.old \in frag'
        BY <2>1, <3>1 DEF SSHInv, SpecInv
      <3>. QED
        BY <3>1, <3>2 DEF Reachable
    <2>2. CASE spec.kind = "SSH_FINALIZE"
      <3>1. spec.new \in proven /\ spec.new # spec.old
        BY <2>2 DEF SSHInv, SpecInv
      <3>2. spec.new \in frag'
        BY <2>2, <3>1 DEF SSHInv, SpecInv
      <3>. QED
        BY <3>1, <3>2 DEF Reachable
    <2>. QED
      BY <1>1, <2>1, <2>2 DEF Kinds
  <1>5. ~oldless' => WayIn'
    BY <1>4 DEF SSHInv, WayIn, Reachable, Configured, Saved
  <1>. QED
    BY <1>2, <1>3, <1>5 DEF SSHInv

(* The steps that change neither the fragment nor the action in hand.  *)
LEMMA RuntimeStep ==
    ASSUME SSHInv, Execute \/ Backup \/ Gate \/ Probe \/ Test \/ Reload \/ Fails \/ Restart
    PROVE  SSHInv'
  <1>1. Configured(frag) \subseteq Ports /\ Configured(frag) # {}
    BY ConfiguredType DEF SSHInv, TypeOK
  <1>2. spec' = spec /\ frag' = frag /\ base' = base /\ oldless' = oldless
    BY DEF Execute, Backup, Gate, Probe, Test, Reload, Fails, Restart, world, sshd
  <1>3. listeners' \in {listeners, Configured(frag)}
    BY DEF Execute, Backup, Gate, Probe, Test, Reload, Fails, Restart, world, sshd
  <1>4. spec # NoSpec => spec \in Specs
    BY DEF SSHInv, TypeOK
  <1>5. proven \subseteq proven' /\ proven' \subseteq Ports
    BY <1>4 DEF SSHInv, TypeOK, Execute, Backup, Gate, Probe, Test, Reload, Fails, Restart,
                world, sshd, Specs
  <1>6. saved' = saved \/ (pc = "backup" /\ pc' = "gate" /\ saved' = frag)
    BY DEF Execute, Backup, Gate, Probe, Test, Reload, Fails, Restart
  <1>7. \/ pc' = pc \/ (pc # "idle" /\ pc' # "idle")
    BY DEF Execute, Backup, Gate, Probe, Test, Reload, Fails, Restart
  <1>8. pc' \in {"idle", "planned", "backup", "gate", "probe", "write", "test", "reload",
                 "listening", "validate", "restore", "rereload"}
    BY DEF SSHInv, TypeOK, Execute, Backup, Gate, Probe, Test, Reload, Fails, Restart
  <1>9. TypeOK'
    <2>1. socket' = socket
      BY Zenon DEF Execute, Backup, Gate, Probe, Test, Reload, Fails, Restart, world, sshd
    <2>2. pc' = "idle" <=> spec' = NoSpec
      BY <1>2, <1>7 DEF SSHInv, TypeOK
    <2>3. saved' \subseteq Ports
      BY <1>6 DEF SSHInv, TypeOK
    <2>4. listeners' \subseteq Ports /\ listeners' # {}
      BY <1>1, <1>3 DEF SSHInv, TypeOK
    <2>. QED
      BY <1>2, <1>5, <1>8, <2>1, <2>2, <2>3, <2>4 DEF SSHInv, TypeOK
  <1>10. spec.kind = "SSH_FINALIZE" =>
            /\ pc' \in {"probe", "write"} => spec.new # spec.old
            /\ pc' = "write" => spec.new \in proven'
    <2>1. CASE Probe
      BY <2>1 DEF SSHInv, SpecInv, Probe
    <2>2. CASE Restart
      BY <1>5, <2>2 DEF SSHInv, SpecInv, Restart
    <2>3. CASE Execute \/ Backup \/ Gate \/ Test \/ Reload \/ Fails
      BY <2>3 DEF Execute, Backup, Gate, Test, Reload, Fails
    <2>. QED
      BY <2>1, <2>2, <2>3
  <1>11. SpecInv'
    BY <1>2, <1>10 DEF SSHInv, SpecInv
  <1>12. pc' \in Saved => pc \in Saved \/ saved' = frag
    BY DEF Saved, Execute, Backup, Gate, Probe, Test, Reload, Fails, Restart
  <1>13. ~oldless' => WayIn'
    BY <1>2, <1>3, <1>5, <1>6, <1>12 DEF SSHInv, WayIn, Reachable, Configured
  <1>. QED
    BY <1>9, <1>11, <1>13 DEF SSHInv

LEMMA ListeningStep ==
    ASSUME SSHInv, Listening
    PROVE  SSHInv'
  <1>. USE DEF Listening, world
  <1>1. \/ pc = "listening" /\ spec' = spec /\ pc' = "validate"
        \/ spec' = NoSpec /\ pc' = "idle"
    <2>1. CASE pc = "listening"
      BY <2>1
    <2>2. CASE pc = "validate"
      BY <2>2
    <2>. QED
      BY <2>1, <2>2
  <1>2. TypeOK'
    BY <1>1 DEF SSHInv, TypeOK
  <1>3. SpecInv'
    BY <1>1 DEF SSHInv, SpecInv, NoSpec
  <1>4. ~oldless' => WayIn'
    BY <1>1 DEF SSHInv, WayIn, Reachable, Configured, Saved, NoSpec
  <1>. QED
    BY <1>2, <1>3, <1>4 DEF SSHInv

LEMMA RestoreStep ==
    ASSUME SSHInv, Restore
    PROVE  SSHInv'
  <1>. USE DEF Restore, sshd
  <1>1. TypeOK'
    BY DEF SSHInv, TypeOK
  <1>2. SpecInv'
    BY DEF SSHInv, SpecInv
  <1>3. ~oldless' => WayIn'
    BY DEF SSHInv, WayIn, Reachable, Configured, Saved
  <1>. QED
    BY <1>1, <1>2, <1>3 DEF SSHInv

(* The steps after which nothing is in hand.  *)
LEMMA EndingStep ==
    ASSUME SSHInv, Rereload \/ GiveUp
    PROVE  SSHInv'
  <1>1. Configured(frag) \subseteq Ports /\ Configured(frag) # {}
    BY ConfiguredType DEF SSHInv, TypeOK
  <1>2. /\ spec' = NoSpec /\ pc' = "idle"
        /\ listeners' \in {listeners, Configured(frag)}
        /\ UNCHANGED <<socket, base, frag, proven, saved, oldless>>
    BY DEF Rereload, GiveUp, world
  <1>3. TypeOK'
    BY <1>1, <1>2 DEF SSHInv, TypeOK
  <1>4. SpecInv'
    BY <1>2 DEF SpecInv, NoSpec
  <1>5. ~oldless' => WayIn'
    BY <1>2 DEF SSHInv, WayIn, Reachable, Configured, Saved, NoSpec
  <1>. QED
    BY <1>3, <1>4, <1>5 DEF SSHInv

LEMMA SSHStep == SSHInv /\ [Next]_vars => SSHInv'
  <1>. SUFFICES ASSUME SSHInv, [Next]_vars PROVE SSHInv'
    OBVIOUS
  <1>1. ASSUME NEW new \in Ports, Plan(new) PROVE SSHInv'
    BY <1>1, PlanStep
  <1>2. ASSUME NEW old \in Ports, NEW new \in Ports, Finalize(old, new) PROVE SSHInv'
    BY <1>2, FinalizeStep
  <1>3. CASE Execute \/ Backup \/ Gate \/ Probe \/ Test \/ Reload \/ Fails \/ Restart
    BY <1>3, RuntimeStep
  <1>4. CASE Write
    BY <1>4, WriteStep
  <1>5. CASE Listening
    BY <1>5, ListeningStep
  <1>6. CASE Restore
    BY <1>6, RestoreStep
  <1>7. CASE Rereload \/ GiveUp
    BY <1>7, EndingStep
  <1>8. CASE UNCHANGED vars
    BY <1>8 DEF vars, SSHInv, TypeOK, SpecInv, WayIn, Reachable, Configured
  <1>. QED
    BY <1>1, <1>2, <1>3, <1>4, <1>5, <1>6, <1>7, <1>8 DEF Next

(* The invariant holds at all times: the operator's way in is in the       *)
(* sockets, in the fragment and in the backup.                             *)
THEOREM SSHInvariant == Spec => []SSHInv
  <1>. QED
    BY SSHInitially, SSHStep, PTL DEF Spec

(* sshd's ports and the action in hand keep their types, and sshd always   *)
(* listens somewhere.                                                      *)
THEOREM SSHTypeCorrect == Spec => []TypeOK
  <1>1. SSHInv => TypeOK
    BY DEF SSHInv
  <1>. QED
    BY <1>1, SSHInvariant, PTL

(* However many ports, moves, finalisations, failures, crashes and         *)
(* restarts: as long as every plan knew its old port, the staged move      *)
(* (ssh_executor.go) and its finalisation never strand the operator.       *)
THEOREM SSHNeverStranded == Spec => []NeverStranded
  <1>1. SSHInv => NeverStranded
    BY DEF SSHInv, WayIn, NeverStranded
  <1>. QED
    BY <1>1, SSHInvariant, PTL
=============================================================================
