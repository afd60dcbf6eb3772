# Verification of vps-gateway-bootstrap

vps-gateway-bootstrap brings a VPS into a described state: it discovers the
machine, compares it with a configuration, makes a plan, asks for approval and
applies the plan as a transaction. This directory holds TLA+ models of the code
that decides whether that is safe, the TLC configurations that check them on
small instances, and proofs checked by TLAPS. Paths below are relative to the
repository's `internal/` unless they say otherwise.

## 1. The system

| part | state | operations | talks to |
|---|---|---|---|
| `lock` | lock file, flock, descriptor per process | Acquire, Release | kernel |
| `fsatomic` | directories, files, temporary files | EnsureDir, WriteFile, WriteFileSyncDir | file system |
| `journal` | one record file per transaction | Begin, Update, RecordObservedSpecHash, BlockingRecords, PersistenceBlockers | `fsatomic` |
| `apply` engine | Transaction in memory | Apply, rollback | executors; progress sink, which writes the journal |
| `apply` executors | managed files, services, sshd; backups and manifests | Backup, Apply, Validate, Rollback | the machine |
| `orchestrate` | Plan and Outcome in memory, `state.json` | Prepare, Execute, RecoverEvidence | all of the above, `pipeline`, `approval`, `probe` |
| `state`, `pipeline` | the persisted model | diff, plan, preflight, SaveModel, LoadModel | `discovery` |
| `recovery` | none | ClassifyTransaction, ClassifyJournal | records of `journal` |
| `approval`, `capability`, `ownership` | none | verification and derivation of authority | `orchestrate` |
| `fileobs`, `serviceobs` | none | observation of a managed file, of a unit before and after a transaction | `orchestrate`, the machine |
| `mssspec`, `mssexec`, `mssadapter` | the MSS clamp rule of the mangle table | plan, Ensure, Apply, Validate, Rollback (refused) | iptables, `journal` |
| `awgspec`, `muvgplan` | none | source prefix of the MSS rule from evidence about containers | `discovery` |
| `leak*`, `routelint`, `sysctl`, `firewallspec`, `routespec`, `netdiag` | none | reports on observed configuration | `discovery` |
| `discovery` | none | runs commands, parses output | the machine |

What is hard here is not any single function but the order of things: a
process may die between any two system calls; a write may fail after it became
visible; two processes may run at once; the machine may change between
planning and applying; an approval may expire or be used again; what is being
observed may change between two calls of the observer; a rollback may fail; an
operator may clear records. The
program answers with a write-ahead journal, a lock, a staleness check, latches
that block later runs, and a fixed order of the final writes. The properties
below say what that order is for. `PROJECT.json` lists every hazard with the
line where it bites and the properties aimed at it.

## 2. Modules and the code they model

| module | models | state and actions |
|---|---|---|
| `Lock` | `lock/lock.go`, `lock_unix.go` | one action per system call of Acquire (open, flock) and Release (unlock, close, remove); `Crash` is the kernel's clean-up. A flock belongs to an inode, the path is a link that may change. |
| `DurableFile` | – | what a durable write promises: atomic for readers and for the disk, nil means durable, an error means old or new. `MCStorage` maps `FsAtomic` to it; the journal and state writes of `Engine` and `Orchestrate` use it. |
| `FsAtomic` | `fsatomic/fsatomic.go` | EnsureDir and WriteFileSyncDir call by call; `durable` and `maybe` are what a power loss keeps. `Abort` is a failing call or a killed process. |
| `JournalOps` | `journal/journal.go` | the decisions over records, without state: what a load reads and what `updateRecord` reads (not the same), its pins, what blocks mutation and persistence, retry classes. |
| `Journal` | `journal/journal.go`, `observed.go` | the record files; Begin, Update and RecordObservedSpecHash take arbitrary (stale, wrong, duplicate) records from their callers; root may edit or remove files. |
| `Engine` | `apply/engine.go`, `progress.go`, `progressSink` of `orchestrate` | one action per executor call and per journal write; `mem` and `durable` are the statuses in memory and on disk, `effect` is what happened to the machine. |
| `AtomicTx` | – | what a transaction promises, with no journal and no order. `MCEngine` maps the engine to it. |
| `Orchestrate` | `orchestrate/orchestrate.go`, `evidence.go` | Prepare and Execute of several processes over `Engine` and `JournalOps`, with crash, drift and operator. |
| `Ledger` | – | what the lifecycle promises to a later reader of the journal and `state.json`: one life per transaction, truthful ends, nobody works beside an open or latched one. `MCLifecycle` maps `Orchestrate` to it. |
| `FileExecutor` | `apply/file_executor.go`, `backup_manifest.go` | Backup, Apply, Validate and Rollback of one managed path, one action per look, write and fsync; `disk` and `lossy` are what a power loss may undo. |
| `SSHMove` | `state/diff.go`, `plan.go`, `apply/ssh_executor.go`, `ssh_finalize_executor.go` | planning, staging, finalising and rolling back a change of the SSH port; `listeners` are sshd's sockets, `frag` the managed fragment, `proven` the ports the operator gets in through. |
| `Recovery` | `recovery/classify.go` | the classifier as operators; `MCLifecycle` applies it to every record `Orchestrate` leaves on disk. |
| `Ownership` | `ownership/*` | validation of identities, claims and facts, corroboration, verdicts, sufficiency and admission, as operators. |
| `Evidence` | `orchestrate/evidence*.go`, `state/persist.go`, `state/evidence.go`, `journal/fact.go` | the claims completed transactions leave in `state.json`: runs that mint and save, RecoverEvidence, clocks that stand still or go back, records and state files of other machines or versions, damaged state files, edits by others; every state is asked the admission question of `Ownership`. |
| `Capability` | `capability/*`, `planmap`, `apply/stage4_capabilities.go` | grammar, derivation and exact-set comparison of capabilities, as operators. |
| `Authority` | `approval/*`, the gates of `orchestrate.Execute`, `apply/service_executor.go` | signing elsewhere, trust anchor, confirmation, staleness and host gates, the commands of the service executor; the clock, the machine, its identity, the anchor and the caller's plan change between any two steps. |
| `FileObs` | `fileobs/*` | lstat, open, fstat, read and classification of one path while others put files, links, directories and pipes there, remove and edit them; inode numbers are reused. |
| `ServiceObs` | `serviceobs/*`, `orchestrate/serviceobservation.go` | the two snapshots around an attempt and their comparison; the unit starts, stops, hands over and vanishes. |
| `Mss` | `mssspec/*`, `mssexec`, `mssadapter`, `state/mss_action.go` | observation of rule and chain, planner, the legs of Ensure and the adapter, against a firewall others change; a reference reading of the table for the chain analysis. |
| `AwgSource` | `awgspec/*`, `muvgplan` | candidate, attachment, address, pool and host-visible gates over evidence that arrives piece by piece. |

Components that do not interact share a run: `MCStorage` (lock, write,
journal), `MCExecutors` (file, ssh), `MCTrust` (authority, evidence) and
`MCObservation` (file, service, insert, tables, source) pick a `topic` in their
initial state, and only that topic's machine moves.

Definitions whose name says what they get wrong (`AppliedIgnoresWrite`,
`JournalGateOpen`, ...) are seeded faults. They are no part of any
specification; they replace the real definition in a mutation check, to show
that a property can fail. The modules whose name ends in `Proof` hold the proofs,
and `LeastElement` the one lemma two of them share (section 5).

Abstractions worth knowing:

* Executors are seen through their contract in `Engine`: Apply takes full
  effect or fails after any change; a nil Rollback restores the original state,
  except for the actions in `NoopRollback` (`ServiceExecutor.Rollback` returns
  nil when the action has no rollback operation).
* In `Orchestrate` the machine is one of three views, and a plan is determined
  by the view it was made from, so that equal views mean equal fingerprints.
  Gates before the lock change nothing; they refuse or pass.
* A journal write is one step that succeeds, or fails leaving the old record
  or the new one. `FsAtomic` is where that disjunction comes from: the
  directory fsync can fail after the rename. `DurableFile` states it, and that
  the code keeps it is checked and proved.
* In `FileExecutor` every look at the path (Lstat, ReadFile, the Stat and the
  ReadFile that verify a restore) is a step, and others may change the path
  between two of them. The path may be a symlink to a file of any of `LinksTo`, or
  to none; Stat and ReadFile follow it. `safePath` is one guard at the start of
  each operation, that the path is no symlink; a backup's transaction, plan,
  action and resource are one identity. Transactions follow one another, as the
  lock makes them.
* In `SSHMove` a reload may or may not take effect, whatever it reports, and
  discovery may miss the configuration or the sockets, not both (preflight
  refuses that). The finaliser's management port is the new port: the
  controller that passes another one probes something else. The socket-activated
  layout is always refused by `safePath`, as in the code.
* In `Authority` signatures are unforgeable: an artifact exists because its key
  signed its payload, and a plan is its own fingerprint. Canonical re-encoding is
  kept as the one thing it decides here, the shape (schema 1 or 2) of a payload.
  Service commands are run in any order any number of times, which covers every
  order the engine uses.
* In `Evidence` a run's steps between its record, its claims and its file are one
  step each; `Orchestrate` is where they are taken apart. Resources are files:
  the only ones the minting code accepts. A state file is absent, good, "damaged"
  (a supported version over a body that `ParseState` refuses) or "unreadable" (no
  JSON, or a version that is newer, unknown or missing). SaveModel looks at the
  version alone (as its comment says, persist.go:82), so it replaces a damaged file and leaves an
  unreadable one; RecoverEvidence replaces neither.
* In `Mss` prefixes are sets of addresses, "extra" stands for the matches the
  desired rule leaves free, and reading the table may fail. The reference reading
  lets a packet pass a rule it may match, so it is generous to "reachable". An
  interface name ending in `+` stands for the interfaces that `Wildcards` lists; the
  code compares names as strings, the reference reading does not.
* In `ServiceObs` a start takes a fresh invocation identifier, as systemd
  documents; process ids and start times may repeat.
* `FileObs` counts an edit in place as an exception: two writes inside one inode
  between fstat and read leave no trace the collector could see. The open of a
  pipe waits for a writer and then succeeds, a read from it gives whatever the
  writer sends; a directory opens, but reading it fails.
* The files of `Journal` include a record without a plan fingerprint. Every load
  refuses it as corrupt (`Readable`), `updateRecord` does not look: `Update` asks
  less than the loads, as the code does.
* `Orchestrate` uses the lock as the mutual exclusion its package documents;
  `Lock` shows how far the implementation provides it.

## 3. Runs

| run | question | instance |
|---|---|---|
| `storage` | does a flock ever outlive its holder, does a holder own its inode; torn files, lost acknowledged writes; is a write what its callers take it for; can any caller of the journal change provenance, lose or invent an observation, or turn a damaged file into one that can be read? | 3 processes, 4 inodes; path of 2 levels, 3 writes, power loss anywhere; 2 transactions, 96 submitted records, 5 foreign files |
| `lock_exclusion` | are two processes ever inside at once? **yes** | 3 processes, 4 inodes |
| `engine` | are durable statuses true at every crash point; is the transaction atomic; does it end, and within how many steps? | 3 actions, one without rollback |
| `lifecycle` | write-ahead, blocking, latching, final records, anti-laundering, proof behind every claim; is the classifier's verdict true of the machine; can the holder of the lock go on for ever; is the whole the ledger it should be? | 2 processes, 2 transactions of 2 actions, the second with a firewall action |
| `lifecycle_liveness` | is the lock always given back? | 2 processes, 1 transaction |
| `recovery_vocabulary` | can every journal the program writes be classified? **no** | 1 process, 1 transaction |
| `executors` | is every change backed up, at every crash and power loss; what does a nil Rollback prove; is a misplaced backup refused; does the operator always keep a way in, if every plan knew its old port? | 2 transactions (write, delete), 2 contents, modes 0 and 0600, symlinks to a copy and to nothing, 2 outside changes; 3 ports |
| `ssh_strands` | and without that proviso? **no** | 3 ports |
| `trust` | is what is carried out what was confirmed, and every command covered; is an artifact good for one thing only; does admission rest on what happened here; does a recovery restore exactly the lost claims; which state files are never replaced? | 2 keys, 2 machines, 7 kinds of artifact, 4 altered plans, one clock tick; 2 local transactions, 1 copied record, 1 managed file, 2 specifications |
| `observation` | is an observed file one the path named in that window; does a service verdict say what happened; is an UNSUITABLE chain really out of reach, if the jumps to it name their interfaces; is the rule inserted once and reported truthfully; is the source of the rule ever guessed? | 2 inodes, files, pipes, links and directories; 2 starts, 3 process ids, 5 shapes of plan; 2 runs on 3 tables; about 10000 tables; 12 inventories, 8 intents, 4 pieces of evidence |
| `file_pipe` | is PRESENT only said of a regular file? **no** | 2 inodes |
| `mss_wildcard` | is an UNSUITABLE chain out of reach whatever its jumps? **no** | tables with a jump on `tun+` |

The runs marked "no" or "yes" in bold are expected violations: each states a
sentence of the source or its comments that the code does not keep, quoted
in `PROJECT.json` under `findings`. More disagreements were met while modelling
and have no run of their own:

* `Execute` says that after any failure the engine "has already rolled the
  transaction back" (orchestrate.go:372), but a failed re-discovery or final
  validation rolls nothing back.
* The audit document says "reverse-order rollback"
  (docs/O6-B-PRE-WIRING-AUDIT-2026-10-01.md:49), but the action whose Apply failed
  is undone last.
* `finalizeJournal` says the record "stays in progress" when its write fails
  (orchestrate.go:973), and the terminal write that "the in-progress record
  fail-safe blocks later runs" (orchestrate.go:741); neither is so when only the
  directory fsync failed, since the renamed record is then visible.
* "Updates over a corrupt persisted record are refused (evidence the boundary
  cannot read is never overwritten)" (journal.go:273), but a record without a plan
  fingerprint, which every load refuses as corrupt (journal.go:497), is rewritten by
  an update whose copy has none either: `updateRecord` does not look, and the
  pin compares two blanks as equal.
* `verifyRestoredFile` "proves the restored file matches the manifest: regular file,
  original mode, original content checksum" (backup_manifest.go:92), but it stats
  the path and reads it afterwards, both through a symlink: mode and data may be of
  two moments, and of a file the path only leads to.
* `Begin` says its record survives power loss "including the first run, when the
  directory itself is new" (journal.go:214), but `EnsureDir` syncs only the levels
  it created itself: after a first run that stopped between MkdirAll and the
  syncs, the next one takes the directory for durable. This is the
  `interrupted` proviso of the `fsatomic` properties.
* The classifier says FAILED_RESOLVED means "every action durably reverted"
  (recovery/classify.go:81), but a service action without a rollback operation
  is recorded ROLLED_BACK although nothing was reverted (service_executor.go:102).
  These are the actions in `NoopRollback`.
* The backup directory is made by MkdirAll without syncing its parents
  (file_executor.go:61), so a power loss may take the whole backup; `PowerLoss`
  of `FileExecutor` does so.
* A file whose original mode is 0 is restored with 0600 and then compared with
  mode 0 (file_executor.go:163): its rollback always reports failure.
* For a socket-activated sshd the plan's fragment lies in
  `/etc/systemd/system/ssh.socket.d/` (plan.go:183), which the executor refuses
  (ssh_executor.go:220).
* The claims merged into a new state file are those the caller read before
  Prepare (orchestrate.go:772), not those of the file being replaced, although
  evidence.go:189 says "untouched identities are preserved as-is": a run planned
  before another one finished overwrites its claims. `RecoveryIsExact` shows that
  RecoverEvidence brings them back; `Save` of `Evidence` may overwrite them.
* The header of mssspec/chain.go says that an undecidable overlap degrades to
  UNKNOWN, but a terminal rule that takes only part of the desired packets away
  is passed over, so PROVEN does not mean that every packet arrives; nor does it
  when a jump that was called disjoint has a wildcard interface. Only the other
  direction, `UnsuitableIsDead`, is checked.
* A rule with our tag for one port passes for the desired rule, so that the planner
  answers NO_ACTION: the parser records ports (firewall_rules.go:181), `ProjectRule`
  drops them, although mssspec.go:199 says "full fidelity".
* The attached network is the first one whose ID or whose name matches
  (resolve.go:328), although "NetworkName is diagnostics only — never identity"
  (resolve.go:107): with two networks of one name the pool may be the other's.
* muvgplan says that verified host-visible evidence that disagrees with an
  explicit subnet fails the plan; it is not looked at when the resolution stopped at
  an earlier gate. A malformed prefix of the host is passed over in the
  overlap test. `EvaluateCandidate` answers PROVEN_CANDIDATE although another
  container of the image has ports it cannot decide.
* `AggregateVerdicts` ranks OWNED_DRIFT above UNPROVEN, so a set with a resource
  nobody can vouch for may be summed up as owned.
* A second MSS run that finds its rule already in place fails, since Ensure goes on
  only from CREATE_MSS_RULE, and its refused rollback latches.
* The trust anchor is checked with Lstat and then read by name
  (trustanchor.go:65); a file that took its place in between is trusted. Its
  directory belongs to root.
* A staged move leaves two ports where the diff wants one (diff.go:19), so the
  run that staged it cannot pass its final validation; and the finalisation
  is never emitted by `Prepare`, from which `Execute` takes its mutating plans.

Why the bounds are enough to be interesting: the lock needs a releaser, a
process that opened the old file and a newcomer, hence three. Three actions let
a middle action fail with completed ones before it and untouched ones after it.
Two transactions are needed for blocking, laundering and lost claims; two
processes for a plan that became stale. Three ports
let a second move begin while the first is not finalised; two transactions let
a backup end up in the other's place. In `trust` an artifact may be expired,
for the other machine, of the wrong schema, by the wrong key or for another plan,
one respect at a time, and the clock passes its expiry; two
transactions of one file make a history that can be lost, reordered or tied. In
`observation` two inodes are enough for a number to come back, two starts for one
on either side of a snapshot, and every table has the target chain hooked
directly, through a user chain, twice or not at all, and a rule or jump on the
desired interface by its name, by a wildcard or not at all. One wildcard for one
interface is enough, since the code tells names apart and nothing else. Two outside
changes let the path differ at both looks of a verification, from the restored file
and from each other. Symmetry is used for processes, inodes, transactions and
specifications only in runs without liveness properties.

Deadlock checking is off where the system may rest: `engine` ends when the
transaction ends, `trust` and `observation` when their bounds are used up.

## 4. Fairness

`EngineSpec` assumes weak fairness of the engine's step: Engine.Apply is
straight-line code over executor calls. That these calls return is an
assumption: the executors run their commands without a deadline
(ssh_executor.go:39), so a command that hangs keeps the transaction open.
`Orchestrate` assumes it for a process that holds the lock and for nothing else: nobody has to start a run, drift, crash or clear a record.

## 5. Proofs

`StorageProof` is about the three things a transaction rests on.

* The lock: for any set of processes and inodes its variables keep their types, no
  flock outlives its holder, and whoever is inside owns the flock of its inode
  (`FlockIsExact`). The inductive invariant `LockInv` is the conjunction: a holder
  owns its flock only because flocks name live holders, and both need that a
  descriptor is open exactly between open and close. The assumptions are that
  `NoInode` is no inode and `NoProc` no process.
* The durable write: for paths of any depth and any number of writes no crash
  shows a torn file and an acknowledged version stays. `FsInv`: a version reaches
  the path from a synced file only; the levels EnsureDir has still to sync are
  exactly the ones that are not durable, unless an earlier EnsureDir was
  interrupted.
* `FsImplementsDurableFile`: the write implements `DurableFile`, call by call. The
  rename is its Publish, the nil return of the directory fsync its ReturnNil; the
  calls between them and before the rename are stutters. Beyond `FsInv` this needs
  that the version being written is not found before its rename (`VersionInv`) and
  that, unless an EnsureDir was interrupted, nothing was ever written below a path
  that is not durable (`PathInv`).
* The journal: whatever records callers submit, it never changes provenance, adds no
  observation after the fact and makes no file readable that the loads refuse. It
  leaves such a file as it was, except one that lacks nothing but its plan
  fingerprint: that one an update with a blank copy rewrites, and it comes out
  blank again, because the fingerprint is pinned. The assumption is that
  submitted records have the shape of the Go type.

`EngineProof` proves for any number of actions, any of them without a rollback,
that the durable statuses are true at every crash point, that nothing is left
behind silently, and that the engine implements `AtomicTx` (safety part). None
of these is inductive. `EngineInv` adds what is known at each program counter:
on the way forward what lies behind `cur` is in effect and durably APPLIED and
what lies ahead is untouched (`ForwardInv`, `FailedInv`); on the way back whatever
differs from its original state is still to be undone or already reported
(`UndoInv`); a ROLLED_BACK in memory or on disk is true and final (`RecordInv`);
and the final report accounts for every action (`DoneInv`).
The refinement follows by mapping each action of `Engine` to the
step of `AtomicTx` that changes the same `effect`, or to none.
`EngineStepsAreBounded` is the safety half of termination: `StepsLeft`, which
starts at 6 N + 3, falls with every step, whatever fails (the longest behaviour
of the run takes all of them). It needs the length of the list
of actions to undo (`UndoInv`, `UndoOrderLength`).

`SSHMoveProof` proves `NeverStranded` for any finite set of ports. The invariant
`SSHInv` says that the sockets, the configuration and, once there is a backup,
the configuration with the saved fragment each contain a proven port, and that
the old port of a planned move is proven: a unique discovered port is the only
candidate for the proven one. A finalisation writes only after its new port was
probed. The assumptions are that the ports are finitely many, that `NoPort` is
none of them and that the default port is one.

`LifecycleProof` proves the safety properties of the lifecycle for any number
of processes, any number of transactions and plans of any length: types,
write-ahead (`JournaledBeforeMutation`), a crashed transaction blocks all others,
a failure latches, COMPLETED is proof of the whole effect, every saved claim has
its completed record, the recovery classifier is sound, and the two action
properties (a terminal record is final, a recovery flag is not laundered away). It
builds on `EngineInv`: `LifeInv` adds that being past the plan means holding the
lock (`LockInv`), that the engine moves only for the holder's own transaction,
whose record is on disk and the only one that blocks (`FlightInv`, `BlockInv`),
what a run has established at each step (`Knows`), that every record is true of
what its transaction did (`TruthInv`) and that claims in the state file and in a
run's memory name completed records (`ClaimInv`). `CompletedIsProof` alone is not
inductive: the writer of the terminal record trusts the engine's verdict, and the
verdict is only true of this transaction because no other may run. The added
assumption is that the value for a missing file is no record.

Two more theorems put the lifecycle as a whole. `LifecycleRunIsBounded`: every
step of the holder of the lock gives it back or lowers `RunStepsLeft`, which starts
at 6 N + 12, and what others do in between neither raises it nor writes the journal
or `state.json`. What fairness adds to it, that the steps are taken, is all that
is left to TLC of `LockIsReleased`. Both bounds count calls, not time: an executor
command has no deadline. `LifecycleImplementsLedger`: the lifecycle implements `Ledger`.
A life is read off the record (`Told`), the world of a transaction is what it did so
far; the gates, discoveries and failed writes are stutters, Begin opens or spends an
id, each step of the engine is Work, the terminal write and the finaliser settle,
and release and death of the holder are Leave. That the written end is true is
`TruthInv`, that nobody stands in the way `FlightInv`, that claims are of completed
lives `ClaimInv`; added is that a transaction without a record has done nothing
that is remembered (`GoneInv`).

`FileExecutorProof` proves the four properties of the file executor for any paths'
contents, modes and transactions: the manifest is the commit marker, what changed
the path is backed up, what a nil rollback proves, another transaction's backup is
refused. A nil rollback proves less than its comment says (section 3),
since stat and read are two looks that follow symlinks: a path that held nothing
holds nothing; one that held a file gives the saved data at the second look, gave
the saved mode at some moment since the restore, and is exactly the saved file if
nobody touched it since (`ProvedByNil`). `held`, all the path was since the restore,
carries the first look to the second. `FileInv` says how far a backup has come at each step and what of it a
power loss can still take: content is written and synced before the manifest
exists, the manifest before the path changes. The power loss itself is what makes
it necessary to carry `lossy` along (`CommitInv`, `MutatedInv`); a manifest may lie
in the wrong place and still say what its own transaction found (`ManifestInv`).

`TrustProof` is about who may change the machine.

* `MutationIsAuthorised` holds for any keys, machines, identities, plans and
  artifacts. The property speaks of the moment of mutation, when the world has
  long moved on; `AuthInv` says what each gate has established by the time the
  process is past it (`Confirmed`, the staleness gate against `seen`,
  `Identified`) and that no step of the world undoes it, artifacts being only
  added. It needs that a plan in a caller's hands is a record of the four fields,
  an assumption on `Edits`.
* `CommandsAreCovered`: every command run belongs to a service action of the plan
  in hand and to the compiled policy (`CommandInv`); the approved capabilities
  name that action because the aggregate of a plan contains the capability of each
  of its actions.
* `OneAuthorityPerArtifact`: an accepted artifact determines the entry point, the
  actions and, for schema 2, the capabilities it was accepted for (`ArtifactInv`).
* `AdmissionIsGrounded`, `StateFileIsKept` and `RecoveryIsExact` hold for any
  files, identities, machines and transactions. `StateFileIsKept` is what the
  program does keep: a save replaces no file whose version it cannot tell or does
  not support (a damaged body under a supported version it does replace), and a
  recovery replaces only a file it read in full and moves no claim back in time,
  whatever records were copied in and however their times tie. Admission rests on the journal
  alone (`GroundInv`), whatever the state file claims. That a recovery is exact
  needs where every claim came from (`ClaimInv`), that completed records are
  neither lost nor rewritten (`RecordsInv`, `RunInv`) and which is the last
  (`LastInv`); that repeating it changes nothing is `RecoveredInv`. The latest of a
  file's transactions exists because the natural numbers are well ordered. The
  assumptions are that the values for "nothing" are no host, record or claim.

`ObservationProof` is about what the program believes of a world that changes while
it looks.

* `ObservationIsInstant`: `FileObsInv` traces what the collector holds at each
  system call back to something the path named. An open inode's number is not
  handed out again, so until somebody edits in place the bytes read are delivered by
  the inode that was opened, and the one with its number was named by the path. That
  this is a regular file cannot be proved: it may be a pipe that took the number of
  one between lstat and open (`file_pipe`).
* `VerdictIsTrue` holds for any process ids, clock and number of starts. `Window`
  relates the first snapshot to the unit as it is now and to the history since:
  while nothing started, the invocation is the same or gone and a unit that was
  down is down; once something started, the invocation is gone or newer; while no
  process came, the start time is the same. The lemma `CompareIsTrue` then decides
  each branch of Compare from what the second snapshot tells. The assumption is
  that an absent property is no state name.
* `EnsureIsHonest` and `NeverTwice` hold for any firewalls and any rules of others.
  `MssInv` carries the inventories a leg has looked at to the steps that use
  them; at most one rule is ours because nobody else writes one (an assumption,
  `MssConstants`) and the coordinate was seen free before the command.
* `UnsuitableIsDead` holds for any table, however deep its jumps go. It is about a
  recursive function, the reading of the table, so the argument is an
  induction; the library's induction theorems cannot be instantiated here, and
  `LeastElement` takes their place: if a packet got to the target, there would be a
  least number of jumps by which it gets there, and the last of them is an
  attachment that the analysis had excluded. The proviso is that these attachments
  name their interfaces: with a wildcard there the conclusion is false
  (`mss_wildcard`). Everywhere else wildcards are allowed, because a rule the
  analysis passes over only takes packets away. `MssConstants` says of the tables what
  netfilter guarantees (they are finite, no rule jumps to a built-in chain, the
  target is a user chain) and what the planner does (the desired rule names an output
  interface, and no wildcard: `ValidInterfaceName`). The invariant `TableInv` is that tables stay well formed under
  everybody's edits.
* `SourceIsGrounded` holds for any evidence, in any order of arrival: a composed
  source is the only verified prefix, and evidence only accumulates.

The specifications in these theorems (`FsSpec`, `JournalSpec`, `FileExecutorSpec`,
`AuthoritySpec`, `FileObsSpec`, `ServiceSpec`, `MssSpec`, `AwgSpec`, and `Spec` of
`Lock`, `Evidence` and `SSHMove`) are the single machines; the MC modules run them one
topic at a time. `StorageComposed`, `ExecutorsComposed` and `TrustComposed` prove that
every behaviour those runs explore is one of each single machine, so that the
theorems hold of what TLC runs. For `MCObservation` there is no such theorem: its
"tables" topic starts from tables of its own and edits them directly, to reach
more of them. `EvInv`, the largest of the invariants, was also checked with TLC on
the bounds of the `trust` run, without symmetry.

`NeverTorn`, `AckedVersionStays`, `UntouchedIsUntouched` and the types of lock, write
and journal are proved and not checked by a run of their own: the first two follow
from `ImplementsDurableFile`, the third is what `ClassifierSound` rests on.

Only model-checked:

* `EngineTerminates` and `LockIsReleased`: liveness under fairness and ENABLED are
  out of the prover's reach. `EngineIsBounded` and `RunIsBounded` are the part of
  them that is safety, and are proved.
* The five runs of section 3 that expect a violation.

## 6. Plan

1. *(done)* lock, durable writes, journal, engine with its abstract
   specification, lifecycle, recovery classifier.
2. *(done)* executors for files, SSH and services, MSS rule.
3. *(done)* the state file: SaveModel, evidence, reconstruction and RecoverEvidence.
4. *(done)* authority: approval artifacts, trust anchor, capabilities, ownership
   and admission.
5. *(done)* observation of files, services, firewall and containers.
6. *(done)* proofs of every safety and action property the passing runs check.
7. *(done)* the abstract specifications `AtomicTx`, `DurableFile` and `Ledger`,
   and the refinements to them; bounds on the engine and on a run.
8. Open: `Engine` and `Orchestrate` take a journal write as one step that keeps the
   promise of `DurableFile`; composing them with `FsAtomic` step by step would turn
   that use of the contract into a theorem too. Type theorems for `Authority` and
   `Evidence`.

Not modelled, and why: `discovery`, `pipeline`, `render`, `canonical`, `mihomoconf`,
the fingerprints and the command line are I/O, parsing, formatting or encoding.
`leak*`, `routelint`, `sysctl`, `netdiag`, `doctor`, `validate`, `firewallspec` and
`routespec` are stateless reports on one collected snapshot that nothing else
acts on: they have no order of events to get wrong, and their tables of cases are
within reach of unit tests. A panic of an executor is left out, since none is
known to panic. `tools/` are laboratory programs.
