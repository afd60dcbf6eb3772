\* two processes, two mutating runs: a file and a service action without rollback, then a file and a firewall action
CONSTANTS
    N = 2
    NoopRollback = {2}
    Procs = {p1, p2}
    NoProc = NoProc
    Tx = {1, 2}
    Kind <- MCKind
    LoadsState = TRUE
    Absent = Absent
    Corrupt = Corrupt
    BlankPlan = BlankPlan
    NoHash = NoHash
    BadHash = BadHash
SPECIFICATION Spec
SYMMETRY Symmetry
INVARIANTS TypeOK JournaledBeforeMutation CrashedBlocksOthers FailureLatches CompletedIsProof EvidenceHasProof ClassifierSound
PROPERTIES TerminalIsFinal NoLaundering RunIsBounded ImplementsLedger
