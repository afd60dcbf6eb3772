\* one process, one run
CONSTANTS
    N = 2
    NoopRollback = {2}
    Procs = {p1}
    NoProc = NoProc
    Tx = {1}
    Kind <- MCKind
    LoadsState = FALSE
    Absent = Absent
    Corrupt = Corrupt
    BlankPlan = BlankPlan
    NoHash = NoHash
    BadHash = BadHash
SPECIFICATION Spec
INVARIANT VocabularyIsMirrored
