\* two processes that want the lock, one mutating run
CONSTANTS
    N = 2
    NoopRollback = {2}
    Procs = {p1, p2}
    NoProc = NoProc
    Tx = {1}
    Kind <- MCKind
    LoadsState = FALSE
    Absent = Absent
    Corrupt = Corrupt
    BlankPlan = BlankPlan
    NoHash = NoHash
    BadHash = BadHash
SPECIFICATION Spec
PROPERTY LockIsReleased
