\* lock: three processes (a releaser, one that opened the old file, a newcomer);
\* write: /etc/vps-gateway and /etc/vps-gateway/journal below /etc, three writes
CONSTANTS
    Procs = {p1, p2, p3}
    Inodes = {i1, i2, i3, i4}
    NoInode = NoInode
    NoProc = NoProc
    Depth = 2
    MaxVer = 3
    Absent = Absent
    Corrupt = Corrupt
    BlankPlan = BlankPlan
    NoHash = NoHash
    BadHash = BadHash
    a = a
    b = b
    x = x
    y = y
    h1 = h1
    h2 = h2
    v1 = v1
    v2 = v2
    t1 = t1
    t2 = t2
    Tx = {t1, t2}
    Ids = {a, b}
    Idents = {x, y}
    Hashes = {h1, h2}
    Provs = {v1, v2, BlankPlan}
    Submitted <- MCSubmitted
    Foreign <- MCForeign
SPECIFICATION MCSpec
SYMMETRY Symmetry
INVARIANT FlockIsExact
PROPERTIES ProvenanceImmutable NoObservationAfterTheFact CorruptNeverLaundered ImplementsDurableFile
