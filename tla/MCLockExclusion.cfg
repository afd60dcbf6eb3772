\* three processes: a releaser, one that opened the old file, a newcomer
CONSTANTS
    Procs = {p1, p2, p3}
    Inodes = {i1, i2, i3, i4}
    NoInode = NoInode
    NoProc = NoProc
SPECIFICATION Spec
SYMMETRY Symmetry
INVARIANT MutualExclusion
