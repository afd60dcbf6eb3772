\* file: a first transaction that writes, a second that deletes; 384 is 0600;
\* ssh: three ports, so that a second move can begin before the first is finalised
CONSTANTS
    t1 = t1
    t2 = t2
    Tx = {t1, t2}
    NoTx = NoTx
    Data = {"a", "b"}
    Modes = {0, 384}
    LinksTo <- MCLinksTo
    Desired <- MCDesired
    MaxOutside = 2
    Ports = {22, 2200, 2222}
    DefaultPort = 22
    NoPort = 0
SPECIFICATION MCSpec
INVARIANTS ManifestIsCommitMarker MutationIsBackedUp NeverStranded
PROPERTIES NilRollbackIsProof ForeignBackupRefused
