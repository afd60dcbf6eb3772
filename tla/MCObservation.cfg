CONSTANTS
    Target = "vpsgw"
    Tag = "muvg"
    SpecSrc = {1, 2}
    SpecOut = "tun"
    Addresses = {1, 2, 3}
    Outs = {"tun", "eth"}
    Protos = {"tcp", "udp"}
    Ports = {80, 443}
    Wildcards <- MCWildcards
    Free = Free
    Odd = Odd
    Firewalls <- MCFirewalls
    OtherRules <- MCOtherRules
    MaxRules = 2
    MssTx = {1, 2}
    MssHosts = {h1, h2}
    MssHere = h1
    Unread = Unread
    NoSpec = NoSpec
    Inventories <- MCInventories
    Intents <- MCIntents
    Attachings <- MCAttachings
    Addressings <- MCAddressings
    Sightings <- MCSightings
    MaxEvidence = 4
    Malformed = Malformed
    Nothing = Nothing
    Inodes = {i1, i2}
    Specs <- MCSpecs
    Requests <- MCRequests
    NoInode = NoInode
    NoFact = NoFact
    MaxStarts = 2
    Pids = {0, 1, 2}
    MaxClock = 1
    ServicePlans <- MCPlans
    TxStatuses = {"APPLIED", "ROLLED_BACK"}
    NoSnap = NoSnap
    Missing = Missing
    Garbled = Garbled
    Topics = {"file", "service", "insert", "tables", "source"}
SYMMETRY InodeSymmetry
SPECIFICATION MCSpec
INVARIANTS ObservationIsInstant VerdictIsTrue UnsuitableIsDead EnsureIsHonest NeverTwice
PROPERTY SourceIsGrounded
CHECK_DEADLOCK FALSE
