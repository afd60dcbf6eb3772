\* authority: two keys, two machines, an artifact of seven kinds, one clock tick;
\* evidence: two local transactions, one copied record, one managed file
CONSTANTS
    SysctlKeys = {1, 2}
    Chains = {1, 2}
    ProjectChains = {1}
    Ifaces = {1}
    Tags = {"muvg", "other"}
    ProjectTags = {"muvg"}
    Units = {"fail2ban", "ssh"}
    Policy <- MCPolicy
    MaxTable = 300
    Refused = Refused
    Machines = {"good", "failed", "odd"}
    ActsOf <- MCActsOf
    Edits <- MCEdits
    h1 = h1
    h2 = h2
    HostIds = {h1, h2}
    NoHost = NoHost
    Keys = {k1, k2}
    Garbage = Garbage
    Offers <- MCOffers
    Rank <- MCRank
    MaxTime = 1
    MaxArtifacts = 1
    None = None
    Files = {"managed"}
    Identity <- MCIdentity
    Specs = {s1, s2}
    Foreign = Foreign
    Tx = {1, 2}
    Copied = {7}
    Here = here
    There = there
    Hosts = {here, there}
    Nil = Nil
    MaxClock = 2
    Absent = Absent
    Corrupt = Corrupt
    BlankPlan = BlankPlan
    NoHash = NoHash
    BadHash = BadHash
SPECIFICATION MCSpec
SYMMETRY Symmetry
INVARIANTS MutationIsAuthorised CommandsAreCovered OneAuthorityPerArtifact AdmissionIsGrounded RecoveryIsExact
PROPERTY StateFileIsKept
CHECK_DEADLOCK FALSE
