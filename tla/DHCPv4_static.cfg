SPECIFICATION Spec
CONSTANTS
    m1 = m1
    m2 = m2
    h1 = h1
    Macs = {m1, m2}
    ZeroMac = ZeroMac
    Hosts = {h1}
    NoHost = NoHost
    AdminHosts <- AnyHost
    None = None
    PoolSize = 2
    LeaseTime = 1
    BusySets <- NothingAnswers
    MaxTime = 1
    MaxAdmin = 1
    MaxDeclines = 1
    MaxRestarts = 0
    Tolerated = {"evict", "unstored", "decline"}
SYMMETRY Symmetry
CHECK_DEADLOCK FALSE
INVARIANTS
    OffsetsCover
    IndexesAgree
