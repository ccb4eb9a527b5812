SPECIFICATION Spec
CONSTANTS
    m1 = m1
    m2 = m2
    h1 = h1
    Macs = {m1, m2}
    ZeroMac = ZeroMac
    Hosts = {h1}
    NoHost = NoHost
    AdminHosts <- AnyHost
    None = None
    PoolSize = 2
    LeaseTime = 1
    BusySets <- FirstMayAnswer
    MaxTime = 3
    MaxAdmin = 0
    MaxDeclines = 0
    MaxRestarts = 1
    Tolerated = {"blank"}
SYMMETRY Symmetry
CHECK_DEADLOCK FALSE
INVARIANTS
    UniqueLeases
    NoSharedAddress

    
