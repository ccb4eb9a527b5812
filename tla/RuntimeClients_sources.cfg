SPECIFICATION FairSpec
CONSTANTS
    IPs = {"pub"}
    Loopback = {}
    Private = {}
    Special = {}
    UsePrivateRDNS = FALSE
    RuntimeSourceDHCP = TRUE
    Names = {"h1", "h2"}
    Chains <- MCChains
    Tables <- MCTables
    Contents <- MCContents
    NDBs = 2
    MaxRedirects = 2
    QueueSize = 1
    Procs <- MCProcs
    MaxRequests = 2
    MaxWrites = 2
    MaxEvents = 1
    Nil = Nil
INVARIANTS
    CachedIsShown
    NamesFollowPriority
PROPERTIES
    QueuesDrain
    HostsConverge
CHECK_DEADLOCK FALSE
