SPECIFICATION Spec
CONSTANTS
    None = None
    V4 <- MCV4
    V6 <- MCV6
    LowerCase <- MCLower
    PublicSuffixes <- MCSuffixes
    Prefix <- MCPrefix
    SubDomainNum = 3
    Zero4 <- MCZero4
    Zero6 <- MCZero6
    Map64 <- MCMap64
    Line <- MCLine
    Files <- MCFiles
    Rulesets <- MCRulesets
    SysResolvers <- MCSys
    IfaceAddrs <- MCIfaces
    Client <- MCClient
    MaxParallelUpstreams = 2
    MaxUpstreams = 2
    MaxDomains = 2
    Workers = {w1}
    Queries <- MCQueries
    Scripts <- MCScripts
    InitConf <- MCConf
    InitFilter <- MCFilter
    Defaults <- MCDefaults
    Engines <- MCEngines
    EtcHosts <- MCEtcHosts
    BlockedNames = {}
    Bad <- MCBad
    SafeServices <- MCSafe
    Zone <- MCZone
    Leases <- MCLeases
    Hosts <- MCLeaseHosts
    LocalDomain <- MCLocal
    Page <- MCPage
    TLS <- MCTLS
    Ignored <- MCIgnored
    MaxRequests = 2
    MaxTime = 2
    CacheTime = 1
INVARIANTS
    AnswersTheQuestion
    VerdictsAgree
    SafeSearchCurrent
    
PROPERTIES
    ProtectionAsAsked
CHECK_DEADLOCK FALSE
