SPECIFICATION FairSpec
CONSTANTS
    None = None
    V4 <- MCV4
    V6 <- MCV6
    LowerCase <- MCLower
    PublicSuffixes <- MCSuffixes
    Prefix <- MCPrefix
    SubDomainNum = 3
    Zero4 <- MCZero4
    Zero6 <- MCZero6
    Map64 <- MCMap64
    Line <- MCLine
    Files <- MCFiles
    Rulesets <- MCRulesets
    SysResolvers <- MCSys
    IfaceAddrs <- MCIfaces
    Client <- MCClient
    MaxParallelUpstreams = 2
    MaxUpstreams = 2
    MaxDomains = 2
    Workers = {w1}
    Queries <- MCFreezeQueries
    Scripts <- MCFreezeScripts
    InitConf <- MCConf
    InitFilter <- MCFilter
    Defaults <- MCDefaults
    Engines <- MCEngines
    EtcHosts <- MCEtcHosts
    BlockedNames = {}
    Bad <- MCBad
    SafeServices <- MCSafe
    Zone <- MCZone
    Leases <- MCLeases
    Hosts <- MCLeaseHosts
    LocalDomain <- MCLocal
    Page <- MCPage
    TLS <- MCTLS
    Ignored <- MCIgnored
    MaxRequests = 1
    MaxTime = 0
    CacheTime = 1
PROPERTIES
    RequestsFinish
CHECK_DEADLOCK FALSE
