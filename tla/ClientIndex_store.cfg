SPECIFICATION Spec
CONSTANTS
    UIDs = {u1, u2}
    Names = {"n1", "n2"}
    Strings <- MCStrings
    IPs <- MCIPs
    MACs <- MCMACs
    ClientIDs <- MCClientIDs
    Subnets <- MCSubnets
    Contains <- MCContains
    Lower <- MCLower
    Requests <- MCRequests
    Leases <- MCLeases
    Templates <- MCTemplates
    InitialFiles <- MCInitialFiles
    NoClient = NoClient
    NoUID = NoUID
    NoAddr = NoAddr
    MaxChanges = 2
    MaxCommon = 2
    MaxBuilds = 2
    MaxApplies = 1
    MaxLeases = 1
INVARIANTS
    IndexesAgree
    FindsOwner
    ServesCurrent

    
SYMMETRY Symmetric
CHECK_DEADLOCK FALSE
