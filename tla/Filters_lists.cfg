CONSTANTS
    Handlers = {h1}
    Urls = {"u1", "u2", "u3"}
    Documents <- MCDocuments
    FirstLists <- MCFirstLists
    FirstRemote <- MCFirstRemote
    Outages <- MCOutages
    NewUrl <- MCNewUrl
    FirstID = 2
    Down = Down
    MaxRequests = 2
    MaxRemote = 2
SPECIFICATION Spec
CHECK_DEADLOCK FALSE
INVARIANTS
    
    
    EngineCurrent
    DisabledNotApplied
PROPERTIES
    RemovedStaysRemoved
    WorkDrains
