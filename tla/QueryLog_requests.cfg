SPECIFICATION FairSpec
CONSTANTS
    e1 = e1
    e2 = e2
    Entries = {e1, e2}
    Main = Main
    Cleaner = Cleaner
    Nobody = Nobody
    MemSize = 1
    FileEnabled = TRUE
    Ivls = {1}
    MaxTime = 0
    MaxClears = 1
    MaxSearches = 1
    MaxRestarts = 0
    MaxConfs = 0
INVARIANTS
    FullBufferHasFlusher
    SearchMissesNothing

    
