SPECIFICATION Spec
CONSTANTS
    e1 = e1
    e2 = e2
    e3 = e3
    Entries = {e1, e2, e3}
    Main = Main
    Cleaner = Cleaner
    Nobody = Nobody
    MemSize = 2
    FileEnabled = TRUE
    Ivls = {1}
    MaxTime = 1
    MaxClears = 1
    MaxSearches = 0
    MaxRestarts = 1
    MaxConfs = 1
SYMMETRY Symmetry
INVARIANTS
    TypeOK
    StoredInOrder
    ClearComplete
PROPERTIES
    RotationReplacesDue
