SPECIFICATION Spec
CONSTANTS
    e1 = e1
    r1 = r1
    Flusher = Flusher
    Main = Main
    Admin = Admin
    None = None
    Entries = {e1}
    Readers = {r1}
    Limits = {1, 2}
    MaxHour = 2
    MaxClears = 1
    MaxReads = 1
    MaxConfs = 1
    MaxFails = 1
    MaxRestarts = 1
CHECK_DEADLOCK FALSE
INVARIANTS
    NothingLost
    CountedOnce
    ReadSeesAll
    ResetComplete
PROPERTIES
    RestartResumes
