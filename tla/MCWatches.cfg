SPECIFICATION Spec
CONSTANTS
    Client = {c1, c2}
    t1 = t1
    t2 = t2
    Task = {t1, t2}
    Uri <- MCUri
    Resources <- MCResources
    Found <- MCFound
    Watched <- MCWatched
    Boot = Boot
    None = None
    Torn = Torn
    MaxConcurrency = 2
    MaxCalls = 2
    MaxFaults = 1
SYMMETRY Symmetry
INVARIANTS TypeOK IndexMatches
PROPERTIES RestartKeepsSaved MoveIsAtomic NotMovedUnderRefresh
CHECK_DEADLOCK FALSE
