SPECIFICATION Spec
CONSTANTS
    Client = {c1}
    t1 = t1
    t2 = t2
    Task = {t1, t2}
    Uri <- MCUri
    Resources <- MCResources
    Found <- MCFound
    Watched <- MCWatched
    Boot = Boot
    None = None
    Torn = Torn
    MaxConcurrency = 2
    MaxCalls = 1
    MaxFaults = 2
PROPERTY RestartKeepsSaved
CHECK_DEADLOCK FALSE
