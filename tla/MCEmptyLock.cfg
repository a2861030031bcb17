CONSTANTS
    Owner = {o1, o2}
    Path <- MCPath
    Files <- MCPath
    Batches <- MCBatches
    Rank <- MCRank
    Expire = 1
    MaxTime = 3
    MaxCrashes = 1
    Timely = TRUE
    AtomicWrites = FALSE
    None = None
SPECIFICATION FairSpec
PROPERTY OrphansAreCleared
