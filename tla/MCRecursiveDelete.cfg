CONSTANTS
    Owner = {"o1", "o2"}
    Path <- MCPath
    Files <- MCFiles
    Batches <- TreeAndFile
    Rank <- MCRank
    Expire = 1
    MaxTime = 3
    MaxCrashes = 0
    Timely = TRUE
    AtomicWrites = TRUE
    None = None
SPECIFICATION Spec
INVARIANT ExclusionThroughDeletes
