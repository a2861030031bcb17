CONSTANTS
    Owner = {o1, o2, o3}
    Path <- MCPath
    Files <- MCPath
    Batches <- MCBatches
    Rank <- MCRank
    Expire = 1
    MaxTime = 3
    MaxCrashes = 1
    Timely = TRUE
    AtomicWrites = TRUE
    None = None
SYMMETRY Symmetry
SPECIFICATION Spec
INVARIANT Exclusion
