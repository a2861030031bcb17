CONSTANTS
    Owner = {"o1", "o2"}
    Path <- MCPath
    Files <- MCFiles
    Batches <- MCBatches
    Rank <- MCRank
    Expire = 1
    MaxTime = 3
    MaxCrashes = 1
    Timely = TRUE
    AtomicWrites = TRUE
    None = None
SPECIFICATION Spec
INVARIANTS TypeOK Exclusion NoLeftovers HeldTokens
