SPECIFICATION FairSpec
CONSTANTS
    r = r
    c1 = c1
    c2 = c2
    None = None
    Msg <- Three
    Root = r
    MaxCancels = 0
    MaxCrashes = 1
    MaxFaults = 0
    Raises = FALSE
    Evicts = FALSE
CHECK_DEADLOCK FALSE
PROPERTIES TaskEnds
