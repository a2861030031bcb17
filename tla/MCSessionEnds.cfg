SPECIFICATION FairSpec
CONSTANTS
    None = None
    Policies = {{"summary", "longTerm"}}
    Worker = {w1, w2}
    MaxMsgs = 3
    MaxArchives = 2
    MaxCrashes = 0
    MaxFaults = 0
    MaxCancels = 1
PROPERTY CommitsEnd
CHECK_DEADLOCK FALSE
