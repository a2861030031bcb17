SPECIFICATION Spec
CONSTANTS
    None = None
    Policies = {{"summary", "longTerm"}, {}}
    Worker = {w1}
    MaxMsgs = 1
    MaxArchives = 1
    MaxCrashes = 0
    MaxFaults = 1
    MaxCancels = 0
SYMMETRY Workers
INVARIANT StoredOnceWithoutCrash
CHECK_DEADLOCK FALSE
