SPECIFICATION Spec
CONSTANTS
    None = None
    Policies = {{"summary", "longTerm"}, {}}
    Worker = {w1, w2}
    MaxMsgs = 2
    MaxArchives = 2
    MaxCrashes = 1
    MaxFaults = 1
    MaxCancels = 0
SYMMETRY Workers
INVARIANTS TypeOK NothingLost DoneIsWhole NotStoredTwice PendingHasWork TaskTellsTruth
CHECK_DEADLOCK FALSE
