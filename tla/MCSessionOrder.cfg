SPECIFICATION Spec
CONSTANTS
    None = None
    Policies = {{"summary", "longTerm"}}
    Worker = {w1, w2}
    MaxMsgs = 3
    MaxArchives = 3
    MaxCrashes = 0
    MaxFaults = 0
    MaxCancels = 1
SYMMETRY Workers
INVARIANT SerializedByArchive
CHECK_DEADLOCK FALSE
