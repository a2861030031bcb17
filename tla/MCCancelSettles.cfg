SPECIFICATION Spec
CONSTANTS
    r = r
    c1 = c1
    c2 = c2
    None = None
    Msg <- Two
    Root = r
    MaxCancels = 1
    MaxCrashes = 0
    MaxFaults = 0
    Raises = FALSE
    Evicts = FALSE
CHECK_DEADLOCK FALSE
PROPERTIES SettledFirst
