SPECIFICATION Spec
CONSTANTS
    r = r
    c1 = c1
    c2 = c2
    None = None
    Msg <- Three
    Root = r
    MaxCancels = 0
    MaxCrashes = 2
    MaxFaults = 1
    Raises = TRUE
    Evicts = TRUE
CHECK_DEADLOCK FALSE
SYMMETRY Descendants
INVARIANT LastMessage
PROPERTIES SettledFirst FailureWins
