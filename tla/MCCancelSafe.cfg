SPECIFICATION Spec
CONSTANTS
    r = r
    c1 = c1
    c2 = c2
    None = None
    Msg <- Two
    Root = r
    MaxCancels = 2
    MaxCrashes = 1
    MaxFaults = 1
    Raises = TRUE
    Evicts = FALSE
CHECK_DEADLOCK FALSE
INVARIANTS TypeOK
PROPERTIES TerminalIsFinal NoNewWork
