SPECIFICATION RawSpec
CONSTANTS
    Path <- MCPath
    Data = {v1, v2}
    Client = {c1, c2}
    Absent = Absent
    Dir = Dir
    Error = Error
    None = None
    Mounted <- MCMounted
    Asked <- MCAsked
    Uncached <- MCUncached
    CleanRestarts = TRUE
    MaxCalls = 3
    MaxMishaps = 0
SYMMETRY Symmetry
INVARIANT QuiescentIsCurrent
CHECK_DEADLOCK FALSE
