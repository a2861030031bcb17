SPECIFICATION Spec
CONSTANTS
    Client = {c1, c2, c3}
    Account = {acc}
    Scope <- MCScope
    MaxNest = 2
    MaxRequests = 2
    None = None
INVARIANTS TypeOK MutationIsExclusive NoLostWakeup
PROPERTY WaitersLeave
CHECK_DEADLOCK FALSE
