SPECIFICATION CacheSpec
CONSTANTS
    x1 = x1
    x2 = x2
    n = n
    None = None
    Rsc = {x1, x2}
    World <- MCWorld
    Addr = {a1}
    MaxVersion = 3
    MaxFills = 1
    MaxJobs = 2
    MaxLost = 1
INVARIANTS HolderIsFound ForgottenWhenDeleted
CHECK_DEADLOCK FALSE
