SPECIFICATION CacheSpec
CONSTANTS
    x1 = x1
    x2 = x2
    n = n
    None = None
    Rsc = {x1, x2}
    World <- PolicyWorld
    Addr = {a1}
    MaxVersion = 2
    MaxFills = 1
    MaxJobs = 2
    MaxLost = 0
INVARIANTS DeletedPolicyIsSilent
CHECK_DEADLOCK FALSE
