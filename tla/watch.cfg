SPECIFICATION FairSpec
CONSTANTS
    Rsc = {r1, r2}
    MaxVersion = 1
    SubCap = 2
    InboxCap = 1
    MaxFail = 1
    Attempts = 2
    MaxFaults = 2
INVARIANTS Converged
PROPERTIES NoRegression Settles
CHECK_DEADLOCK FALSE
