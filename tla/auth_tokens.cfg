SPECIFICATION Spec
CONSTANTS
    Call = {c1, c2}
    Sess = {s1}
    Cred = {k}
    None = None
    MaxUses <- OneUse
    MaxPerUser = 2
    PerHour = 1
    HistCap = 2
    MaxToken = 4
    MaxVersion = 4
    MaxEvents = 2
SYMMETRY Symmetry
INVARIANTS TypeOK SingleExchange HolderHasToken
PROPERTIES TokenChainSpec
CHECK_DEADLOCK FALSE
