\* Two logins at a time, with a Credential for one use, as an OAuth2 client and
\* in other ways.
SPECIFICATION Spec
CONSTANTS
    Call = {c1, c2}
    Sess = {s1, s2, s3}
    Cred = {k}
    None = None
    MaxUses <- OneUse
    MaxPerUser = 2
    PerHour = 1
    HistCap = 2
    MaxToken = 1
    MaxVersion = 3
    MaxEvents = 1
SYMMETRY Symmetry
INVARIANTS AutoDeleteLimits LimitUnlessCrowded OneSessionPerClient
CHECK_DEADLOCK FALSE
