SPECIFICATION Spec
CONSTANTS
    Key = {k1, k2, k3}
    Server = {s1}
    None = None
    RotateAge = 1
    DeleteAge = 3
    Life = 1
    MaxTime = 5
SYMMETRY Symmetry
INVARIANTS AlwaysAKey KeyOutlivesToken KeyMapSettled
CHECK_DEADLOCK FALSE
