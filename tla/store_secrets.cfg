\* A Secret kind: no copy in Redis, and the row is read back after a write.
CONSTANTS
    Worker = {w1, w2}
    Name = {n}
    Uid = {u1, u2}
    Version = {v1, v2, v3}
    Nil = Nil
    IsSecret = TRUE
    MayFail = TRUE
SPECIFICATION Spec
SYMMETRY Symm
INVARIANTS DuplicateOnlyByRace DeleteEventIsFinal
PROPERTY Lifecycle
