\* Two requests at a time on one resource that is created and updated twice:
\* every overlap of reads, updates and deletes under failures.
CONSTANTS
    Worker = {w1, w2}
    Name = {n}
    Uid = {u1}
    Version = {v1, v2, v3}
    Nil = Nil
    IsSecret = FALSE
    MayFail = TRUE
SPECIFICATION Spec
SYMMETRY Symm
INVARIANTS TypeOK CacheCoherent LostUpdateOnlyByRace
