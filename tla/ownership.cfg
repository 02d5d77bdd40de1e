\* Two of: two Sessions and a Device.
SPECIFICATION Spec
CONSTANTS
    Sess = {s1, s2}
    Dev = {d1}
    None = None
    MaxItems = 2
    MaxExt = 1
    MaxFaults = 1
INVARIANTS OrphansOnlyByRace
PROPERTIES KeepsTheValid EndsInTime
CHECK_DEADLOCK FALSE
