\* Two calls, two Sessions, an authenticator and two Devices of one machine each.
SPECIFICATION Spec
CONSTANTS
    Call = {c1, c2}
    Sess = {s1, s2}
    Authn = {a1}
    Dev = {d1, d2}
    None = None
    Sticky = {a1}
    Machine <- OwnMachines
    MaxAuthn = 1
    MaxDev = 2
    MaxChallenge = 2
    MaxVersion = 6
SYMMETRY Symmetry
INVARIANTS ChallengeOnce LetInByRegistration SameDevice OneDevicePerMachine
CHECK_DEADLOCK FALSE
