\* Two calls on two Sessions that compete for one index.
CONSTANTS
    Call = {c1, c2}
    Session = {s1, s2}
    Index = {i1}
    None = None
SPECIFICATION Spec
INVARIANTS TypeOK UniqueLease LeakOnlyByFailure ConnectedIsServed NoDanglingStream
PROPERTIES StreamsEnd
