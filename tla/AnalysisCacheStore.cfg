SPECIFICATION HSpec
CONSTANTS
    Shas = {s1, s2}
    Workers = {w1, w2}
    Refs = {r1, r2, r3}
    NoRef = NoRef
    NoResult = NoResult
    LastPhase = 2
    TTL = 0
    Started = {"sse"}
SYMMETRY Symmetry
INVARIANTS
    TypeOK
    ObjectsUnshared
    ServesOwnBundle
PROPERTIES
    ImplementsStore
CHECK_DEADLOCK FALSE
