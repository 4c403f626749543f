SPECIFICATION Spec
CONSTANTS
    Ids = {b1, b2}
    Requests = {q1}
    LastPhase = 2
    Refs = {r1, r2}
    NoId = NoId
    NoRef = NoRef
    Cut = "cut"
    Cancels = TRUE
    Faults = FALSE
    Expiry = FALSE
SYMMETRY Symmetry
INVARIANTS
    WholeSessionsSeeWholeResults
