SPECIFICATION Spec
CONSTANTS
    Ids = {b1}
    Requests = {q1, q2}
    LastPhase = 2
    Refs = {r1, r2}
    NoId = NoId
    NoRef = NoRef
    Cut = "whole"
    Cancels = TRUE
    Faults = TRUE
    Expiry = TRUE
SYMMETRY Symmetry
INVARIANTS
    TypeOK
PROPERTIES
    LoadedSessionsRerunNothing
