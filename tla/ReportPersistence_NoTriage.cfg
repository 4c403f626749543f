SPECIFICATION Spec
CONSTANTS
    Ids = {b1}
    Requests = {q1}
    LastPhase = 2
    Refs = {r1, r2}
    NoId = NoId
    NoRef = NoRef
    Cut = "whole"
    Cancels = FALSE
    Faults = FALSE
    Expiry = FALSE
SYMMETRY Symmetry
PROPERTIES
    SavedIsRestored
