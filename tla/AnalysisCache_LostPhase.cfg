SPECIFICATION Spec
CONSTANTS
    Shas = {s1}
    Workers = {w1, w2}
    Refs = {r1, r2, r3}
    NoRef = NoRef
    NoResult = NoResult
    LastPhase = 3
    TTL = 1
    Started = {"sse"}
PROPERTIES
    InstallKeepsPhases
CHECK_DEADLOCK FALSE
