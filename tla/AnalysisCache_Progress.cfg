SPECIFICATION FairSpec
CONSTANTS
    Shas = {s1}
    Workers = {w1, w2}
    Refs = {r1, r2, r3}
    NoRef = NoRef
    NoResult = NoResult
    LastPhase = 2
    TTL = 0
    Started = {"prewarm", "restore"}
PROPERTIES
    WorkersReturn
    ExpiredEntriesGo
CHECK_DEADLOCK FALSE
