SPECIFICATION FairSpec
CONSTANTS
    Streams = {s1, s2}
    Chunks = 2
INVARIANTS
    TypeOK
    OnlyWholeTextsCached
PROPERTIES
    CloseComesLast
    WorkersExit
    PagesSettle
CHECK_DEADLOCK FALSE
