SPECIFICATION FairSpec
CONSTANTS
    Ids = {b1}
    Sessions = {o1, o2, o3}
    Requests = {q1, q2}
    Writers = {q1}
    NoSession = NoSession
    TTL = 2
    SweepEvery = 1
    MaxElapsed = 2
INVARIANTS
    TypeOK
    NoDirectoryLost
PROPERTIES
    SweepsOnlyExpired
    SessionsExpire
    DirectoriesGo
CHECK_DEADLOCK FALSE
