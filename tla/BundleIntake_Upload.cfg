SPECIFICATION Spec
CONSTANTS
    d = d
    f = f
    g = g
    Paths = {d, f, g}
    Parent <- MCParent
    Top = Top
    NoFile = NoFile
    Dir = Dir
    FileSizes = {1, 2, 4}
    MaxFileSize = 2
    MaxTotal = 2
    MaxEntries = 4
    DirNames = {0, 1, 2}
    MacOS = 0
    RootDepth = 3
    MaxMarked = 2
    Directories = 2
    MaxPods = 1
    MaxFiles = 2
    MaxContainers = 2
    Keys = {k1, k2}
    Times = {0, 1}
    Counts = {1, 11}
    MinCount = 10
    MaxEvents = 3
    ErrorLines = {e1, e2}
    PlainLines = {p1, p2}
    MaxErrors = 1
    MaxTail = 2
    MaxLines = 3
    LongestLog = 5
    MaxStatuses = 2
    LineCap = 1
    MessageCap = 1
    Largest = 2
    MaxExcerpts = 2
    MaxMessages = 1
    MaxLimit = 14
    MaxMatches = 2
    MaxFallback = 2
    MaxIssues = 1
    MaxWarnings = 1
    LongestList = 2
SYMMETRY Symmetry
INVARIANTS
    TypeOK
    DiskIsBounded
    AllOrNothing
    IncompleteIsNoted
    MatchesReference
    LogsUpToLimit
    ExcerptsKeepWhatMatters
    PodsTellTheirTrouble
    RootsAreFound
    BudgetIsKept
    ChatIsGrounded
CHECK_DEADLOCK FALSE
