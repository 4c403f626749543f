SPECIFICATION Spec
CONSTANTS
    Messages = {m1, m2}
    Requests = {q1, q2}
    Kinds = {"chat", "stream", "report", "upload"}
    Objects = {o1, o2, o3}
    NoSession = NoSession
    NoMessage = NoMessage
SYMMETRY Symmetry
INVARIANTS
    TypeOK
    AnswersFollowQuestions
    HistoryAgreesWithRows
    NoTurnTwice
PROPERTIES
    HistoriesGrow
