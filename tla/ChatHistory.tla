----------------------------- MODULE ChatHistory -----------------------------
(***************************************************************************)
(* The chat history of one bundle: ChatHistory of its session object, and  *)
(* its rows of table chat_messages.  HandleChat, HandleChatSSE and         *)
(* HandleReport (internal/server/handlers.go) share the session object     *)
(* without a lock, so each reads the slice in one step and stores a slice  *)
(* built from what it read in another.                                     *)
(***************************************************************************)
EXTENDS Naturals, Sequences, SequencesExt, Filtering

CONSTANTS Messages,    \* user messages, each sent once
          Requests,    \* goroutines that serve requests
          Kinds,       \* requests of the instance: "chat", "stream", "report", "upload"
          Objects,     \* Session objects
          NoSession, NoMessage

ASSUME ChatAssumption == /\ NoSession \notin Objects
                         /\ NoMessage \notin Messages
                         /\ Kinds \subseteq {"chat", "stream", "report", "upload"}

VARIABLES
    session,  \* the session of the bundle in the store, or NoSession
    history,  \* history[o]: ChatHistory of object o
    rows,     \* rows of chat_messages, oldest first
    sent,     \* messages sent so far
    pc, held, \* per request: position, and session object it got from the store
    seen,     \* seen[q]: the history, or the rows, q read last
    message,  \* message[q]: the message of a chat
    live,     \* live[q]: the request's context is not cancelled
    refused,  \* messages whose question met a database error, not a client
              \* that left, when it was inserted (history)
    overlaps  \* what has overlapped so far (history): "requests" when any two have,
              \* "load" when a report loading stored turns has with another request

requestVars == <<pc, held, seen, message, live>>
vars == <<session, history, rows, sent, requestVars, refused, overlaps>>

Question(m) == [message |-> m, role |-> "user"]
Answer(m) == [message |-> m, role |-> "assistant"]
Turns == {Question(m) : m \in Messages} \cup {Answer(m) : m \in Messages}

Positions == {"idle", "restoring", "report", "loading", "loaded",
              "chat", "question", "stream", "stream question", "streaming",
              "stream answer", "answer"}

Unreferenced(o) == session # o /\ \A q \in Requests : held[q] # o

\* The history slice of an object is replaced, or kept; that of an object nothing
\* refers to any more is dropped with it.
StoreHistory(o, h) ==
    history' = [p \in Objects |-> IF Unreferenced(p)' THEN <<>>
                                  ELSE IF p = o THEN h ELSE history[p]]
KeepHistory == history' = [p \in Objects |-> IF Unreferenced(p)' THEN <<>> ELSE history[p]]

Init == /\ session \in Objects
        /\ history = [o \in Objects |-> <<>>]
        /\ rows = <<>>
        /\ sent = {}
        /\ pc = [q \in Requests |-> "idle"]
        /\ held = [q \in Requests |-> NoSession]
        /\ seen = [q \in Requests |-> <<>>]
        /\ message = [q \in Requests |-> NoMessage]
        /\ live = [q \in Requests |-> TRUE]
        /\ refused = {}
        /\ overlaps = {}

Goto(q, position) == pc' = [pc EXCEPT ![q] = position]

\* The handler returns.
Finish(q) == /\ Goto(q, "idle")
             /\ held' = [held EXCEPT ![q] = NoSession]
             /\ seen' = [seen EXCEPT ![q] = <<>>]
             /\ message' = [message EXCEPT ![q] = NoMessage]
             /\ live' = [live EXCEPT ![q] = TRUE]

\* store.Get, and a read of the history of what it returns.
Open(q, o) == /\ held' = [held EXCEPT ![q] = o]
              /\ seen' = [seen EXCEPT ![q] = history[o]]

-----------------------------------------------------------------------------
(* Chats. *)

\* HandleChat or HandleChatSSE finds the session and takes its snapshot.
Ask(q, m, kind) ==
    /\ pc[q] = "idle" /\ kind \in Kinds
    /\ session # NoSession
    /\ m \notin sent
    /\ sent' = sent \cup {m}
    /\ message' = [message EXCEPT ![q] = m]
    /\ Open(q, session)
    /\ Goto(q, kind)
    /\ UNCHANGED <<session, history, rows, live, refused>>

\* Mutant: HandleChat stores its two turns without the snapshot.
ChatReply_NoSnapshot(q) ==
    /\ pc[q] = "chat"
    /\ session' = held[q]
    /\ Goto(q, "question")
    /\ UNCHANGED <<rows, sent, held, seen, message, live, refused>>
    /\ StoreHistory(held[q], <<Question(message[q]), Answer(message[q])>>)

\* HandleChat has its answer, which may be an apology, and stores the snapshot
\* with both turns, whatever the history is by now.
ChatReply(q) ==
    /\ pc[q] = "chat"
    /\ session' = held[q]
    /\ Goto(q, "question")
    /\ UNCHANGED <<rows, sent, held, seen, message, live, refused>>
    /\ StoreHistory(held[q], seen[q] \o <<Question(message[q]), Answer(message[q])>>)

\* Mutant: the question has a role of another vocabulary.
StreamQuestion_Role(q) ==
    /\ pc[q] = "stream"
    /\ session' = held[q]
    /\ Goto(q, "stream question")
    /\ UNCHANGED <<rows, sent, held, seen, message, live, refused>>
    /\ StoreHistory(held[q], Append(seen[q], [message |-> message[q], role |-> "human"]))

\* HandleChatSSE stores the question before it streams.
StreamQuestion(q) ==
    /\ pc[q] = "stream"
    /\ session' = held[q]
    /\ Goto(q, "stream question")
    /\ UNCHANGED <<rows, sent, held, seen, message, live, refused>>
    /\ StoreHistory(held[q], Append(seen[q], Question(message[q])))

\* InsertChatMessage of the question, whose error is ignored.
AfterQuestion(q) == IF pc[q] = "question" THEN "answer" ELSE "streaming"

InsertQuestion(q) ==
    /\ pc[q] \in {"question", "stream question"} /\ live[q]
    /\ rows' = Append(rows, Question(message[q]))
    /\ Goto(q, AfterQuestion(q))
    /\ UNCHANGED <<session, history, sent, held, seen, message, live, refused>>

\* It fails for a client that has left, and may fail for any other.
InsertQuestionFails(q) ==
    /\ pc[q] \in {"question", "stream question"}
    /\ Goto(q, AfterQuestion(q))
    /\ refused' = IF live[q] THEN refused \cup {message[q]} ELSE refused
    /\ UNCHANGED <<session, history, rows, sent, held, seen, message, live>>

\* The stream is complete: HandleChatSSE looks the session up again.
StreamCompletes(q) ==
    /\ pc[q] = "streaming" /\ session # NoSession
    /\ Open(q, session)
    /\ Goto(q, "stream answer")
    /\ UNCHANGED <<session, rows, sent, message, live, refused>>
    /\ KeepHistory

\* ... and keeps the answer out of the store when it is gone.
StreamCompletesUnstored(q) ==
    /\ pc[q] = "streaming" /\ session = NoSession
    /\ Goto(q, "answer")
    /\ UNCHANGED <<session, history, rows, sent, held, seen, message, live, refused>>

\* The stream fails, or select prefers the cancelled context.
StreamFails(q) ==
    /\ pc[q] = "streaming"
    /\ Finish(q)
    /\ UNCHANGED <<session, rows, sent, refused>>
    /\ KeepHistory

\* Mutant: the end of the stream stores both turns, as HandleChat does.
StreamAnswer_BothTurns(q) ==
    /\ pc[q] = "stream answer"
    /\ session' = held[q]
    /\ Goto(q, "answer")
    /\ UNCHANGED <<rows, sent, held, seen, message, live, refused>>
    /\ StoreHistory(held[q], seen[q] \o <<Question(message[q]), Answer(message[q])>>)

\* HandleChatSSE stores the answer.
StreamAnswer(q) ==
    /\ pc[q] = "stream answer"
    /\ session' = held[q]
    /\ Goto(q, "answer")
    /\ UNCHANGED <<rows, sent, held, seen, message, live, refused>>
    /\ StoreHistory(held[q], Append(seen[q], Answer(message[q])))

\* Mutant: the answer is inserted under a context of its own.
InsertAnswer_Detached(q) ==
    /\ pc[q] = "answer"
    /\ rows' = Append(rows, Answer(message[q]))
    /\ Finish(q)
    /\ UNCHANGED <<session, sent, refused>>
    /\ KeepHistory

\* InsertChatMessage of the answer, whatever became of the question, and the end of
\* either handler.  Its error is ignored as well.
InsertAnswer(q) ==
    /\ pc[q] = "answer"
    /\ \/ live[q] /\ rows' = Append(rows, Answer(message[q]))
       \/ rows' = rows
    /\ Finish(q)
    /\ UNCHANGED <<session, sent, refused>>
    /\ KeepHistory

-----------------------------------------------------------------------------
(* Reports, and duplicate uploads, which restore a session without its history. *)

\* Mutant: the report does not look whether the history is loaded already.
OpenReport_Reloads(q) ==
    /\ pc[q] = "idle" /\ "report" \in Kinds
    /\ session # NoSession
    /\ Open(q, session)
    /\ Goto(q, "loading")
    /\ UNCHANGED <<session, history, rows, sent, message, live, refused>>

\* HandleReport finds the session; it has to load an empty history only.
OpenReport(q) ==
    /\ pc[q] = "idle" /\ "report" \in Kinds
    /\ session # NoSession
    /\ history[session] = <<>>
    /\ Open(q, session)
    /\ Goto(q, "loading")
    /\ UNCHANGED <<session, history, rows, sent, message, live, refused>>

\* The session is gone: HandleReport or HandleUpload restores it.
MissSession(q) ==
    /\ pc[q] = "idle"
    /\ session = NoSession
    /\ \/ "report" \in Kinds /\ Goto(q, "report")
       \/ "upload" \in Kinds /\ Goto(q, "restoring")
    /\ UNCHANGED <<session, history, rows, sent, held, seen, message, live, refused>>

\* restoreSessionFromDB puts a new session with an empty history in the store,
\* in place of any other that is there by now.
RestoreForReport(q, o) ==
    /\ pc[q] = "report" /\ Unreferenced(o)
    /\ session' = o
    /\ Open(q, o)
    /\ Goto(q, "loading")
    /\ UNCHANGED <<rows, sent, message, live, refused>>
    /\ KeepHistory

RestoreForUpload(q, o) ==
    /\ pc[q] = "restoring" /\ Unreferenced(o)
    /\ session' = o
    /\ Finish(q)
    /\ UNCHANGED <<rows, sent, refused>>
    /\ KeepHistory

\* GetChatMessagesByBundleID returns what the table holds now ...
QueryRows(q) ==
    /\ pc[q] = "loading" /\ live[q] /\ rows # <<>>
    /\ seen' = [seen EXCEPT ![q] = rows]
    /\ Goto(q, "loaded")
    /\ UNCHANGED <<session, history, rows, sent, held, message, live, refused>>

\* ... or nothing, or an error.
QueryNothing(q) ==
    /\ pc[q] = "loading"
    /\ Finish(q)
    /\ UNCHANGED <<session, rows, sent, refused>>
    /\ KeepHistory

\* HandleReport appends the rows to the history, and stores the session.  The
\* loop's appends are one step here.
LoadRows(q) ==
    /\ pc[q] = "loaded"
    /\ session' = held[q]
    /\ Finish(q)
    /\ UNCHANGED <<rows, sent, refused>>
    /\ StoreHistory(held[q], history[held[q]] \o seen[q])

-----------------------------------------------------------------------------
(* Environment. *)

\* The client of a request goes away.
Disconnect(q) ==
    /\ pc[q] # "idle" /\ live[q]
    /\ live' = [live EXCEPT ![q] = FALSE]
    /\ UNCHANGED <<session, history, rows, sent, pc, held, seen, message, refused>>

\* The sweeper deletes the session.
Sweep ==
    /\ session # NoSession
    /\ session' = NoSession
    /\ UNCHANGED <<rows, sent, requestVars, refused>>
    /\ KeepHistory

\* The server is restarted; the database stays.
Restart ==
    /\ session' = NoSession
    /\ history' = [o \in Objects |-> <<>>]
    /\ pc' = [q \in Requests |-> "idle"]
    /\ held' = [q \in Requests |-> NoSession]
    /\ seen' = [q \in Requests |-> <<>>]
    /\ message' = [q \in Requests |-> NoMessage]
    /\ live' = [q \in Requests |-> TRUE]
    /\ UNCHANGED <<rows, sent, refused>>

-----------------------------------------------------------------------------
Handle(q) ==
    \/ ChatReply(q) \/ StreamQuestion(q) \/ InsertQuestion(q) \/ InsertQuestionFails(q)
    \/ StreamCompletes(q) \/ StreamCompletesUnstored(q) \/ StreamFails(q)
    \/ StreamAnswer(q) \/ InsertAnswer(q)
    \/ OpenReport(q) \/ MissSession(q) \/ QueryRows(q) \/ QueryNothing(q) \/ LoadRows(q)
    \/ \E o \in Objects : RestoreForReport(q, o) \/ RestoreForUpload(q, o)

\* Two requests in progress, and two of which one is a report.
Busy(q) == pc[q] # "idle"
Loads(q) == pc[q] \in {"report", "loading", "loaded"}
Overlapping ==
    UNION {{"requests"} \cup (IF Loads(q) THEN {"load"} ELSE {}) :
              q \in {p \in Requests : Busy(p) /\ \E other \in Requests \ {p} : Busy(other)}}

Step == \/ \E q \in Requests, m \in Messages, kind \in {"chat", "stream"} : Ask(q, m, kind)
        \/ \E q \in Requests : Handle(q) \/ Disconnect(q)
        \/ Sweep \/ Restart

\* The history variable constrains no step.
Next == Step /\ overlaps' = overlaps \cup Overlapping'

Spec == Init /\ [][Next]_vars
-----------------------------------------------------------------------------
(* Properties. *)

TypeOK == /\ session \in Objects \cup {NoSession}
          /\ history \in [Objects -> Seq(Turns)]
          /\ rows \in Seq(Turns)
          /\ sent \in SUBSET Messages
          /\ pc \in [Requests -> Positions]
          /\ held \in [Requests -> Objects \cup {NoSession}]
          /\ seen \in [Requests -> Seq(Turns)]
          /\ message \in [Requests -> Messages \cup {NoMessage}]
          /\ live \in [Requests -> BOOLEAN]
          /\ refused \in SUBSET Messages
          /\ overlaps \in SUBSET {"requests", "load"}

\* What a restart would load is a conversation: whatever requests overlap, are
\* cancelled or die with the server, no turn is stored twice, and each answer in the
\* table follows its own question.  A client that leaves between the two inserts never
\* leaves an answer alone; only an error of the database does, to the first insert of
\* a client still there, and then the question does not turn up behind its answer.
AnswersFollowQuestions ==
    \A i \in 1..Len(rows) :
        /\ \A j \in 1..(i - 1) : rows[j] # rows[i]
        /\ rows[i].role = "assistant" =>
              \/ \E j \in 1..(i - 1) : rows[j] = Question(rows[i].message)
              \/ /\ rows[i].message \in refused
                 /\ \A j \in 1..Len(rows) : rows[j] # Question(rows[i].message)

\* While requests do not overlap: between two of them, the turns of the session's
\* history that are in the table are its latest ones, in its order, although
\* either side may miss turns the other has.
StoredTurns(h) == Filtered(h, ToSet(rows))
HistoryAgreesWithRows ==
    overlaps = {} /\ session # NoSession /\ (\A q \in Requests : ~Busy(q)) =>
        IsSuffix(StoredTurns(history[session]), rows)

\* A turn is in the history of a session once, also when chats overlap with each
\* other and with sweeps, restores and restarts.  It takes a report that loads
\* the history a chat is adding to, to break it.
NoTurnTwice ==
    "load" \notin overlaps /\ session # NoSession => IsInjective(history[session])

\* While requests do not overlap, the history of a session object in use only
\* grows, by the turns of one chat or by those it loads.
HistoriesGrow ==
    [][overlaps' = {} =>
          \A o \in Objects : ~Unreferenced(o) /\ ~Unreferenced(o)' =>
              IsPrefix(history[o], history'[o])]_vars
=============================================================================
