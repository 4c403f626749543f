-------------------------- MODULE ChatHistory_proofs --------------------------
(***************************************************************************)
(* Type correctness of the chat history, that table chat_messages holds a  *)
(* conversation, that histories have each turn once and only grow, and     *)
(* that they agree with the table, for any number of messages, requests of *)
(* any kind and session objects.                                           *)
(***************************************************************************)
EXTENDS ChatHistory, SequenceTheorems, DataInduction

BeforeQuestion == {"chat", "question", "stream", "stream question"}
AfterIt == {"streaming", "stream answer", "answer"}

Asking(q) == pc[q] \in BeforeQuestion \cup AfterIt

InRows(t) == \E i \in 1..Len(rows) : rows[i] = t

\* A chat has a message, which it has sent and no other chat has.
MessagesAreOwn ==
    /\ \A q \in Requests : Asking(q) => message[q] \in sent
    /\ \A q, r \in Requests : Asking(q) /\ Asking(r) /\ message[q] = message[r] => q = r

\* The table has messages that were sent, no answer of a chat that still runs, no
\* question before a chat inserts it, the question of a chat that is past it and was
\* never cancelled, unless it was refused, and no question that was refused.
RowsAndChats ==
    /\ \A i \in 1..Len(rows) : rows[i].message \in sent
    /\ \A q \in Requests :
          /\ Asking(q) => ~ InRows(Answer(message[q]))
          /\ pc[q] \in BeforeQuestion => ~ InRows(Question(message[q]))
          /\ pc[q] \in AfterIt /\ live[q] =>
                 InRows(Question(message[q])) \/ message[q] \in refused

\* Refused are questions of messages that were sent, by a chat that is past its insert.
RefusedStayOut ==
    /\ refused \subseteq sent
    /\ \A m \in refused : ~ InRows(Question(m))
    /\ \A q \in Requests : pc[q] \in BeforeQuestion => message[q] \notin refused

TInv == TypeOK /\ MessagesAreOwn
IInv == TInv /\ RowsAndChats /\ RefusedStayOut /\ AnswersFollowQuestions
-----------------------------------------------------------------------------
LEMMA OverlapsHaveTypes == Overlapping' \in SUBSET {"requests", "load"}
<1>1. ASSUME NEW x \in Overlapping'
      PROVE  x \in {"requests", "load"}
  <2>1. PICK q \in Requests : x \in {"requests"} \cup (IF Loads(q)' THEN {"load"} ELSE {})
    BY <1>1 DEF Overlapping
  <2>2. QED
    BY <2>1
<1>2. QED
  BY <1>1

LEMMA TurnsOfMessages ==
    ASSUME NEW m \in Messages
    PROVE  Question(m) \in Turns /\ Answer(m) \in Turns
BY DEF Turns

LEMMA SequencesGrow ==
    ASSUME NEW T, NEW s \in Seq(T), NEW a \in T, NEW b \in T
    PROVE  Append(s, a) \in Seq(T) /\ s \o <<a, b>> \in Seq(T)
<1>1. <<a, b>> \in Seq(T)
  <2>1. <<a, b>> \in [1..2 -> T]
    OBVIOUS
  <2>2. QED
    BY <2>1, SeqDef
<1>2. QED
  BY <1>1, AppendProperties, ConcatProperties

\* A history that is replaced by turns keeps its type.
LEMMA HistoriesHaveTypes ==
    ASSUME TypeOK,
           \/ KeepHistory
           \/ \E o \in Objects \cup {NoSession} : \E h :
                  (o \in Objects => h \in Seq(Turns)) /\ StoreHistory(o, h)
    PROVE  history' \in [Objects -> Seq(Turns)]
<1> USE ChatAssumption DEF TypeOK
<1>1. <<>> \in Seq(Turns)
  OBVIOUS
<1>2. CASE KeepHistory
  BY <1>1, <1>2 DEF KeepHistory
<1>3. ASSUME NEW o \in Objects \cup {NoSession}, NEW h, o \in Objects => h \in Seq(Turns),
             StoreHistory(o, h)
      PROVE  history' \in [Objects -> Seq(Turns)]
  BY <1>1, <1>3 DEF StoreHistory
<1>4. QED
  BY <1>2, <1>3

\* Only a failed insert of a question adds to the refused ones.
LEMMA RefusedMoves ==
    ASSUME [Next]_vars
    PROVE  \/ refused' = refused
           \/ \E q \in Requests : InsertQuestionFails(q) /\ refused' = refused \cup {message[q]}
<1>1. ASSUME NEW q \in Requests, Handle(q)
      PROVE  \/ refused' = refused
             \/ InsertQuestionFails(q) /\ refused' = refused \cup {message[q]}
  BY <1>1 DEF Handle, ChatReply, StreamQuestion, InsertQuestion, InsertQuestionFails, StreamCompletes,
              StreamCompletesUnstored, StreamFails, StreamAnswer, InsertAnswer, OpenReport,
              MissSession, QueryRows, QueryNothing, LoadRows, RestoreForReport, RestoreForUpload
<1>2. ASSUME NEW q \in Requests, NEW m \in Messages, NEW kind \in {"chat", "stream"},
             Ask(q, m, kind)
      PROVE  refused' = refused
  BY <1>2 DEF Ask
<1>3. (\E q \in Requests : Disconnect(q)) \/ Sweep \/ Restart \/ UNCHANGED vars => refused' = refused
  BY DEF Disconnect, Sweep, Restart, vars
<1>4. QED
  BY <1>1, <1>2, <1>3 DEF Next, Step

LEMMA TypeStep == TInv /\ [Next]_vars => TInv'
<1> SUFFICES ASSUME TInv, [Next]_vars
             PROVE  TInv'
  OBVIOUS
<1> USE ChatAssumption
    DEF TInv, TypeOK, MessagesAreOwn, Asking, BeforeQuestion, AfterIt, Positions, Goto
<1>0. <<>> \in Seq(Turns)
  BY EmptySeq
<1>f. ASSUME NEW q \in Requests, Finish(q), sent' = sent
      PROVE  /\ pc' \in [Requests -> Positions]
             /\ held' \in [Requests -> Objects \cup {NoSession}]
             /\ seen' \in [Requests -> Seq(Turns)]
             /\ message' \in [Requests -> Messages \cup {NoMessage}]
             /\ live' \in [Requests -> BOOLEAN]
             /\ MessagesAreOwn'
  BY <1>f, <1>0 DEF Finish
<1>o. Next => overlaps' \in SUBSET {"requests", "load"}
  <2> SUFFICES ASSUME Next PROVE overlaps' \in SUBSET {"requests", "load"}
    OBVIOUS
  <2>1. overlaps' = overlaps \cup Overlapping'
    BY DEF Next
  <2>2. Overlapping' \in SUBSET {"requests", "load"}
    BY OverlapsHaveTypes
  <2>3. QED
    BY <2>1, <2>2
<1>r. Next => refused' \in SUBSET Messages
  <2> SUFFICES ASSUME Next PROVE refused' \in SUBSET Messages
    OBVIOUS
  <2>1. \A q \in Requests : InsertQuestionFails(q) => message[q] \in Messages
    BY DEF InsertQuestionFails
  <2>2. [Next]_vars
    OBVIOUS
  <2>3. \/ refused' = refused
        \/ \E q \in Requests : InsertQuestionFails(q) /\ refused' = refused \cup {message[q]}
    BY <2>2, RefusedMoves
  <2>4. refused \in SUBSET Messages
    OBVIOUS
  <2>5. ASSUME NEW q \in Requests, InsertQuestionFails(q), refused' = refused \cup {message[q]}
        PROVE  refused' \in SUBSET Messages
    BY ONLY <2>1, <2>4, <2>5
  <2>6. QED
    BY ONLY <2>3, <2>4, <2>5
<1>n. ASSUME Next,
             /\ session' \in Objects \cup {NoSession}
             /\ history' \in [Objects -> Seq(Turns)]
             /\ rows' \in Seq(Turns)
             /\ sent' \in SUBSET Messages,
             /\ pc' \in [Requests -> Positions]
             /\ held' \in [Requests -> Objects \cup {NoSession}]
             /\ seen' \in [Requests -> Seq(Turns)]
             /\ message' \in [Requests -> Messages \cup {NoMessage}]
             /\ live' \in [Requests -> BOOLEAN]
             /\ MessagesAreOwn'
      PROVE  TInv'
  BY <1>n, <1>o, <1>r
<1>1. ASSUME Next, NEW q \in Requests, NEW m \in Messages, NEW kind \in {"chat", "stream"},
             Ask(q, m, kind)
      PROVE  TInv'
  <2>1. /\ session \in Objects /\ m \notin sent /\ sent' = sent \cup {m}
        /\ pc' = [pc EXCEPT ![q] = kind] /\ message' = [message EXCEPT ![q] = m]
        /\ held' = [held EXCEPT ![q] = session] /\ seen' = [seen EXCEPT ![q] = history[session]]
        /\ UNCHANGED <<session, history, rows, live>>
    BY <1>1 DEF Ask, Open
  <2>2. /\ pc' \in [Requests -> Positions] /\ sent' \in SUBSET Messages
        /\ message' \in [Requests -> Messages \cup {NoMessage}]
    BY <2>1
  <2>3. \A r \in Requests : Asking(r)' => message'[r] \in sent'
    BY <2>1
  <2>a. message'[q] = m
    BY <2>1
  <2>b. ASSUME NEW r \in Requests \ {q}, Asking(r)'
        PROVE  Asking(r) /\ message'[r] = message[r] /\ message[r] \in sent
    <3>1. pc'[r] = pc[r] /\ message'[r] = message[r]
      BY <2>1
    <3>2. QED
      BY <2>b, <3>1
  <2>4. ASSUME NEW r \in Requests, NEW u \in Requests, Asking(r)', Asking(u)', message'[r] = message'[u]
        PROVE  r = u
    <3>1. CASE r # q /\ u # q
      BY ONLY <2>b, <2>4, <3>1, TInv DEF TInv, MessagesAreOwn
    <3>2. CASE r = q /\ u # q
      BY ONLY <2>1, <2>a, <2>b, <2>4, <3>2
    <3>3. CASE r # q /\ u = q
      BY ONLY <2>1, <2>a, <2>b, <2>4, <3>3
    <3>4. QED
      BY <3>1, <3>2, <3>3
  <2>5. MessagesAreOwn'
    BY <2>3, <2>4
  <2>6. QED
    BY <1>1, <1>n, <2>1, <2>2, <2>5
<1>2. ASSUME Next, NEW q \in Requests, ChatReply(q) \/ StreamQuestion(q) \/ StreamAnswer(q)
      PROVE  TInv'
  <2>1. message[q] \in Messages /\ seen[q] \in Seq(Turns)
    BY <1>2 DEF ChatReply, StreamQuestion, StreamAnswer
  <2>2. /\ seen[q] \o <<Question(message[q]), Answer(message[q])>> \in Seq(Turns)
        /\ Append(seen[q], Question(message[q])) \in Seq(Turns)
        /\ Append(seen[q], Answer(message[q])) \in Seq(Turns)
    BY <2>1, TurnsOfMessages, SequencesGrow
  <2>3. history' \in [Objects -> Seq(Turns)]
    BY <1>2, <2>2, HistoriesHaveTypes DEF ChatReply, StreamQuestion, StreamAnswer
  <2>4. QED
    <3>1. /\ \E p \in {"question", "stream question", "answer"} : pc' = [pc EXCEPT ![q] = p]
          /\ Asking(q)
          /\ session' = held[q]
          /\ UNCHANGED <<rows, sent, held, seen, message, live>>
      BY <1>2 DEF ChatReply, StreamQuestion, StreamAnswer
    <3>2. MessagesAreOwn'
      BY <3>1
    <3>3. pc' \in [Requests -> Positions]
      BY <3>1
    <3>4. QED
      BY <1>2, <1>n, <2>3, <3>1, <3>2, <3>3
<1>3. ASSUME Next, NEW q \in Requests, InsertQuestion(q) \/ InsertQuestionFails(q)
      PROVE  TInv'
  <2>1. message[q] \in Messages
    BY <1>3 DEF InsertQuestion, InsertQuestionFails
  <2>2. Append(rows, Question(message[q])) \in Seq(Turns)
    BY <2>1, TurnsOfMessages, SequencesGrow
  <2>3. QED
    BY <1>3, <1>n, <2>2 DEF InsertQuestion, InsertQuestionFails, AfterQuestion
<1>4. ASSUME Next, NEW q \in Requests, StreamCompletes(q)
      PROVE  TInv'
  <2>1. /\ session \in Objects /\ pc[q] = "streaming"
        /\ pc' = [pc EXCEPT ![q] = "stream answer"]
        /\ held' = [held EXCEPT ![q] = session] /\ seen' = [seen EXCEPT ![q] = history[session]]
        /\ UNCHANGED <<session, rows, sent, message, live>>
    BY <1>4 DEF StreamCompletes, Open
  <2>2. history' \in [Objects -> Seq(Turns)]
    BY <1>4, HistoriesHaveTypes DEF StreamCompletes
  <2>3. QED
    BY <1>4, <1>n, <2>1, <2>2
<1>5. ASSUME Next, NEW q \in Requests, StreamCompletesUnstored(q)
      PROVE  TInv'
  BY <1>5, <1>n DEF StreamCompletesUnstored
<1>6. ASSUME Next, NEW q \in Requests, StreamFails(q) \/ InsertAnswer(q) \/ QueryNothing(q)
      PROVE  TInv'
  <2>1. /\ sent' = sent /\ session' = session /\ Finish(q) /\ KeepHistory
    BY <1>6 DEF StreamFails, InsertAnswer, QueryNothing
  <2>2. rows' \in Seq(Turns)
    <3>1. CASE InsertAnswer(q)
      <4>1. message[q] \in Messages
        BY <3>1 DEF InsertAnswer
      <4>2. Append(rows, Answer(message[q])) \in Seq(Turns)
        BY <4>1, TurnsOfMessages, SequencesGrow
      <4>3. QED
        BY <3>1, <4>2 DEF InsertAnswer
    <3>2. QED
      BY <1>6, <3>1 DEF StreamFails, QueryNothing
  <2>3. history' \in [Objects -> Seq(Turns)]
    BY <2>1, HistoriesHaveTypes
  <2>4. QED
    BY <1>6, <1>n, <1>f, <2>1, <2>2, <2>3
<1>7. ASSUME Next, NEW q \in Requests, OpenReport(q)
      PROVE  TInv'
  <2>1. /\ session \in Objects /\ pc' = [pc EXCEPT ![q] = "loading"]
        /\ held' = [held EXCEPT ![q] = session] /\ seen' = [seen EXCEPT ![q] = history[session]]
        /\ UNCHANGED <<session, history, rows, sent, message, live>>
    BY <1>7 DEF OpenReport, Open
  <2>2. QED
    BY <1>7, <1>n, <2>1
<1>8. ASSUME Next, NEW q \in Requests, MissSession(q)
      PROVE  TInv'
  <2>1. /\ pc' = [pc EXCEPT ![q] = "report"] \/ pc' = [pc EXCEPT ![q] = "restoring"]
        /\ UNCHANGED <<session, history, rows, sent, held, seen, message, live>>
    BY <1>8 DEF MissSession
  <2>2. \A r \in Requests : Asking(r)' => Asking(r)
    BY <2>1
  <2>3. MessagesAreOwn'
    BY <2>1, <2>2
  <2>4. QED
    BY <1>8, <1>n, <2>1, <2>3
<1>9. ASSUME Next, NEW q \in Requests, QueryRows(q)
      PROVE  TInv'
  BY <1>9, <1>n DEF QueryRows
<1>10. ASSUME Next, NEW q \in Requests, LoadRows(q)
       PROVE  TInv'
  <2>1. /\ session' = held[q] /\ Finish(q) /\ rows' = rows /\ sent' = sent
        /\ StoreHistory(held[q], history[held[q]] \o seen[q])
    BY <1>10 DEF LoadRows
  <2>2. held[q] \in Objects => history[held[q]] \o seen[q] \in Seq(Turns)
    <3>1. held[q] \in Objects => history[held[q]] \in Seq(Turns)
      OBVIOUS
    <3>2. seen[q] \in Seq(Turns)
      OBVIOUS
    <3>3. ASSUME NEW h \in Seq(Turns)
          PROVE  h \o seen[q] \in Seq(Turns)
      BY <3>2, ConcatProperties
    <3>4. QED
      BY <3>1, <3>3
  <2>3. history' \in [Objects -> Seq(Turns)]
    BY <2>1, <2>2, HistoriesHaveTypes
  <2>4. QED
    BY <1>10, <1>n, <1>f, <2>1, <2>3
<1>11. ASSUME Next, NEW q \in Requests, NEW o \in Objects, RestoreForReport(q, o)
       PROVE  TInv'
  <2>1. /\ session' = o /\ pc' = [pc EXCEPT ![q] = "loading"]
        /\ held' = [held EXCEPT ![q] = o] /\ seen' = [seen EXCEPT ![q] = history[o]]
        /\ UNCHANGED <<rows, sent, message, live>>
    BY <1>11 DEF RestoreForReport, Open
  <2>2. history' \in [Objects -> Seq(Turns)]
    BY <1>11, HistoriesHaveTypes DEF RestoreForReport
  <2>3. QED
    BY <1>11, <1>n, <2>1, <2>2
<1>12. ASSUME Next, NEW q \in Requests, NEW o \in Objects, RestoreForUpload(q, o)
       PROVE  TInv'
  <2>1. /\ session' = o /\ Finish(q) /\ rows' = rows /\ sent' = sent
    BY <1>12 DEF RestoreForUpload
  <2>2. history' \in [Objects -> Seq(Turns)]
    BY <1>12, HistoriesHaveTypes DEF RestoreForUpload
  <2>3. QED
    BY <1>12, <1>n, <1>f, <2>1, <2>2
<1>13. ASSUME Next, NEW q \in Requests, Disconnect(q)
       PROVE  TInv'
  BY <1>13, <1>n DEF Disconnect
<1>14. ASSUME Next, Sweep
       PROVE  TInv'
  <2>1. history' \in [Objects -> Seq(Turns)]
    BY <1>14, HistoriesHaveTypes DEF Sweep
  <2>2. QED
    BY <1>14, <1>n, <2>1 DEF Sweep, requestVars
<1>15. ASSUME Next, Restart
       PROVE  TInv'
  BY <1>15, <1>n, <1>0 DEF Restart
<1>16. CASE UNCHANGED vars
  BY <1>16 DEF vars, requestVars
<1> HIDE DEF TInv, TypeOK, MessagesAreOwn, Asking, BeforeQuestion, AfterIt, Positions, Goto
<1>17. QED
  BY <1>1, <1>2, <1>3, <1>4, <1>5, <1>6, <1>7, <1>8, <1>9, <1>10, <1>11, <1>12, <1>13, <1>14,
     <1>15, <1>16
     DEF Next, Step, Handle
LEMMA InitialTypes == Init => TInv
<1> SUFFICES ASSUME Init PROVE TInv
  OBVIOUS
<1>1. <<>> \in Seq(Turns)
  BY EmptySeq
<1>2. QED
  BY <1>1 DEF Init, TInv, TypeOK, MessagesAreOwn, Asking, BeforeQuestion, AfterIt, Positions
-----------------------------------------------------------------------------
\* Sessions, histories, rows and requests keep their types, and histories and table
\* hold nothing but turns of chats.
THEOREM TypeCorrect == Spec => []TypeOK
<1>1. Init => TInv
  BY InitialTypes
<1>2. TInv => TypeOK
  BY DEF TInv
<1>3. QED
  BY <1>1, <1>2, TypeStep, PTL DEF Spec
-----------------------------------------------------------------------------
\* A row more, of turn t.
LEMMA RowAppended ==
    ASSUME TypeOK, NEW t \in Turns, rows' = Append(rows, t)
    PROVE  /\ Len(rows') = Len(rows) + 1
           /\ \A i \in 1..Len(rows) : rows'[i] = rows[i]
           /\ rows'[Len(rows) + 1] = t
           /\ \A u : InRows(u)' <=> InRows(u) \/ u = t
<1>0. rows \in Seq(Turns) /\ Len(rows) \in Nat
  BY DEF TypeOK
<1>1. /\ Len(rows') = Len(rows) + 1
      /\ \A i \in 1..Len(rows) : rows'[i] = rows[i]
      /\ rows'[Len(rows) + 1] = t
  BY <1>0, AppendProperties
<1>2. ASSUME NEW u
      PROVE  InRows(u)' <=> InRows(u) \/ u = t
  BY <1>0, <1>1 DEF InRows
<1>3. QED
  BY <1>1, <1>2

\* Without a new row, a step keeps the table's part of the invariant if chats only
\* end or go on in it.
LEMMA RowsKept ==
    ASSUME TInv, RowsAndChats, AnswersFollowQuestions,
           rows' = rows, sent \subseteq sent', refused \subseteq refused',
           \A q \in Requests : Asking(q)' =>
               /\ Asking(q) /\ message'[q] = message[q] /\ (live'[q] => live[q])
               /\ pc'[q] \in BeforeQuestion => pc[q] \in BeforeQuestion
               /\ pc'[q] \in AfterIt => pc[q] \in AfterIt \/ ~ live[q] \/ message[q] \in refused'
    PROVE  RowsAndChats' /\ AnswersFollowQuestions'
<1>1. \A t : InRows(t)' <=> InRows(t)
  BY DEF InRows
<1>2. AnswersFollowQuestions'
  BY DEF AnswersFollowQuestions
<1>3. \A i \in 1..Len(rows') : rows'[i].message \in sent'
  BY DEF RowsAndChats
<1>4. ASSUME NEW q \in Requests
      PROVE  /\ Asking(q)' => ~ InRows(Answer(message[q]))'
             /\ pc'[q] \in BeforeQuestion => ~ InRows(Question(message[q]))'
             /\ pc'[q] \in AfterIt /\ live'[q] =>
                    InRows(Question(message[q]))' \/ message'[q] \in refused'
  BY <1>1 DEF RowsAndChats, Asking, BeforeQuestion, AfterIt
<1>5. QED
  BY <1>2, <1>3, <1>4 DEF RowsAndChats

LEMMA TurnsDiffer ==
    ASSUME NEW m, NEW n
    PROVE  /\ Question(m) # Answer(n)
           /\ Question(m) = Question(n) \/ Answer(m) = Answer(n) => m = n
           /\ Question(m).message = m /\ Answer(m).message = m
           /\ Question(m).role # "assistant"
BY DEF Question, Answer

\* A new question that was not refused, or the answer to a question that is in the table
\* or was refused, keeps the table a conversation.
LEMMA ConversationGrows ==
    ASSUME TypeOK, AnswersFollowQuestions, NEW m \in Messages, NEW t \in Turns,
           rows' = Append(rows, t), refused' = refused, ~ InRows(t),
           \A n \in refused : ~ InRows(Question(n)),
           \/ t = Question(m) /\ m \notin refused
           \/ t = Answer(m) /\ (InRows(Question(m)) \/ m \in refused)
    PROVE  AnswersFollowQuestions'
<1>0. rows \in Seq(Turns) /\ Len(rows) \in Nat
  BY DEF TypeOK
<1>1. /\ Len(rows') = Len(rows) + 1
      /\ \A i \in 1..Len(rows) : rows'[i] = rows[i]
      /\ rows'[Len(rows) + 1] = t
  BY RowAppended
<1>a. ASSUME NEW n \in refused, NEW j \in 1..Len(rows')
      PROVE  rows'[j] # Question(n)
  <2>1. CASE j = Len(rows) + 1
    BY <1>1, <2>1, TurnsDiffer
  <2>2. CASE j \in 1..Len(rows)
    BY <1>1, <2>2 DEF InRows
  <2>3. QED
    BY <1>0, <1>1, <2>1, <2>2
<1>2. ASSUME NEW i \in 1..Len(rows'), rows'[i].role = "assistant"
      PROVE  \/ \E j \in 1..(i - 1) : rows'[j] = Question(rows'[i].message)
             \/ /\ rows'[i].message \in refused'
                /\ \A j \in 1..Len(rows') : rows'[j] # Question(rows'[i].message)
  <2>1. CASE i = Len(rows) + 1
    <3>1. t = Answer(m) /\ t.message = m
      BY <1>1, <1>2, <2>1, TurnsDiffer
    <3>2. CASE m \in refused
      BY <1>1, <1>a, <2>1, <3>1, <3>2
    <3>3. CASE m \notin refused
      <4>1. PICK j \in 1..Len(rows) : rows[j] = Question(m)
        BY <3>1, <3>3, TurnsDiffer DEF InRows
      <4>2. QED
        BY <1>0, <1>1, <2>1, <3>1, <4>1
    <3>4. QED
      BY <3>2, <3>3
  <2>2. CASE i \in 1..Len(rows)
    <3>1. rows'[i] = rows[i]
      BY <1>1, <2>2
    <3>2. CASE rows[i].message \in refused
      BY <1>a, <3>1, <3>2
    <3>3. CASE rows[i].message \notin refused
      <4>1. PICK j \in 1..(i - 1) : rows[j] = Question(rows[i].message)
        BY <1>2, <2>2, <3>1, <3>3 DEF AnswersFollowQuestions
      <4>2. j \in 1..Len(rows)
        BY <1>0, <2>2
      <4>3. QED
        BY <1>1, <3>1, <4>1, <4>2
    <3>4. QED
      BY <3>2, <3>3
  <2>3. QED
    BY <1>0, <1>1, <2>1, <2>2
<1>3. ASSUME NEW i \in 1..Len(rows'), NEW j \in 1..(i - 1)
      PROVE  rows'[j] # rows'[i]
  <2>1. j \in 1..Len(rows) /\ rows'[j] = rows[j]
    BY <1>0, <1>1
  <2>2. CASE i = Len(rows) + 1
    BY <1>1, <2>1, <2>2 DEF InRows
  <2>3. CASE i \in 1..Len(rows)
    BY <1>1, <2>1, <2>3 DEF AnswersFollowQuestions
  <2>4. QED
    BY <1>0, <1>1, <2>2, <2>3
<1>4. QED
  BY <1>2, <1>3 DEF AnswersFollowQuestions

LEMMA RowsStep == IInv /\ [Next]_vars => RowsAndChats' /\ AnswersFollowQuestions'
<1> SUFFICES ASSUME IInv, [Next]_vars
             PROVE  RowsAndChats' /\ AnswersFollowQuestions'
  OBVIOUS
<1> USE DEF IInv
<1>0. TInv /\ TypeOK /\ MessagesAreOwn /\ TInv'
  BY TypeStep DEF TInv
<1>1. ASSUME NEW q \in Requests, NEW m \in Messages, NEW kind \in {"chat", "stream"},
             Ask(q, m, kind)
      PROVE  RowsAndChats' /\ AnswersFollowQuestions'
  <2>1. /\ rows' = rows /\ m \notin sent /\ sent' = sent \cup {m}
        /\ pc' = [pc EXCEPT ![q] = kind] /\ message' = [message EXCEPT ![q] = m]
        /\ UNCHANGED <<live, refused>>
    BY <1>1 DEF Ask, Goto
  <2>2. \A t : InRows(t)' <=> InRows(t)
    BY <2>1 DEF InRows
  <2>3. ~ InRows(Question(m)) /\ ~ InRows(Answer(m))
    <3>1. Question(m).message = m /\ Answer(m).message = m
      BY DEF Question, Answer
    <3>2. QED
      BY <2>1, <3>1 DEF InRows, RowsAndChats
  <2>4. AnswersFollowQuestions'
    BY <2>1 DEF AnswersFollowQuestions
  <2>5. \A i \in 1..Len(rows') : rows'[i].message \in sent'
    BY <2>1 DEF RowsAndChats
  <2>6. /\ message'[q] = m /\ pc'[q] = kind
        /\ \A r \in Requests \ {q} : message'[r] = message[r] /\ pc'[r] = pc[r]
    BY <1>0, <2>1 DEF TypeOK
  <2>7. ASSUME NEW r \in Requests
        PROVE  /\ Asking(r)' => ~ InRows(Answer(message[r]))'
               /\ pc'[r] \in BeforeQuestion => ~ InRows(Question(message[r]))'
               /\ pc'[r] \in AfterIt /\ live'[r] =>
                      InRows(Question(message[r]))' \/ message'[r] \in refused'
    <3>1. CASE r = q
      BY <2>2, <2>3, <2>6, <3>1 DEF Asking, BeforeQuestion, AfterIt, Question, Answer
    <3>2. CASE r # q
      BY <2>1, <2>2, <2>6, <3>2 DEF RowsAndChats, Asking, Question, Answer
    <3>3. QED
      BY <3>1, <3>2
  <2>8. QED
    BY <2>4, <2>5, <2>7 DEF RowsAndChats
<1>2. ASSUME NEW q \in Requests, InsertQuestion(q)
      PROVE  RowsAndChats' /\ AnswersFollowQuestions'
  <2> DEFINE t == Question(message[q])
  <2>1. /\ pc[q] \in {"question", "stream question"} /\ live[q]
        /\ rows' = Append(rows, t)
        /\ pc' = [pc EXCEPT ![q] = AfterQuestion(q)]
        /\ UNCHANGED <<sent, message, live, refused>>
    BY <1>2 DEF InsertQuestion, Goto
  <2>2. Asking(q) /\ pc[q] \in BeforeQuestion /\ pc'[q] \in AfterIt
    BY <1>0, <2>1 DEF Asking, BeforeQuestion, AfterIt, AfterQuestion, TypeOK
  <2>3. message[q] \in Messages /\ message[q] \in sent /\ t \in Turns
    BY <1>0, <2>2, TurnsOfMessages DEF MessagesAreOwn, TypeOK
  <2>4. ~ InRows(t) /\ message[q] \notin refused /\ \A n \in refused : ~ InRows(Question(n))
    BY <2>2 DEF RowsAndChats, RefusedStayOut
  <2>5. \A u : InRows(u)' <=> InRows(u) \/ u = t
    BY <1>0, <2>1, <2>3, RowAppended
  <2>6. AnswersFollowQuestions'
    BY <1>0, <2>1, <2>3, <2>4, ConversationGrows
  <2>7. \A i \in 1..Len(rows') : rows'[i].message \in sent'
    <3>1. t.message = message[q]
      BY TurnsDiffer
    <3>2. /\ Len(rows') = Len(rows) + 1
          /\ \A i \in 1..Len(rows) : rows'[i] = rows[i]
          /\ rows'[Len(rows) + 1] = t
      BY <1>0, <2>1, <2>3, RowAppended
    <3>3. Len(rows) \in Nat
      BY <1>0 DEF TypeOK
    <3>4. \A i \in 1..Len(rows) : rows[i].message \in sent
      BY DEF RowsAndChats
    <3>5. ASSUME NEW i \in 1..Len(rows')
          PROVE  rows'[i].message \in sent
      <4>1. CASE i = Len(rows) + 1
        BY <2>3, <3>1, <3>2, <4>1
      <4>2. CASE i \in 1..Len(rows)
        BY <3>2, <3>4, <4>2
      <4>3. QED
        BY <3>2, <3>3, <4>1, <4>2
    <3>6. QED
      BY <2>1, <3>5
  <2>8. ASSUME NEW r \in Requests
        PROVE  /\ Asking(r)' => ~ InRows(Answer(message[r]))'
               /\ pc'[r] \in BeforeQuestion => ~ InRows(Question(message[r]))'
               /\ pc'[r] \in AfterIt /\ live'[r] =>
                      InRows(Question(message[r]))' \/ message'[r] \in refused'
    <3>1. message' = message /\ live' = live /\ (r # q => pc'[r] = pc[r])
      BY <1>0, <2>1 DEF TypeOK
    <3>2. Asking(r)' => Asking(r)
      BY <2>2, <3>1 DEF Asking
    <3>3. Asking(r) /\ r # q => message[r] # message[q]
      BY <1>0, <2>2 DEF MessagesAreOwn
    <3>4. Answer(message[r]) # t
      BY TurnsDiffer
    <3>5. Asking(r) /\ r # q => Question(message[r]) # t
      BY <3>3, TurnsDiffer
    <3>6. Asking(r) => ~ InRows(Answer(message[r]))
      BY DEF RowsAndChats
    <3>7. Asking(r)' => ~ InRows(Answer(message[r]))'
      BY <2>5, <3>1, <3>2, <3>4, <3>6
    <3>8. CASE r = q
      BY <2>2, <2>5, <3>1, <3>7, <3>8 DEF BeforeQuestion, AfterIt
    <3>9. CASE r # q
      BY <2>1, <2>5, <3>1, <3>2, <3>5, <3>7, <3>9 DEF RowsAndChats, Asking
    <3>10. QED
      BY <3>8, <3>9
  <2>9. QED
    BY <2>6, <2>7, <2>8 DEF RowsAndChats
<1>3. ASSUME NEW q \in Requests, InsertAnswer(q), live[q], rows' = Append(rows, Answer(message[q]))
      PROVE  RowsAndChats' /\ AnswersFollowQuestions'
  <2> DEFINE t == Answer(message[q])
  <2>1. /\ pc[q] = "answer" /\ rows' = Append(rows, t)
        /\ pc' = [pc EXCEPT ![q] = "idle"]
        /\ message' = [message EXCEPT ![q] = NoMessage]
        /\ live' = [live EXCEPT ![q] = TRUE]
        /\ sent' = sent /\ refused' = refused
    BY <1>3 DEF InsertAnswer, Finish, Goto
  <2>2. Asking(q) /\ pc[q] \in AfterIt
    BY <2>1 DEF Asking, AfterIt
  <2>3. message[q] \in Messages /\ message[q] \in sent /\ t \in Turns
    BY <1>0, <2>2, TurnsOfMessages DEF MessagesAreOwn, TypeOK
  <2>4. /\ ~ InRows(t) /\ (InRows(Question(message[q])) \/ message[q] \in refused)
        /\ \A n \in refused : ~ InRows(Question(n))
    BY <1>3, <2>2 DEF RowsAndChats, RefusedStayOut
  <2>5. \A u : InRows(u)' <=> InRows(u) \/ u = t
    BY <1>0, <2>1, <2>3, RowAppended
  <2>6. AnswersFollowQuestions'
    BY <1>0, <2>1, <2>3, <2>4, ConversationGrows
  <2>7. \A i \in 1..Len(rows') : rows'[i].message \in sent'
    <3>1. t.message = message[q]
      BY TurnsDiffer
    <3>2. /\ Len(rows') = Len(rows) + 1
          /\ \A i \in 1..Len(rows) : rows'[i] = rows[i]
          /\ rows'[Len(rows) + 1] = t
      BY <1>0, <2>1, <2>3, RowAppended
    <3>3. Len(rows) \in Nat
      BY <1>0 DEF TypeOK
    <3>4. \A i \in 1..Len(rows) : rows[i].message \in sent
      BY DEF RowsAndChats
    <3>5. ASSUME NEW i \in 1..Len(rows')
          PROVE  rows'[i].message \in sent
      <4>1. CASE i = Len(rows) + 1
        BY <2>3, <3>1, <3>2, <4>1
      <4>2. CASE i \in 1..Len(rows)
        BY <3>2, <3>4, <4>2
      <4>3. QED
        BY <3>2, <3>3, <4>1, <4>2
    <3>6. QED
      BY <2>1, <3>5
  <2>8. ASSUME NEW r \in Requests
        PROVE  /\ Asking(r)' => ~ InRows(Answer(message[r]))'
               /\ pc'[r] \in BeforeQuestion => ~ InRows(Question(message[r]))'
               /\ pc'[r] \in AfterIt /\ live'[r] =>
                      InRows(Question(message[r]))' \/ message'[r] \in refused'
    <3>1. CASE r = q
      <4>1. pc'[r] = "idle"
        BY <1>0, <2>1, <3>1 DEF TypeOK
      <4>2. QED
        BY <4>1 DEF Asking, BeforeQuestion, AfterIt
    <3>2. CASE r # q
      <4>1. message'[r] = message[r] /\ live'[r] = live[r] /\ pc'[r] = pc[r]
        BY <1>0, <2>1, <3>2 DEF TypeOK
      <4>2. Asking(r) => message[r] # message[q]
        BY <1>0, <2>2, <3>2 DEF MessagesAreOwn
      <4>3. Asking(r) => Answer(message[r]) # t
        BY <4>2, TurnsDiffer
      <4>4. Question(message[r]) # t
        BY TurnsDiffer
      <4>5. Asking(r)' => Asking(r)
        BY <4>1 DEF Asking
      <4>6. Answer(message'[r]) = Answer(message[r]) /\ Question(message'[r]) = Question(message[r])
        BY <4>1
      <4>7. QED
        BY <2>1, <2>5, <4>1, <4>3, <4>4, <4>5, <4>6 DEF RowsAndChats, Asking
    <3>3. QED
      BY <3>1, <3>2
  <2>9. QED
    BY <2>6, <2>7, <2>8 DEF RowsAndChats
<1>4. ASSUME NEW q \in Requests, NEW p \in Positions,
             pc' = [pc EXCEPT ![q] = p], UNCHANGED <<rows, sent, message, live>>,
             refused \subseteq refused',
             \/ pc[q] \in BeforeQuestion /\ p \in BeforeQuestion
             \/ pc[q] \in BeforeQuestion /\ p \in AfterIt /\ (live[q] => message[q] \in refused')
             \/ pc[q] \in AfterIt /\ p \in AfterIt
             \/ p \notin BeforeQuestion \cup AfterIt
      PROVE  RowsAndChats' /\ AnswersFollowQuestions'
  <2>1. \A r \in Requests : pc'[r] = IF r = q THEN p ELSE pc[r]
    BY <1>0, <1>4 DEF TypeOK
  <2>2. \A r \in Requests : Asking(r)' =>
               /\ Asking(r) /\ message'[r] = message[r] /\ (live'[r] => live[r])
               /\ pc'[r] \in BeforeQuestion => pc[r] \in BeforeQuestion
               /\ pc'[r] \in AfterIt => pc[r] \in AfterIt \/ ~ live[r] \/ message[r] \in refused'
    BY <1>4, <2>1 DEF Asking, BeforeQuestion, AfterIt
  <2>3. QED
    BY <1>0, <1>4, <2>2, RowsKept
<1>5. ASSUME NEW q \in Requests, Finish(q), rows' = rows, sent' = sent, refused' = refused
      PROVE  RowsAndChats' /\ AnswersFollowQuestions'
  <2>1. \A r \in Requests : /\ pc'[r] = IF r = q THEN "idle" ELSE pc[r]
                            /\ r # q => message'[r] = message[r] /\ live'[r] = live[r]
    BY <1>0, <1>5 DEF TypeOK, Finish, Goto
  <2>2. \A r \in Requests : Asking(r)' =>
               /\ Asking(r) /\ message'[r] = message[r] /\ (live'[r] => live[r])
               /\ pc'[r] \in BeforeQuestion => pc[r] \in BeforeQuestion
               /\ pc'[r] \in AfterIt => pc[r] \in AfterIt \/ ~ live[r] \/ message[r] \in refused'
    BY <2>1 DEF Asking, BeforeQuestion, AfterIt
  <2>3. QED
    BY <1>0, <1>5, <2>2, RowsKept
<1>6. ASSUME NEW q \in Requests,
             \/ ChatReply(q) \/ StreamQuestion(q) \/ InsertQuestionFails(q)
             \/ StreamCompletes(q) \/ StreamCompletesUnstored(q) \/ StreamAnswer(q)
      PROVE  RowsAndChats' /\ AnswersFollowQuestions'
  BY <1>4, <1>6 DEF ChatReply, StreamQuestion, InsertQuestionFails, StreamCompletes, Open,
         StreamCompletesUnstored, StreamAnswer, AfterQuestion, Goto, Positions, BeforeQuestion, AfterIt
<1>7. ASSUME NEW q \in Requests,
             \/ OpenReport(q) \/ MissSession(q) \/ QueryRows(q)
             \/ \E o \in Objects : RestoreForReport(q, o)
      PROVE  RowsAndChats' /\ AnswersFollowQuestions'
  BY <1>4, <1>7 DEF OpenReport, MissSession, RestoreForReport, QueryRows, Goto, Open, Positions,
         BeforeQuestion, AfterIt
<1>8. ASSUME NEW q \in Requests,
             \/ StreamFails(q) \/ QueryNothing(q) \/ LoadRows(q)
             \/ InsertAnswer(q) /\ rows' = rows
             \/ \E o \in Objects : RestoreForUpload(q, o)
      PROVE  RowsAndChats' /\ AnswersFollowQuestions'
  BY <1>5, <1>8 DEF StreamFails, QueryNothing, LoadRows, RestoreForUpload, InsertAnswer
<1>9. ASSUME NEW q \in Requests, Disconnect(q)
      PROVE  RowsAndChats' /\ AnswersFollowQuestions'
  <2>1. \A r \in Requests : live'[r] => live[r]
    BY <1>0, <1>9 DEF Disconnect, TypeOK
  <2>2. QED
    BY <1>0, <1>9, <2>1, RowsKept DEF Disconnect, Asking
<1>10. CASE Sweep \/ UNCHANGED vars
  BY <1>0, <1>10, RowsKept DEF Sweep, vars, requestVars, Asking
<1>11. CASE Restart
  <2>1. \A r \in Requests : ~ Asking(r)'
    BY <1>11 DEF Restart, Asking, BeforeQuestion, AfterIt
  <2>2. QED
    BY <1>0, <1>11, <2>1, RowsKept DEF Restart
<1> HIDE DEF IInv
<1>12. ASSUME NEW q \in Requests, Handle(q)
       PROVE  RowsAndChats' /\ AnswersFollowQuestions'
  <2>1. InsertAnswer(q) => rows' = rows \/ (live[q] /\ rows' = Append(rows, Answer(message[q])))
    BY DEF InsertAnswer
  <2>2. QED
    BY <1>12, <1>2, <1>3, <1>6, <1>7, <1>8, <2>1 DEF Handle
<1>13. QED
  BY <1>1, <1>9, <1>10, <1>11, <1>12 DEF Next, Step

\* A refused question never enters the table: its chat is past the insert.
LEMMA RefusedStep == IInv /\ [Next]_vars => RefusedStayOut'
<1> SUFFICES ASSUME IInv, [Next]_vars
             PROVE  RefusedStayOut'
  OBVIOUS
<1>0. TypeOK /\ MessagesAreOwn /\ RowsAndChats /\ RefusedStayOut
  BY DEF IInv, TInv
<1>1. ASSUME NEW q \in Requests, NEW m \in Messages, NEW kind \in {"chat", "stream"},
             Ask(q, m, kind)
      PROVE  RefusedStayOut'
  <2>1. /\ m \notin sent /\ sent' = sent \cup {m} /\ UNCHANGED <<rows, refused>>
        /\ message'[q] = m
        /\ \A r \in Requests \ {q} : message'[r] = message[r] /\ pc'[r] = pc[r]
    BY <1>0, <1>1 DEF Ask, Goto, TypeOK
  <2>2. QED
    BY <1>0, <2>1 DEF RefusedStayOut, InRows, Question
<1>2. ASSUME NEW q \in Requests, InsertQuestion(q)
      PROVE  RefusedStayOut'
  <2>1. /\ pc[q] \in BeforeQuestion /\ rows' = Append(rows, Question(message[q]))
        /\ pc' = [pc EXCEPT ![q] = AfterQuestion(q)]
        /\ UNCHANGED <<sent, message, refused>>
    BY <1>2 DEF InsertQuestion, Goto, BeforeQuestion
  <2>2. Question(message[q]) \in Turns /\ message[q] \notin refused
    BY <1>0, <2>1, TurnsOfMessages DEF RefusedStayOut, MessagesAreOwn, Asking, TypeOK
  <2>3. \A u : InRows(u)' <=> InRows(u) \/ u = Question(message[q])
    BY <1>0, <2>1, <2>2, RowAppended
  <2>4. \A n \in refused : ~ InRows(Question(n))'
    <3> SUFFICES ASSUME NEW n \in refused PROVE ~ InRows(Question(n))'
      OBVIOUS
    <3>1. ~ InRows(Question(n)) /\ Question(n) # Question(message[q])
      BY <1>0, <2>2, TurnsDiffer DEF RefusedStayOut
    <3>2. QED
      BY <2>3, <3>1
  <2>5. \A r \in Requests : pc'[r] \in BeforeQuestion => pc[r] \in BeforeQuestion
    BY <1>0, <2>1 DEF TypeOK
  <2>6. QED
    BY <1>0, <2>1, <2>4, <2>5 DEF RefusedStayOut, Question
<1>3. ASSUME NEW q \in Requests, InsertAnswer(q)
      PROVE  RefusedStayOut'
  <2>1. /\ pc[q] \in AfterIt /\ rows' \in {rows, Append(rows, Answer(message[q]))}
        /\ UNCHANGED <<sent, refused>>
        /\ \A r \in Requests : pc'[r] \in BeforeQuestion => pc'[r] = pc[r] /\ message'[r] = message[r]
    BY <1>0, <1>3 DEF InsertAnswer, Finish, Goto, AfterIt, BeforeQuestion, TypeOK
  <2>2. Answer(message[q]) \in Turns
    BY <1>0, <2>1, TurnsOfMessages DEF MessagesAreOwn, Asking, TypeOK
  <2>3. ASSUME NEW n \in refused
        PROVE  ~ InRows(Question(n))'
    <3>1. ~ InRows(Question(n)) /\ Question(n) # Answer(message[q])
      BY <1>0, TurnsDiffer DEF RefusedStayOut
    <3>2. CASE rows' = rows
      BY <3>1, <3>2 DEF InRows
    <3>3. CASE rows' = Append(rows, Answer(message[q]))
      <4>1. \A u : InRows(u)' <=> InRows(u) \/ u = Answer(message[q])
        BY <1>0, <2>2, <3>3, RowAppended
      <4>2. QED
        BY <3>1, <4>1
    <3>4. QED
      BY <2>1, <3>2, <3>3
  <2>4. QED
    BY <1>0, <2>1, <2>3 DEF RefusedStayOut, Question
<1>4. ASSUME NEW q \in Requests, InsertQuestionFails(q)
      PROVE  RefusedStayOut'
  <2>1. /\ pc[q] \in BeforeQuestion /\ UNCHANGED <<rows, sent, message>>
        /\ refused' \in {refused, refused \cup {message[q]}}
        /\ pc' = [pc EXCEPT ![q] = AfterQuestion(q)]
    BY <1>4 DEF InsertQuestionFails, Goto, BeforeQuestion
  <2>2. message[q] \in sent /\ ~ InRows(Question(message[q]))
    BY <1>0, <2>1 DEF MessagesAreOwn, Asking, RowsAndChats
  <2>3. ASSUME NEW r \in Requests, pc'[r] \in BeforeQuestion
        PROVE  message[r] \notin refused'
    <3>1. r # q /\ pc[r] \in BeforeQuestion
      BY <1>0, <2>1, <2>3 DEF AfterQuestion, BeforeQuestion, TypeOK
    <3>2. message[r] # message[q]
      BY <1>0, <2>1, <3>1 DEF MessagesAreOwn, Asking
    <3>3. QED
      BY <1>0, <2>1, <3>1, <3>2 DEF RefusedStayOut
  <2>4. QED
    BY <1>0, <2>1, <2>2, <2>3 DEF RefusedStayOut, InRows, Question
<1>5. ASSUME rows' = rows, sent' = sent, refused' = refused,
             \A r \in Requests : pc'[r] \in BeforeQuestion =>
                 pc[r] \in BeforeQuestion /\ message'[r] = message[r]
      PROVE  RefusedStayOut'
  BY <1>0, <1>5 DEF RefusedStayOut, InRows, Question
<1>6. ASSUME NEW q \in Requests,
             \/ ChatReply(q) \/ StreamQuestion(q)
             \/ StreamCompletes(q) \/ StreamCompletesUnstored(q) \/ StreamAnswer(q)
             \/ OpenReport(q) \/ MissSession(q) \/ QueryRows(q)
             \/ \E o \in Objects : RestoreForReport(q, o)
      PROVE  RefusedStayOut'
  <2>1. /\ UNCHANGED <<rows, sent, refused, message>>
        /\ \/ pc[q] \in BeforeQuestion
           \/ \E p \in {"stream answer", "answer", "loading", "report", "restoring", "loaded"} :
                  pc' = [pc EXCEPT ![q] = p]
        /\ \A r \in Requests \ {q} : pc'[r] = pc[r]
    BY <1>0, <1>6 DEF ChatReply, StreamQuestion, StreamCompletes, StreamCompletesUnstored,
                StreamAnswer, OpenReport, MissSession, QueryRows, RestoreForReport, Goto, Open,
                BeforeQuestion, TypeOK
  <2>2. \A r \in Requests : pc'[r] \in BeforeQuestion => pc[r] \in BeforeQuestion
    BY <1>0, <2>1 DEF TypeOK, BeforeQuestion
  <2>3. QED
    BY <1>5, <2>1, <2>2
<1>7. ASSUME NEW q \in Requests,
             \/ StreamFails(q) \/ QueryNothing(q) \/ LoadRows(q)
             \/ \E o \in Objects : RestoreForUpload(q, o)
      PROVE  RefusedStayOut'
  <2>1. Finish(q) /\ UNCHANGED <<rows, sent, refused>>
    BY <1>7 DEF StreamFails, QueryNothing, LoadRows, RestoreForUpload
  <2>2. \A r \in Requests : pc'[r] \in BeforeQuestion =>
            pc[r] \in BeforeQuestion /\ message'[r] = message[r]
    BY <1>0, <2>1 DEF Finish, Goto, BeforeQuestion, TypeOK
  <2>3. QED
    BY <1>5, <2>1, <2>2
<1>8. ASSUME (\E q \in Requests : Disconnect(q)) \/ Sweep \/ UNCHANGED vars
      PROVE  RefusedStayOut'
  <2>1. UNCHANGED <<rows, sent, refused, pc, message>>
    BY <1>8 DEF Disconnect, Sweep, vars, requestVars
  <2>2. QED
    BY <1>5, <2>1
<1>9. CASE Restart
  <2>1. \A r \in Requests : pc'[r] \notin BeforeQuestion
    BY <1>9 DEF Restart, BeforeQuestion
  <2>2. QED
    BY <1>5, <1>9, <2>1 DEF Restart
<1>10. QED
  BY <1>1, <1>2, <1>3, <1>4, <1>6, <1>7, <1>8, <1>9 DEF Next, Step, Handle
-----------------------------------------------------------------------------
\* The table is a conversation: no turn is stored twice, and each answer follows its own
\* question or stands alone because the database refused the question of a client that
\* was still there, whatever requests overlap, fail, are cancelled or die with the server.
THEOREM TableIsAConversation == Spec => []AnswersFollowQuestions
<1>1. Init => IInv
  <2> SUFFICES ASSUME Init PROVE IInv
    OBVIOUS
  <2>1. TInv
    BY InitialTypes
  <2>2. RowsAndChats /\ RefusedStayOut /\ AnswersFollowQuestions
    BY DEF Init, RowsAndChats, RefusedStayOut, AnswersFollowQuestions, InRows, Asking, BeforeQuestion,
           AfterIt
  <2>3. QED
    BY <2>1, <2>2 DEF IInv
<1>2. IInv /\ [Next]_vars => IInv'
  BY TypeStep, RowsStep, RefusedStep DEF IInv
<1>3. IInv => AnswersFollowQuestions
  BY DEF IInv
<1>4. QED
  BY <1>1, <1>2, <1>3, PTL DEF Spec
-----------------------------------------------------------------------------
\* A chat that will store the slice it has read, when it is the only request, has read
\* what the history of its session is.
SlicesAreCurrent ==
    \A q \in Requests : pc[q] \in {"chat", "stream", "stream answer"} /\ held[q] \in Objects =>
        seen[q] = history[held[q]]

OneAtATime == \A q, r \in Requests : Busy(q) /\ Busy(r) => q = r

HInv == overlaps = {} => OneAtATime /\ SlicesAreCurrent

LEMMA ConcatExtends ==
    ASSUME NEW T, NEW s \in Seq(T), NEW t \in Seq(T)
    PROVE  IsPrefix(s, s \o t)
<1>1. Len(s) \in Nat /\ Len(t) \in Nat /\ Len(s \o t) = Len(s) + Len(t)
  BY ConcatProperties, LenProperties
<1>2. SubSeq(s, 1, Len(s)) = SubSeq(s \o t, 1, Len(s))
  <2>1. CASE Len(s) = 0
    BY <2>1, SubSeqEmpty
  <2>2. CASE Len(s) # 0
    <3>1. 1 \in 1..Len(s) /\ Len(s) \in 1..Len(s)
      BY <1>1, <2>2
    <3>2. QED
      BY <3>1, SubSeqOfConcat1
  <2>3. QED
    BY <2>1, <2>2
<1>3. QED
  BY <1>1, <1>2 DEF IsPrefix

LEMMA PrefixOfItself ==
    ASSUME NEW T, NEW s \in Seq(T)
    PROVE  IsPrefix(s, s)
BY LenProperties DEF IsPrefix

LEMMA NoOverlap == Overlapping = {} => OneAtATime
<1> SUFFICES ASSUME NEW q \in Requests, NEW r \in Requests, Busy(q), Busy(r), q # r
             PROVE  Overlapping # {}
  BY DEF OneAtATime
<1>1. q \in {p \in Requests : Busy(p) /\ \E other \in Requests \ {p} : Busy(other)}
  OBVIOUS
<1>2. "requests" \in Overlapping
  BY <1>1 DEF Overlapping
<1>3. QED
  BY <1>2

\* While requests do not overlap, a step of a request leaves all others idle.
LEMMA OthersAreIdle ==
    ASSUME OneAtATime, OneAtATime', NEW q \in Requests, NEW r \in Requests \ {q},
           Busy(q) \/ Busy(q)', pc'[r] = pc[r]
    PROVE  pc'[r] = "idle"
BY DEF OneAtATime, Busy

\* What a step does to the histories in use: it leaves them alone, or the step of q
\* gives the one of its session new turns.
HistoryStep(q, turns) ==
    \A o \in Objects : ~ Unreferenced(o)' =>
        history'[o] = IF o = held[q] THEN history[o] \o turns ELSE history[o]
HistoriesKept == \A o \in Objects : ~ Unreferenced(o)' => history'[o] = history[o]

LEMMA HistoryMoves ==
    ASSUME TInv, OneAtATime, SlicesAreCurrent, Step, ~ Restart
    PROVE  \/ HistoriesKept
           \/ \E q \in Requests, turns \in Seq(Turns) : HistoryStep(q, turns)
<1>0. TypeOK
  BY DEF TInv
<1>1. ASSUME NEW q \in Requests, ChatReply(q)
      PROVE  \E turns \in Seq(Turns) : HistoryStep(q, turns)
  <2> DEFINE turns == <<Question(message[q]), Answer(message[q])>>
  <2>1. message[q] \in Messages
    BY <1>0, <1>1 DEF ChatReply, TInv, MessagesAreOwn, Asking, BeforeQuestion, TypeOK
  <2>2. <<>> \in Seq(Turns)
    BY EmptySeq
  <2>3. turns \in Seq(Turns)
    <3>1. Question(message[q]) \in Turns /\ Answer(message[q]) \in Turns
      BY <2>1, TurnsOfMessages
    <3>2. turns \in [1..2 -> Turns]
      BY <3>1
    <3>3. QED
      BY <3>2, SeqDef
  <2>4. HistoryStep(q, turns)
    BY <1>0, <1>1 DEF ChatReply, StoreHistory, HistoryStep, SlicesAreCurrent
  <2>5. QED
    BY <2>3, <2>4
<1>2. ASSUME NEW q \in Requests, StreamQuestion(q) \/ StreamAnswer(q)
      PROVE  \E turns \in Seq(Turns) : HistoryStep(q, turns)
  <2>1. message[q] \in Messages
    BY <1>0, <1>2
       DEF StreamQuestion, StreamAnswer, TInv, MessagesAreOwn, Asking, BeforeQuestion, AfterIt, TypeOK
  <2>2. PICK t \in Turns : StoreHistory(held[q], Append(seen[q], t))
    BY <1>2, <2>1, TurnsOfMessages DEF StreamQuestion, StreamAnswer
  <2>3. <<t>> \in Seq(Turns) /\ Append(seen[q], t) = seen[q] \o <<t>>
    <3>1. seen[q] \in Seq(Turns)
      BY <1>0 DEF TypeOK
    <3>2. <<t>> \in [1..1 -> Turns]
      OBVIOUS
    <3>3. <<t>> \in Seq(Turns)
      BY <3>2, SeqDef
    <3>4. QED
      BY <3>1, <3>3, AppendIsConcat
  <2>4. StoreHistory(held[q], seen[q] \o <<t>>)
    BY <2>2, <2>3
  <2>5. pc[q] \in {"stream", "stream answer"}
    BY <1>2 DEF StreamQuestion, StreamAnswer
  <2>6. HistoryStep(q, <<t>>)
    BY <1>0, <2>4, <2>5 DEF StoreHistory, HistoryStep, SlicesAreCurrent
  <2>7. QED
    BY <2>3, <2>6
<1>3. ASSUME NEW q \in Requests, LoadRows(q)
      PROVE  \E turns \in Seq(Turns) : HistoryStep(q, turns)
  <2>1. HistoryStep(q, seen[q])
    BY <1>0, <1>3 DEF LoadRows, StoreHistory, HistoryStep
  <2>2. QED
    BY <1>0, <2>1 DEF TypeOK
<1>4. ASSUME history' = history \/ KeepHistory
      PROVE  HistoriesKept
  BY <1>4 DEF KeepHistory, HistoriesKept
<1>5. ASSUME NEW q \in Requests, Handle(q), ~ ChatReply(q), ~ StreamQuestion(q), ~ StreamAnswer(q),
             ~ LoadRows(q)
      PROVE  history' = history \/ KeepHistory
  BY <1>5 DEF Handle, InsertQuestion, InsertQuestionFails, StreamCompletes, StreamCompletesUnstored,
         StreamFails, InsertAnswer, OpenReport, MissSession, QueryRows, QueryNothing,
         RestoreForReport, RestoreForUpload
<1>6. ASSUME NEW q \in Requests, Disconnect(q) \/ (\E m \in Messages, kind \in {"chat", "stream"} : Ask(q, m, kind))
      PROVE  history' = history
  BY <1>6 DEF Disconnect, Ask
<1>7. Sweep => KeepHistory
  BY DEF Sweep
<1>8. QED
  BY <1>1, <1>2, <1>3, <1>4, <1>5, <1>6, <1>7 DEF Step

LEMMA SlicesStep == TInv /\ HInv /\ [Next]_vars => HInv'
<1> SUFFICES ASSUME TInv, HInv, [Next]_vars, overlaps' = {}
             PROVE  OneAtATime' /\ SlicesAreCurrent'
  BY DEF HInv
<1>0. TypeOK
  BY DEF TInv
<1>1. CASE UNCHANGED vars
  BY <1>1 DEF vars, requestVars, HInv, OneAtATime, SlicesAreCurrent, Busy
<1>2. CASE Next
  <2>1. Step /\ overlaps' = overlaps \cup Overlapping'
    BY <1>2 DEF Next
  <2>2. overlaps = {} /\ Overlapping' = {}
    BY <2>1
  <2>3. OneAtATime /\ SlicesAreCurrent
    BY <2>2 DEF HInv
  <2>4. OneAtATime'
    <3>1. (Overlapping = {})' => OneAtATime'
      BY NoOverlap, PTL
    <3>2. QED
      BY <2>2, <3>1
  <2> DEFINE Reading == {"chat", "stream", "stream answer"}
  <2>5. ASSUME NEW q \in Requests, Busy(q) \/ Busy(q)',
               \A r \in Requests \ {q} : pc'[r] = pc[r],
               pc'[q] \notin Reading
        PROVE  SlicesAreCurrent'
    BY <2>3, <2>4, <2>5, OthersAreIdle DEF SlicesAreCurrent
  <2>6. ASSUME NEW q \in Requests, Busy(q) \/ Busy(q)', Open(q, session), session' = session,
               \A r \in Requests \ {q} : pc'[r] = pc[r],
               history' = history \/ KeepHistory
        PROVE  SlicesAreCurrent'
    <3>1. held'[q] = session /\ seen'[q] = history[session]
      BY <1>0, <2>6 DEF Open, TypeOK
    <3>2. session \in Objects => history'[session] = history[session]
      BY <2>6 DEF KeepHistory, Unreferenced
    <3>3. QED
      BY <2>3, <2>4, <2>6, <3>1, <3>2, OthersAreIdle DEF SlicesAreCurrent
  <2>7. ASSUME NEW q \in Requests, NEW m \in Messages, NEW kind \in {"chat", "stream"}, Ask(q, m, kind)
        PROVE  SlicesAreCurrent'
    <3>1. pc'[q] = kind /\ \A r \in Requests \ {q} : pc'[r] = pc[r]
      BY <1>0, <2>7 DEF Ask, Goto, TypeOK
    <3>2. Open(q, session) /\ UNCHANGED <<session, history>>
      BY <2>7 DEF Ask
    <3>3. QED
      BY <2>6, <3>1, <3>2 DEF Busy
  <2>8. ASSUME NEW q \in Requests, StreamCompletes(q)
        PROVE  SlicesAreCurrent'
    <3>1. pc'[q] = "stream answer" /\ \A r \in Requests \ {q} : pc'[r] = pc[r]
      BY <1>0, <2>8 DEF StreamCompletes, Goto, TypeOK
    <3>2. QED
      BY <2>6, <2>8, <3>1 DEF Busy, StreamCompletes
  <2>9. ASSUME NEW q \in Requests, Handle(q), ~ StreamCompletes(q)
        PROVE  SlicesAreCurrent'
    <3>1. ASSUME NEW p \in Positions \ Reading, Goto(q, p), Busy(q) \/ p # "idle"
          PROVE  SlicesAreCurrent'
      <4>1. pc'[q] = p /\ \A r \in Requests \ {q} : pc'[r] = pc[r]
        BY <1>0, <3>1 DEF TypeOK, Goto
      <4>2. QED
        BY <2>5, <3>1, <4>1 DEF Busy
    <3>2. CASE ChatReply(q) \/ StreamQuestion(q) \/ StreamCompletesUnstored(q) \/ StreamAnswer(q)
      BY <3>1, <3>2 DEF ChatReply, StreamQuestion, StreamCompletesUnstored, StreamAnswer, Positions
    <3>3. CASE InsertQuestion(q) \/ InsertQuestionFails(q)
      BY <3>1, <3>3 DEF InsertQuestion, InsertQuestionFails, AfterQuestion, Positions
    <3>4. CASE Finish(q) /\ Busy(q)
      BY <3>1, <3>4 DEF Finish, Positions
    <3>5. CASE OpenReport(q) \/ MissSession(q) \/ QueryRows(q) \/ \E o \in Objects : RestoreForReport(q, o)
      BY <3>1, <3>5 DEF OpenReport, MissSession, QueryRows, RestoreForReport, Positions
    <3>6. StreamFails(q) \/ InsertAnswer(q) \/ QueryNothing(q) \/ LoadRows(q)
            \/ (\E o \in Objects : RestoreForUpload(q, o)) => Finish(q) /\ Busy(q)
      BY DEF StreamFails, InsertAnswer, QueryNothing, LoadRows, RestoreForUpload, Busy
    <3>7. QED
      BY <2>9, <3>2, <3>3, <3>4, <3>5, <3>6 DEF Handle
  <2>10. ASSUME NEW q \in Requests, Disconnect(q)
         PROVE  SlicesAreCurrent'
    BY <2>3, <2>10 DEF Disconnect, SlicesAreCurrent
  <2>11. CASE Sweep
    <3>1. UNCHANGED <<pc, held, seen>> /\ KeepHistory
      BY <2>11 DEF Sweep, requestVars
    <3>2. \A q \in Requests : held[q] \in Objects => history'[held[q]] = history[held[q]]
      BY <3>1 DEF KeepHistory, Unreferenced
    <3>3. QED
      BY <2>3, <2>4, <3>1, <3>2 DEF SlicesAreCurrent
  <2>12. CASE Restart
    BY <2>4, <2>12 DEF Restart, SlicesAreCurrent
  <2>13. QED
    BY <2>1, <2>4, <2>7, <2>8, <2>9, <2>10, <2>11, <2>12 DEF Step
<1>3. QED
  BY <1>1, <1>2
-----------------------------------------------------------------------------
\* While requests do not overlap, no turn leaves the history of a session that is in
\* use or changes its place, however chats, reports, sweeps and cancellations alternate:
\* the slice a handler stores extends the one that is there.
THEOREM HistoriesOnlyGrow == Spec => HistoriesGrow
<1>1. Init => TInv /\ HInv
  <2>1. Init => OneAtATime /\ SlicesAreCurrent
    BY DEF Init, OneAtATime, SlicesAreCurrent, Busy
  <2>2. QED
    BY <2>1, InitialTypes DEF HInv
<1>2. TInv /\ HInv /\ [Next]_vars => TInv' /\ HInv'
  BY TypeStep, SlicesStep
<1>3. ASSUME TInv, HInv, Next, overlaps' = {},
             NEW o \in Objects, ~ Unreferenced(o), ~ Unreferenced(o)'
      PROVE  IsPrefix(history[o], history'[o])
  <2>1. Step /\ OneAtATime /\ SlicesAreCurrent
    BY <1>3 DEF Next, HInv
  <2>2. history[o] \in Seq(Turns)
    BY <1>3 DEF TInv, TypeOK
  <2>3. ~ Restart
    BY <1>3, ChatAssumption DEF Restart, Unreferenced
  <2>4. CASE HistoriesKept
    BY <1>3, <2>2, <2>4, PrefixOfItself DEF HistoriesKept
  <2>5. ASSUME NEW q \in Requests, NEW turns \in Seq(Turns), HistoryStep(q, turns)
        PROVE  IsPrefix(history[o], history'[o])
    BY <1>3, <2>2, <2>5, PrefixOfItself, ConcatExtends DEF HistoryStep
  <2>6. QED
    BY <1>3, <2>1, <2>3, <2>4, <2>5, HistoryMoves
<1>4. TInv /\ HInv /\ [Next]_vars =>
        [overlaps' = {} => \A o \in Objects : ~ Unreferenced(o) /\ ~ Unreferenced(o)' =>
                               IsPrefix(history[o], history'[o])]_vars
  BY <1>3
<1>5. QED
  BY <1>1, <1>2, <1>4, PTL DEF Spec, HistoriesGrow
-----------------------------------------------------------------------------
Lacks(s, t) == \A i \in 1..Len(s) : s[i] # t

Unanswered == {"chat", "stream", "stream question", "streaming", "stream answer"}

\* A slice that has each turn once, of messages that were sent, no answer that a chat
\* will store, and no question that a chat will store; the chats are at the given
\* positions with the given messages.
FitsChats(s, messages, position, own) ==
    /\ s \in Seq(Turns) /\ IsInjective(s)
    /\ \A i \in 1..Len(s) : s[i].message \in messages
    /\ \A r \in Requests :
          /\ position[r] \in Unanswered => Lacks(s, Answer(own[r]))
          /\ position[r] \in {"chat", "stream"} => Lacks(s, Question(own[r]))

SlicesFit == /\ \A o \in Objects : FitsChats(history[o], sent, pc, message)
             /\ \A q \in Requests : FitsChats(seen[q], sent, pc, message)

\* A new session starts with an empty history.
FreeAreEmpty == \A o \in Objects : Unreferenced(o) => history[o] = <<>>

\* An idle request refers to no session.
IdleHoldNothing == \A q \in Requests : pc[q] = "idle" => held[q] = NoSession

\* A report that loads turns is the only request, and loads them into an empty history.
LoadsAlone == \A q \in Requests : Loads(q) => \A r \in Requests \ {q} : ~ Busy(r)
LoadsIntoEmpty ==
    \A q \in Requests : pc[q] \in {"loading", "loaded"} /\ held[q] \in Objects => history[held[q]] = <<>>

LInv == IdleHoldNothing /\ FreeAreEmpty
        /\ ("load" \notin overlaps => LoadsAlone /\ LoadsIntoEmpty /\ SlicesFit)

\* Chats that go on leave a slice as fitting as it was.
LEMMA FitStays ==
    ASSUME NEW s, NEW messages, NEW position, NEW own, NEW later, NEW moved, NEW theirs,
           FitsChats(s, messages, position, own), messages \subseteq later,
           \A r \in Requests : /\ moved[r] \in Unanswered => position[r] \in Unanswered /\ theirs[r] = own[r]
                               /\ moved[r] \in {"chat", "stream"} => position[r] \in {"chat", "stream"}
    PROVE  FitsChats(s, later, moved, theirs)
<1>1. ASSUME NEW r \in Requests
      PROVE  /\ moved[r] \in Unanswered => Lacks(s, Answer(theirs[r]))
             /\ moved[r] \in {"chat", "stream"} => Lacks(s, Question(theirs[r]))
  <2>1. moved[r] \in {"chat", "stream"} => moved[r] \in Unanswered
    BY DEF Unanswered
  <2>2. /\ position[r] \in Unanswered => Lacks(s, Answer(own[r]))
        /\ position[r] \in {"chat", "stream"} => Lacks(s, Question(own[r]))
    BY DEF FitsChats
  <2>3. QED
    BY <2>1, <2>2
<1>2. /\ s \in Seq(Turns) /\ IsInjective(s)
      /\ \A i \in 1..Len(s) : s[i].message \in later
  BY DEF FitsChats
<1>3. QED
  BY <1>1, <1>2 DEF FitsChats

\* The empty slice fits.
LEMMA EmptyFits ==
    ASSUME NEW messages, NEW position, NEW own
    PROVE  FitsChats(<<>>, messages, position, own)
BY EmptySeq DEF FitsChats, IsInjective, Lacks

\* A new turn that no chat will store fits a slice that lacks it.
LEMMA FitGrows ==
    ASSUME NEW s, NEW messages, NEW position, NEW own, NEW t \in Turns,
           FitsChats(s, messages, position, own), Lacks(s, t), t.message \in messages,
           \A r \in Requests : /\ position[r] \in Unanswered => t # Answer(own[r])
                               /\ position[r] \in {"chat", "stream"} => t # Question(own[r])
    PROVE  FitsChats(Append(s, t), messages, position, own)
<1> DEFINE u == Append(s, t)
<1>1. /\ u \in Seq(Turns) /\ Len(u) = Len(s) + 1 /\ Len(s) \in Nat
      /\ \A i \in 1..Len(s) : u[i] = s[i]
      /\ u[Len(s) + 1] = t
      /\ DOMAIN u = 1..Len(u) /\ DOMAIN s = 1..Len(s)
  BY AppendProperties, LenProperties DEF FitsChats
<1>2. \A i \in 1..Len(u) : i \in 1..Len(s) \/ i = Len(s) + 1
  BY <1>1
<1> HIDE DEF u
<1>3. IsInjective(u)
  <2>1. \A a, b \in 1..Len(s) : s[a] = s[b] => a = b
    BY <1>1 DEF FitsChats, IsInjective
  <2>2. \A a, b \in 1..Len(u) : u[a] = u[b] => a = b
    BY <1>1, <1>2, <2>1 DEF Lacks
  <2>3. QED
    BY <1>1, <2>2 DEF IsInjective
<1>4. \A i \in 1..Len(u) : u[i].message \in messages
  BY <1>1, <1>2 DEF FitsChats
<1>5. \A v : Lacks(s, v) /\ t # v => Lacks(u, v)
  BY <1>1, <1>2 DEF Lacks
<1>6. QED
  BY <1>1, <1>3, <1>4, <1>5 DEF FitsChats, u

LEMMA ConcatOfTwo ==
    ASSUME NEW T, NEW s \in Seq(T), NEW a \in T, NEW b \in T
    PROVE  s \o <<a, b>> = Append(Append(s, a), b)
<1> DEFINE u == s \o <<a, b>>
           v == Append(Append(s, a), b)
<1>1. <<a, b>> \in Seq(T) /\ Len(<<a, b>>) = 2 /\ <<a, b>>[1] = a /\ <<a, b>>[2] = b
  <2>1. <<a, b>> \in [1..2 -> T]
    OBVIOUS
  <2>2. QED
    BY <2>1, SeqDef
<1>2. u \in Seq(T) /\ v \in Seq(T) /\ Len(s) \in Nat
  BY <1>1, ConcatProperties, AppendProperties, LenProperties
<1>3. Len(u) = Len(s) + 2 /\ Len(v) = Len(s) + 2
  BY <1>1, <1>2, ConcatProperties, AppendProperties
<1>4. ASSUME NEW i \in 1..Len(u)
      PROVE  u[i] = v[i]
  <2>1. u[i] = IF i <= Len(s) THEN s[i] ELSE <<a, b>>[i - Len(s)]
    BY <1>1, <1>3, <1>4, ConcatProperties
  <2>2. CASE i \in 1..Len(s)
    <3>1. Append(s, a)[i] = s[i] /\ i \in 1..Len(Append(s, a)) /\ Append(s, a) \in Seq(T)
      BY <1>2, <2>2, AppendProperties
    <3>2. v[i] = Append(s, a)[i]
      BY <3>1, AppendProperties
    <3>3. QED
      BY <2>1, <2>2, <3>1, <3>2
  <2>3. CASE i = Len(s) + 1
    <3>1. Append(s, a)[i] = a /\ i \in 1..Len(Append(s, a)) /\ Append(s, a) \in Seq(T)
      BY <1>2, <2>3, AppendProperties
    <3>2. v[i] = a
      BY <3>1, AppendProperties
    <3>3. QED
      BY <1>1, <1>2, <2>1, <2>3, <3>2
  <2>4. CASE i = Len(s) + 2
    <3>1. Append(s, a) \in Seq(T) /\ Len(Append(s, a)) = Len(s) + 1
      BY AppendProperties
    <3>2. v[i] = b
      BY <1>2, <2>4, <3>1, AppendProperties
    <3>3. QED
      BY <1>1, <1>2, <2>1, <2>4, <3>2
  <2>5. QED
    BY <1>2, <1>3, <2>2, <2>3, <2>4
<1>5. QED
  BY <1>2, <1>3, <1>4, SeqEqual

\* A load that overlaps with nothing.
LEMMA NoLoadOverlap == "load" \notin Overlapping => LoadsAlone
<1> SUFFICES ASSUME NEW q \in Requests, Loads(q), NEW r \in Requests \ {q}, Busy(r)
             PROVE  "load" \in Overlapping
  BY DEF LoadsAlone
<1>1. q \in {p \in Requests : Busy(p) /\ \E other \in Requests \ {p} : Busy(other)}
  BY DEF Loads, Busy
<1>2. "load" \in {"requests"} \cup (IF Loads(q) THEN {"load"} ELSE {})
  OBVIOUS
<1>3. QED
  BY <1>1, <1>2 DEF Overlapping

LEMMA IdleStayFree == TypeOK /\ IdleHoldNothing /\ [Next]_vars => IdleHoldNothing'
<1> SUFFICES ASSUME TypeOK, IdleHoldNothing, [Next]_vars
             PROVE  IdleHoldNothing'
  OBVIOUS
<1>1. ASSUME NEW q \in Requests, Finish(q)
      PROVE  IdleHoldNothing'
  BY <1>1 DEF Finish, Goto, TypeOK, IdleHoldNothing
<1>2. ASSUME NEW q \in Requests, NEW p \in Positions \ {"idle"}, Goto(q, p),
             \A r \in Requests \ {q} : held'[r] = held[r]
      PROVE  IdleHoldNothing'
  BY <1>2 DEF Goto, TypeOK, IdleHoldNothing
<1>3. ASSUME NEW q \in Requests, Handle(q), ~ Finish(q)
      PROVE  IdleHoldNothing'
  <2>1. PICK p \in Positions \ {"idle"} : Goto(q, p)
    <3>1. CASE ChatReply(q) \/ StreamQuestion(q) \/ StreamCompletesUnstored(q) \/ StreamAnswer(q)
      BY <3>1 DEF ChatReply, StreamQuestion, StreamCompletesUnstored, StreamAnswer, Positions
    <3>2. CASE InsertQuestion(q) \/ InsertQuestionFails(q)
      BY <3>2 DEF InsertQuestion, InsertQuestionFails, AfterQuestion, Positions
    <3>3. CASE StreamCompletes(q) \/ OpenReport(q) \/ MissSession(q) \/ QueryRows(q)
      BY <3>3 DEF StreamCompletes, OpenReport, MissSession, QueryRows, Positions
    <3>4. CASE \E o \in Objects : RestoreForReport(q, o)
      BY <3>4 DEF RestoreForReport, Positions
    <3>5. QED
      BY <1>3, <3>1, <3>2, <3>3, <3>4 DEF Handle, StreamFails, InsertAnswer, QueryNothing, LoadRows,
                                          RestoreForUpload
  <2>2. UNCHANGED held \/ \E o : held' = [held EXCEPT ![q] = o]
    BY <1>3 DEF Handle, ChatReply, StreamQuestion, InsertQuestion, InsertQuestionFails, StreamCompletes,
           StreamCompletesUnstored, StreamFails, StreamAnswer, InsertAnswer, OpenReport, MissSession,
           QueryRows, QueryNothing, LoadRows, RestoreForReport, RestoreForUpload, Open
  <2>3. \A r \in Requests \ {q} : held'[r] = held[r]
    BY <2>2 DEF TypeOK
  <2>4. QED
    BY <1>2, <2>1, <2>3
<1>4. ASSUME NEW q \in Requests, NEW m \in Messages, NEW kind \in {"chat", "stream"}, Ask(q, m, kind)
      PROVE  IdleHoldNothing'
  <2>1. Goto(q, kind) /\ kind \in Positions \ {"idle"} /\ held' = [held EXCEPT ![q] = session]
    BY <1>4 DEF Ask, Open, Positions
  <2>2. QED
    BY <1>2, <2>1
<1>5. ASSUME UNCHANGED <<pc, held>>
      PROVE  IdleHoldNothing'
  BY <1>5 DEF IdleHoldNothing
<1>6. Restart => IdleHoldNothing'
  BY DEF Restart, IdleHoldNothing
<1>7. QED
  BY <1>1, <1>3, <1>4, <1>5, <1>6 DEF Next, Step, Disconnect, Sweep, requestVars, vars

LEMMA FreeStayEmpty == TypeOK /\ IdleHoldNothing /\ FreeAreEmpty /\ [Next]_vars => FreeAreEmpty'
<1> SUFFICES ASSUME TypeOK, IdleHoldNothing, FreeAreEmpty, [Next]_vars
             PROVE  FreeAreEmpty'
  OBVIOUS
<1> USE ChatAssumption
<1>1. ASSUME KeepHistory
      PROVE  FreeAreEmpty'
  BY <1>1 DEF KeepHistory, FreeAreEmpty, Unreferenced
<1>2. ASSUME NEW o, NEW h, StoreHistory(o, h)
      PROVE  FreeAreEmpty'
  BY <1>2 DEF StoreHistory, FreeAreEmpty, Unreferenced
<1>3. ASSUME history' = history, session' = session,
             \A q \in Requests : held'[q] = held[q] \/ held[q] = NoSession
      PROVE  FreeAreEmpty'
  BY <1>3 DEF FreeAreEmpty, Unreferenced
<1>4. ASSUME NEW q \in Requests, ChatReply(q) \/ StreamQuestion(q) \/ StreamAnswer(q) \/ LoadRows(q)
      PROVE  FreeAreEmpty'
  <2>1. CASE ChatReply(q)
    BY <1>2, <2>1 DEF ChatReply
  <2>2. CASE StreamQuestion(q)
    BY <1>2, <2>2 DEF StreamQuestion
  <2>3. CASE StreamAnswer(q)
    BY <1>2, <2>3 DEF StreamAnswer
  <2>4. CASE LoadRows(q)
    BY <1>2, <2>4 DEF LoadRows
  <2>5. QED
    BY <1>4, <2>1, <2>2, <2>3, <2>4
<1>5. ASSUME NEW q \in Requests,
             \/ StreamCompletes(q) \/ StreamFails(q) \/ InsertAnswer(q) \/ QueryNothing(q)
             \/ \E o \in Objects : RestoreForReport(q, o) \/ RestoreForUpload(q, o)
      PROVE  FreeAreEmpty'
  <2>1. KeepHistory
    BY <1>5 DEF StreamCompletes, StreamFails, InsertAnswer, QueryNothing, RestoreForReport, RestoreForUpload
  <2>2. QED
    BY <1>1, <2>1
<1>6. ASSUME UNCHANGED <<history, session, held>>
      PROVE  FreeAreEmpty'
  BY <1>3, <1>6
<1>7. ASSUME NEW q \in Requests,
             \/ InsertQuestion(q) \/ InsertQuestionFails(q) \/ StreamCompletesUnstored(q)
             \/ MissSession(q) \/ QueryRows(q) \/ Disconnect(q)
      PROVE  FreeAreEmpty'
  <2>1. CASE InsertQuestion(q)
    BY <1>6, <2>1 DEF InsertQuestion
  <2>2. CASE InsertQuestionFails(q)
    BY <1>6, <2>2 DEF InsertQuestionFails
  <2>3. CASE StreamCompletesUnstored(q)
    BY <1>6, <2>3 DEF StreamCompletesUnstored
  <2>4. CASE MissSession(q)
    BY <1>6, <2>4 DEF MissSession
  <2>5. CASE QueryRows(q)
    BY <1>6, <2>5 DEF QueryRows
  <2>6. CASE Disconnect(q)
    BY <1>6, <2>6 DEF Disconnect
  <2>7. QED
    BY <1>7, <2>1, <2>2, <2>3, <2>4, <2>5, <2>6
<1>8. ASSUME NEW q \in Requests,
             OpenReport(q) \/ \E m \in Messages, kind \in {"chat", "stream"} : Ask(q, m, kind)
      PROVE  FreeAreEmpty'
  <2>1. /\ pc[q] = "idle" /\ UNCHANGED <<history, session>>
        /\ held' = [held EXCEPT ![q] = session]
    BY <1>8 DEF OpenReport, Ask, Open
  <2>2. \A r \in Requests : held'[r] = held[r] \/ held[r] = NoSession
    BY <2>1 DEF TypeOK, IdleHoldNothing
  <2>3. QED
    BY <1>3, <2>1, <2>2
<1>9. Restart => FreeAreEmpty'
  BY DEF Restart, FreeAreEmpty
<1>10. QED
  BY <1>1, <1>4, <1>5, <1>6, <1>7, <1>8, <1>9 DEF Next, Step, Handle, Sweep, vars, requestVars

\* A step of a request while a report loads is a step of that report.
LEMMA LoaderSteps ==
    ASSUME LoadsAlone, NEW q \in Requests, Busy(q) \/ Busy(q)', LoadsAlone',
           \A r \in Requests \ {q} : pc'[r] = pc[r],
           NEW r \in Requests, Loads(r)'
    PROVE  r = q
<1> SUFFICES ASSUME r # q PROVE FALSE
  OBVIOUS
<1>1. Loads(r)
  BY DEF Loads
<1>2. ~ Busy(q) /\ ~ Busy(q)'
  BY <1>1 DEF LoadsAlone
<1>3. QED
  BY <1>2

\* A step of a request keeps what is loaded going into an empty history.
LEMMA StillEmpty ==
    ASSUME TypeOK, IdleHoldNothing, FreeAreEmpty, LoadsAlone, LoadsAlone', LoadsIntoEmpty, Step
    PROVE  LoadsIntoEmpty'
<1> USE ChatAssumption
<1>1. ASSUME NEW q \in Requests, Busy(q) \/ Busy(q)', NEW p, Goto(q, p), p \notin {"loading", "loaded"}
      PROVE  LoadsIntoEmpty'
  <2>1. pc'[q] \notin {"loading", "loaded"} /\ \A r \in Requests \ {q} : pc'[r] = pc[r]
    BY <1>1 DEF Goto, TypeOK
  <2>2. \A r \in Requests : pc'[r] \in {"loading", "loaded"} => r = q
    BY <1>1, <2>1, LoaderSteps DEF Loads
  <2>3. QED
    BY <2>1, <2>2 DEF LoadsIntoEmpty
<1>2. ASSUME NEW q \in Requests, Busy(q) \/ Busy(q)', NEW p, Goto(q, p),
             held'[q] \in Objects => history'[held'[q]] = <<>>
      PROVE  LoadsIntoEmpty'
  <2>1. \A r \in Requests \ {q} : pc'[r] = pc[r]
    BY <1>2 DEF Goto, TypeOK
  <2>2. \A r \in Requests : pc'[r] \in {"loading", "loaded"} => r = q
    BY <1>2, <2>1, LoaderSteps DEF Loads
  <2>3. QED
    BY <1>2, <2>2 DEF LoadsIntoEmpty
<1>3. ASSUME NEW q \in Requests,
             \/ ChatReply(q) \/ StreamQuestion(q) \/ StreamCompletes(q)
             \/ StreamCompletesUnstored(q) \/ StreamAnswer(q)
      PROVE  LoadsIntoEmpty'
  <2>1. PICK p : Goto(q, p) /\ p \notin {"loading", "loaded"} /\ Busy(q)
    BY <1>3 DEF ChatReply, StreamQuestion, StreamCompletes, StreamCompletesUnstored, StreamAnswer, Busy
  <2>2. QED
    BY <1>1, <2>1
<1>4. ASSUME NEW q \in Requests, InsertQuestion(q) \/ InsertQuestionFails(q)
      PROVE  LoadsIntoEmpty'
  <2>1. Goto(q, AfterQuestion(q)) /\ AfterQuestion(q) \notin {"loading", "loaded"} /\ Busy(q)
    BY <1>4 DEF InsertQuestion, InsertQuestionFails, AfterQuestion, Busy
  <2>2. QED
    BY <1>1, <2>1
<1>5. ASSUME NEW q \in Requests, Finish(q), Busy(q)
      PROVE  LoadsIntoEmpty'
  BY <1>1, <1>5 DEF Finish
<1>6. ASSUME NEW q \in Requests,
             \/ StreamFails(q) \/ InsertAnswer(q) \/ QueryNothing(q) \/ LoadRows(q)
             \/ \E o \in Objects : RestoreForUpload(q, o)
      PROVE  LoadsIntoEmpty'
  <2>1. Finish(q) /\ Busy(q)
    BY <1>6 DEF StreamFails, InsertAnswer, QueryNothing, LoadRows, RestoreForUpload, Busy
  <2>2. QED
    BY <1>5, <2>1
<1>7. ASSUME NEW q \in Requests, OpenReport(q)
      PROVE  LoadsIntoEmpty'
  <2>1. Goto(q, "loading") /\ held'[q] = session /\ history' = history /\ history[session] = <<>>
    BY <1>7 DEF OpenReport, Open, TypeOK
  <2>2. Busy(q)'
    BY <2>1 DEF Busy, Goto, TypeOK
  <2>3. QED
    BY <1>2, <2>1, <2>2
<1>8. ASSUME NEW q \in Requests, MissSession(q)
      PROVE  LoadsIntoEmpty'
  <2>1. PICK p \in {"report", "restoring"} : Goto(q, p)
    BY <1>8 DEF MissSession
  <2>2. Busy(q)'
    BY <2>1 DEF Busy, Goto, TypeOK
  <2>3. QED
    BY <1>1, <2>1, <2>2
<1>9. ASSUME NEW q \in Requests, QueryRows(q)
      PROVE  LoadsIntoEmpty'
  <2>1. Goto(q, "loaded") /\ Busy(q) /\ UNCHANGED <<held, history>> /\ pc[q] = "loading"
    BY <1>9 DEF QueryRows, Busy
  <2>2. held[q] \in Objects => history[held[q]] = <<>>
    BY <2>1 DEF LoadsIntoEmpty
  <2>3. QED
    BY <1>2, <2>1, <2>2
<1>10. ASSUME NEW q \in Requests, NEW o \in Objects, RestoreForReport(q, o)
       PROVE  LoadsIntoEmpty'
  <2>1. /\ Goto(q, "loading") /\ Busy(q) /\ held'[q] = o /\ Unreferenced(o)
        /\ KeepHistory
    BY <1>10 DEF RestoreForReport, Open, Busy, TypeOK
  <2>2. history'[o] = <<>>
    BY <2>1 DEF FreeAreEmpty, KeepHistory
  <2>3. QED
    BY <1>2, <2>1, <2>2
<1>11. ASSUME NEW q \in Requests, NEW m \in Messages, NEW kind \in {"chat", "stream"}, Ask(q, m, kind)
       PROVE  LoadsIntoEmpty'
  <2>1. Goto(q, kind)
    BY <1>11 DEF Ask
  <2>2. Busy(q)'
    BY <2>1 DEF Busy, Goto, TypeOK
  <2>3. QED
    BY <1>1, <2>1, <2>2
<1>12. ASSUME NEW q \in Requests, Disconnect(q)
       PROVE  LoadsIntoEmpty'
  BY <1>12 DEF Disconnect, LoadsIntoEmpty
<1>13. CASE Sweep
  BY <1>13 DEF Sweep, requestVars, KeepHistory, LoadsIntoEmpty
<1>14. CASE Restart
  BY <1>14 DEF Restart, LoadsIntoEmpty
<1>15. QED
  BY <1>3, <1>4, <1>6, <1>7, <1>8, <1>9, <1>10, <1>11, <1>12, <1>13, <1>14 DEF Step, Handle

\* The slices that are there fit the chats as they are after the step.
StillFit == /\ \A o \in Objects : FitsChats(history[o], sent', pc', message')
            /\ \A q \in Requests : FitsChats(seen[q], sent', pc', message')

\* Request q moves on to p, and does not begin a chat.
GoesOn(q, p) ==
    /\ Goto(q, p) /\ sent' = sent
    /\ \A r \in Requests \ {q} : message'[r] = message[r]
    /\ p \in Unanswered => pc[q] \in Unanswered /\ message'[q] = message[q]
    /\ p \in {"chat", "stream"} => pc[q] \in {"chat", "stream"}

LEMMA ChatsGoOn ==
    ASSUME TypeOK, SlicesFit, NEW q \in Requests, NEW p, GoesOn(q, p)
    PROVE  StillFit
<1>1. \A r \in Requests : /\ pc'[r] \in Unanswered => pc[r] \in Unanswered /\ message'[r] = message[r]
                          /\ pc'[r] \in {"chat", "stream"} => pc[r] \in {"chat", "stream"}
  BY DEF GoesOn, Goto, TypeOK
<1>2. sent \subseteq sent'
  BY DEF GoesOn
<1>3. QED
  BY <1>1, <1>2, FitStays DEF StillFit, SlicesFit

\* Slices that are kept, copied or dropped.
LEMMA SlicesMove ==
    ASSUME TypeOK, TypeOK', StillFit,
           history' = history \/ KeepHistory,
           NEW q \in Requests, \A r \in Requests \ {q} : seen'[r] = seen[r],
           seen'[q] \in {seen[q], <<>>} \/ \E o \in Objects : seen'[q] = history[o]
    PROVE  SlicesFit'
<1>1. \A o \in Objects : history'[o] \in {history[o], <<>>}
  BY DEF KeepHistory
<1>2. FitsChats(<<>>, sent', pc', message')
  BY EmptyFits
<1>3. \A o \in Objects : FitsChats(history'[o], sent', pc', message')
  BY <1>1, <1>2 DEF StillFit
<1>4. \A r \in Requests : FitsChats(seen'[r], sent', pc', message')
  BY <1>2 DEF StillFit
<1>5. QED
  BY <1>3, <1>4 DEF SlicesFit

\* One slice is stored.
LEMMA SliceStored ==
    ASSUME TypeOK, StillFit, NEW q \in Requests, NEW h, StoreHistory(held[q], h),
           held[q] \in Objects => FitsChats(h, sent', pc', message'),
           \A r \in Requests : seen'[r] \in {seen[r], <<>>}
    PROVE  SlicesFit'
<1>1. \A o \in Objects : history'[o] \in {history[o], <<>>} \/ (o = held[q] /\ history'[o] = h)
  BY DEF StoreHistory
<1>2. FitsChats(<<>>, sent', pc', message')
  BY EmptyFits
<1>3. \A o \in Objects : FitsChats(history'[o], sent', pc', message')
  BY <1>1, <1>2 DEF StillFit
<1>4. \A r \in Requests : FitsChats(seen'[r], sent', pc', message')
  BY <1>2 DEF StillFit
<1>5. QED
  BY <1>3, <1>4 DEF SlicesFit

\* A chat's turn is of no other chat.
LEMMA TurnIsOwn ==
    ASSUME TInv, NEW q \in Requests, Asking(q), NEW p \in Positions, Goto(q, p), message' = message
    PROVE  /\ message[q] \in Messages /\ message[q] \in sent
           /\ \A r \in Requests \ {q} :
                 pc'[r] \in Unanswered => /\ Question(message[q]) # Question(message'[r])
                                          /\ Answer(message[q]) # Answer(message'[r])
           /\ \A r \in Requests : /\ Question(message[q]) # Answer(message'[r])
                                  /\ Answer(message[q]) # Question(message'[r])
           /\ Question(message[q]).message = message[q] /\ Answer(message[q]).message = message[q]
           /\ Question(message[q]) \in Turns /\ Answer(message[q]) \in Turns
           /\ pc'[q] = p
<1>1. message[q] \in Messages /\ message[q] \in sent
  BY DEF TInv, MessagesAreOwn, TypeOK
<1>2. ASSUME NEW r \in Requests \ {q}, pc'[r] \in Unanswered
      PROVE  message'[r] # message[q]
  <2>1. pc'[r] = pc[r]
    BY <1>2 DEF Goto, TInv, TypeOK
  <2>2. Asking(r)
    BY <1>2, <2>1 DEF Asking, Unanswered, BeforeQuestion, AfterIt
  <2>3. QED
    BY <2>2 DEF TInv, MessagesAreOwn
<1>3. pc'[q] = p
  BY DEF Goto, TInv, TypeOK
<1>4. \A r \in Requests \ {q} :
         pc'[r] \in Unanswered => /\ Question(message[q]) # Question(message'[r])
                                  /\ Answer(message[q]) # Answer(message'[r])
  BY <1>2, TurnsDiffer
<1>5. \A r \in Requests : /\ Question(message[q]) # Answer(message'[r])
                          /\ Answer(message[q]) # Question(message'[r])
  BY TurnsDiffer
<1>6. QED
  BY <1>1, <1>3, <1>4, <1>5, TurnsDiffer, TurnsOfMessages

\* The rows that a report loads, when it is the only request.
LEMMA RowsFit ==
    ASSUME TypeOK, RowsAndChats, AnswersFollowQuestions, NEW position, NEW own,
           \A r \in Requests : position[r] \notin Unanswered
    PROVE  FitsChats(rows, sent, position, own)
<1>1. rows \in Seq(Turns) /\ Len(rows) \in Nat /\ DOMAIN rows = 1..Len(rows)
  BY LenProperties DEF TypeOK
<1>2. \A i \in 1..Len(rows) : \A j \in 1..(i - 1) : rows[j] # rows[i]
  BY DEF AnswersFollowQuestions
<1>3. ASSUME NEW a \in 1..Len(rows), NEW b \in 1..Len(rows), rows[a] = rows[b]
      PROVE  a = b
  <2>1. CASE a < b
    BY <1>1, <1>2, <1>3, <2>1
  <2>2. CASE b < a
    BY <1>1, <1>2, <1>3, <2>2
  <2>3. QED
    BY <1>1, <2>1, <2>2
<1>4. IsInjective(rows)
  BY <1>1, <1>3 DEF IsInjective
<1>5. \A r \in Requests : position[r] \notin {"chat", "stream"}
  BY DEF Unanswered
<1>6. QED
  BY <1>1, <1>4, <1>5 DEF FitsChats, RowsAndChats

LEMMA FitStep ==
    ASSUME TInv, TInv', RowsAndChats, AnswersFollowQuestions,
           LoadsAlone, LoadsAlone', LoadsIntoEmpty, SlicesFit, Step
    PROVE  SlicesFit'
<1>0. TypeOK /\ TypeOK'
  BY DEF TInv
<1>1. ASSUME NEW q \in Requests, NEW m \in Messages, NEW kind \in {"chat", "stream"}, Ask(q, m, kind)
      PROVE  SlicesFit'
  <2>1. /\ m \notin sent /\ sent' = sent \cup {m} /\ history' = history
        /\ pc'[q] = kind /\ message'[q] = m /\ seen'[q] = history[session] /\ session \in Objects
        /\ \A r \in Requests \ {q} : pc'[r] = pc[r] /\ message'[r] = message[r] /\ seen'[r] = seen[r]
    BY <1>0, <1>1 DEF Ask, Open, Goto, TypeOK
  <2>2. ASSUME NEW s, FitsChats(s, sent, pc, message)
        PROVE  FitsChats(s, sent', pc', message')
    <3>1. Lacks(s, Question(m)) /\ Lacks(s, Answer(m))
      BY <2>1, <2>2, TurnsDiffer DEF FitsChats, Lacks
    <3>2. \A r \in Requests : /\ pc'[r] \in Unanswered => Lacks(s, Answer(message'[r]))
                              /\ pc'[r] \in {"chat", "stream"} => Lacks(s, Question(message'[r]))
      BY <2>1, <2>2, <3>1 DEF FitsChats
    <3>3. QED
      BY <2>1, <2>2, <3>2 DEF FitsChats
  <2>3. StillFit
    BY <2>2 DEF StillFit, SlicesFit
  <2>4. QED
    BY <1>0, <2>1, <2>3, SlicesMove
<1>2. ASSUME NEW q \in Requests, ChatReply(q)
      PROVE  SlicesFit'
  <2> DEFINE a == Question(message[q])
             b == Answer(message[q])
  <2>1. /\ pc[q] = "chat" /\ Goto(q, "question") /\ UNCHANGED <<sent, seen, message>>
        /\ StoreHistory(held[q], seen[q] \o <<a, b>>)
    BY <1>2 DEF ChatReply
  <2>2. Asking(q) /\ "question" \in Positions
    BY <2>1 DEF Asking, BeforeQuestion, Positions
  <2>3. /\ a \in Turns /\ b \in Turns /\ a.message \in sent /\ b.message \in sent
        /\ \A r \in Requests \ {q} : pc'[r] \in Unanswered => a # Question(message'[r]) /\ b # Answer(message'[r])
        /\ \A r \in Requests : a # Answer(message'[r]) /\ b # Question(message'[r])
        /\ pc'[q] = "question"
    BY <2>1, <2>2, TurnIsOwn
  <2>4. GoesOn(q, "question")
    BY <2>1 DEF GoesOn, Unanswered
  <2>5. StillFit
    BY <1>0, <2>4, ChatsGoOn
  <2>6. Lacks(seen[q], a) /\ Lacks(seen[q], b) /\ seen[q] \in Seq(Turns)
    BY <1>0, <2>1 DEF SlicesFit, FitsChats, Unanswered, TypeOK
  <2>7. \A r \in Requests : /\ pc'[r] \in Unanswered => a # Answer(message'[r]) /\ b # Answer(message'[r])
                            /\ pc'[r] \in {"chat", "stream"} =>
                                   a # Question(message'[r]) /\ b # Question(message'[r])
    BY <2>3 DEF Unanswered
  <2> HIDE DEF a, b
  <2>8. FitsChats(Append(seen[q], a), sent', pc', message')
    BY <2>1, <2>3, <2>5, <2>6, <2>7, FitGrows DEF StillFit
  <2>9. Lacks(Append(seen[q], a), b)
    <3>1. /\ Len(Append(seen[q], a)) = Len(seen[q]) + 1 /\ Len(seen[q]) \in Nat
          /\ \A i \in 1..Len(seen[q]) : Append(seen[q], a)[i] = seen[q][i]
          /\ Append(seen[q], a)[Len(seen[q]) + 1] = a
      BY <2>3, <2>6, AppendProperties, LenProperties
    <3>2. a # b
      BY TurnsDiffer DEF a, b
    <3>3. ASSUME NEW i \in 1..Len(Append(seen[q], a))
          PROVE  Append(seen[q], a)[i] # b
      BY <2>6, <3>1, <3>2 DEF Lacks
    <3>4. QED
      BY <3>3 DEF Lacks
  <2>10. FitsChats(Append(Append(seen[q], a), b), sent', pc', message')
    BY <2>1, <2>3, <2>7, <2>8, <2>9, FitGrows
  <2>11. FitsChats(seen[q] \o <<a, b>>, sent', pc', message')
    <3>1. seen[q] \o <<a, b>> = Append(Append(seen[q], a), b)
      BY <2>3, <2>6, ConcatOfTwo
    <3>2. QED
      BY <2>10, <3>1
  <2>12. QED
    BY <1>0, <2>1, <2>5, <2>11, SliceStored
<1>3. ASSUME NEW q \in Requests, StreamQuestion(q)
      PROVE  SlicesFit'
  <2> DEFINE a == Question(message[q])
  <2>1. /\ pc[q] = "stream" /\ Goto(q, "stream question") /\ UNCHANGED <<sent, seen, message>>
        /\ StoreHistory(held[q], Append(seen[q], a))
    BY <1>3 DEF StreamQuestion
  <2>2. Asking(q) /\ "stream question" \in Positions
    BY <2>1 DEF Asking, BeforeQuestion, Positions
  <2>3. /\ a \in Turns /\ a.message \in sent
        /\ \A r \in Requests \ {q} : pc'[r] \in Unanswered => a # Question(message'[r])
        /\ \A r \in Requests : a # Answer(message'[r])
        /\ pc'[q] = "stream question"
    BY <2>1, <2>2, TurnIsOwn
  <2>4. GoesOn(q, "stream question")
    BY <2>1 DEF GoesOn, Unanswered
  <2>5. StillFit
    BY <1>0, <2>4, ChatsGoOn
  <2>6. Lacks(seen[q], a)
    BY <2>1 DEF SlicesFit, FitsChats
  <2>7. \A r \in Requests : pc'[r] \in {"chat", "stream"} => a # Question(message'[r])
    BY <2>3 DEF Unanswered
  <2> HIDE DEF a
  <2>8. FitsChats(Append(seen[q], a), sent', pc', message')
    BY <2>1, <2>3, <2>5, <2>6, <2>7, FitGrows DEF StillFit
  <2>9. QED
    BY <1>0, <2>1, <2>5, <2>8, SliceStored
<1>4. ASSUME NEW q \in Requests, StreamAnswer(q)
      PROVE  SlicesFit'
  <2> DEFINE b == Answer(message[q])
  <2>1. /\ pc[q] = "stream answer" /\ Goto(q, "answer") /\ UNCHANGED <<sent, seen, message>>
        /\ StoreHistory(held[q], Append(seen[q], b))
    BY <1>4 DEF StreamAnswer
  <2>2. Asking(q) /\ "answer" \in Positions
    BY <2>1 DEF Asking, AfterIt, Positions
  <2>3. /\ b \in Turns /\ b.message \in sent
        /\ \A r \in Requests \ {q} : pc'[r] \in Unanswered => b # Answer(message'[r])
        /\ \A r \in Requests : b # Question(message'[r])
        /\ pc'[q] = "answer"
    BY <2>1, <2>2, TurnIsOwn
  <2>4. GoesOn(q, "answer")
    BY <2>1 DEF GoesOn, Unanswered
  <2>5. StillFit
    BY <1>0, <2>4, ChatsGoOn
  <2>6. Lacks(seen[q], b)
    BY <2>1 DEF SlicesFit, FitsChats, Unanswered
  <2>7. \A r \in Requests : pc'[r] \in Unanswered => b # Answer(message'[r])
    BY <2>3 DEF Unanswered
  <2> HIDE DEF b
  <2>8. FitsChats(Append(seen[q], b), sent', pc', message')
    BY <2>1, <2>3, <2>5, <2>6, <2>7, FitGrows DEF StillFit
  <2>9. QED
    BY <1>0, <2>1, <2>5, <2>8, SliceStored
<1>5. ASSUME NEW q \in Requests, Finish(q), sent' = sent
      PROVE  GoesOn(q, "idle") /\ seen'[q] = <<>> /\ \A r \in Requests \ {q} : seen'[r] = seen[r]
  BY <1>0, <1>5 DEF Finish, GoesOn, Unanswered, TypeOK
<1>6. ASSUME NEW q \in Requests, LoadRows(q)
      PROVE  SlicesFit'
  <2>1. /\ GoesOn(q, "idle") /\ \A r \in Requests : seen'[r] \in {seen[r], <<>>}
        /\ pc[q] = "loaded" /\ StoreHistory(held[q], history[held[q]] \o seen[q])
    BY <1>5, <1>6 DEF LoadRows
  <2>2. StillFit
    BY <1>0, <2>1, ChatsGoOn
  <2>3. held[q] \in Objects => history[held[q]] \o seen[q] = seen[q]
    BY <1>0, <2>1, ConcatEmptySeq DEF LoadsIntoEmpty, TypeOK
  <2>4. held[q] \in Objects => FitsChats(history[held[q]] \o seen[q], sent', pc', message')
    BY <2>2, <2>3 DEF StillFit
  <2>5. QED
    BY <1>0, <2>1, <2>2, <2>4, SliceStored
<1>7. ASSUME NEW q \in Requests, QueryRows(q)
      PROVE  SlicesFit'
  <2>1. /\ pc[q] = "loading" /\ Goto(q, "loaded") /\ UNCHANGED <<sent, message, history>>
        /\ seen' = [seen EXCEPT ![q] = rows]
    BY <1>7 DEF QueryRows
  <2>2. StillFit
    <3>1. GoesOn(q, "loaded")
      BY <2>1 DEF GoesOn, Unanswered
    <3>2. QED
      BY <1>0, <3>1, ChatsGoOn
  <2>3. \A r \in Requests : pc'[r] \notin Unanswered
    BY <1>0, <2>1 DEF LoadsAlone, Loads, Busy, Unanswered, Goto, TypeOK
  <2>4. FitsChats(rows, sent', pc', message')
    BY <1>0, <2>1, <2>3, RowsFit
  <2>5. QED
    BY <1>0, <2>1, <2>2, <2>4 DEF SlicesFit, StillFit, TypeOK
<1>8. ASSUME NEW q \in Requests, InsertQuestion(q) \/ InsertQuestionFails(q)
      PROVE  SlicesFit'
  <2>1. GoesOn(q, AfterQuestion(q)) /\ UNCHANGED <<history, seen>>
    BY <1>8 DEF InsertQuestion, InsertQuestionFails, GoesOn, AfterQuestion, Unanswered
  <2>2. QED
    BY <1>0, <2>1, ChatsGoOn, SlicesMove
<1>9. ASSUME NEW q \in Requests, StreamCompletesUnstored(q)
      PROVE  SlicesFit'
  <2>1. GoesOn(q, "answer") /\ UNCHANGED <<history, seen>>
    BY <1>9 DEF StreamCompletesUnstored, GoesOn, Unanswered
  <2>2. QED
    BY <1>0, <2>1, ChatsGoOn, SlicesMove
<1>10. ASSUME NEW q \in Requests, StreamCompletes(q)
       PROVE  SlicesFit'
  <2>1. /\ GoesOn(q, "stream answer") /\ KeepHistory
        /\ seen'[q] = history[session] /\ session \in Objects
        /\ \A r \in Requests \ {q} : seen'[r] = seen[r]
    BY <1>0, <1>10 DEF StreamCompletes, GoesOn, Open, Unanswered, TypeOK
  <2>2. QED
    BY <1>0, <2>1, ChatsGoOn, SlicesMove
<1>11. ASSUME NEW q \in Requests, StreamFails(q) \/ InsertAnswer(q) \/ QueryNothing(q)
                                  \/ \E o \in Objects : RestoreForUpload(q, o)
       PROVE  SlicesFit'
  <2>1. Finish(q) /\ sent' = sent /\ KeepHistory
    BY <1>11 DEF StreamFails, InsertAnswer, QueryNothing, RestoreForUpload
  <2>2. GoesOn(q, "idle") /\ seen'[q] = <<>> /\ \A r \in Requests \ {q} : seen'[r] = seen[r]
    BY <1>5, <2>1
  <2>3. QED
    BY <1>0, <2>1, <2>2, ChatsGoOn, SlicesMove
<1>12. ASSUME NEW q \in Requests, OpenReport(q)
       PROVE  SlicesFit'
  <2>1. /\ GoesOn(q, "loading") /\ history' = history
        /\ seen'[q] = history[session] /\ session \in Objects
        /\ \A r \in Requests \ {q} : seen'[r] = seen[r]
    BY <1>0, <1>12 DEF OpenReport, GoesOn, Open, Unanswered, TypeOK
  <2>2. QED
    BY <1>0, <2>1, ChatsGoOn, SlicesMove
<1>13. ASSUME NEW q \in Requests, MissSession(q)
       PROVE  SlicesFit'
  <2>1. PICK p \in {"report", "restoring"} : Goto(q, p)
    BY <1>13 DEF MissSession
  <2>2. GoesOn(q, p) /\ UNCHANGED <<history, seen>>
    BY <1>13, <2>1 DEF MissSession, GoesOn, Unanswered
  <2>3. QED
    BY <1>0, <2>2, ChatsGoOn, SlicesMove
<1>14. ASSUME NEW q \in Requests, NEW o \in Objects, RestoreForReport(q, o)
       PROVE  SlicesFit'
  <2>1. /\ GoesOn(q, "loading") /\ KeepHistory
        /\ seen'[q] = history[o]
        /\ \A r \in Requests \ {q} : seen'[r] = seen[r]
    BY <1>0, <1>14 DEF RestoreForReport, GoesOn, Open, Unanswered, TypeOK
  <2>2. QED
    BY <1>0, <2>1, ChatsGoOn, SlicesMove
<1>15. ASSUME NEW q \in Requests, Disconnect(q)
       PROVE  SlicesFit'
  BY <1>15 DEF Disconnect, SlicesFit
<1>16. CASE Sweep
  <2>1. UNCHANGED <<sent, pc, message, seen>> /\ \A o \in Objects : history'[o] \in {history[o], <<>>}
    BY <1>16 DEF Sweep, requestVars, KeepHistory
  <2>2. QED
    BY <2>1, EmptyFits DEF SlicesFit
<1>17. CASE Restart
  BY <1>17, EmptyFits DEF Restart, SlicesFit
<1>18. QED
  BY <1>1, <1>2, <1>3, <1>4, <1>6, <1>7, <1>8, <1>9, <1>10, <1>11, <1>12, <1>13, <1>14, <1>15, <1>16, <1>17
     DEF Step, Handle
-----------------------------------------------------------------------------
\* Every step keeps slices fitting and free objects empty.
LEMMA SlicesStayFit == Spec => [](IInv /\ LInv)
<1>1. Init => IInv /\ LInv
  <2> SUFFICES ASSUME Init PROVE IInv /\ LInv
    OBVIOUS
  <2>1. IInv
    <3>1. TInv
      BY InitialTypes
    <3>2. RowsAndChats /\ RefusedStayOut /\ AnswersFollowQuestions
      BY DEF Init, RowsAndChats, RefusedStayOut, AnswersFollowQuestions, InRows, Asking,
             BeforeQuestion, AfterIt
    <3>3. QED
      BY <3>1, <3>2 DEF IInv
  <2>2. IdleHoldNothing /\ FreeAreEmpty /\ LoadsAlone /\ LoadsIntoEmpty
    BY DEF Init, IdleHoldNothing, FreeAreEmpty, LoadsAlone, LoadsIntoEmpty, Loads
  <2>3. SlicesFit
    BY EmptyFits DEF Init, SlicesFit
  <2>4. QED
    BY <2>1, <2>2, <2>3 DEF LInv
<1>2. IInv /\ LInv /\ [Next]_vars => IInv' /\ LInv'
  <2> SUFFICES ASSUME IInv, LInv, [Next]_vars
               PROVE  IInv' /\ LInv'
    OBVIOUS
  <2>1. IInv' /\ TInv /\ TInv' /\ TypeOK
    BY TypeStep, RowsStep, RefusedStep DEF IInv, TInv
  <2>2. IdleHoldNothing' /\ FreeAreEmpty'
    BY <2>1, IdleStayFree, FreeStayEmpty DEF LInv
  <2>3. CASE UNCHANGED vars
    <3>1. UNCHANGED <<history, sent, pc, held, seen, message, overlaps>>
      BY <2>3 DEF vars, requestVars
    <3>2. LoadsAlone' <=> LoadsAlone
      BY <3>1 DEF LoadsAlone, Loads, Busy
    <3>3. (LoadsIntoEmpty' <=> LoadsIntoEmpty) /\ (SlicesFit' <=> SlicesFit)
      BY <3>1 DEF LoadsIntoEmpty, SlicesFit
    <3>4. QED
      BY <2>1, <2>2, <3>1, <3>2, <3>3 DEF LInv
  <2>4. CASE Next
    <3>1. SUFFICES ASSUME "load" \notin overlaps'
                   PROVE  LoadsAlone' /\ LoadsIntoEmpty' /\ SlicesFit'
      BY <2>1, <2>2 DEF LInv
    <3>2. Step /\ "load" \notin overlaps /\ "load" \notin Overlapping'
      BY <2>4, <3>1 DEF Next
    <3>3. LoadsAlone /\ LoadsIntoEmpty /\ SlicesFit /\ IdleHoldNothing /\ FreeAreEmpty
      BY <3>2 DEF LInv
    <3>4. ("load" \notin Overlapping)' => LoadsAlone'
      BY NoLoadOverlap, PTL
    <3>5. LoadsAlone'
      BY <3>2, <3>4
    <3>6. LoadsIntoEmpty'
      BY <2>1, <3>2, <3>3, <3>5, StillEmpty
    <3>7. SlicesFit'
      BY <2>1, <3>2, <3>3, <3>5, FitStep DEF IInv
    <3>8. QED
      BY <3>5, <3>6, <3>7
  <2>5. QED
    BY <2>3, <2>4
<1>3. QED
  BY <1>1, <1>2, PTL DEF Spec

\* Requests that chat, stream, restore and upload may overlap, and the server may sweep
\* and restart: the history of a session has each turn once, as long as no report
\* loads turns while another request is at work.
THEOREM EachTurnOnce == Spec => []NoTurnTwice
<1>1. IInv /\ LInv => NoTurnTwice
  BY DEF IInv, TInv, TypeOK, LInv, SlicesFit, FitsChats, NoTurnTwice
<1>2. QED
  BY <1>1, SlicesStayFit, PTL
-----------------------------------------------------------------------------
\* What Reverse gives.
LEMMA ReverseValues ==
    ASSUME NEW T, NEW s \in Seq(T)
    PROVE  /\ Reverse(s) \in Seq(T) /\ Len(Reverse(s)) = Len(s)
           /\ \A i \in 1..Len(s) : Reverse(s)[i] = s[(Len(s) - i) + 1]
BY DEF Reverse

\* A list is a suffix when it has the last elements of the other.
Ends(s, r) == /\ Len(s) <= Len(r)
              /\ \A i \in 1..Len(s) : s[(Len(s) - i) + 1] = r[(Len(r) - i) + 1]

\* Prefixes, by their elements ...
LEMMA PrefixValues ==
    ASSUME NEW T, NEW s \in Seq(T), NEW r \in Seq(T)
    PROVE  IsPrefix(s, r) <=> Len(s) <= Len(r) /\ \A i \in 1..Len(s) : s[i] = r[i]
<1>1. ASSUME Len(s) <= Len(r)
      PROVE  SubSeq(s, 1, Len(s)) = SubSeq(r, 1, Len(s)) <=> \A i \in 1..Len(s) : s[i] = r[i]
  <2> DEFINE a == SubSeq(s, 1, Len(s))
             b == SubSeq(r, 1, Len(s))
  <2>1. /\ a \in Seq(T) /\ b \in Seq(T) /\ Len(a) = Len(s) /\ Len(b) = Len(s)
        /\ \A i \in 1..Len(s) : a[i] = s[i] /\ b[i] = r[i]
    BY <1>1, SubSeqProperties, LenProperties
  <2> HIDE DEF a, b
  <2>2. (\A i \in 1..Len(s) : a[i] = b[i]) => a = b
    BY <2>1, SeqEqual
  <2>3. QED
    BY <2>1, <2>2 DEF a, b
<1>2. QED
  BY <1>1 DEF IsPrefix

\* ... and suffixes, by theirs.
LEMMA SuffixEnds ==
    ASSUME NEW T, NEW s \in Seq(T), NEW r \in Seq(T)
    PROVE  IsSuffix(s, r) <=> Ends(s, r)
<1> DEFINE a == Reverse(s)
           b == Reverse(r)
<1>1. /\ a \in Seq(T) /\ b \in Seq(T) /\ Len(a) = Len(s) /\ Len(b) = Len(r)
      /\ \A i \in 1..Len(s) : a[i] = s[(Len(s) - i) + 1]
      /\ \A i \in 1..Len(r) : b[i] = r[(Len(r) - i) + 1]
  BY ReverseValues
<1>2. IsSuffix(s, r) <=> IsPrefix(a, b)
  BY DEF IsSuffix
<1> HIDE DEF a, b
<1>3. IsPrefix(a, b) <=> Len(a) <= Len(b) /\ \A i \in 1..Len(a) : a[i] = b[i]
  BY <1>1, PrefixValues
<1>4. Len(s) <= Len(r) => \A i \in 1..Len(s) : i \in 1..Len(r)
  BY LenProperties
<1>5. QED
  BY <1>1, <1>2, <1>3, <1>4 DEF Ends

\* A list and the empty one are suffixes of it.
LEMMA SuffixOfItself ==
    ASSUME NEW T, NEW r \in Seq(T)
    PROVE  IsSuffix(r, r) /\ IsSuffix(<<>>, r)
<1>1. Ends(r, r)
  BY LenProperties DEF Ends
<1> DEFINE e == <<>>
<1>2. e \in Seq(T) /\ Len(e) = 0 /\ Len(r) \in Nat
  BY LenProperties
<1> HIDE DEF e
<1>3. Ends(e, r)
  BY <1>2 DEF Ends
<1>4. IsSuffix(e, r) /\ IsSuffix(r, r)
  BY <1>1, <1>2, <1>3, SuffixEnds
<1>5. QED
  BY <1>4 DEF e

\* A suffix stays one when both lists get the same element.
LEMMA SuffixGrows ==
    ASSUME NEW T, NEW s \in Seq(T), NEW r \in Seq(T), NEW x \in T, IsSuffix(s, r)
    PROVE  IsSuffix(Append(s, x), Append(r, x))
<1> DEFINE a == Append(s, x)
           b == Append(r, x)
<1>1. /\ a \in Seq(T) /\ b \in Seq(T) /\ Len(a) = Len(s) + 1 /\ Len(b) = Len(r) + 1
      /\ Len(s) \in Nat /\ Len(r) \in Nat
      /\ \A i \in 1..Len(s) : a[i] = s[i]
      /\ \A i \in 1..Len(r) : b[i] = r[i]
      /\ a[Len(a)] = x /\ b[Len(b)] = x
  BY AppendProperties, LenProperties
<1>2. Len(s) <= Len(r) /\ \A i \in 1..Len(s) : s[(Len(s) - i) + 1] = r[(Len(r) - i) + 1]
  BY SuffixEnds DEF Ends
<1> HIDE DEF a, b
<1>3. ASSUME NEW i \in 1..Len(a)
      PROVE  a[(Len(a) - i) + 1] = b[(Len(b) - i) + 1]
  <2>1. CASE i = 1
    BY <1>1, <2>1
  <2>2. CASE i # 1
    <3>1. PICK n \in 1..Len(s) : n = i - 1
      BY <1>1, <2>2
    <3>2. PICK j \in 1..Len(s), k \in 1..Len(r) : j = (Len(s) - n) + 1 /\ k = (Len(r) - n) + 1
      <4>1. n \in 1..Len(s) /\ n \in 1..Len(r) /\ Len(s) \in Nat /\ Len(r) \in Nat
        BY <1>1, <1>2, <3>1
      <4>2. (Len(s) - n) + 1 \in 1..Len(s) /\ (Len(r) - n) + 1 \in 1..Len(r)
        BY <4>1
      <4>3. QED
        BY <4>2
    <3>3. s[j] = r[k]
      BY <1>2, <3>2
    <3>4. (Len(a) - i) + 1 = j /\ (Len(b) - i) + 1 = k
      BY <1>1, <3>1, <3>2
    <3>5. QED
      BY <1>1, <3>3, <3>4
  <2>3. QED
    BY <2>1, <2>2
<1>4. Ends(a, b)
  BY <1>1, <1>2, <1>3 DEF Ends
<1>5. QED
  BY <1>1, <1>4, SuffixEnds DEF a, b

\* A list that lacks an element and does not keep it: what is kept is the same whether it
\* is to be kept or not.
LEMMA KeptWhatLacks ==
    ASSUME NEW T, NEW s \in Seq(T), NEW x, Lacks(s, x), NEW keep
    PROVE  Filtered(s, keep \cup {x}) = Filtered(s, keep)
<1>1. \A i \in 1..Len(s) : s[i] \in keep \cup {x} <=> s[i] \in keep
  BY DEF Lacks
<1>2. QED
  BY <1>1, FilteredSame

\* The elements of a list that gets one more.
LEMMA ElementsOfAppend ==
    ASSUME NEW T, NEW r \in Seq(T), NEW x \in T
    PROVE  ToSet(Append(r, x)) = ToSet(r) \cup {x}
<1>1. \A s : ToSet(s) = {s[i] : i \in DOMAIN s}
  BY DEF ToSet
<1> DEFINE a == Append(r, x)
<1>2. /\ a \in Seq(T) /\ Len(a) = Len(r) + 1 /\ Len(r) \in Nat /\ a[Len(r) + 1] = x
      /\ \A i \in 1..Len(r) : a[i] = r[i]
      /\ DOMAIN a = 1..Len(a) /\ DOMAIN r = 1..Len(r)
  BY AppendProperties, LenProperties
<1> HIDE DEF a
<1>3. \A i \in 1..Len(a) : i \in 1..Len(r) \/ i = Len(r) + 1
  BY <1>2
<1>4. \A i \in 1..Len(r) : i \in 1..Len(a)
  BY <1>2
<1>5. Len(r) + 1 \in 1..Len(a)
  BY <1>2
<1>6. ToSet(a) = ToSet(r) \cup {x}
  <2>1. \A y : y \in ToSet(a) <=> \E i \in 1..Len(a) : a[i] = y
    BY <1>1, <1>2
  <2>2. \A y : y \in ToSet(r) <=> \E i \in 1..Len(r) : r[i] = y
    BY <1>1, <1>2
  <2>3. ASSUME NEW y \in ToSet(a)
        PROVE  y \in ToSet(r) \cup {x}
    BY <1>2, <1>3, <2>1, <2>2, <2>3
  <2>4. ASSUME NEW y \in ToSet(r) \cup {x}
        PROVE  y \in ToSet(a)
    BY <1>2, <1>4, <1>5, <2>1, <2>2, <2>4
  <2>5. QED
    BY <2>3, <2>4
<1>7. QED
  BY <1>6 DEF a

\* The last of different elements is not among the others.
LEMMA LastIsNew ==
    ASSUME NEW T, NEW s \in Seq(T), NEW x \in T, IsInjective(Append(s, x))
    PROVE  Lacks(s, x) /\ IsInjective(s)
<1> DEFINE a == Append(s, x)
<1>1. /\ a \in Seq(T) /\ Len(a) = Len(s) + 1 /\ Len(s) \in Nat /\ a[Len(s) + 1] = x
      /\ \A i \in 1..Len(s) : a[i] = s[i]
      /\ DOMAIN a = 1..Len(a) /\ DOMAIN s = 1..Len(s)
  BY AppendProperties, LenProperties
<1> HIDE DEF a
<1>2. \A i, j \in 1..Len(a) : a[i] = a[j] => i = j
  BY <1>1 DEF IsInjective, a
<1>3. (\A i \in 1..Len(s) : i \in 1..Len(a) /\ i # Len(s) + 1) /\ Len(s) + 1 \in 1..Len(a)
  BY <1>1
<1>4. Lacks(s, x)
  BY <1>1, <1>2, <1>3 DEF Lacks
<1>5. \A i, j \in 1..Len(s) : s[i] = s[j] => i = j
  BY <1>1, <1>2, <1>3
<1>6. QED
  BY <1>1, <1>4, <1>5 DEF IsInjective

\* A turn at the end of a history that is inserted.
LEMMA LastIsStored ==
    ASSUME NEW T, NEW s \in Seq(T), NEW r \in Seq(T), NEW x \in T, Lacks(s, x),
           IsSuffix(Filtered(s, ToSet(r)), r)
    PROVE  IsSuffix(Filtered(Append(s, x), ToSet(Append(r, x))), Append(r, x))
<1> DEFINE k == ToSet(r)
           l == ToSet(Append(r, x))
           f == Filtered(s, k)
<1>1. l = k \cup {x} /\ x \in l
  BY ElementsOfAppend
<1>2. Filtered(s, l) = f
  <2> HIDE DEF k, l
  <2>1. Filtered(s, k \cup {x}) = Filtered(s, k)
    BY KeptWhatLacks
  <2>2. QED
    BY <1>1, <2>1
<1>3. f \in Seq(T)
  BY FilteredType
<1>4. IsSuffix(f, r)
  OBVIOUS
<1>5. Filtered(Append(s, x), l) = IF x \in l THEN Append(Filtered(s, l), x) ELSE Filtered(s, l)
  BY FilteredOfAppend
<1> HIDE DEF k, l, f
<1>6. Filtered(Append(s, x), l) = Append(f, x)
  BY <1>1, <1>2, <1>5
<1>7. IsSuffix(Append(f, x), Append(r, x))
  BY <1>3, <1>4, SuffixGrows
<1>8. QED
  BY <1>6, <1>7 DEF l

\* A turn at the end of a history that the table does not have.
LEMMA LastIsMissing ==
    ASSUME NEW T, NEW s \in Seq(T), NEW x \in T, NEW r, x \notin ToSet(r)
    PROVE  Filtered(Append(s, x), ToSet(r)) = Filtered(s, ToSet(r))
<1> DEFINE k == ToSet(r)
<1>1. x \notin k
  OBVIOUS
<1> HIDE DEF k
<1>2. Filtered(Append(s, x), k) = Filtered(s, k)
  BY <1>1, FilteredOfAppend
<1>3. QED
  BY <1>2 DEF k

\* Being in the table, by index and by set.
LEMMA NotInRows ==
    ASSUME rows \in Seq(Turns), NEW t
    PROVE  t \in ToSet(rows) <=> InRows(t)
<1>1. DOMAIN rows = 1..Len(rows)
  BY LenProperties
<1>2. ToSet(rows) = {rows[i] : i \in DOMAIN rows}
  BY DEF ToSet
<1>3. QED
  BY <1>1, <1>2 DEF InRows
-----------------------------------------------------------------------------
\* A request past its look-up holds a session object, which is the one in the store
\* unless the sweeper has deleted it.
Holds(q) == /\ held[q] # NoSession => session \in {held[q], NoSession}
            /\ pc[q] \notin {"idle", "report", "restoring"} => held[q] \in Objects

\* The turns a chat has added to the history and has not tried to insert are its last
\* ones; what a report will load is the table.
Pending(q) ==
    LET h == history[held[q]] IN
    /\ pc[q] = "question" =>
           \E s \in Seq(Turns) : h = Append(Append(s, Question(message[q])), Answer(message[q]))
    /\ pc[q] = "stream question" => \E s \in Seq(Turns) : h = Append(s, Question(message[q]))
    /\ pc[q] = "answer" /\ session = held[q] => \E s \in Seq(Turns) : h = Append(s, Answer(message[q]))
    /\ pc[q] = "loaded" => seen[q] = rows

\* The turns of a history that are stored are the latest stored ones.
Agrees(o) == IsSuffix(StoredTurns(history[o]), rows)

\* What holds as long as no two requests have overlapped.
Agreement == /\ \A q \in Requests : Holds(q) /\ Pending(q)
             /\ \A o \in Objects : Agrees(o)

AInv == overlaps = {} => Agreement

\* The only request at work refers to the only history that is not empty.
LEMMA OthersAreEmpty ==
    ASSUME TypeOK, IdleHoldNothing, FreeAreEmpty, NEW q \in Requests, Holds(q), held[q] # NoSession,
           \A r \in Requests \ {q} : pc[r] = "idle"
    PROVE  \A o \in Objects \ {held[q]} : history[o] = <<>>
<1> SUFFICES ASSUME NEW o \in Objects \ {held[q]} PROVE history[o] = <<>>
  OBVIOUS
<1>1. session # o
  BY ChatAssumption DEF Holds
<1>2. \A r \in Requests : held[r] # o
  BY ChatAssumption DEF IdleHoldNothing
<1>3. QED
  BY <1>1, <1>2 DEF Unreferenced, FreeAreEmpty

\* An empty history agrees with any table.
LEMMA EmptyAgrees ==
    ASSUME rows \in Seq(Turns), NEW o, history[o] = <<>>
    PROVE  Agrees(o)
<1> DEFINE e == <<>>
<1>1. Filtered(e, ToSet(rows)) = e /\ IsSuffix(e, rows)
  BY FilteredOfNone, SuffixOfItself
<1>2. QED
  BY <1>1 DEF Agrees, StoredTurns

\* Histories that are kept or dropped agree with the table as they did.
LEMMA AgreesStill ==
    ASSUME TypeOK, TypeOK', \A o \in Objects : Agrees(o), rows' = rows,
           \A o \in Objects : history'[o] \in {history[o], <<>>}
    PROVE  \A o \in Objects : Agrees(o)'
<1> SUFFICES ASSUME NEW o \in Objects PROVE Agrees(o)'
  OBVIOUS
<1>0. rows \in Seq(Turns)
  BY DEF TypeOK
<1>1. CASE history'[o] = history[o]
  BY <1>1 DEF Agrees, StoredTurns
<1>2. CASE history'[o] = <<>>
  <2> DEFINE e == <<>>
  <2>1. Filtered(e, ToSet(rows)) = e /\ IsSuffix(e, rows)
    BY <1>0, FilteredOfNone, SuffixOfItself
  <2>2. QED
    BY <1>2, <2>1 DEF Agrees, StoredTurns
<1>3. QED
  BY <1>1, <1>2

\* A history that is replaced by one that agrees with the table.
LEMMA AgreesAnew ==
    ASSUME TypeOK, TypeOK', \A o \in Objects : Agrees(o), rows' = rows,
           NEW p, NEW h, StoreHistory(p, h), IsSuffix(StoredTurns(h), rows)
    PROVE  \A o \in Objects : Agrees(o)'
<1> SUFFICES ASSUME NEW o \in Objects PROVE Agrees(o)'
  OBVIOUS
<1>0. rows \in Seq(Turns)
  BY DEF TypeOK
<1>1. CASE history'[o] = history[o]
  BY <1>1 DEF Agrees, StoredTurns
<1>2. CASE history'[o] = <<>>
  <2> DEFINE e == <<>>
  <2>1. Filtered(e, ToSet(rows)) = e /\ IsSuffix(e, rows)
    BY <1>0, FilteredOfNone, SuffixOfItself
  <2>2. QED
    BY <1>2, <2>1 DEF Agrees, StoredTurns
<1>3. CASE history'[o] = h
  BY <1>3 DEF Agrees, StoredTurns
<1>4. QED
  BY <1>1, <1>2, <1>3 DEF StoreHistory

\* When no request was or is at work beside q, what is left to show is about q.
LEMMA OnlyHis ==
    ASSUME OneAtATime, OneAtATime', IdleHoldNothing', NEW q \in Requests, Busy(q) \/ Busy(q)',
           \A r \in Requests \ {q} : pc'[r] = pc[r],
           Holds(q)', Pending(q)'
    PROVE  \A r \in Requests : Holds(r)' /\ Pending(r)'
<1>1. \A r \in Requests \ {q} : pc'[r] = "idle" /\ held'[r] = NoSession
  BY OthersAreIdle DEF IdleHoldNothing
<1>2. \A r \in Requests \ {q} : Holds(r)' /\ Pending(r)'
  BY <1>1 DEF Holds, Pending
<1>3. QED
  BY <1>2

\* The handler returns: it holds nothing.
LEMMA FinishedHoldsNothing ==
    ASSUME TypeOK, NEW q \in Requests, Finish(q)
    PROVE  /\ pc'[q] = "idle" /\ \A r \in Requests \ {q} : pc'[r] = pc[r]
           /\ Holds(q)' /\ Pending(q)'
<1>1. pc'[q] = "idle" /\ held'[q] = NoSession /\ \A r \in Requests \ {q} : pc'[r] = pc[r]
  BY DEF Finish, Goto, TypeOK
<1>2. QED
  BY <1>1 DEF Holds, Pending

\* The turns of the chat that q serves.
LEMMA OwnTurns ==
    ASSUME TInv, NEW q \in Requests, Asking(q)
    PROVE  /\ Question(message[q]) \in Turns /\ Answer(message[q]) \in Turns
           /\ Question(message[q]) # Answer(message[q])
<1>1. message[q] \in Messages
  BY DEF TInv, TypeOK, MessagesAreOwn
<1>2. QED
  BY <1>1, TurnsOfMessages, TurnsDiffer

\* A chat adds turns that the table does not have.
LEMMA NewTurnsAgree ==
    ASSUME TypeOK, NEW s \in Seq(Turns), IsSuffix(StoredTurns(s), rows), NEW t \in Turns, ~ InRows(t)
    PROVE  Append(s, t) \in Seq(Turns) /\ IsSuffix(StoredTurns(Append(s, t)), rows)
<1>1. t \notin ToSet(rows)
  BY NotInRows DEF TypeOK
<1>2. Append(s, t) \in Seq(Turns)
  BY AppendProperties
<1>3. StoredTurns(Append(s, t)) = StoredTurns(s)
  BY <1>1, LastIsMissing DEF StoredTurns
<1>4. QED
  BY <1>2, <1>3

\* The three places where a chat replaces the history.
LEMMA ChatStoresTurns ==
    ASSUME IInv, TypeOK', SlicesAreCurrent, Agreement, NEW q \in Requests,
           ChatReply(q) \/ StreamQuestion(q) \/ StreamAnswer(q)
    PROVE  /\ Holds(q)' /\ Pending(q)' /\ \A o \in Objects : Agrees(o)'
           /\ Busy(q) /\ \A r \in Requests \ {q} : pc'[r] = pc[r]
<1> DEFINE a == Question(message[q])
           b == Answer(message[q])
           s == seen[q]
           p == held[q]
<1>0. TypeOK /\ TInv /\ RowsAndChats /\ \A o \in Objects : Agrees(o)
  BY DEF IInv, TInv, Agreement
<1>1. Asking(q) /\ pc[q] \in {"chat", "stream", "stream answer"}
  BY DEF Asking, BeforeQuestion, AfterIt, ChatReply, StreamQuestion, StreamAnswer
<1>2. a \in Turns /\ b \in Turns /\ a # b
  BY <1>0, <1>1, OwnTurns
<1>3. p \in Objects /\ s = history[p] /\ s \in Seq(Turns)
  BY <1>0, <1>1 DEF Agreement, Holds, SlicesAreCurrent, TypeOK
<1>4. IsSuffix(StoredTurns(s), rows)
  BY <1>0, <1>3 DEF Agrees
<1>5. ~ InRows(b) /\ (pc[q] \in {"chat", "stream"} => ~ InRows(a))
  BY <1>0, <1>1 DEF RowsAndChats, BeforeQuestion
<1>6. ASSUME NEW h, StoreHistory(p, h), session' = p, held' = held
      PROVE  history'[p] = h /\ held'[q] = p
  BY <1>3, <1>6 DEF StoreHistory, Unreferenced
<1>7. CASE ChatReply(q)
  <2>1. /\ session' = p /\ pc' = [pc EXCEPT ![q] = "question"]
        /\ UNCHANGED <<rows, held, message>> /\ StoreHistory(p, s \o <<a, b>>)
    BY <1>7 DEF ChatReply, Goto
  <2>2. s \o <<a, b>> = Append(Append(s, a), b)
    <3> HIDE DEF a, b, s
    <3> QED
      BY <1>2, <1>3, ConcatOfTwo
  <2>3. pc[q] = "chat"
    BY <1>7 DEF ChatReply
  <2> HIDE DEF a, b, s, p
  <2>4. Append(s, a) \in Seq(Turns) /\ IsSuffix(StoredTurns(Append(s, a)), rows)
    BY <1>0, <1>2, <1>3, <1>4, <1>5, <2>3, NewTurnsAgree
  <2>5. IsSuffix(StoredTurns(Append(Append(s, a), b)), rows)
    BY <1>0, <1>2, <1>5, <2>4, NewTurnsAgree
  <2>6. StoreHistory(p, Append(Append(s, a), b))
    BY <2>1, <2>2
  <2>7. \A o \in Objects : Agrees(o)'
    BY <1>0, <2>1, <2>5, <2>6, AgreesAnew
  <2>8. history'[held'[q]] = Append(Append(s, a), b) /\ held'[q] = p
    BY <1>6, <2>1, <2>6
  <2>9. pc'[q] = "question" /\ \A r \in Requests \ {q} : pc'[r] = pc[r]
    BY <1>0, <2>1 DEF TypeOK
  <2>10. Pending(q)'
    BY <1>3, <2>1, <2>8, <2>9 DEF Pending, a, b
  <2>11. Holds(q)'
    BY <1>3, <2>1, <2>8 DEF Holds
  <2>12. QED
    BY <2>3, <2>7, <2>9, <2>10, <2>11 DEF Busy
<1>8. CASE StreamQuestion(q)
  <2>1. /\ session' = p /\ pc' = [pc EXCEPT ![q] = "stream question"]
        /\ UNCHANGED <<rows, held, message>> /\ StoreHistory(p, Append(s, a))
    BY <1>8 DEF StreamQuestion, Goto
  <2>3. pc[q] = "stream"
    BY <1>8 DEF StreamQuestion
  <2> HIDE DEF a, b, s, p
  <2>4. IsSuffix(StoredTurns(Append(s, a)), rows)
    BY <1>0, <1>2, <1>3, <1>4, <1>5, <2>3, NewTurnsAgree
  <2>7. \A o \in Objects : Agrees(o)'
    BY <1>0, <2>1, <2>4, AgreesAnew
  <2>8. history'[held'[q]] = Append(s, a) /\ held'[q] = p
    BY <1>6, <2>1
  <2>9. pc'[q] = "stream question" /\ \A r \in Requests \ {q} : pc'[r] = pc[r]
    BY <1>0, <2>1 DEF TypeOK
  <2>10. Pending(q)'
    BY <1>3, <2>1, <2>8, <2>9 DEF Pending, a
  <2>11. Holds(q)'
    BY <1>3, <2>1, <2>8 DEF Holds
  <2>12. QED
    BY <2>3, <2>7, <2>9, <2>10, <2>11 DEF Busy
<1>9. CASE StreamAnswer(q)
  <2>1. /\ session' = p /\ pc' = [pc EXCEPT ![q] = "answer"]
        /\ UNCHANGED <<rows, held, message>> /\ StoreHistory(p, Append(s, b))
    BY <1>9 DEF StreamAnswer, Goto
  <2>3. pc[q] = "stream answer"
    BY <1>9 DEF StreamAnswer
  <2> HIDE DEF a, b, s, p
  <2>4. IsSuffix(StoredTurns(Append(s, b)), rows)
    BY <1>0, <1>2, <1>3, <1>4, <1>5, NewTurnsAgree
  <2>7. \A o \in Objects : Agrees(o)'
    BY <1>0, <2>1, <2>4, AgreesAnew
  <2>8. history'[held'[q]] = Append(s, b) /\ held'[q] = p
    BY <1>6, <2>1
  <2>9. pc'[q] = "answer" /\ \A r \in Requests \ {q} : pc'[r] = pc[r]
    BY <1>0, <2>1 DEF TypeOK
  <2>10. Pending(q)'
    BY <1>3, <2>1, <2>8, <2>9 DEF Pending, b
  <2>11. Holds(q)'
    BY <1>3, <2>1, <2>8 DEF Holds
  <2>12. QED
    BY <2>3, <2>7, <2>9, <2>10, <2>11 DEF Busy
<1>10. QED
  BY <1>7, <1>8, <1>9

\* A turn that is inserted is the last of the history of q that the table does not have:
\* both get longer, and other histories are empty.
LEMMA InsertedAgrees ==
    ASSUME TypeOK, TypeOK', NEW t \in Turns, rows' = Append(rows, t), NEW p \in Objects,
           \A o \in Objects \ {p} : history'[o] = <<>>,
           IsSuffix(Filtered(history'[p], ToSet(Append(rows, t))), Append(rows, t))
    PROVE  \A o \in Objects : Agrees(o)'
<1>1. \A o \in Objects : history'[o] = <<>> => Agrees(o)'
  <2> SUFFICES ASSUME NEW o \in Objects, history'[o] = <<>> PROVE Agrees(o)'
    OBVIOUS
  <2>1. rows' \in Seq(Turns)
    BY DEF TypeOK
  <2> DEFINE e == <<>>
             r == rows'
  <2>2. Filtered(e, ToSet(r)) = e /\ IsSuffix(e, r)
    <3>1. r \in Seq(Turns)
      BY <2>1
    <3> HIDE DEF r
    <3>2. QED
      BY <3>1, FilteredOfNone, SuffixOfItself
  <2>3. QED
    BY <2>2 DEF Agrees, StoredTurns
<1>2. Agrees(p)'
  BY DEF Agrees, StoredTurns
<1>3. QED
  BY <1>1, <1>2

\* InsertChatMessage of the question, of either handler, and its failure.
LEMMA QuestionsAreInserted ==
    ASSUME IInv, TypeOK', IdleHoldNothing, FreeAreEmpty, SlicesFit, OneAtATime, Agreement,
           NEW q \in Requests, InsertQuestion(q) \/ InsertQuestionFails(q)
    PROVE  /\ Holds(q)' /\ Pending(q)' /\ \A o \in Objects : Agrees(o)'
           /\ Busy(q) /\ \A r \in Requests \ {q} : pc'[r] = pc[r]
<1> DEFINE a == Question(message[q])
           b == Answer(message[q])
           p == held[q]
           h == history[p]
<1>0. TypeOK /\ TInv /\ RowsAndChats /\ \A o \in Objects : Agrees(o)
  BY DEF IInv, TInv, Agreement
<1>1. /\ pc[q] \in {"question", "stream question"} /\ Asking(q)
      /\ pc'[q] = IF pc[q] = "question" THEN "answer" ELSE "streaming"
      /\ \A r \in Requests \ {q} : pc'[r] = pc[r]
      /\ UNCHANGED <<session, history, held, message>>
  BY <1>0 DEF InsertQuestion, InsertQuestionFails, AfterQuestion, Goto, TypeOK, Asking, BeforeQuestion
<1>2. a \in Turns /\ b \in Turns /\ a # b
  BY <1>0, <1>1, OwnTurns
<1>3. p \in Objects /\ h \in Seq(Turns) /\ IsInjective(h) /\ p # NoSession
  BY <1>0, <1>1, ChatAssumption DEF Agreement, Holds, TypeOK, SlicesFit, FitsChats
<1>4. ~ InRows(a) /\ ~ InRows(b)
  BY <1>0, <1>1 DEF RowsAndChats, BeforeQuestion
<1>5. Holds(q)'
  BY <1>1, <1>3 DEF Holds, Agreement
<1>6. \A o \in Objects \ {p} : history[o] = <<>>
  <2>1. \A r \in Requests \ {q} : pc[r] = "idle"
    BY <1>1 DEF OneAtATime, Busy
  <2>2. Holds(q)
    BY DEF Agreement
  <2>3. QED
    BY <1>0, <1>3, <2>1, <2>2, OthersAreEmpty
<1>7. PICK s \in Seq(Turns) : h = IF pc[q] = "question" THEN Append(Append(s, a), b) ELSE Append(s, a)
  BY <1>1 DEF Agreement, Pending
<1> HIDE DEF a, b, p, h
<1>8. Append(s, a) \in Seq(Turns)
  BY <1>2, <1>7, AppendProperties
<1>9. Pending(q)'
  BY <1>1, <1>7, <1>8 DEF Pending, b, p, h
<1>10. CASE InsertQuestionFails(q)
  <2>1. rows' = rows /\ history' = history
    BY <1>10 DEF InsertQuestionFails
  <2>2. \A o \in Objects : Agrees(o)'
    BY <1>0, <2>1, AgreesStill
  <2>3. QED
    BY <1>1, <1>5, <1>9, <2>2 DEF Busy
<1>11. CASE InsertQuestion(q)
  <2>1. rows' = Append(rows, a) /\ history' = history /\ rows \in Seq(Turns)
    BY <1>0, <1>11 DEF InsertQuestion, a, TypeOK
  <2>2. a \notin ToSet(rows) /\ b \notin ToSet(rows)
    BY <1>4, <2>1, NotInRows
  <2>3. Lacks(s, a) /\ IsInjective(Append(s, a))
    <3>1. CASE pc[q] = "question"
      BY <1>2, <1>3, <1>7, <1>8, <3>1, LastIsNew
    <3>2. CASE pc[q] # "question"
      BY <1>2, <1>3, <1>7, <3>2, LastIsNew
    <3>3. IsInjective(Append(s, a))
      BY <1>2, <1>3, <1>7, <1>8, <3>1, <3>2, LastIsNew
    <3>4. QED
      BY <1>2, <3>3, LastIsNew
  <2>4. IsSuffix(Filtered(h, ToSet(rows)), rows)
    BY <1>0, <1>3 DEF Agrees, StoredTurns, h
  <2>5. Filtered(h, ToSet(rows)) = Filtered(s, ToSet(rows))
    <3>1. Filtered(Append(s, a), ToSet(rows)) = Filtered(s, ToSet(rows))
      BY <1>2, <2>2, LastIsMissing
    <3>2. Filtered(Append(Append(s, a), b), ToSet(rows)) = Filtered(Append(s, a), ToSet(rows))
      BY <1>2, <1>8, <2>2, LastIsMissing
    <3>3. QED
      BY <1>7, <3>1, <3>2
  <2>6. IsSuffix(Filtered(Append(s, a), ToSet(Append(rows, a))), Append(rows, a))
    BY <1>2, <2>1, <2>3, <2>4, <2>5, LastIsStored
  <2>7. Filtered(h, ToSet(Append(rows, a))) = Filtered(Append(s, a), ToSet(Append(rows, a)))
    <3>1. ToSet(Append(rows, a)) = ToSet(rows) \cup {a}
      BY <1>2, <2>1, ElementsOfAppend
    <3>2. b \notin ToSet(Append(rows, a))
      BY <1>2, <2>2, <3>1
    <3>3. Filtered(Append(Append(s, a), b), ToSet(Append(rows, a)))
            = Filtered(Append(s, a), ToSet(Append(rows, a)))
      BY <1>2, <1>8, <3>2, LastIsMissing
    <3>4. QED
      BY <1>7, <3>3
  <2>8. history'[p] = h
    BY <2>1 DEF h
  <2>9. IsSuffix(Filtered(history'[p], ToSet(Append(rows, a))), Append(rows, a))
    BY <2>6, <2>7, <2>8
  <2>10. \A o \in Objects : Agrees(o)'
    BY <1>0, <1>2, <1>3, <1>6, <2>1, <2>9, InsertedAgrees
  <2>11. QED
    BY <1>1, <1>5, <1>9, <2>10 DEF Busy
<1>12. QED
  BY <1>10, <1>11

\* InsertChatMessage of the answer, whose session may be gone by then.
LEMMA AnswersAreInserted ==
    ASSUME IInv, TypeOK', IdleHoldNothing, FreeAreEmpty, SlicesFit, OneAtATime, Agreement,
           NEW q \in Requests, InsertAnswer(q)
    PROVE  \A o \in Objects : Agrees(o)'
<1> DEFINE b == Answer(message[q])
           p == held[q]
           h == history[p]
<1>0. TypeOK /\ TInv /\ RowsAndChats /\ \A o \in Objects : Agrees(o)
  BY DEF IInv, TInv, Agreement
<1>1. /\ pc[q] = "answer" /\ Asking(q) /\ Finish(q) /\ KeepHistory /\ UNCHANGED session
      /\ rows' = rows \/ rows' = Append(rows, b)
  BY DEF InsertAnswer, Asking, AfterIt
<1>2. b \in Turns
  BY <1>0, <1>1, OwnTurns
<1>3. p \in Objects /\ h \in Seq(Turns) /\ IsInjective(h) /\ p # NoSession /\ Holds(q)
  BY <1>0, <1>1, ChatAssumption DEF Agreement, Holds, TypeOK, SlicesFit, FitsChats
<1>4. ~ InRows(b)
  BY <1>0, <1>1 DEF RowsAndChats
<1>5. \A r \in Requests \ {q} : pc[r] = "idle"
  BY <1>1 DEF OneAtATime, Busy
<1>6. \A o \in Objects \ {p} : history[o] = <<>>
  BY <1>0, <1>3, <1>5, OthersAreEmpty
<1>7. \A o \in Objects : history'[o] \in {history[o], <<>>}
  BY <1>1 DEF KeepHistory
<1>8. session # p => history'[p] = <<>>
  <2>1. \A r \in Requests : held'[r] = NoSession
    BY <1>0, <1>1, <1>5 DEF Finish, IdleHoldNothing, TypeOK
  <2>2. QED
    BY <1>1, <1>3, <2>1 DEF KeepHistory, Unreferenced
<1>9. session = p => \E s \in Seq(Turns) : h = Append(s, b)
  BY <1>1 DEF Agreement, Pending
<1> HIDE DEF b, p, h
<1>10. CASE rows' = rows
  BY <1>0, <1>1, <1>7, <1>10, AgreesStill
<1>11. CASE rows' = Append(rows, b)
  <2>1. rows' = Append(rows, b) /\ rows \in Seq(Turns) /\ Append(rows, b) \in Seq(Turns)
    BY <1>0, <1>1, <1>2, <1>11, AppendProperties DEF TypeOK
  <2>2. \A o \in Objects \ {p} : history'[o] = <<>>
    BY <1>6, <1>7
  <2>3. IsSuffix(Filtered(history'[p], ToSet(Append(rows, b))), Append(rows, b))
    <3>1. CASE history'[p] = <<>>
      <4> DEFINE e == <<>>
                 r == Append(rows, b)
      <4>1. Filtered(e, ToSet(r)) = e
        BY FilteredOfNone
      <4>2. IsSuffix(e, r)
        <5>1. r \in Seq(Turns)
          BY <2>1
        <5> HIDE DEF r
        <5>2. QED
          BY <5>1, SuffixOfItself
      <4>3. QED
        BY <3>1, <4>1, <4>2
    <3>2. CASE history'[p] # <<>>
      <4>1. session = p /\ history'[p] = h
        BY <1>3, <1>7, <1>8, <3>2 DEF h
      <4>2. PICK s \in Seq(Turns) : h = Append(s, b)
        BY <1>9, <4>1
      <4>3. Lacks(s, b)
        BY <1>2, <1>3, <4>2, LastIsNew
      <4>4. b \notin ToSet(rows)
        BY <1>4, <2>1, NotInRows
      <4>5. IsSuffix(Filtered(h, ToSet(rows)), rows)
        BY <1>0, <1>3 DEF Agrees, StoredTurns, h
      <4>6. Filtered(h, ToSet(rows)) = Filtered(s, ToSet(rows))
        BY <1>2, <4>2, <4>4, LastIsMissing
      <4>7. IsSuffix(Filtered(Append(s, b), ToSet(Append(rows, b))), Append(rows, b))
        BY <1>2, <2>1, <4>3, <4>5, <4>6, LastIsStored
      <4>8. QED
        BY <4>1, <4>2, <4>7
    <3>3. QED
      BY <3>1, <3>2
  <2>4. QED
    BY <1>0, <1>2, <1>3, <2>1, <2>2, <2>3, InsertedAgrees
<1>12. QED
  BY <1>1, <1>10, <1>11

\* A step that does not overlap with another request keeps what is in memory in agreement
\* with the table.
LEMMA AgreementStep ==
    ASSUME IInv, TypeOK', IdleHoldNothing, IdleHoldNothing', FreeAreEmpty, LoadsIntoEmpty, SlicesFit,
           SlicesAreCurrent, OneAtATime, OneAtATime', Agreement, Step
    PROVE  Agreement'
<1>0. TypeOK /\ TInv /\ \A o \in Objects : Agrees(o)
  BY DEF IInv, TInv, Agreement
<1> USE ChatAssumption
<1>a. ASSUME NEW q \in Requests, Busy(q) \/ Busy(q)', \A r \in Requests \ {q} : pc'[r] = pc[r],
             Holds(q)', Pending(q)', \A o \in Objects : Agrees(o)'
      PROVE  Agreement'
  BY <1>a, OnlyHis DEF Agreement
<1>b. ASSUME history' = history \/ KeepHistory, rows' = rows
      PROVE  \A o \in Objects : Agrees(o)'
  <2>1. \A o \in Objects : history'[o] \in {history[o], <<>>}
    BY <1>b DEF KeepHistory
  <2>2. QED
    BY <1>0, <1>b, <2>1, AgreesStill
<1>1. ASSUME NEW q \in Requests, NEW m \in Messages, NEW kind \in {"chat", "stream"}, Ask(q, m, kind)
      PROVE  Agreement'
  <2>1. /\ pc'[q] = kind /\ \A r \in Requests \ {q} : pc'[r] = pc[r]
        /\ held'[q] = session /\ session \in Objects /\ UNCHANGED <<session, history, rows>>
    BY <1>0, <1>1 DEF Ask, Goto, Open, TypeOK
  <2>2. Holds(q)' /\ Pending(q)' /\ Busy(q)'
    BY <2>1 DEF Holds, Pending, Busy
  <2>3. QED
    BY <1>a, <1>b, <2>1, <2>2
<1>2. ASSUME NEW q \in Requests, ChatReply(q) \/ StreamQuestion(q) \/ StreamAnswer(q)
      PROVE  Agreement'
  BY <1>a, <1>2, ChatStoresTurns
<1>3. ASSUME NEW q \in Requests, InsertQuestion(q) \/ InsertQuestionFails(q)
      PROVE  Agreement'
  BY <1>a, <1>3, QuestionsAreInserted
<1>4. ASSUME NEW q \in Requests, StreamCompletes(q)
      PROVE  Agreement'
  <2>1. /\ pc[q] = "streaming" /\ pc'[q] = "stream answer" /\ \A r \in Requests \ {q} : pc'[r] = pc[r]
        /\ held'[q] = session /\ session \in Objects /\ UNCHANGED <<session, rows>> /\ KeepHistory
    BY <1>0, <1>4 DEF StreamCompletes, Goto, Open, TypeOK
  <2>2. Holds(q)' /\ Pending(q)' /\ Busy(q)
    BY <2>1 DEF Holds, Pending, Busy
  <2>3. QED
    BY <1>a, <1>b, <2>1, <2>2
<1>5. ASSUME NEW q \in Requests, StreamCompletesUnstored(q)
      PROVE  Agreement'
  <2>1. /\ pc[q] = "streaming" /\ pc'[q] = "answer" /\ \A r \in Requests \ {q} : pc'[r] = pc[r]
        /\ session = NoSession /\ UNCHANGED <<session, held, history, rows>>
    BY <1>0, <1>5 DEF StreamCompletesUnstored, Goto, TypeOK
  <2>2. held[q] \in Objects
    BY <2>1 DEF Agreement, Holds
  <2>3. Holds(q)' /\ Pending(q)' /\ Busy(q)
    BY <2>1, <2>2 DEF Holds, Pending, Busy
  <2>4. QED
    BY <1>a, <1>b, <2>1, <2>3
<1>6. ASSUME NEW q \in Requests, Finish(q), Busy(q), \A o \in Objects : Agrees(o)'
      PROVE  Agreement'
  BY <1>0, <1>a, <1>6, FinishedHoldsNothing
<1>7. ASSUME NEW q \in Requests, StreamFails(q) \/ QueryNothing(q) \/ \E o \in Objects : RestoreForUpload(q, o)
      PROVE  Agreement'
  <2>1. Finish(q) /\ Busy(q) /\ KeepHistory /\ rows' = rows
    BY <1>7 DEF StreamFails, QueryNothing, RestoreForUpload, Busy
  <2>2. QED
    BY <1>b, <1>6, <2>1
<1>8. ASSUME NEW q \in Requests, InsertAnswer(q)
      PROVE  Agreement'
  <2>1. Finish(q) /\ Busy(q)
    BY <1>8 DEF InsertAnswer, Busy
  <2>2. QED
    BY <1>0, <1>6, <1>8, <2>1, AnswersAreInserted
<1>9. ASSUME NEW q \in Requests, OpenReport(q)
      PROVE  Agreement'
  <2>1. /\ pc'[q] = "loading" /\ \A r \in Requests \ {q} : pc'[r] = pc[r]
        /\ held'[q] = session /\ session \in Objects /\ UNCHANGED <<session, history, rows>>
    BY <1>0, <1>9 DEF OpenReport, Goto, Open, TypeOK
  <2>2. Holds(q)' /\ Pending(q)' /\ Busy(q)'
    BY <2>1 DEF Holds, Pending, Busy
  <2>3. QED
    BY <1>a, <1>b, <2>1, <2>2
<1>10. ASSUME NEW q \in Requests, MissSession(q)
       PROVE  Agreement'
  <2>1. /\ pc'[q] \in {"report", "restoring"} /\ \A r \in Requests \ {q} : pc'[r] = pc[r]
        /\ held[q] = NoSession /\ UNCHANGED <<session, history, rows, held>>
    BY <1>0, <1>10 DEF MissSession, Goto, TypeOK, IdleHoldNothing
  <2>2. Holds(q)' /\ Pending(q)' /\ Busy(q)'
    BY <2>1 DEF Holds, Pending, Busy
  <2>3. QED
    BY <1>a, <1>b, <2>1, <2>2
<1>11. ASSUME NEW q \in Requests, QueryRows(q)
       PROVE  Agreement'
  <2>1. /\ pc[q] = "loading" /\ pc'[q] = "loaded" /\ \A r \in Requests \ {q} : pc'[r] = pc[r]
        /\ seen'[q] = rows /\ UNCHANGED <<session, history, rows, held>>
    BY <1>0, <1>11 DEF QueryRows, Goto, TypeOK
  <2>2. Holds(q)
    BY DEF Agreement
  <2>3. Holds(q)' /\ Pending(q)' /\ Busy(q)
    BY <2>1, <2>2 DEF Holds, Pending, Busy
  <2>4. QED
    BY <1>a, <1>b, <2>1, <2>3
<1>12. ASSUME NEW q \in Requests, LoadRows(q)
       PROVE  Agreement'
  <2>1. /\ pc[q] = "loaded" /\ Finish(q) /\ Busy(q) /\ rows' = rows
        /\ StoreHistory(held[q], history[held[q]] \o seen[q])
    BY <1>12 DEF LoadRows, Busy
  <2>2. held[q] \in Objects /\ seen[q] = rows /\ rows \in Seq(Turns)
    BY <1>0, <2>1 DEF Agreement, Holds, Pending, TypeOK
  <2>3. history[held[q]] = <<>>
    BY <2>1, <2>2 DEF LoadsIntoEmpty
  <2>4. StoreHistory(held[q], rows)
    <3>1. history[held[q]] \o seen[q] = rows
      BY <2>2, <2>3, ConcatEmptySeq
    <3>2. QED
      BY <2>1, <3>1
  <2>5. IsSuffix(StoredTurns(rows), rows)
    <3>1. \A i \in 1..Len(rows) : rows[i] \in ToSet(rows)
      BY <2>2, NotInRows DEF InRows
    <3>2. Filtered(rows, ToSet(rows)) = rows
      BY <2>2, <3>1, FilteredByItself
    <3>3. IsSuffix(rows, rows)
      BY <2>2, SuffixOfItself
    <3>4. QED
      BY <3>2, <3>3 DEF StoredTurns
  <2>6. \A o \in Objects : Agrees(o)'
    BY <1>0, <2>1, <2>4, <2>5, AgreesAnew
  <2>7. QED
    BY <1>6, <2>1, <2>6
<1>13. ASSUME NEW q \in Requests, NEW o \in Objects, RestoreForReport(q, o)
       PROVE  Agreement'
  <2>1. /\ pc[q] = "report" /\ pc'[q] = "loading" /\ \A r \in Requests \ {q} : pc'[r] = pc[r]
        /\ held'[q] = o /\ session' = o /\ rows' = rows /\ KeepHistory
    BY <1>0, <1>13 DEF RestoreForReport, Goto, Open, TypeOK
  <2>2. Holds(q)' /\ Pending(q)' /\ Busy(q)
    BY <2>1 DEF Holds, Pending, Busy
  <2>3. QED
    BY <1>a, <1>b, <2>1, <2>2
<1>14. ASSUME NEW q \in Requests, Disconnect(q)
       PROVE  Agreement'
  BY <1>14 DEF Disconnect, Agreement, Holds, Pending, Agrees, StoredTurns
<1>15. CASE Sweep
  <2>1. session' = NoSession /\ UNCHANGED <<rows, pc, held, seen, message>> /\ KeepHistory
    BY <1>15 DEF Sweep, requestVars
  <2>2. ASSUME NEW q \in Requests
        PROVE  Holds(q)' /\ Pending(q)'
    <3>1. Holds(q) /\ Pending(q)
      BY DEF Agreement
    <3>2. held[q] \in Objects => history'[held[q]] = history[held[q]]
      BY <2>1 DEF KeepHistory, Unreferenced
    <3>3. QED
      BY <2>1, <3>1, <3>2 DEF Holds, Pending
  <2>3. QED
    BY <1>b, <2>1, <2>2 DEF Agreement
<1>16. CASE Restart
  <2>1. \A o \in Objects : history'[o] \in {history[o], <<>>}
    BY <1>16 DEF Restart
  <2>2. \A o \in Objects : Agrees(o)'
    BY <1>0, <1>16, <2>1, AgreesStill DEF Restart
  <2>3. QED
    BY <1>16, <2>2 DEF Restart, Agreement, Holds, Pending
<1>17. QED
  BY <1>1, <1>2, <1>3, <1>4, <1>5, <1>7, <1>8, <1>9, <1>10, <1>11, <1>12, <1>13, <1>14, <1>15, <1>16
     DEF Step, Handle

\* The invariant; it needs those that histories are current, fit and load into nothing.
LEMMA HistoriesStayAgreed == Spec => []AInv
<1>1. Init => AInv /\ TInv /\ HInv
  <2> SUFFICES ASSUME Init PROVE AInv /\ TInv /\ HInv
    OBVIOUS
  <2>1. TInv /\ HInv
    BY InitialTypes DEF HInv, Init, OneAtATime, SlicesAreCurrent, Busy
  <2>2. \A o \in Objects : Agrees(o)
    BY <2>1, EmptyAgrees DEF Init, TInv, TypeOK
  <2>3. \A q \in Requests : Holds(q) /\ Pending(q)
    BY DEF Init, Holds, Pending
  <2>4. QED
    BY <2>1, <2>2, <2>3 DEF AInv, Agreement
<1>2. /\ AInv /\ TInv /\ HInv /\ IInv /\ LInv
      /\ [Next]_vars /\ LInv'
      => AInv' /\ TInv' /\ HInv'
  <2> SUFFICES ASSUME AInv, TInv, HInv, IInv, LInv, [Next]_vars, LInv'
               PROVE  AInv' /\ TInv' /\ HInv'
    OBVIOUS
  <2>1. TInv' /\ HInv' /\ TypeOK'
    BY TypeStep, SlicesStep DEF TInv
  <2>2. CASE UNCHANGED vars
    <3>1. UNCHANGED <<session, history, rows, pc, held, seen, message, overlaps>>
      BY <2>2 DEF vars, requestVars
    <3>2. AInv'
      BY <3>1 DEF AInv, Agreement, Holds, Pending, Agrees, StoredTurns
    <3>3. QED
      BY <2>1, <3>2
  <2>3. CASE Next
    <3>1. SUFFICES ASSUME overlaps' = {} PROVE Agreement'
      BY <2>1 DEF AInv
    <3>2. Step /\ overlaps = {}
      BY <2>3, <3>1 DEF Next
    <3>3. Agreement /\ OneAtATime /\ SlicesAreCurrent /\ OneAtATime'
      BY <2>1, <3>1, <3>2 DEF AInv, HInv
    <3>4. /\ IdleHoldNothing /\ FreeAreEmpty /\ LoadsIntoEmpty /\ SlicesFit
          /\ IdleHoldNothing'
      BY <3>2 DEF LInv
    <3>5. QED
      BY <2>1, <3>2, <3>3, <3>4, AgreementStep
  <2>4. QED
    BY <2>2, <2>3
<1>3. QED
  BY <1>1, <1>2, SlicesStayFit, PTL DEF Spec

\* While requests do not overlap, what the store and the table have of a conversation is
\* never in conflict: however chats, streams that fail, disconnects, sweeps, restores and
\* restarts follow each other, the turns of a history that are stored are the latest stored
\* ones, in their order.
THEOREM HistoryMatchesTable == Spec => []HistoryAgreesWithRows
<1>1. IInv /\ AInv => HistoryAgreesWithRows
  BY DEF IInv, TInv, TypeOK, AInv, Agreement, Agrees, HistoryAgreesWithRows
<1>2. QED
  BY <1>1, SlicesStayFit, HistoriesStayAgreed, PTL
===============================================================================
