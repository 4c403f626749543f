----------------------------- MODULE SessionStore -----------------------------
(***************************************************************************)
(* The session store (internal/session/store.go), its sweeper, and the     *)
(* handlers that create, restore and write back sessions                   *)
(* (internal/server/handlers.go).  The map holds pointers to sessions; a   *)
(* session owns the temporary directory its bundle was extracted into.     *)
(* The contents of a session other than its directory and its age are in   *)
(* other modules.                                                          *)
(***************************************************************************)
EXTENDS Integers, FiniteSets

CONSTANTS Ids,         \* session ids, which are bundle ids in the database
          Sessions,    \* Session objects
          Requests,    \* goroutines that serve requests
          Writers,     \* those of them that may be chats, which store their session back
          NoSession,
          TTL,         \* Store.ttl, in ticks of the clock
          SweepEvery,  \* period of the sweeper's ticker, in ticks
          MaxElapsed   \* ticks a request may last

ASSUME SessionAssumption == /\ NoSession \notin Sessions /\ Ids # {}
                            /\ Writers \subseteq Requests
                            /\ TTL \in Nat /\ SweepEvery \in Nat \ {0}
                            /\ MaxElapsed \in Nat

\* Where a request is: extracting a new upload, extracting to restore a session,
\* about to store the session, about to insert the bundle row, or holding one.
Steps == {"idle", "upload", "restore", "put", "insert", "using"}

VARIABLES
    sessions,   \* Store.sessions
    age,        \* age[o]: time since CreatedAt, which stops counting at TTL + 1
    onDisk,     \* sessions whose BundleDir exists
    known,      \* known[i]: "unused", "issued" (a session had the id) or "recorded"
                \* (a row of table bundles has it)
    pc, target, held, elapsed,   \* per request: position, id, session, ticks so far
    sinceSweep, \* ticks since the sweeper last ran, up to SweepEvery
    expired,    \* ids sweepExpired collected and still has to delete
    removing,   \* the session Delete took out and whose directory it removes next
    overlapped, \* history: a request arrived while another was served
    storedBack  \* history: a chat or report stored its session back

requestVars == <<pc, target, held, elapsed>>
sweepVars == <<sinceSweep, expired, removing>>
history == <<overlapped, storedBack>>
vars == <<sessions, age, onDisk, known, requestVars, sweepVars, history>>

\* The session objects nothing refers to; one with a directory on disk is kept
\* apart for ever, since no later step of the program can remove the directory.
Unreferenced(o) == /\ \A i \in Ids : sessions[i] # o
                   /\ \A q \in Requests : held[q] # o
                   /\ removing # o
                   /\ o \notin onDisk

Expired(o) == age[o] > TTL

\* The age of an object that nothing refers to any more does not matter.
Collect == age' = [o \in Sessions |-> IF Unreferenced(o)' THEN 0 ELSE age[o]]

-----------------------------------------------------------------------------
Init == /\ sessions = [i \in Ids |-> NoSession]
        /\ age = [o \in Sessions |-> 0]
        /\ onDisk = {}
        /\ known = [i \in Ids |-> "unused"]
        /\ pc = [q \in Requests |-> "idle"]
        /\ target = [q \in Requests |-> CHOOSE i \in Ids : TRUE]
        /\ held = [q \in Requests |-> NoSession]
        /\ elapsed = [q \in Requests |-> 0]
        /\ sinceSweep = 0
        /\ expired = {}
        /\ removing = NoSession
        /\ overlapped = FALSE /\ storedBack = FALSE

\* Bound of the instance: a session object is left for one more request that makes one.
ObjectLeft == Cardinality({o \in Sessions : Unreferenced(o)})
                > Cardinality({q \in Requests : pc[q] \in {"upload", "restore"}})

\* A request arrives, alone or while others are served.
Arrive(q) == /\ overlapped' = (overlapped \/ \E r \in Requests \ {q} : pc[r] # "idle")
             /\ UNCHANGED storedBack

Goto(q, step) == pc' = [pc EXCEPT ![q] = step]

\* The request is answered.
Finish(q) == /\ pc' = [pc EXCEPT ![q] = "idle"]
             /\ target' = [target EXCEPT ![q] = CHOOSE i \in Ids : TRUE]
             /\ held' = [held EXCEPT ![q] = NoSession]
             /\ elapsed' = [elapsed EXCEPT ![q] = 0]

-----------------------------------------------------------------------------
(* Requests. *)

\* HandleUpload of a bundle the database does not have; its uuid is new.
Upload(q, i) ==
    /\ pc[q] = "idle"
    /\ known[i] = "unused"
    /\ ObjectLeft
    /\ known' = [known EXCEPT ![i] = "issued"]
    /\ target' = [target EXCEPT ![q] = i]
    /\ Goto(q, "upload")
    /\ UNCHANGED <<sessions, age, onDisk, held, elapsed, sweepVars>>
    /\ Arrive(q)

\* A report, SSE or chat request, or the upload of a known bundle, finds its session.
Open(q, i) ==
    /\ pc[q] = "idle"
    /\ sessions[i] # NoSession
    /\ target' = [target EXCEPT ![q] = i]
    /\ held' = [held EXCEPT ![q] = sessions[i]]
    /\ Goto(q, "using")
    /\ UNCHANGED <<sessions, age, onDisk, known, elapsed, sweepVars>>
    /\ Arrive(q)

\* A report or a duplicate upload misses its session and the database has the row.
Miss(q, i) ==
    /\ pc[q] = "idle"
    /\ sessions[i] = NoSession
    /\ known[i] = "recorded"
    /\ ObjectLeft
    /\ target' = [target EXCEPT ![q] = i]
    /\ Goto(q, "restore")
    /\ UNCHANGED <<sessions, age, onDisk, known, held, elapsed, sweepVars>>
    /\ Arrive(q)

\* Extract writes the temporary directory of the session to come.
Extract(q, o) ==
    /\ pc[q] \in {"upload", "restore"}
    /\ Unreferenced(o)
    /\ onDisk' = onDisk \cup {o}
    /\ held' = [held EXCEPT ![q] = o]
    /\ Goto(q, "put")
    /\ UNCHANGED <<sessions, age, known, target, elapsed, sweepVars, history>>

\* Extract fails and removes what it wrote: an upload is answered with an error ...
UploadFails(q) ==
    /\ pc[q] = "upload"
    /\ Finish(q)
    /\ UNCHANGED <<sessions, age, onDisk, known, sweepVars, history>>

\* ... and a restore, as of a seeded row without file data, has no directory.
RestoreBare(q, o) ==
    /\ pc[q] = "restore"
    /\ Unreferenced(o)
    /\ held' = [held EXCEPT ![q] = o]
    /\ Goto(q, "put")
    /\ UNCHANGED <<sessions, age, onDisk, known, target, elapsed, sweepVars, history>>

\* store.New and store.Set of an upload, store.Set of a restore, whatever the
\* map holds under the id by now.
Put(q) ==
    /\ pc[q] = "put"
    /\ sessions' = [sessions EXCEPT ![target[q]] = held[q]]
    /\ Goto(q, IF known[target[q]] = "issued" THEN "insert" ELSE "using")
    /\ UNCHANGED <<onDisk, known, target, held, elapsed, sweepVars, history>>
    /\ age' = [o \in Sessions |-> IF o = held[q] \/ Unreferenced(o)' THEN 0 ELSE age[o]]

\* The upload inserts its row; failing to is logged only.
InsertRow(q) ==
    /\ pc[q] = "insert"
    /\ known' = [known EXCEPT ![target[q]] = "recorded"]
    /\ Finish(q)
    /\ UNCHANGED <<sessions, onDisk, sweepVars, history>>
    /\ Collect

InsertFails(q) ==
    /\ pc[q] = "insert"
    /\ Finish(q)
    /\ UNCHANGED <<sessions, onDisk, known, sweepVars, history>>
    /\ Collect

\* Mutant: storing a session back renews its CreatedAt.
WriteBack_Renews(q) ==
    /\ pc[q] = "using" /\ q \in Writers
    /\ sessions' = [sessions EXCEPT ![target[q]] = held[q]]
    /\ age' = [age EXCEPT ![held[q]] = 0]
    /\ UNCHANGED <<onDisk, known, requestVars, sweepVars, overlapped>>
    /\ storedBack' = TRUE

\* HandleReport after it loaded the chat history, and both chat handlers, store
\* the pointer they got earlier, whether the id is still in the map or not.
WriteBack(q) ==
    /\ pc[q] = "using" /\ q \in Writers
    /\ sessions' = [sessions EXCEPT ![target[q]] = held[q]]
    /\ UNCHANGED <<onDisk, known, requestVars, sweepVars, overlapped>>
    /\ storedBack' = TRUE
    /\ Collect

\* HandleChatSSE looks its session up again before it appends the answer.
Reopen(q) ==
    /\ pc[q] = "using"
    /\ sessions[target[q]] # NoSession
    /\ held' = [held EXCEPT ![q] = sessions[target[q]]]
    /\ UNCHANGED <<sessions, onDisk, known, pc, target, elapsed, sweepVars, history>>
    /\ Collect

Answer(q) ==
    /\ pc[q] = "using"
    /\ Finish(q)
    /\ UNCHANGED <<sessions, onDisk, known, sweepVars, history>>
    /\ Collect

-----------------------------------------------------------------------------
(* The sweeper, and time. *)

\* The ids whose session is past the TTL.
ExpiredIds_AtTTL == {i \in Ids : sessions[i] # NoSession /\ age[sessions[i]] >= TTL}  \* mutant
ExpiredIds_Sessions == {sessions[i] : i \in {j \in Ids : sessions[j] # NoSession}}   \* mutant
ExpiredIds == {i \in Ids : sessions[i] # NoSession /\ Expired(sessions[i])}

\* The ticker fires: sweepExpired collects, under the read lock.
SweepCollect ==
    /\ sinceSweep = SweepEvery
    /\ expired = {} /\ removing = NoSession
    /\ expired' = ExpiredIds
    /\ sinceSweep' = 0
    /\ UNCHANGED <<sessions, age, onDisk, known, requestVars, removing, history>>

\* Mutant: Delete returns before it removes the directory.
SweepDelete_KeepsDir(i) ==
    /\ i \in expired /\ removing = NoSession
    /\ expired' = expired \ {i}
    /\ sessions' = [sessions EXCEPT ![i] = NoSession]
    /\ UNCHANGED <<age, onDisk, known, requestVars, sinceSweep, removing, history>>

\* Delete of one collected id, under the lock: it takes out whatever is there now.
SweepDelete(i) ==
    /\ i \in expired /\ removing = NoSession
    /\ expired' = expired \ {i}
    /\ sessions' = [sessions EXCEPT ![i] = NoSession]
    /\ removing' = sessions[i]
    /\ UNCHANGED <<age, onDisk, known, requestVars, sinceSweep, history>>

\* Mutant: the directory removed is not that of the session.
SweepRemoveDir_Other ==
    /\ removing # NoSession
    /\ removing' = NoSession
    /\ UNCHANGED <<sessions, onDisk, known, requestVars, sinceSweep, expired, history>>
    /\ Collect

\* Delete, after the unlock: os.RemoveAll of the directory, if there is one.
SweepRemoveDir ==
    /\ removing # NoSession
    /\ onDisk' = onDisk \ {removing}
    /\ removing' = NoSession
    /\ UNCHANGED <<sessions, known, requestVars, sinceSweep, expired, history>>
    /\ Collect

\* A request lasts MaxElapsed ticks at most, and no tick finds the sweeper late.
Tick ==
    /\ \A q \in Requests : pc[q] # "idle" => elapsed[q] < MaxElapsed
    /\ sinceSweep < SweepEvery /\ expired = {} /\ removing = NoSession
    /\ sinceSweep' = sinceSweep + 1
    /\ age' = [o \in Sessions |-> IF Unreferenced(o) \/ Expired(o) THEN age[o] ELSE age[o] + 1]
    /\ elapsed' = [q \in Requests |-> IF pc[q] = "idle" THEN 0 ELSE elapsed[q] + 1]
    /\ UNCHANGED <<sessions, onDisk, known, pc, target, held, expired, removing, history>>

-----------------------------------------------------------------------------
\* What a request does once it has started.
Proceed(q) == \/ \E o \in Sessions : Extract(q, o) \/ RestoreBare(q, o)
              \/ UploadFails(q) \/ Put(q) \/ InsertRow(q) \/ InsertFails(q)
              \/ Answer(q)

Next == \/ \E q \in Requests, i \in Ids : Upload(q, i) \/ Open(q, i) \/ Miss(q, i)
        \/ \E q \in Requests : Proceed(q) \/ WriteBack(q) \/ Reopen(q)
        \/ SweepCollect \/ (\E i \in Ids : SweepDelete(i)) \/ SweepRemoveDir
        \/ Tick

Spec == Init /\ [][Next]_vars

\* Requests that started are answered, the sweeper's ticker fires and its pass
\* runs to its end, and time goes on.  Nothing forces a request to arrive.
Fairness == /\ \A q \in Requests : WF_vars(Proceed(q))
            /\ WF_vars(SweepCollect)
            /\ \A i \in Ids : WF_vars(SweepDelete(i))
            /\ WF_vars(SweepRemoveDir)
            /\ WF_vars(Tick)

FairSpec == Spec /\ Fairness
-----------------------------------------------------------------------------
(* Properties. *)

TypeOK == /\ sessions \in [Ids -> Sessions \cup {NoSession}]
          /\ age \in [Sessions -> 0..(TTL + 1)]
          /\ onDisk \in SUBSET Sessions
          /\ known \in [Ids -> {"unused", "issued", "recorded"}]
          /\ pc \in [Requests -> Steps]
          /\ target \in [Requests -> Ids]
          /\ held \in [Requests -> Sessions \cup {NoSession}]
          /\ elapsed \in [Requests -> 0..MaxElapsed]
          /\ sinceSweep \in 0..SweepEvery
          /\ expired \in SUBSET Ids
          /\ removing \in Sessions \cup {NoSession}
          /\ overlapped \in BOOLEAN /\ storedBack \in BOOLEAN

\* A sweep never deletes a session younger than the TTL, although it collects
\* ids under one lock and deletes them under another while requests put sessions
\* under the same ids.  It holds for requests shorter than the TTL until one of
\* two requests served together stores a session back, and only so long.
SweepsOnlyExpired ==
    [][\A i \in Ids : SweepDelete(i) /\ sessions[i] # NoSession =>
          Expired(sessions[i]) \/ (overlapped /\ storedBack)]_vars

\* Something will still remove the directory of o: a session of the map, a
\* request at work or the sweeper refers to it.
Registered(o) == \/ \E i \in Ids : sessions[i] = o
                 \/ \E q \in Requests : held[q] = o
                 \/ removing = o

\* Every extracted directory stays registered for cleanup while requests do not
\* overlap.  After that one may be lost, when two restores of a session both
\* store theirs.
NoDirectoryLost == overlapped \/ \A o \in onDisk : Registered(o)

\* Every session leaves the map again, even one a chat put back after its sweep.
SessionsExpire == \A i \in Ids : sessions[i] # NoSession ~> sessions[i] = NoSession

\* Every directory is removed again, unless requests overlapped and left it to nobody.
DirectoriesGo ==
    \A o \in Sessions : o \in onDisk ~> (o \notin onDisk \/ (overlapped /\ ~ Registered(o)))
=============================================================================
