------------------------- MODULE SessionStore_proofs -------------------------
(***************************************************************************)
(* Type correctness of the session store, that no directory is lost while  *)
(* requests do not overlap, and that sweeps delete expired sessions only,  *)
(* for any number of ids, sessions and requests, and any TTL and period of *)
(* the sweeper.                                                            *)
(***************************************************************************)
EXTENDS SessionStore, TLAPS

\* A request is at work.
Busy(q) == pc[q] # "idle"

\* An id is issued before a session is stored under it.
IdsAreIssued ==
    /\ \A i \in Ids : known[i] = "unused" => sessions[i] = NoSession
    /\ \A q \in Requests : Busy(q) => known[target[q]] # "unused"

HeldAfterExtraction ==
    \A q \in Requests : pc[q] \in {"idle", "upload", "restore"} => held[q] = NoSession

OneAtATime == \A q, r \in Requests : Busy(q) /\ Busy(r) => q = r

\* Nobody stores a session where a request is about to store one; what a request has
\* stored, or opened, is still there or swept, and then its directory is being
\* removed or is gone.
StoresItsOwn ==
    \A q \in Requests :
        /\ pc[q] \in {"upload", "restore", "put"} => sessions[target[q]] = NoSession
        /\ pc[q] \in {"insert", "using"} =>
              /\ sessions[target[q]] \in {held[q], NoSession}
              /\ held[q] \in onDisk => sessions[target[q]] = held[q] \/ removing = held[q]

DInv == /\ IdsAreIssued /\ HeldAfterExtraction
        /\ ~overlapped => OneAtATime /\ StoresItsOwn
        /\ NoDirectoryLost
-----------------------------------------------------------------------------
\* The variables of the store, its requests and its sweeper keep their types; an age
\* stops at one tick past the TTL.
THEOREM TypeCorrect == Spec => []TypeOK
<1>0. (CHOOSE i \in Ids : TRUE) \in Ids
  BY SessionAssumption
<1>1. Init => TypeOK
  <2> SUFFICES ASSUME Init PROVE TypeOK
    OBVIOUS
  <2> DEFINE i0 == CHOOSE i \in Ids : TRUE
  <2>1. target = [q \in Requests |-> i0]
    BY DEF Init
  <2>2. i0 \in Ids
    BY <1>0
  <2> HIDE DEF i0
  <2>3. target \in [Requests -> Ids]
    BY <2>1, <2>2
  <2>4. /\ sessions \in [Ids -> Sessions \cup {NoSession}]
        /\ held \in [Requests -> Sessions \cup {NoSession}]
    BY DEF Init
  <2>5. /\ known \in [Ids -> {"unused", "issued", "recorded"}]
        /\ pc \in [Requests -> Steps]
    BY DEF Init, Steps
  <2>6. /\ age \in [Sessions -> 0..(TTL + 1)]
        /\ elapsed \in [Requests -> 0..MaxElapsed]
    BY SessionAssumption DEF Init
  <2>7. /\ onDisk \in SUBSET Sessions /\ expired \in SUBSET Ids
        /\ sinceSweep \in 0..SweepEvery
        /\ removing \in Sessions \cup {NoSession}
    BY SessionAssumption DEF Init
  <2>8. overlapped \in BOOLEAN /\ storedBack \in BOOLEAN
    BY DEF Init
  <2>9. QED
    BY <2>3, <2>4, <2>5, <2>6, <2>7, <2>8 DEF TypeOK
<1>2. TypeOK /\ [Next]_vars => TypeOK'
  <2> SUFFICES ASSUME TypeOK, [Next]_vars
               PROVE  TypeOK'
    OBVIOUS
  <2> USE <1>0, SessionAssumption DEF TypeOK, Steps, Goto
  <2>0. ASSUME NEW q \in Requests, Finish(q)
        PROVE  /\ pc' \in [Requests -> Steps]
               /\ target' \in [Requests -> Ids]
               /\ held' \in [Requests -> Sessions \cup {NoSession}]
               /\ elapsed' \in [Requests -> 0..MaxElapsed]
    BY <2>0 DEF Finish
  <2>a. Collect => age' \in [Sessions -> 0..(TTL + 1)]
    BY DEF Collect
  <2>1. ASSUME NEW q \in Requests, NEW i \in Ids, Upload(q, i) \/ Open(q, i) \/ Miss(q, i)
        PROVE  TypeOK'
    BY <2>1 DEF Upload, Open, Miss, Arrive, sweepVars
  <2>2. ASSUME NEW q \in Requests, NEW o \in Sessions, Extract(q, o) \/ RestoreBare(q, o)
        PROVE  TypeOK'
    BY <2>2 DEF Extract, RestoreBare, sweepVars, history
  <2>3. ASSUME NEW q \in Requests, UploadFails(q)
        PROVE  TypeOK'
    BY <2>3, <2>0 DEF UploadFails, sweepVars, history
  <2>4. ASSUME NEW q \in Requests, Put(q)
        PROVE  TypeOK'
    BY <2>4 DEF Put, sweepVars, history
  <2>5. ASSUME NEW q \in Requests, InsertRow(q) \/ InsertFails(q) \/ Answer(q)
        PROVE  TypeOK'
    BY <2>5, <2>0, <2>a DEF InsertRow, InsertFails, Answer, sweepVars, history
  <2>6. ASSUME NEW q \in Requests, WriteBack(q) \/ Reopen(q)
        PROVE  TypeOK'
    BY <2>6, <2>a DEF WriteBack, Reopen, requestVars, sweepVars, history
  <2>7. CASE SweepCollect
    BY <2>7 DEF SweepCollect, ExpiredIds, requestVars, history
  <2>8. ASSUME NEW i \in Ids, SweepDelete(i)
        PROVE  TypeOK'
    BY <2>8 DEF SweepDelete, requestVars, history
  <2>9. CASE SweepRemoveDir
    BY <2>9, <2>a DEF SweepRemoveDir, requestVars, history
  <2>10. CASE Tick
    <3>1. age' \in [Sessions -> 0..(TTL + 1)]
      BY <2>10 DEF Tick, Expired
    <3>2. elapsed' \in [Requests -> 0..MaxElapsed]
      BY <2>10 DEF Tick
    <3>3. QED
      BY <2>10, <3>1, <3>2 DEF Tick, history
  <2>11. CASE UNCHANGED vars
    BY <2>11 DEF vars, requestVars, sweepVars, history
  <2>12. QED
    BY <2>1, <2>2, <2>3, <2>4, <2>5, <2>6, <2>7, <2>8, <2>9, <2>10, <2>11 DEF Next, Proceed
<1>3. QED
  BY <1>1, <1>2, PTL DEF Spec
-----------------------------------------------------------------------------
LEMMA Directories == Spec => []DInv
<1>1. Init => DInv
  BY DEF Init, DInv, IdsAreIssued, HeldAfterExtraction, OneAtATime, StoresItsOwn, NoDirectoryLost,
         Busy
<1>2. TypeOK /\ TypeOK' /\ DInv /\ [Next]_vars => DInv'
  <2> SUFFICES ASSUME TypeOK, TypeOK', DInv, [Next]_vars
               PROVE  DInv'
    OBVIOUS
  <2> USE SessionAssumption
      DEF TypeOK, Steps, Goto, Busy, DInv, IdsAreIssued, HeldAfterExtraction, OneAtATime,
          StoresItsOwn, NoDirectoryLost, Registered
  <2>0. ASSUME NEW q \in Requests, ~ Busy(q), Arrive(q), ~ overlapped'
        PROVE  ~ overlapped /\ \A r \in Requests \ {q} : pc[r] = "idle"
    BY <2>0 DEF Arrive
  <2>1. ASSUME NEW q \in Requests, NEW i \in Ids, Upload(q, i)
        PROVE  DInv'
    <3>1. /\ ~ Busy(q) /\ Arrive(q) /\ held[q] = NoSession
          /\ pc' = [pc EXCEPT ![q] = "upload"] /\ held' = held
          /\ target' = [target EXCEPT ![q] = i]
          /\ UNCHANGED <<sessions, onDisk, removing>>
      BY <2>1 DEF Upload, sweepVars
    <3>2. IdsAreIssued'
      BY <2>1 DEF Upload
    <3>3. HeldAfterExtraction'
      BY <2>1, <3>1
    <3>4. ~ overlapped' => OneAtATime'
      BY <2>0, <3>1
    <3>5. ~ overlapped' => StoresItsOwn'
      <4> SUFFICES ASSUME ~ overlapped' PROVE StoresItsOwn'
        OBVIOUS
      <4>1. \A r \in Requests \ {q} : pc'[r] = "idle"
        BY <2>0, <3>1
      <4>2. sessions[i] = NoSession
        BY <2>1, <3>1 DEF Upload
      <4>3. QED
        BY <3>1, <4>1, <4>2
    <3>6. NoDirectoryLost'
      <4> SUFFICES ASSUME ~ overlapped', NEW o \in onDisk'
                   PROVE  Registered(o)'
        OBVIOUS
      <4>1. Registered(o) /\ o # NoSession
        BY <2>0, <3>1
      <4>2. QED
        BY <3>1, <4>1
    <3>7. QED
      BY <3>2, <3>3, <3>4, <3>5, <3>6
  <2>2. ASSUME NEW q \in Requests, NEW i \in Ids, Open(q, i)
        PROVE  DInv'
    <3>1. /\ ~ Busy(q) /\ Arrive(q) /\ held[q] = NoSession
          /\ pc' = [pc EXCEPT ![q] = "using"] /\ held' = [held EXCEPT ![q] = sessions[i]]
          /\ target' = [target EXCEPT ![q] = i]
          /\ UNCHANGED <<sessions, onDisk, removing>>
      BY <2>2 DEF Open, sweepVars
    <3>2. IdsAreIssued'
      BY <2>2 DEF Open
    <3>3. HeldAfterExtraction'
      BY <2>2, <3>1
    <3>4. ~ overlapped' => OneAtATime'
      BY <2>0, <3>1
    <3>5. ~ overlapped' => StoresItsOwn'
      <4> SUFFICES ASSUME ~ overlapped' PROVE StoresItsOwn'
        OBVIOUS
      <4>1. \A r \in Requests \ {q} : pc'[r] = "idle"
        BY <2>0, <3>1
      <4>2. held'[q] = sessions[i]
        BY <2>2, <3>1
      <4>3. QED
        BY <3>1, <4>1, <4>2
    <3>6. NoDirectoryLost'
      <4> SUFFICES ASSUME ~ overlapped', NEW o \in onDisk'
                   PROVE  Registered(o)'
        OBVIOUS
      <4>1. Registered(o) /\ o # NoSession
        BY <2>0, <3>1
      <4>2. QED
        BY <3>1, <4>1
    <3>7. QED
      BY <3>2, <3>3, <3>4, <3>5, <3>6
  <2>3. ASSUME NEW q \in Requests, NEW i \in Ids, Miss(q, i)
        PROVE  DInv'
    <3>1. /\ ~ Busy(q) /\ Arrive(q) /\ held[q] = NoSession
          /\ pc' = [pc EXCEPT ![q] = "restore"] /\ held' = held
          /\ target' = [target EXCEPT ![q] = i]
          /\ UNCHANGED <<sessions, onDisk, removing>>
      BY <2>3 DEF Miss, sweepVars
    <3>2. IdsAreIssued'
      BY <2>3 DEF Miss
    <3>3. HeldAfterExtraction'
      BY <2>3, <3>1
    <3>4. ~ overlapped' => OneAtATime'
      BY <2>0, <3>1
    <3>5. ~ overlapped' => StoresItsOwn'
      <4> SUFFICES ASSUME ~ overlapped' PROVE StoresItsOwn'
        OBVIOUS
      <4>1. \A r \in Requests \ {q} : pc'[r] = "idle"
        BY <2>0, <3>1
      <4>2. sessions[i] = NoSession
        BY <2>3, <3>1 DEF Miss
      <4>3. QED
        BY <3>1, <4>1, <4>2
    <3>6. NoDirectoryLost'
      <4> SUFFICES ASSUME ~ overlapped', NEW o \in onDisk'
                   PROVE  Registered(o)'
        OBVIOUS
      <4>1. Registered(o) /\ o # NoSession
        BY <2>0, <3>1
      <4>2. QED
        BY <3>1, <4>1
    <3>7. QED
      BY <3>2, <3>3, <3>4, <3>5, <3>6
  <2>4. ASSUME NEW q \in Requests, NEW o \in Sessions, Extract(q, o)
        PROVE  DInv'
    BY <2>4 DEF Extract, sweepVars, history, Unreferenced
  <2>5. ASSUME NEW q \in Requests, NEW o \in Sessions, RestoreBare(q, o)
        PROVE  DInv'
    BY <2>5 DEF RestoreBare, sweepVars, history, Unreferenced
  <2>6. ASSUME NEW q \in Requests, UploadFails(q)
        PROVE  DInv'
    BY <2>6 DEF UploadFails, Finish, sweepVars, history
  <2>7. ASSUME NEW q \in Requests, Put(q)
        PROVE  DInv'
    BY <2>7 DEF Put, sweepVars, history
  <2>8. ASSUME NEW q \in Requests, InsertRow(q)
        PROVE  DInv'
    BY <2>8 DEF InsertRow, Finish, sweepVars, history
  <2>9. ASSUME NEW q \in Requests, InsertFails(q) \/ Answer(q)
        PROVE  DInv'
    BY <2>9 DEF InsertFails, Answer, Finish, sweepVars, history
  <2>10. ASSUME NEW q \in Requests, WriteBack(q)
         PROVE  DInv'
    BY <2>10 DEF WriteBack, requestVars, sweepVars
  <2>11. ASSUME NEW q \in Requests, Reopen(q)
         PROVE  DInv'
    BY <2>11 DEF Reopen, sweepVars, history
  <2>12. ASSUME NEW i \in Ids, SweepDelete(i)
         PROVE  DInv'
    BY <2>12 DEF SweepDelete, requestVars, history
  <2>13. CASE SweepRemoveDir
    BY <2>13 DEF SweepRemoveDir, requestVars, history
  <2>14. CASE SweepCollect \/ Tick \/ UNCHANGED vars
    BY <2>14 DEF SweepCollect, Tick, vars, requestVars, sweepVars, history
  <2>15. QED
    BY <2>1, <2>2, <2>3, <2>4, <2>5, <2>6, <2>7, <2>8, <2>9, <2>10, <2>11, <2>12, <2>13, <2>14
       DEF Next, Proceed
<1>3. QED
  BY <1>1, <1>2, TypeCorrect, PTL DEF Spec

\* While requests do not overlap, every directory has something that will remove it.
THEOREM DirectoriesAreRegistered == Spec => []NoDirectoryLost
<1>1. DInv => NoDirectoryLost
  BY DEF DInv
<1>2. QED
  BY <1>1, Directories, PTL
-----------------------------------------------------------------------------
\* Past its extraction a request has a session; one it is about to store is its own.
HeldIsNew ==
    \A q \in Requests :
        /\ pc[q] \in {"put", "insert", "using"} => held[q] # NoSession
        /\ pc[q] = "put" => /\ \A i \in Ids : sessions[i] # held[q]
                            /\ \A r \in Requests \ {q} : held[r] # held[q]

\* A request that will store a session found none; what others have stored under the
\* id since then is no older than the request.
StoredSince ==
    \A q \in Requests : pc[q] \in {"upload", "restore", "put"} /\ sessions[target[q]] # NoSession =>
        age[sessions[target[q]]] <= elapsed[q]

\* What the sweeper has collected it will find.
CollectedStay == \A i \in expired : sessions[i] # NoSession
CollectedAreOld == \A i \in expired : sessions[i] # NoSession => Expired(sessions[i])

SInv == /\ HeldIsNew /\ CollectedStay
        /\ ~ storedBack => StoredSince
        /\ ~ (overlapped /\ storedBack) => CollectedAreOld

\* A step that leaves the map alone, and makes nothing in it older or younger.
LEMMA MapKept ==
    ASSUME TypeOK, TypeOK', SInv, UNCHANGED <<sessions, expired, elapsed, storedBack>>,
           overlapped => overlapped',
           \A i \in Ids : sessions[i] # NoSession => age'[sessions[i]] = age[sessions[i]],
           HeldIsNew',
           \A q \in Requests : pc'[q] \in {"upload", "restore", "put"} =>
               \/ pc[q] \in {"upload", "restore", "put"} /\ target'[q] = target[q]
               \/ sessions[target'[q]] = NoSession
    PROVE  SInv'
<1>1. CollectedStay'
  BY DEF SInv, CollectedStay
<1>2. ~ storedBack' => StoredSince'
  BY DEF SInv, StoredSince, TypeOK
<1>3. ~ (overlapped' /\ storedBack') => CollectedAreOld'
  BY DEF SInv, CollectedAreOld, Expired, TypeOK
<1>4. QED
  BY <1>1, <1>2, <1>3 DEF SInv

\* Collect changes no age of a session in the map.
LEMMA CollectKeepsMap ==
    ASSUME TypeOK, TypeOK', Collect, UNCHANGED sessions
    PROVE  \A i \in Ids : sessions[i] # NoSession => age'[sessions[i]] = age[sessions[i]]
BY DEF Collect, Unreferenced, TypeOK

\* A sweep deletes what expired only, although it collects ids under one lock and
\* deletes them under another; until one of two requests served together stores a
\* session back.  No request may last longer than the TTL.
THEOREM ExpiredAreSwept ==
    ASSUME MaxElapsed <= TTL
    PROVE  Spec => SweepsOnlyExpired
<1>1. Init => SInv
  BY DEF Init, SInv, HeldIsNew, CollectedStay, StoredSince, CollectedAreOld
<1>2. TypeOK /\ TypeOK' /\ DInv /\ DInv' /\ SInv /\ [Next]_vars => SInv'
  <2> SUFFICES ASSUME TypeOK, TypeOK', DInv, DInv', SInv, [Next]_vars
               PROVE  SInv'
    OBVIOUS
  <2> DEFINE Storing == {"upload", "restore", "put"}
  <2> USE SessionAssumption DEF Goto
  <2>1. ASSUME NEW q \in Requests, NEW i \in Ids, Upload(q, i) \/ Miss(q, i)
        PROVE  SInv'
    <3>1. /\ pc[q] = "idle" /\ UNCHANGED <<sessions, age, held, elapsed, expired>> /\ Arrive(q)
          /\ target' = [target EXCEPT ![q] = i]
          /\ pc' \in {[pc EXCEPT ![q] = "upload"], [pc EXCEPT ![q] = "restore"]}
      BY <2>1 DEF Upload, Miss, sweepVars
    <3>2. sessions[i] = NoSession
      BY <2>1 DEF Upload, Miss, DInv, IdsAreIssued
    <3>3. HeldIsNew'
      BY <3>1 DEF SInv, HeldIsNew, TypeOK
    <3>4. \A r \in Requests : pc'[r] \in Storing =>
              \/ pc[r] \in Storing /\ target'[r] = target[r]
              \/ sessions[target'[r]] = NoSession
      BY <3>1, <3>2 DEF TypeOK
    <3>5. QED
      BY <3>1, <3>3, <3>4, MapKept DEF Arrive
  <2>2. ASSUME NEW q \in Requests, NEW i \in Ids, Open(q, i)
        PROVE  SInv'
    <3>1. /\ pc[q] = "idle" /\ UNCHANGED <<sessions, age, elapsed, expired>> /\ Arrive(q)
          /\ target' = [target EXCEPT ![q] = i]
          /\ held' = [held EXCEPT ![q] = sessions[i]] /\ sessions[i] # NoSession
          /\ pc' = [pc EXCEPT ![q] = "using"]
      BY <2>2 DEF Open, sweepVars
    <3>2. HeldIsNew'
      BY <3>1 DEF SInv, HeldIsNew, TypeOK
    <3>3. QED
      BY <3>1, <3>2, MapKept DEF Arrive, TypeOK
  <2>3. ASSUME NEW q \in Requests, NEW o \in Sessions, Extract(q, o) \/ RestoreBare(q, o)
        PROVE  SInv'
    <3>1. /\ pc[q] \in Storing /\ Unreferenced(o)
          /\ UNCHANGED <<sessions, age, target, elapsed, expired, overlapped, storedBack>>
          /\ held' = [held EXCEPT ![q] = o] /\ pc' = [pc EXCEPT ![q] = "put"]
      BY <2>3 DEF Extract, RestoreBare, sweepVars, history
    <3>2. HeldIsNew'
      BY <3>1 DEF SInv, HeldIsNew, Unreferenced, TypeOK
    <3>3. QED
      BY <3>1, <3>2, MapKept DEF TypeOK
  <2>4. ASSUME NEW q \in Requests, UploadFails(q) \/ InsertRow(q) \/ InsertFails(q) \/ Answer(q)
        PROVE  SInv'
    <3>1. /\ UNCHANGED <<sessions, expired, overlapped, storedBack>>
          /\ Finish(q)
          /\ age' = age \/ Collect
      BY <2>4 DEF UploadFails, InsertRow, InsertFails, Answer, sweepVars, history
    <3>2. \A i \in Ids : sessions[i] # NoSession => age'[sessions[i]] = age[sessions[i]]
      BY <3>1, CollectKeepsMap
    <3>3. /\ pc'[q] = "idle"
          /\ \A r \in Requests \ {q} : /\ pc'[r] = pc[r] /\ target'[r] = target[r]
                                       /\ held'[r] = held[r] /\ elapsed'[r] = elapsed[r]
          /\ held'[q] = NoSession
      BY <3>1 DEF Finish, TypeOK
    <3>4. HeldIsNew'
      BY <3>1, <3>3 DEF SInv, HeldIsNew, TypeOK
    <3>5. CollectedStay'
      BY <3>1 DEF SInv, CollectedStay
    <3>6. ~ storedBack' => StoredSince'
      BY <3>1, <3>2, <3>3 DEF SInv, StoredSince, TypeOK
    <3>7. ~ (overlapped' /\ storedBack') => CollectedAreOld'
      BY <3>1, <3>2 DEF SInv, CollectedAreOld, Expired, TypeOK
    <3>8. QED
      BY <3>4, <3>5, <3>6, <3>7 DEF SInv
  <2>5. ASSUME NEW q \in Requests, Put(q)
        PROVE  SInv'
    <3>1. /\ pc[q] = "put" /\ sessions' = [sessions EXCEPT ![target[q]] = held[q]]
          /\ UNCHANGED <<target, held, elapsed, expired, overlapped, storedBack>>
          /\ pc' \in {[pc EXCEPT ![q] = "insert"], [pc EXCEPT ![q] = "using"]}
          /\ age' = [o \in Sessions |-> IF o = held[q] \/ Unreferenced(o)' THEN 0 ELSE age[o]]
      BY <2>5 DEF Put, sweepVars, history
    <3>2. target[q] \in Ids
      BY DEF TypeOK
    <3>3. HeldIsNew'
      BY <3>1, <3>2 DEF SInv, HeldIsNew, TypeOK
    <3>4. CollectedStay'
      <4>1. held[q] # NoSession
        BY <3>1 DEF SInv, HeldIsNew
      <4>2. QED
        BY <3>1, <3>2, <4>1 DEF SInv, CollectedStay, TypeOK
    <3>5. \A i \in Ids : i # target[q] /\ sessions[i] # NoSession =>
              sessions'[i] = sessions[i] /\ age'[sessions[i]] = age[sessions[i]]
      BY <3>1, <3>2 DEF SInv, HeldIsNew, Unreferenced, TypeOK
    <3>6. sessions'[target[q]] # NoSession => age'[sessions'[target[q]]] = 0
      BY <3>1, <3>2 DEF TypeOK
    <3>7. ~ storedBack' => StoredSince'
      BY <3>1, <3>5, <3>6 DEF SInv, StoredSince, TypeOK
    <3>8. ASSUME ~ (overlapped /\ storedBack)
          PROVE  target[q] \notin expired
      <4>1. CASE ~ overlapped
        BY <3>1, <4>1 DEF DInv, StoresItsOwn, SInv, CollectedStay
      <4>2. CASE ~ storedBack
        <5>1. SUFFICES ASSUME target[q] \in expired
                       PROVE  FALSE
          OBVIOUS
        <5>2. sessions[target[q]] # NoSession /\ age[sessions[target[q]]] > TTL
          BY <3>8, <5>1 DEF SInv, CollectedStay, CollectedAreOld, Expired
        <5>3. age[sessions[target[q]]] <= elapsed[q]
          BY <3>1, <4>2, <5>2 DEF SInv, StoredSince
        <5>4. elapsed[q] <= MaxElapsed /\ elapsed[q] \in Nat /\ age[sessions[target[q]]] \in Nat
          BY <5>2 DEF TypeOK
        <5>5. QED
          BY <5>2, <5>3, <5>4
      <4>3. QED
        BY <3>8, <4>1, <4>2
    <3>9. ~ (overlapped' /\ storedBack') => CollectedAreOld'
      BY <3>1, <3>5, <3>8 DEF SInv, CollectedAreOld, CollectedStay, Expired, TypeOK
    <3>10. QED
      BY <3>3, <3>4, <3>7, <3>9 DEF SInv
  <2>6. ASSUME NEW q \in Requests, WriteBack(q)
        PROVE  SInv'
    <3>1. /\ pc[q] = "using" /\ sessions' = [sessions EXCEPT ![target[q]] = held[q]]
          /\ UNCHANGED <<pc, target, held, elapsed, expired, overlapped>>
          /\ storedBack' /\ Collect
      BY <2>6 DEF WriteBack, requestVars, sweepVars
    <3>2. HeldIsNew'
      BY <3>1 DEF SInv, HeldIsNew, TypeOK
    <3>3. held[q] # NoSession
      BY <3>1 DEF SInv, HeldIsNew
    <3>4. CollectedStay'
      BY <3>1, <3>3 DEF SInv, CollectedStay, TypeOK
    <3>5. ASSUME ~ overlapped'
          PROVE  CollectedAreOld'
      <4>1. target[q] \in expired => sessions[target[q]] = held[q]
        BY <3>1, <3>5 DEF DInv, StoresItsOwn, SInv, CollectedStay
      <4>2. \A i \in expired : sessions'[i] = sessions[i]
        BY <3>1, <4>1 DEF TypeOK
      <4>3. \A i \in expired : age'[sessions[i]] = age[sessions[i]]
        BY <3>1, <4>2 DEF SInv, CollectedStay, Collect, Unreferenced, TypeOK
      <4>4. QED
        BY <3>1, <3>5, <4>2, <4>3 DEF SInv, CollectedAreOld, Expired
    <3>6. QED
      BY <3>1, <3>2, <3>4, <3>5 DEF SInv
  <2>7. ASSUME NEW q \in Requests, Reopen(q)
        PROVE  SInv'
    <3>1. /\ pc[q] = "using" /\ Collect
          /\ UNCHANGED <<sessions, pc, target, elapsed, expired, overlapped, storedBack>>
          /\ held' = [held EXCEPT ![q] = sessions[target[q]]]
          /\ sessions[target[q]] # NoSession
      BY <2>7 DEF Reopen, sweepVars, history
    <3>2. HeldIsNew'
      BY <3>1 DEF SInv, HeldIsNew, TypeOK
    <3>3. QED
      BY <3>1, <3>2, CollectKeepsMap, MapKept
  <2>8. CASE SweepCollect
    <3>1. /\ expired' = ExpiredIds
          /\ UNCHANGED <<sessions, age, pc, target, held, elapsed, overlapped, storedBack>>
      BY <2>8 DEF SweepCollect, requestVars, history
    <3>2. HeldIsNew' /\ CollectedStay' /\ CollectedAreOld'
      BY <3>1 DEF SInv, HeldIsNew, CollectedStay, CollectedAreOld, ExpiredIds, Expired
    <3>3. ~ storedBack' => StoredSince'
      BY <3>1 DEF SInv, StoredSince
    <3>4. QED
      BY <3>2, <3>3 DEF SInv
  <2>9. ASSUME NEW i \in Ids, SweepDelete(i)
        PROVE  SInv'
    <3>1. /\ expired' = expired \ {i} /\ sessions' = [sessions EXCEPT ![i] = NoSession]
          /\ UNCHANGED <<age, pc, target, held, elapsed, overlapped, storedBack>>
      BY <2>9 DEF SweepDelete, requestVars, history
    <3>2. \A j \in Ids : sessions'[j] = IF j = i THEN NoSession ELSE sessions[j]
      BY <3>1 DEF TypeOK
    <3>3. expired \subseteq Ids /\ \A q \in Requests : target[q] \in Ids
      BY DEF TypeOK
    <3>4. HeldIsNew'
      BY <3>1, <3>2 DEF SInv, HeldIsNew
    <3>5. CollectedStay'
      BY <3>1, <3>2, <3>3 DEF SInv, CollectedStay
    <3>6. ~ storedBack' => StoredSince'
      BY <3>1, <3>2, <3>3 DEF SInv, StoredSince
    <3>7. ~ (overlapped' /\ storedBack') => CollectedAreOld'
      BY <3>1, <3>2, <3>3 DEF SInv, CollectedAreOld, Expired
    <3>8. QED
      BY <3>4, <3>5, <3>6, <3>7 DEF SInv
  <2>10. CASE SweepRemoveDir
    <3>1. /\ Collect
          /\ UNCHANGED <<sessions, pc, target, held, elapsed, expired, overlapped, storedBack>>
      BY <2>10 DEF SweepRemoveDir, requestVars, history
    <3>2. HeldIsNew'
      BY <3>1 DEF SInv, HeldIsNew
    <3>3. QED
      BY <3>1, <3>2, CollectKeepsMap, MapKept
  <2>11. CASE Tick
    <3>1. /\ UNCHANGED <<sessions, pc, target, held, expired, overlapped, storedBack>>
          /\ expired = {}
          /\ \A o \in Sessions : age'[o] \in {age[o], age[o] + 1}
          /\ \A q \in Requests : pc[q] # "idle" => elapsed'[q] = elapsed[q] + 1
      BY <2>11 DEF Tick, history
    <3>2. HeldIsNew' /\ CollectedStay' /\ CollectedAreOld'
      BY <3>1 DEF SInv, HeldIsNew, CollectedStay, CollectedAreOld
    <3>3. ASSUME ~ storedBack, NEW q \in Requests, pc[q] \in Storing, sessions[target[q]] # NoSession
          PROVE  age'[sessions[target[q]]] <= elapsed'[q]
      <4>1. age[sessions[target[q]]] <= elapsed[q] /\ sessions[target[q]] \in Sessions
        BY <3>3 DEF SInv, StoredSince, TypeOK
      <4>2. age[sessions[target[q]]] \in Nat /\ elapsed[q] \in Nat
        BY <4>1 DEF TypeOK
      <4>3. QED
        BY <3>1, <3>3, <4>1, <4>2
    <3>4. QED
      BY <3>1, <3>2, <3>3 DEF SInv, StoredSince
  <2>12. CASE UNCHANGED vars
    BY <2>12 DEF vars, requestVars, sweepVars, history, SInv, HeldIsNew, CollectedStay, StoredSince,
                 CollectedAreOld, Expired
  <2>13. QED
    BY <2>1, <2>2, <2>3, <2>4, <2>5, <2>6, <2>7, <2>8, <2>9, <2>10, <2>11, <2>12 DEF Next, Proceed
<1>3. ASSUME SInv
      PROVE  \A i \in Ids : SweepDelete(i) /\ sessions[i] # NoSession =>
                 Expired(sessions[i]) \/ (overlapped /\ storedBack)
  BY <1>3 DEF SInv, CollectedAreOld, SweepDelete
<1>4. QED
  BY <1>1, <1>2, <1>3, TypeCorrect, Directories, PTL DEF Spec, SweepsOnlyExpired
==============================================================================
