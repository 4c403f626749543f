----------------------- MODULE ReportPersistence_proofs -----------------------
(***************************************************************************)
(* Type correctness of tables, sessions, cache and workers, and that a     *)
(* session which started with its stored analyses in the cache runs none   *)
(* of them again unless the cache lost them in one of three named ways,    *)
(* for any number of bundle ids, requests and objects, with or without     *)
(* cancellations, faults and expiry.                                       *)
(***************************************************************************)
EXTENDS ReportPersistence, TLAPS

\* Requests work for ids that were issued, on rows their restores read.
RequestsAreReady ==
    \A q \in Requests :
       /\ pc[q] \in {"insert", "restore", "load", "fill", "run", "mutate", "set", "save"}
             => id[q] \in issued
       /\ pc[q] \in {"idle", "upload", "insert", "restore", "load"} => phase[q] = 0
       /\ pc[q] \notin {"fill", "mutate", "set"} => row[q] = Nothing
       /\ pc[q] = "fill" => row[q] # Nothing

\* Workers have a phase and data when they analyse, and an object in upsertCache;
\* sessions and pre-warm goroutines have issued ids.
WorkersAreReady ==
    /\ \A w \in Workers :
          /\ pc[w] \in {"check", "run", "mutate", "set", "save"} => phase[w] \in Phases
          /\ pc[w] = "run" => result[w] # "none"
          /\ IF pc[w] \in {"mutate", "set"} THEN held[w] \in Refs ELSE held[w] = NoRef
    /\ \A i \in Ids :
          /\ sessions[i] # "none" => i \in issued
          /\ pc[i] # "idle" => i \in issued /\ warmData[i] # "none"

TInv == TypeOK /\ RequestsAreReady /\ WorkersAreReady

\* Analyses are stored of bundles that have a row.
StoredHaveRows == \A i \in Ids, p \in Phases : saved[i][p] # "none" => i \in bundles

\* Until a phase is lost, all who are in upsertCache have the object of the entry;
\* before the first entry there is one of them at most.
OneObject ==
    /\ entry # NoRef => \A w \in Workers : held[w] \in {NoRef, entry}
    /\ \A v, w \in Workers : v # w /\ held[v] # NoRef /\ held[w] # NoRef => entry # NoRef

\* What a worker has put in its object is there, and in the cache before it is saved.
WorkerAhead(w, p) ==
    phase[w] = p => /\ pc[w] \in {"mutate", "set", "save"} => result[w] # "none"
                    /\ pc[w] = "set" => objects[held[w]][p] # "none"
                    /\ pc[w] = "save" => Cached(p) # "none"

\* A restore has put in the cache what it has been through of its row, and what was
\* saved since it read the row is there too.
RestoreAhead(q, p) ==
    row[q] # Nothing =>
       /\ row[q][p] # "none" /\ (p < phase[q] \/ (p = phase[q] /\ pc[q] = "fill"))
             => Cached(p) # "none"
       /\ saved[id[q]][p] # "none" => row[q][p] # "none" \/ Cached(p) # "none"

LoadedAhead(p) == \A i \in loaded : saved[i][p] # "none" => Cached(p) # "none"

Ahead(p) == /\ \A w \in Workers : WorkerAhead(w, p)
            /\ \A q \in Requests : RestoreAhead(q, p)
            /\ LoadedAhead(p)

IInv == /\ TInv
        /\ StoredHaveRows
        /\ lossy # Phases => OneObject
        /\ \A p \in Phases \ lossy : Ahead(p)
-----------------------------------------------------------------------------
LEMMA LossyHasType == LossyNext /\ lossy \in SUBSET Phases => lossy' \in SUBSET Phases
BY PersistenceAssumption DEF LossyNext, Phases

LEMMA NothingHasType == Nothing \in [Phases -> Results] /\ \A p \in Phases : Nothing[p] = "none"
BY DEF Nothing, Results

LEMMA CollectHasType ==
    ASSUME Collect, objects \in [Refs -> [Phases -> Results]]
    PROVE  objects' \in [Refs -> [Phases -> Results]]
BY NothingHasType DEF Collect

LEMMA IdsAndRequests == /\ Requests \subseteq Workers /\ Ids \subseteq Workers
                        /\ \A i \in Ids, q \in Requests : i # q
BY PersistenceAssumption DEF Workers

LEMMA TypeStep == TInv /\ [Next]_vars => TInv'
<1> SUFFICES ASSUME TInv, [Next]_vars
             PROVE  TInv'
  OBVIOUS
<1> USE PersistenceAssumption, IdsAndRequests, NothingHasType
        DEF TInv, TypeOK, RequestsAreReady, WorkersAreReady, Results, Positions, Goto
<1>0. /\ 1 \in Phases /\ LastPhase \in Phases /\ Phases \subseteq 0..LastPhase
      /\ \A n \in Phases : n # LastPhase => n + 1 \in Phases
  BY DEF Phases
<1> USE <1>0
<1>1. ASSUME NEW q \in Requests, lossy' \in SUBSET Phases, Upload(q)
      PROVE  TInv'
  BY <1>1 DEF Upload, tables, memory, cache
<1>2. ASSUME NEW q \in Requests, NEW i \in Ids, lossy' \in SUBSET Phases, Reopen(q, i)
      PROVE  TInv'
  BY <1>2 DEF Reopen, tables, memory, cache
<1>3. ASSUME NEW q \in Requests, NEW i \in Ids, lossy' \in SUBSET Phases, UploadStore(q, i)
      PROVE  TInv'
  <2>1. /\ pc[q] = "upload" /\ i \notin issued /\ issued' = issued \cup {i}
        /\ sessions' = [sessions EXCEPT ![i] = "whole"]
        /\ warmData' = [warmData EXCEPT ![i] = "whole"]
        /\ phase' = [phase EXCEPT ![i] = 1]
        /\ pc' = [pc EXCEPT ![i] = "check", ![q] = "insert"]
        /\ id' = [id EXCEPT ![q] = i]
        /\ loaded' = loaded \cup {i}
        /\ UNCHANGED <<bundles, saved, entry, objects, held, result, row>>
    BY <1>3 DEF UploadStore, StoreNew, tables, cache
  <2>2. pc[i] = "idle"
    BY <2>1
  <2>3. TypeOK'
    BY <1>3, <2>1
  <2>4. \A w \in Workers : \/ w = i /\ pc'[w] = "check" /\ phase'[w] = 1
                           \/ w = q /\ pc'[w] = "insert" /\ phase'[w] = phase[w]
                           \/ w # i /\ w # q /\ pc'[w] = pc[w] /\ phase'[w] = phase[w]
    BY <2>1
  <2>5. RequestsAreReady'
    BY <2>1, <2>4
  <2>6. WorkersAreReady'
    BY <2>1, <2>2, <2>4
  <2>7. QED
    BY <2>3, <2>5, <2>6
<1>4. ASSUME NEW q \in Requests, NEW i \in Ids, lossy' \in SUBSET Phases, UploadStoreCut(q, i)
      PROVE  TInv'
  BY <1>4 DEF UploadStoreCut, StoreNew, tables, cache
<1>5. ASSUME NEW q \in Requests, lossy' \in SUBSET Phases, Finish(q), held' = held, entry' = entry,
             objects' = objects, warmData' = warmData, issued' = issued,
             pc[q] \notin {"mutate", "set"},
             \/ sessions' = sessions
             \/ pc[q] = "restore" /\ \E d \in {"cut", "whole"} : sessions' = [sessions EXCEPT ![id[q]] = d],
             loaded' \subseteq issued, bundles' \subseteq issued, saved' \in [Ids -> [Phases -> Results]]
      PROVE  TInv'
  <2>1. sessions' \in [Ids -> Results] /\ \A i \in Ids : sessions'[i] # "none" => i \in issued
    <3>1. CASE sessions' = sessions
      BY <3>1
    <3>2. ASSUME pc[q] = "restore", NEW d \in {"cut", "whole"}, sessions' = [sessions EXCEPT ![id[q]] = d]
          PROVE  sessions' \in [Ids -> Results] /\ \A i \in Ids : sessions'[i] # "none" => i \in issued
      <4>1. id[q] \in issued /\ id[q] \in Ids /\ d \in Results
        BY <3>2
      <4>2. sessions' \in [Ids -> Results]
        BY <3>2, <4>1
      <4>3. \A i \in Ids : sessions'[i] = sessions[i] \/ i = id[q]
        BY <3>2, <4>1
      <4>4. QED
        BY <4>1, <4>2, <4>3
    <3>3. QED
      BY ONLY <1>5, <3>1, <3>2
  <2>2. /\ pc' \in [Workers -> Positions] /\ phase' \in [Workers -> 0..LastPhase]
        /\ result' \in [Workers -> Results] /\ id' \in [Requests -> Ids \cup {NoId}]
        /\ row' \in [Requests -> [Phases -> Results]]
    BY <1>5 DEF Finish
  <2>3. \A r \in Requests :
            \/ r = q /\ pc'[r] = "idle" /\ phase'[r] = 0 /\ row'[r] = Nothing
            \/ r # q /\ pc'[r] = pc[r] /\ phase'[r] = phase[r] /\ row'[r] = row[r] /\ id'[r] = id[r]
    BY <1>5 DEF Finish
  <2>4. \A w \in Workers :
            \/ w = q /\ pc'[w] = "idle"
            \/ w # q /\ pc'[w] = pc[w] /\ phase'[w] = phase[w] /\ result'[w] = result[w]
    BY <1>5 DEF Finish
  <2>5. RequestsAreReady'
    BY <1>5, <2>3
  <2>6. WorkersAreReady'
    <3>1. ASSUME NEW w \in Workers
          PROVE  /\ pc'[w] \in {"check", "run", "mutate", "set", "save"} => phase'[w] \in Phases
                 /\ pc'[w] = "run" => result'[w] # "none"
                 /\ IF pc'[w] \in {"mutate", "set"} THEN held'[w] \in Refs ELSE held'[w] = NoRef
      <4>1. CASE w = q
        BY <1>5, <2>4, <4>1
      <4>2. CASE w # q
        BY <1>5, <2>4, <4>2
      <4>3. QED
        BY <4>1, <4>2
    <3>2. ASSUME NEW i \in Ids
          PROVE  pc'[i] # "idle" => i \in issued' /\ warmData'[i] # "none"
      BY <1>5, <2>4
    <3>3. QED
      BY <1>5, <2>1, <3>1, <3>2
  <2>7. QED
    BY <1>5, <2>1, <2>2, <2>5, <2>6
<1>6. ASSUME NEW q \in Requests, lossy' \in SUBSET Phases,
             \/ InsertRow(q) \/ UploadFails(q) \/ RestoreSessionCut(q) \/ LoadNothing(q)
             \/ FillDone(q) \/ RunFails(q) \/ Save(q) \/ SaveFails(q)
      PROVE  TInv'
  <2>1. /\ Finish(q) /\ UNCHANGED <<held, entry, objects, warmData, issued>>
        /\ pc[q] \notin {"mutate", "set"}
    BY <1>6 DEF InsertRow, UploadFails, RestoreSessionCut, LoadNothing, FillDone, RunFails, Save,
          SaveFails, cache, memory, tables
  <2>2. \/ sessions' = sessions
        \/ pc[q] = "restore" /\ \E d \in {"cut", "whole"} : sessions' = [sessions EXCEPT ![id[q]] = d]
    BY <1>6 DEF InsertRow, UploadFails, RestoreSessionCut, LoadNothing, FillDone, RunFails, Save,
          SaveFails, cache, memory, tables
  <2>3. loaded' \subseteq issued
    BY <1>6 DEF InsertRow, UploadFails, RestoreSessionCut, LoadNothing, FillDone, RunFails, Save,
          SaveFails, cache, memory, tables
  <2>4. bundles' \subseteq issued
    BY <1>6 DEF InsertRow, UploadFails, RestoreSessionCut, LoadNothing, FillDone, RunFails, Save,
          SaveFails, cache, memory, tables
  <2>5. saved' \in [Ids -> [Phases -> Results]]
    BY <1>6 DEF InsertRow, UploadFails, RestoreSessionCut, LoadNothing, FillDone, RunFails, Save,
          SaveFails, cache, memory, tables
  <2>6. QED
    BY <1>5, <1>6, <2>1, <2>2, <2>3, <2>4, <2>5
<1>7. ASSUME NEW q \in Requests, NEW data \in {"whole", Cut}, lossy' \in SUBSET Phases,
             RestoreSession(q, data)
      PROVE  TInv'
  BY <1>7 DEF RestoreSession, tables, cache
<1>8. ASSUME NEW q \in Requests, lossy' \in SUBSET Phases, LoadRow(q)
      PROVE  TInv'
  BY <1>8 DEF LoadRow, Readable, tables, cache, memory
<1>9. ASSUME NEW q \in Requests, NEW p \in Phases, NEW r \in Refs, lossy' \in SUBSET Phases,
             FillPhase(q, p, r)
      PROVE  TInv'
  BY <1>9 DEF FillPhase, Get, tables, memory
<1>10. ASSUME NEW q \in Requests, NEW i \in Ids, NEW p \in Phases, lossy' \in SUBSET Phases,
              RunStarts(q, i, p)
       PROVE  TInv'
  BY <1>10 DEF RunStarts, tables, cache, memory
<1>11. ASSUME NEW q \in Requests, lossy' \in SUBSET Phases, RequestSets(q)
       PROVE  TInv'
  <2>1. objects' \in [Refs -> [Phases -> Results]]
    BY <1>11, CollectHasType DEF RequestSets, Set
  <2>2. QED
    BY <1>11, <2>1 DEF RequestSets, Set, tables, memory
<1>12. ASSUME NEW i \in Ids, lossy' \in SUBSET Phases, WarmSkip(i) \/ WarmStart(i) \/ WarmFails(i)
       PROVE  TInv'
  <2>1. CASE WarmStart(i)
    BY <1>12, <2>1 DEF WarmStart, WarmUnchanged, tables, cache, memory
  <2>2. CASE WarmSkip(i)
    BY <1>12, <2>2 DEF WarmSkip, WarmAdvance, WarmUnchanged, tables, cache, memory
  <2>3. CASE WarmFails(i)
    BY <1>12, <2>3 DEF WarmFails, WarmAdvance, WarmUnchanged, tables, cache, memory
  <2>4. QED
    BY <1>12, <2>1, <2>2, <2>3
<1>13. ASSUME NEW i \in Ids, lossy' \in SUBSET Phases, WarmSets(i)
       PROVE  TInv'
  <2>1. objects' \in [Refs -> [Phases -> Results]]
    BY <1>13, CollectHasType DEF WarmSets, Set
  <2>2. QED
    BY <1>13, <2>1 DEF WarmSets, Set, WarmAdvance, WarmUnchanged, tables, memory
<1>14. ASSUME NEW i \in Ids, lossy' \in SUBSET Phases, Sweep(i)
       PROVE  TInv'
  BY <1>14 DEF Sweep, tables, cache, workers
<1>15. ASSUME NEW w \in Workers, lossy' \in SUBSET Phases, Mutate(w)
       PROVE  TInv'
  BY <1>15 DEF Mutate, tables, memory
<1>16. ASSUME NEW w \in Workers, NEW r \in Refs, lossy' \in SUBSET Phases,
              RunSucceeds(w, r) \/ RunReturnsNothing(w, r)
       PROVE  TInv'
  <2>1. CASE RunSucceeds(w, r)
    BY <1>16, <2>1 DEF RunSucceeds, Get, tables, memory
  <2>2. CASE RunReturnsNothing(w, r)
    BY <1>16, <2>2 DEF RunReturnsNothing, Get, tables, memory
  <2>3. QED
    BY <1>16, <2>1, <2>2
<1>17. ASSUME lossy' \in SUBSET Phases, Expire
       PROVE  TInv'
  <2>1. objects' \in [Refs -> [Phases -> Results]]
    BY <1>17, CollectHasType DEF Expire
  <2>2. QED
    BY <1>17, <2>1 DEF Expire, tables, memory, workers
<1>18. ASSUME lossy' \in SUBSET Phases, Restart
       PROVE  TInv'
  BY <1>18 DEF Restart, tables
<1>19. CASE UNCHANGED vars
  BY <1>19 DEF vars, tables, cache, memory, workers
<1>20. lossy \in SUBSET Phases
  OBVIOUS
<1> HIDE DEF TInv, TypeOK, RequestsAreReady, WorkersAreReady, Results, Positions, Goto
<1>21. CASE Next
  <2>1. lossy' \in SUBSET Phases
    BY <1>20, <1>21, LossyHasType DEF Next
  <2>2. QED
    BY ONLY <1>21, <2>1, <1>1, <1>2, <1>3, <1>4, <1>6, <1>7, <1>8, <1>9, <1>10, <1>11, <1>12, <1>13,
       <1>14, <1>15, <1>16, <1>17, <1>18 DEF Next, Step
<1>22. QED
  BY <1>19, <1>21

LEMMA InitialTypes == Init => TInv
<1> SUFFICES ASSUME Init PROVE TInv
  OBVIOUS
<1> USE PersistenceAssumption, IdsAndRequests, NothingHasType
<1>1. /\ bundles \in SUBSET issued /\ loaded \in SUBSET issued
      /\ issued \in SUBSET Ids /\ lossy \in SUBSET Phases
  BY DEF Init
<1>2. /\ saved \in [Ids -> [Phases -> Results]] /\ objects \in [Refs -> [Phases -> Results]]
      /\ sessions \in [Ids -> Results] /\ warmData \in [Ids -> Results]
      /\ result \in [Workers -> Results] /\ row \in [Requests -> [Phases -> Results]]
  BY DEF Init, Results
<1>3. phase \in [Workers -> 0..LastPhase]
  BY DEF Init
<1>4. /\ pc \in [Workers -> Positions] /\ id \in [Requests -> Ids \cup {NoId}]
      /\ entry \in Refs \cup {NoRef} /\ held \in [Workers -> Refs \cup {NoRef}]
  BY DEF Init, Positions
<1>5. RequestsAreReady /\ WorkersAreReady
  BY DEF Init, RequestsAreReady, WorkersAreReady
<1>6. QED
  BY <1>1, <1>2, <1>3, <1>4, <1>5 DEF TInv, TypeOK
-----------------------------------------------------------------------------
\* Tables, sessions, cache, pre-warm goroutines and requests keep their types; only
\* issued ids have rows or are loaded.
THEOREM TypeCorrect == Spec => []TypeOK
<1>1. TInv => TypeOK
  BY DEF TInv
<1>2. QED
  BY <1>1, InitialTypes, TypeStep, PTL DEF Spec
-----------------------------------------------------------------------------
\* What a step that loses no phase does to the cache: nothing is lost of what is
\* cached or held.
Kept(p) ==
    /\ Cached(p) # "none" => Cached(p)' # "none"
    /\ \A w \in Workers :
          held'[w] = held[w] /\ held[w] # NoRef /\ objects[held[w]][p] # "none"
             => objects'[held[w]][p] # "none"

LEMMA HistoryMoves ==
    ASSUME Next, ~ Restart
    PROVE  /\ lossy \subseteq Phases => lossy \subseteq lossy'
           /\ Expire \/ TwoObjects => lossy' = Phases
           /\ EmptyText /\ LastPhase \in Phases => LastPhase \in lossy'
BY DEF Next, LossyNext

LEMMA StillKeeps ==
    ASSUME UNCHANGED cache, OneObject
    PROVE  OneObject' /\ \A p \in Phases : Kept(p)
BY DEF cache, OneObject, Kept, Cached

LEMMA GetKeeps ==
    ASSUME TInv, OneObject, ~ TwoObjects,
           NEW w \in Workers, NEW r \in Refs, pc[w] \notin {"mutate", "set"}, Get(w, r)
    PROVE  OneObject' /\ \A p \in Phases : Kept(p)
<1>1. /\ held[w] = NoRef /\ r # NoRef
      /\ entry' = entry /\ objects' = objects
      /\ \A v \in Workers : held'[v] = IF v = w THEN r ELSE held[v]
      /\ entry # NoRef => r = entry
  BY PersistenceAssumption DEF Get, TInv, TypeOK, WorkersAreReady
<1>2. \A p \in Phases : Kept(p)
  BY <1>1 DEF Kept, Cached
<1>3. CASE entry # NoRef
  BY <1>1, <1>2, <1>3 DEF OneObject
<1>4. CASE entry = NoRef
  <2>1. \A v \in Workers : v # w => held[v] = NoRef
    BY <1>1, <1>4 DEF TwoObjects
  <2>2. OneObject'
    BY <1>1, <1>4, <2>1 DEF OneObject
  <2>3. QED
    BY <1>2, <2>2
<1>5. QED
  BY <1>2, <1>3, <1>4

LEMMA SetKeeps ==
    ASSUME TInv, OneObject, NEW w \in Workers, pc[w] = "set", Set(w)
    PROVE  /\ OneObject'
           /\ \A p \in Phases : Kept(p) /\ Cached(p)' = objects[held[w]][p]
<1>1. /\ held[w] \in Refs /\ held[w] # NoRef
      /\ entry' = held[w]
      /\ \A v \in Workers : held'[v] = IF v = w THEN NoRef ELSE held[v]
      /\ entry # NoRef => entry' = entry
  BY PersistenceAssumption DEF Set, TInv, TypeOK, WorkersAreReady, OneObject
<1>2. OneObject'
  BY <1>1 DEF OneObject
<1>3. \A r \in Refs : r = entry' \/ (\E v \in Workers : held'[v] = r) => objects'[r] = objects[r]
  BY DEF Set, Collect, Reachable
<1>4. \A p \in Phases : Cached(p)' = objects[held[w]][p]
  BY <1>1, <1>3, PersistenceAssumption DEF Cached
<1>5. \A p \in Phases : Kept(p)
  <2>1. \A v \in Workers : held'[v] # NoRef => held'[v] \in Refs
    BY <1>1 DEF TInv, TypeOK
  <2>2. QED
    BY <1>1, <1>3, <1>4, <2>1 DEF Kept, Cached
<1>6. QED
  BY <1>2, <1>4, <1>5

LEMMA MutateKeeps ==
    ASSUME TInv, OneObject, NEW w \in Workers, Mutate(w),
           NEW p \in Phases, phase[w] = p => result[w] # "none"
    PROVE  /\ OneObject' /\ Kept(p)
           /\ phase[w] = p => objects'[held'[w]][p] # "none"
<1>1. /\ held[w] \in Refs /\ phase[w] \in Phases
      /\ entry' = entry /\ held' = held
      /\ \A r \in Refs, n \in Phases :
            objects'[r][n] = IF r = held[w] /\ n = phase[w] THEN result[w] ELSE objects[r][n]
  BY DEF Mutate, TInv, TypeOK, WorkersAreReady
<1>2. \A r \in Refs : objects[r][p] # "none" => objects'[r][p] # "none"
  BY <1>1
<1>3. entry \in Refs \cup {NoRef} /\ \A v \in Workers : held[v] \in Refs \cup {NoRef}
  BY DEF TInv, TypeOK
<1>4. Kept(p)
  BY <1>1, <1>2, <1>3 DEF Kept, Cached
<1>5. OneObject'
  BY <1>1 DEF OneObject
<1>6. QED
  BY <1>1, <1>4, <1>5

\* Workers, restores and sessions that a step leaves alone stay ahead of the table.
LEMMA AheadKept ==
    ASSUME TInv, NEW p \in Phases, Ahead(p), Kept(p), saved' = saved,
           \A w \in Workers : \/ WorkerAhead(w, p)'
                              \/ /\ pc'[w] = pc[w] /\ phase'[w] = phase[w]
                                 /\ result'[w] = result[w] /\ held'[w] = held[w],
           \A q \in Requests : \/ RestoreAhead(q, p)'
                               \/ /\ pc'[q] = pc[q] /\ phase'[q] = phase[q]
                                  /\ row'[q] = row[q] /\ id'[q] = id[q],
           \A i \in loaded' : \/ i \in loaded
                              \/ saved[i][p] # "none" => Cached(p)' # "none"
    PROVE  Ahead(p)'
<1>1. \A w \in Workers : pc[w] = "set" => held[w] # NoRef
  BY PersistenceAssumption DEF TInv, WorkersAreReady
<1>2. \A w \in Workers : WorkerAhead(w, p)'
  BY <1>1 DEF Ahead, WorkerAhead, Kept
<1>3. \A q \in Requests : RestoreAhead(q, p)'
  BY DEF Ahead, RestoreAhead, Kept
<1>4. LoadedAhead(p)'
  BY DEF Ahead, LoadedAhead, Kept
<1>5. QED
  BY <1>2, <1>3, <1>4 DEF Ahead

LEMMA StepKeeps ==
    ASSUME TInv, TInv', StoredHaveRows, OneObject, ~ TwoObjects, NEW p \in Phases, Ahead(p),
           EmptyText => p # LastPhase, Step, ~ Expire, ~ Restart
    PROVE  OneObject' /\ Ahead(p)'
<1> USE IdsAndRequests
<1>0. /\ pc \in [Workers -> Positions] /\ phase \in [Workers -> 0..LastPhase]
      /\ result \in [Workers -> Results] /\ row \in [Requests -> [Phases -> Results]]
      /\ id \in [Requests -> Ids \cup {NoId}] /\ held \in [Workers -> Refs \cup {NoRef}]
      /\ saved \in [Ids -> [Phases -> Results]] /\ issued \subseteq Ids /\ loaded \subseteq Ids
      /\ RequestsAreReady /\ WorkersAreReady
  BY DEF TInv, TypeOK
\* A request is answered, and nothing is saved.
<1>1. ASSUME NEW q \in Requests, Finish(q), UNCHANGED <<cache, saved>>,
             \A i \in loaded' : \/ i \in loaded
                                \/ saved[i][p] # "none" => Cached(p) # "none"
      PROVE  OneObject' /\ Ahead(p)'
  <2>1. OneObject' /\ Kept(p)
    BY <1>1, StillKeeps
  <2>2. \A w \in Workers : \/ w = q /\ pc'[w] = "idle"
                           \/ /\ pc'[w] = pc[w] /\ phase'[w] = phase[w]
                              /\ result'[w] = result[w] /\ held'[w] = held[w]
    BY <1>0, <1>1 DEF Finish, Goto, cache
  <2>3. \A r \in Requests : \/ r = q /\ row'[r] = Nothing
                            \/ /\ pc'[r] = pc[r] /\ phase'[r] = phase[r]
                               /\ row'[r] = row[r] /\ id'[r] = id[r]
    BY <1>0, <1>1 DEF Finish, Goto
  <2>4. \A w \in Workers : pc'[w] = "idle" => WorkerAhead(w, p)'
    BY DEF WorkerAhead
  <2>5. \A r \in Requests : row'[r] = Nothing => RestoreAhead(r, p)'
    BY DEF RestoreAhead
  <2>6. Cached(p) # "none" => Cached(p)' # "none"
    BY <2>1 DEF Kept
  <2>7. QED
    BY <1>1, <2>1, <2>2, <2>3, <2>4, <2>5, <2>6, AheadKept
\* A request or a pre-warm goroutine moves to a position where it need not be ahead.
<1>2. ASSUME NEW w \in Workers, UNCHANGED <<cache, saved>>, loaded' \subseteq loaded,
             pc'[w] \in {"idle", "upload", "insert", "restore", "load", "check", "run"},
             w \in Requests => row'[w] = Nothing,
             \A v \in Workers : v # w => pc'[v] = pc[v] /\ phase'[v] = phase[v] /\ result'[v] = result[v],
             \A q \in Requests : q # w => row'[q] = row[q] /\ id'[q] = id[q]
      PROVE  OneObject' /\ Ahead(p)'
  <2>1. OneObject' /\ Kept(p)
    BY <1>2, StillKeeps
  <2>2. WorkerAhead(w, p)'
    BY <1>2 DEF WorkerAhead
  <2>3. w \in Requests => RestoreAhead(w, p)'
    BY <1>2 DEF RestoreAhead
  <2>4. held' = held
    BY <1>2 DEF cache
  <2>5. QED
    BY <1>2, <2>1, <2>2, <2>3, <2>4, AheadKept
<1>3. ASSUME NEW q \in Requests,
             UploadFails(q) \/ RestoreSessionCut(q) \/ RunFails(q) \/ SaveFails(q) \/ InsertRow(q)
      PROVE  OneObject' /\ Ahead(p)'
  <2>1. Finish(q) /\ UNCHANGED <<cache, saved>> /\ loaded' \subseteq loaded
    BY <1>3 DEF UploadFails, RestoreSessionCut, RunFails, SaveFails, InsertRow, tables
  <2>2. QED
    BY <1>1, <2>1
<1>4. ASSUME NEW q \in Requests,
             \/ Upload(q) \/ \E i \in Ids : Reopen(q, i)
             \/ \E data \in {"whole", Cut} : RestoreSession(q, data)
             \/ \E i \in Ids, n \in Phases : RunStarts(q, i, n)
      PROVE  OneObject' /\ Ahead(p)'
  <2>1. /\ UNCHANGED <<cache, saved>> /\ loaded' \subseteq loaded /\ row' = row
        /\ pc[q] \in {"idle", "restore"} /\ \E position \in {"upload", "restore", "load", "run"} :
               pc' = [pc EXCEPT ![q] = position]
        /\ \E n : phase' = phase \/ phase' = [phase EXCEPT ![q] = n]
        /\ \E n : result' = result \/ result' = [result EXCEPT ![q] = n]
        /\ \E n : id' = id \/ id' = [id EXCEPT ![q] = n]
    BY <1>4 DEF Upload, Reopen, RestoreSession, RunStarts, Goto, tables
  <2>2. row[q] = Nothing
    BY <1>0, <2>1 DEF RequestsAreReady
  <2>3. /\ pc'[q] \in {"upload", "restore", "load", "run"}
        /\ \A v \in Workers : v # q => pc'[v] = pc[v] /\ phase'[v] = phase[v] /\ result'[v] = result[v]
        /\ \A r \in Requests : r # q => id'[r] = id[r]
    BY <1>0, <2>1
  <2>4. QED
    BY <1>2, <2>1, <2>2, <2>3
\* The session of an upload has nothing stored, as its bundle has no row yet.
<1>5. ASSUME NEW q \in Requests, NEW i \in Ids, UploadStore(q, i) \/ UploadStoreCut(q, i)
      PROVE  OneObject' /\ Ahead(p)'
  <2>1. /\ UNCHANGED <<cache, saved, result, row>> /\ loaded' = loaded \cup {i}
        /\ i \notin issued /\ pc[q] = "upload" /\ held' = held
        /\ phase' = [phase EXCEPT ![i] = 1]
        /\ \E position \in {"insert", "idle"} :
              pc' = [pc EXCEPT ![i] = "check", ![q] = position]
        /\ id' = id \/ id' = [id EXCEPT ![q] = i]
    BY <1>5 DEF UploadStore, UploadStoreCut, StoreNew, tables, cache
  <2>2. OneObject' /\ Kept(p)
    BY <2>1, StillKeeps
  <2>3. saved[i][p] = "none"
    BY <1>0, <2>1 DEF StoredHaveRows, TInv, TypeOK
  <2>4. ASSUME NEW w \in Workers
        PROVE  \/ WorkerAhead(w, p)'
               \/ /\ pc'[w] = pc[w] /\ phase'[w] = phase[w]
                  /\ result'[w] = result[w] /\ held'[w] = held[w]
    <3>1. CASE w = i \/ w = q
      <4>1. pc'[w] \in {"check", "insert", "idle"}
        BY <1>0, <2>1, <3>1
      <4>2. QED
        BY <4>1 DEF WorkerAhead
    <3>2. CASE w # i /\ w # q
      BY <1>0, <2>1, <3>2
    <3>3. QED
      BY <3>1, <3>2
  <2>5. ASSUME NEW r \in Requests
        PROVE  \/ RestoreAhead(r, p)'
               \/ /\ pc'[r] = pc[r] /\ phase'[r] = phase[r] /\ row'[r] = row[r] /\ id'[r] = id[r]
    <3>1. CASE r = q
      <4>1. row'[r] = Nothing
        BY <1>0, <2>1, <3>1 DEF RequestsAreReady
      <4>2. QED
        BY <4>1 DEF RestoreAhead
    <3>2. CASE r # q
      BY <1>0, <2>1, <3>2
    <3>3. QED
      BY <3>1, <3>2
  <2>6. QED
    BY <2>1, <2>2, <2>3, <2>4, <2>5, AheadKept
<1>6. ASSUME NEW q \in Requests, LoadRow(q)
      PROVE  OneObject' /\ Ahead(p)'
  <2>1. /\ UNCHANGED <<cache, saved, phase, result, id>> /\ loaded' = loaded /\ held' = held
        /\ pc[q] = "load" /\ pc' = [pc EXCEPT ![q] = "fill"]
        /\ row' = [row EXCEPT ![q] = saved[id[q]]]
    BY <1>6 DEF LoadRow, Goto, tables, memory, cache
  <2>2. OneObject' /\ Kept(p)
    BY <2>1, StillKeeps
  <2>3. phase'[q] = 0 /\ pc'[q] = "fill" /\ row'[q] = saved'[id'[q]]
    BY <1>0, <2>1 DEF RequestsAreReady
  <2>4. WorkerAhead(q, p)'
    BY <2>3 DEF WorkerAhead
  <2>5. RestoreAhead(q, p)'
    BY <2>3, PersistenceAssumption DEF RestoreAhead, Phases
  <2>6. \A w \in Workers : w # q => pc'[w] = pc[w]
    BY <1>0, <2>1
  <2>7. \A r \in Requests : r # q => row'[r] = row[r]
    BY <1>0, <2>1
  <2>8. QED
    BY <2>1, <2>2, <2>4, <2>5, <2>6, <2>7, AheadKept
<1>7. ASSUME NEW q \in Requests, LoadNothing(q)
      PROVE  OneObject' /\ Ahead(p)'
  <2>1. Finish(q) /\ UNCHANGED <<cache, saved>>
    BY <1>7 DEF LoadNothing, tables
  <2>2. \A i \in loaded' : i \in loaded \/ saved[i] = Nothing
    BY <1>7 DEF LoadNothing
  <2>3. QED
    BY <1>1, <2>1, <2>2, NothingHasType
<1>8. ASSUME NEW q \in Requests, FillDone(q)
      PROVE  OneObject' /\ Ahead(p)'
  <2>1. /\ Finish(q) /\ UNCHANGED <<cache, saved>> /\ loaded' = loaded \cup {id[q]}
        /\ pc[q] = "fill" /\ Remaining(q) = {}
    BY <1>8 DEF FillDone, tables
  <2>2. row[q] # Nothing /\ phase[q] \in 0..LastPhase
    BY <1>0, <2>1 DEF RequestsAreReady
  <2>3. row[q][p] # "none" => p < phase[q] \/ p = phase[q]
    BY <2>1, <2>2, PersistenceAssumption DEF Remaining, Phases
  <2>4. saved[id[q]][p] # "none" => Cached(p) # "none"
    BY <2>1, <2>2, <2>3 DEF Ahead, RestoreAhead
  <2>5. QED
    BY <1>1, <2>1, <2>4
<1>9. ASSUME NEW q \in Requests, NEW n \in Phases, NEW r \in Refs, FillPhase(q, n, r)
      PROVE  OneObject' /\ Ahead(p)'
  <2>1. /\ pc[q] = "fill" /\ n \in Remaining(q) /\ \A m \in Remaining(q) : n <= m
        /\ Get(q, r)
        /\ pc' = [pc EXCEPT ![q] = "mutate"] /\ phase' = [phase EXCEPT ![q] = n]
        /\ result' = [result EXCEPT ![q] = row[q][n]]
        /\ UNCHANGED <<saved, id, row, loaded>>
    BY <1>9 DEF FillPhase, Goto, tables
  <2>2. OneObject' /\ Kept(p)
    BY <2>1, GetKeeps
  <2>3. /\ pc'[q] = "mutate" /\ phase'[q] = n /\ result'[q] = row[q][n] /\ row[q][n] # "none"
        /\ \A w \in Workers : w # q => /\ pc'[w] = pc[w] /\ phase'[w] = phase[w]
                                       /\ result'[w] = result[w] /\ held'[w] = held[w]
    BY <1>0, <2>1 DEF Remaining, Get
  <2>4. WorkerAhead(q, p)'
    BY <2>3 DEF WorkerAhead
  <2>5. row[q][p] # "none" /\ p < n => p < phase[q] \/ p = phase[q]
    BY <1>0, <2>1, PersistenceAssumption DEF Remaining, Phases
  <2>6. RestoreAhead(q, p) /\ row'[q] = row[q] /\ id'[q] = id[q] /\ saved' = saved
    BY <2>1 DEF Ahead
  <2>7. RestoreAhead(q, p)'
    BY <2>1, <2>2, <2>3, <2>5, <2>6 DEF RestoreAhead, Kept
  <2>8. QED
    BY <2>1, <2>2, <2>3, <2>4, <2>7, AheadKept
<1>10. ASSUME NEW w \in Workers, NEW r \in Refs, RunSucceeds(w, r) \/ RunReturnsNothing(w, r)
       PROVE  OneObject' /\ Ahead(p)'
  <2>1. /\ pc[w] = "run" /\ Get(w, r) /\ pc' = [pc EXCEPT ![w] = "mutate"]
        /\ UNCHANGED <<saved, phase, id, row, loaded>>
        /\ \/ result' = result
           \/ phase[w] = LastPhase /\ result' = [result EXCEPT ![w] = "none"]
    BY <1>10 DEF RunSucceeds, RunReturnsNothing, Goto, tables
  <2>2. OneObject' /\ Kept(p)
    BY <2>1, GetKeeps
  <2>3. result[w] # "none" /\ pc'[w] = "mutate" /\ (w \in Requests => row'[w] = Nothing)
    BY <1>0, <2>1 DEF RequestsAreReady, WorkersAreReady
  <2>4. result'[w] = "none" => p # phase'[w]
    BY <1>0, <2>1, <2>3 DEF EmptyText
  <2>5. WorkerAhead(w, p)'
    BY <2>3, <2>4 DEF WorkerAhead
  <2>6. w \in Requests => RestoreAhead(w, p)'
    BY <2>3 DEF RestoreAhead
  <2>7. \A v \in Workers : v # w => /\ pc'[v] = pc[v] /\ phase'[v] = phase[v]
                                    /\ result'[v] = result[v] /\ held'[v] = held[v]
    BY <1>0, <2>1 DEF Get
  <2>8. QED
    BY <2>1, <2>2, <2>5, <2>6, <2>7, AheadKept
<1>11. ASSUME NEW w \in Workers, Mutate(w)
       PROVE  OneObject' /\ Ahead(p)'
  <2>1. /\ pc[w] = "mutate" /\ pc' = [pc EXCEPT ![w] = "set"]
        /\ UNCHANGED <<saved, held, phase, result, id, row, loaded>>
    BY <1>11 DEF Mutate, Goto, tables
  <2>2. phase[w] = p => result[w] # "none"
    BY <2>1 DEF Ahead, WorkerAhead
  <2>3. OneObject' /\ Kept(p) /\ (phase[w] = p => objects'[held'[w]][p] # "none")
    BY <1>11, <2>2, MutateKeeps
  <2>4. pc'[w] = "set" /\ \A v \in Workers : v # w => pc'[v] = pc[v]
    BY <1>0, <2>1
  <2>5. WorkerAhead(w, p)'
    BY <2>1, <2>2, <2>3, <2>4 DEF WorkerAhead
  <2>6. w \in Requests => RestoreAhead(w, p)'
    BY <2>1, <2>3, <2>4 DEF Ahead, RestoreAhead, Kept
  <2>7. QED
    BY <2>1, <2>3, <2>4, <2>5, <2>6, AheadKept
<1>12. ASSUME NEW q \in Requests, RequestSets(q), pc[q] = "set"
       PROVE  OneObject' /\ Ahead(p)'
  <2>1. /\ Set(q) /\ pc' = [pc EXCEPT ![q] = IF row[q] = Nothing THEN "save" ELSE "fill"]
        /\ UNCHANGED <<saved, phase, result, id, row, loaded>>
    BY <1>12 DEF RequestSets, Goto, tables
  <2>2. OneObject' /\ Kept(p) /\ Cached(p)' = objects[held[q]][p]
    BY <1>12, <2>1, SetKeeps
  <2>3. phase[q] = p => result[q] # "none" /\ Cached(p)' # "none"
    BY <1>12, <2>2 DEF Ahead, WorkerAhead
  <2>4. /\ pc'[q] = IF row[q] = Nothing THEN "save" ELSE "fill"
        /\ \A v \in Workers : v # q => pc'[v] = pc[v] /\ held'[v] = held[v]
    BY <1>0, <2>1 DEF Set
  <2>5. WorkerAhead(q, p)'
    BY <2>1, <2>3, <2>4 DEF WorkerAhead
  <2>6. RestoreAhead(q, p)'
    BY <2>1, <2>2, <2>3, <2>4 DEF Ahead, RestoreAhead, Kept
  <2>7. QED
    BY <2>1, <2>2, <2>4, <2>5, <2>6, AheadKept
<1>13. ASSUME NEW i \in Ids, WarmSets(i), pc[i] = "set"
       PROVE  OneObject' /\ Ahead(p)'
  <2>1. /\ Set(i) /\ \E position \in {"check", "idle"} : pc' = [pc EXCEPT ![i] = position]
        /\ \E n : phase' = [phase EXCEPT ![i] = n]
        /\ \E n : result' = [result EXCEPT ![i] = n]
        /\ UNCHANGED <<saved, id, row, loaded>>
    BY <1>13 DEF WarmSets, WarmAdvance, WarmUnchanged, Goto, tables
  <2>2. OneObject' /\ Kept(p)
    BY <1>13, <2>1, SetKeeps
  <2>3. /\ pc'[i] \in {"check", "idle"}
        /\ \A v \in Workers : v # i => /\ pc'[v] = pc[v] /\ phase'[v] = phase[v]
                                       /\ result'[v] = result[v] /\ held'[v] = held[v]
    BY <1>0, <2>1 DEF Set
  <2>4. WorkerAhead(i, p)'
    BY <2>3 DEF WorkerAhead
  <2>5. QED
    BY <2>1, <2>2, <2>3, <2>4, AheadKept
<1>14. ASSUME NEW i \in Ids, WarmSkip(i) \/ WarmStart(i) \/ WarmFails(i)
       PROVE  OneObject' /\ Ahead(p)'
  <2>1. /\ UNCHANGED <<cache, saved, id, row, loaded>>
        /\ \E position \in {"check", "idle", "run"} : pc' = [pc EXCEPT ![i] = position]
        /\ \E n : phase' = phase \/ phase' = [phase EXCEPT ![i] = n]
        /\ \E n : result' = [result EXCEPT ![i] = n]
    BY <1>14 DEF WarmSkip, WarmStart, WarmFails, WarmAdvance, WarmUnchanged, Goto, tables
  <2>2. /\ pc'[i] \in {"check", "idle", "run"}
        /\ \A v \in Workers : v # i => pc'[v] = pc[v] /\ phase'[v] = phase[v] /\ result'[v] = result[v]
    BY <1>0, <2>1
  <2>3. QED
    BY <1>2, <2>1, <2>2
<1>15. ASSUME NEW i \in Ids, Sweep(i)
       PROVE  OneObject' /\ Ahead(p)'
  <2>1. UNCHANGED <<cache, saved, workers>> /\ loaded' \subseteq loaded /\ held' = held
    BY <1>15 DEF Sweep, tables, cache
  <2>2. OneObject' /\ Kept(p)
    BY <2>1, StillKeeps
  <2>3. QED
    BY <2>1, <2>2, AheadKept DEF workers
\* What is saved is in the cache.
<1>16. ASSUME NEW q \in Requests, Save(q)
       PROVE  OneObject' /\ Ahead(p)'
  <2>1. /\ UNCHANGED <<cache, loaded>> /\ held' = held /\ Finish(q) /\ pc[q] = "save"
        /\ saved' = [saved EXCEPT ![id[q]][phase[q]] = result[q]]
    BY <1>16 DEF Save, cache
  <2>2. OneObject' /\ Kept(p) /\ Cached(p)' = Cached(p) /\ objects' = objects
    BY <2>1, StillKeeps DEF cache, Cached
  <2>3. id[q] \in Ids /\ phase[q] \in Phases
    BY <1>0, <2>1 DEF RequestsAreReady, WorkersAreReady
  <2>4. \A i \in Ids : saved'[i][p] # "none" => saved[i][p] # "none" \/ Cached(p) # "none"
    <3>1. CASE phase[q] = p
      BY <2>1, <3>1 DEF Ahead, WorkerAhead
    <3>2. CASE phase[q] # p
      BY <1>0, <2>1, <2>3, <3>2
    <3>3. QED
      BY <3>1, <3>2
  <2>5. ASSUME NEW w \in Workers
        PROVE  WorkerAhead(w, p)'
    <3>1. CASE w = q
      BY <1>0, <2>1, <3>1 DEF Finish, Goto, WorkerAhead
    <3>2. CASE w # q
      BY <1>0, <2>1, <2>2, <3>2 DEF Finish, Goto, Ahead, WorkerAhead
    <3>3. QED
      BY <3>1, <3>2
  <2>6. ASSUME NEW r \in Requests
        PROVE  RestoreAhead(r, p)'
    <3>1. CASE r = q
      BY <1>0, <2>1, <3>1 DEF Finish, RestoreAhead
    <3>2. CASE r # q
      <4>1. pc'[r] = pc[r] /\ phase'[r] = phase[r] /\ row'[r] = row[r] /\ id'[r] = id[r]
        BY <2>1, <3>2, <1>0 DEF Finish, Goto
      <4>2. RestoreAhead(r, p)
        BY DEF Ahead
      <4>3. row[r] # Nothing => id[r] \in Ids
        BY <1>0 DEF RequestsAreReady
      <4>4. QED
        BY <2>2, <2>4, <4>1, <4>2, <4>3 DEF RestoreAhead
    <3>3. QED
      BY <3>1, <3>2
  <2>7. LoadedAhead(p)'
    BY <1>0, <2>1, <2>2, <2>4 DEF Ahead, LoadedAhead
  <2>8. QED
    BY <2>2, <2>5, <2>6, <2>7 DEF Ahead
<1>17. QED
  BY ONLY Step, ~ Expire, ~ Restart, <1>3, <1>4, <1>5, <1>6, <1>7, <1>8, <1>9, <1>10, <1>11, <1>12,
     <1>13, <1>14, <1>15, <1>16 DEF Step, RequestSets, WarmSets, Set

\* Only Save writes in table analyses, of a bundle that has its row.
LEMMA RowsKept == TInv /\ StoredHaveRows /\ [Next]_vars => StoredHaveRows'
<1> SUFFICES ASSUME TInv, StoredHaveRows, [Next]_vars
             PROVE  StoredHaveRows'
  OBVIOUS
<1>1. ASSUME NEW q \in Requests, Save(q)
      PROVE  StoredHaveRows'
  <2>1. /\ bundles' = bundles /\ id[q] \in bundles /\ saved \in [Ids -> [Phases -> Results]]
        /\ saved' = [saved EXCEPT ![id[q]][phase[q]] = result[q]]
    BY <1>1 DEF Save, TInv, TypeOK
  <2>2. \A i \in Ids : i # id[q] => saved'[i] = saved[i]
    BY <2>1
  <2>3. QED
    BY <2>1, <2>2 DEF StoredHaveRows
<1>2. ASSUME saved' = saved, bundles \subseteq bundles'
      PROVE  StoredHaveRows'
  BY <1>2 DEF StoredHaveRows
<1>3. CASE Next /\ ~ \E q \in Requests : Save(q)
  BY <1>2, <1>3 DEF Next, Step, Upload, Reopen, UploadStore, UploadStoreCut, InsertRow, UploadFails,
     RestoreSession, RestoreSessionCut, LoadRow, LoadNothing, FillPhase, FillDone, RunStarts, RunFails,
     RequestSets, SaveFails, RunSucceeds, RunReturnsNothing, Mutate, WarmSkip, WarmStart, WarmFails,
     WarmSets, WarmUnchanged, Sweep, Expire, Restart, tables
<1>4. CASE UNCHANGED vars
  BY <1>2, <1>4 DEF vars, tables
<1>5. QED
  BY <1>1, <1>3, <1>4

LEMMA CacheStep == IInv /\ [Next]_vars => IInv'
<1> SUFFICES ASSUME IInv, [Next]_vars
             PROVE  IInv'
  OBVIOUS
<1>1. /\ TInv /\ StoredHaveRows /\ TInv' /\ StoredHaveRows'
      /\ lossy \subseteq Phases /\ LastPhase \in Phases
  BY TypeStep, RowsKept, PersistenceAssumption DEF IInv, TInv, TypeOK, Phases
<1>2. CASE Restart
  <2>1. OneObject'
    BY <1>2 DEF Restart, OneObject
  <2>2. \A w \in Workers : pc'[w] = "idle"
    BY <1>2 DEF Restart
  <2>3. (\A q \in Requests : row'[q] = Nothing) /\ loaded' = {}
    BY <1>2 DEF Restart
  <2>4. \A p \in Phases : Ahead(p)'
    BY <2>2, <2>3 DEF Ahead, WorkerAhead, RestoreAhead, LoadedAhead
  <2>5. QED
    BY <1>1, <2>1, <2>4 DEF IInv
<1>3. CASE Next /\ ~ Restart /\ (Expire \/ TwoObjects)
  <2>1. lossy' = Phases
    BY <1>3, HistoryMoves
  <2>2. QED
    BY <1>1, <2>1 DEF IInv
<1>4. CASE Next /\ ~ Restart /\ ~ Expire /\ ~ TwoObjects
  <2>1. Step /\ lossy \subseteq lossy' /\ (EmptyText => LastPhase \in lossy')
    BY <1>1, <1>4, HistoryMoves DEF Next
  <2>2. ASSUME NEW p \in Phases \ lossy'
        PROVE  OneObject' /\ Ahead(p)'
    <3>1. OneObject /\ Ahead(p) /\ (EmptyText => p # LastPhase)
      BY <2>1 DEF IInv
    <3>2. QED
      BY <1>1, <1>4, <2>1, <3>1, StepKeeps
  <2>3. lossy' # Phases => \E p \in Phases : p \notin lossy'
    BY <1>1 DEF TInv, TypeOK
  <2>4. QED
    BY <1>1, <2>2, <2>3 DEF IInv
<1>5. CASE UNCHANGED vars
  <2>1. /\ OneObject' = OneObject /\ lossy' = lossy
        /\ \A p \in Phases : Ahead(p)' = Ahead(p)
    BY <1>5 DEF vars, tables, cache, workers, memory, OneObject, Ahead, WorkerAhead, RestoreAhead,
       LoadedAhead, Cached
  <2>2. QED
    BY <1>1, <2>1 DEF IInv
<1>6. QED
  BY <1>2, <1>3, <1>4, <1>5
-----------------------------------------------------------------------------
\* A session that started with its stored analyses in the cache runs none of them
\* again, whatever requests, restores, saves and failures overlap with it, unless the
\* entry expired, two workers had each made an object for it, or an empty text was
\* cached for its root cause.
THEOREM NothingIsRunAgain == Spec => LoadedSessionsRerunNothing
<1>1. Init => IInv
  <2> SUFFICES ASSUME Init PROVE IInv
    OBVIOUS
  <2>1. TInv
    BY InitialTypes
  <2>2. StoredHaveRows
    BY NothingHasType DEF Init, StoredHaveRows
  <2>3. OneObject
    BY DEF Init, OneObject
  <2>4. \A p \in Phases : Ahead(p)
    BY DEF Init, Ahead, WorkerAhead, RestoreAhead, LoadedAhead
  <2>5. QED
    BY <2>1, <2>2, <2>3, <2>4 DEF IInv
<1>2. IInv => \A q \in Requests, i \in loaded, p \in Phases \ lossy :
                 RunStarts(q, i, p) => saved[i][p] = "none"
  BY DEF IInv, Ahead, LoadedAhead, RunStarts
<1>3. QED
  BY <1>1, <1>2, CacheStep, PTL DEF Spec, LoadedSessionsRerunNothing

===============================================================================
