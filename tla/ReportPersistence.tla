-------------------------- MODULE ReportPersistence --------------------------
(***************************************************************************)
(* What survives a restart of the server: table bundles, table analyses,   *)
(* and how uploads, restores, SSE requests and the pre-warm goroutine      *)
(* (internal/server/handlers.go, internal/db/queries.go) fill them and the *)
(* analysis cache, through the three unlocked steps of upsertCache.  All   *)
(* uploads are of one file, so the cache has at most one entry: contents   *)
(* meet nowhere (theorem Separation of module AnalysisCache_proofs).       *)
(***************************************************************************)
EXTENDS Naturals, FiniteSets

CONSTANTS Ids,       \* bundle ids, which are session ids; also their pre-warm goroutines
          Requests,  \* goroutines that serve requests
          LastPhase, \* phases: 1 is triage, LastPhase the root cause, 2 of 3 the timeline
          Refs,      \* addresses of CachedResult objects
          NoId, NoRef,
          Cut,       \* what a bundle whose reading was cut short counts as, "cut" or "whole"
          Cancels,   \* whether clients go away
          Faults,    \* whether extractions, queries, inserts, analyses and saves may fail
          Expiry     \* whether cache entries expire

ASSUME PersistenceAssumption == /\ NoId \notin Ids /\ NoRef \notin Refs
                                /\ Ids \cap Requests = {}
                                /\ LastPhase \in 2..3
                                /\ Cut \in {"cut", "whole"}
                                /\ {Cancels, Faults, Expiry} \subseteq BOOLEAN

Phases == 1..LastPhase
Workers == Requests \cup Ids

\* An analysis is of the whole bundle, or of the empty BundleData that stands for a
\* bundle whose reading was cut short.  (With Cut = "whole" the two are not told
\* apart.)  An empty root cause is "none".
Results == {"none", "whole", "cut"}

VARIABLES
    bundles,  \* ids with a row of table bundles
    saved,    \* saved[i][p]: the column of phase p in the row of table analyses
    sessions, \* sessions[i]: "none", or the data of the session: "whole" or "cut"
    entry,    \* the object the cache has for the file, or NoRef
    objects,  \* objects[r][p]: the result of phase p in the object at address r
    held,     \* held[w]: the object worker w got and has not set yet, or NoRef
    issued,   \* ids given out by store.New
    warmData, \* warmData[i]: the data the goroutine of session i was started with
    pc, phase,\* per worker
    result,   \* per worker: the data it analyses, then what it puts in the cache
    id, row,  \* per request: its bundle, and the analyses its restore read
    loaded,   \* sessions that started with all stored analyses in the cache (history)
    lossy     \* phases that may be stored and not cached (history, see LossyNext)

tables == <<bundles, saved>>
cache == <<entry, objects, held>>
memory == <<sessions, issued, warmData>>
workers == <<pc, phase, result, id, row>>
vars == <<tables, cache, memory, workers, loaded, lossy>>

Nothing == [p \in Phases |-> "none"]

Init == /\ bundles = {}
        /\ saved = [i \in Ids |-> Nothing]
        /\ sessions = [i \in Ids |-> "none"]
        /\ entry = NoRef
        /\ objects = [r \in Refs |-> Nothing]
        /\ held = [w \in Workers |-> NoRef]
        /\ issued = {}
        /\ warmData = [i \in Ids |-> "none"]
        /\ pc = [w \in Workers |-> "idle"]
        /\ phase = [w \in Workers |-> 0]
        /\ result = [w \in Workers |-> "none"]
        /\ id = [q \in Requests |-> NoId]
        /\ row = [q \in Requests |-> Nothing]
        /\ loaded = {}
        /\ lossy = {}

Goto(w, position) == pc' = [pc EXCEPT ![w] = position]
Finish(q) == /\ Goto(q, "idle")
             /\ phase' = [phase EXCEPT ![q] = 0]
             /\ result' = [result EXCEPT ![q] = "none"]
             /\ id' = [id EXCEPT ![q] = NoId]
             /\ row' = [row EXCEPT ![q] = Nothing]

-----------------------------------------------------------------------------
(* The cache. *)

Cached(p) == IF entry = NoRef THEN "none" ELSE objects[entry][p]

\* What is no longer reachable is reclaimed, and its address is that of a blank object.
Reachable(r) == r = entry \/ \E w \in Workers : held[w] = r
Collect == objects' = [r \in Refs |-> IF Reachable(r)' THEN objects[r] ELSE Nothing]

\* upsertCache begins with a Get: the object of the entry, or a new one on a miss.
Get(w, r) ==
    /\ IF entry # NoRef THEN r = entry ELSE ~ Reachable(r)
    /\ held' = [held EXCEPT ![w] = r]
    /\ UNCHANGED <<entry, objects>>

\* The mutator writes the field, of the object whoever has it sees, ...
Mutate(w) ==
    /\ pc[w] = "mutate"
    /\ objects' = [objects EXCEPT ![held[w]][phase[w]] = result[w]]
    /\ Goto(w, "set")
    /\ UNCHANGED <<tables, entry, held, memory, phase, result, id, row, loaded>>

\* ... and Set puts the object in the cache, in place of any other.
Set(w) ==
    /\ pc[w] = "set"
    /\ entry' = held[w]
    /\ held' = [held EXCEPT ![w] = NoRef]
    /\ Collect

-----------------------------------------------------------------------------
(* Uploads. *)

\* HandleUpload finds no row of the content, or the query fails ...
Upload(q) ==
    /\ pc[q] = "idle"
    /\ bundles = {} \/ Faults
    /\ Goto(q, "upload")
    /\ UNCHANGED <<tables, cache, memory, phase, result, id, row, loaded>>

\* ... or it finds one, as a report does, whose session it may have to restore.
Reopen(q, i) ==
    /\ pc[q] = "idle"
    /\ i \in bundles /\ sessions[i] = "none"
    /\ Goto(q, "restore")
    /\ id' = [id EXCEPT ![q] = i]
    /\ UNCHANGED <<tables, cache, memory, phase, result, row, loaded>>

\* The session of the bundle is stored and its pre-warm goroutine started.
StoreNew(i, data) ==
    /\ i \notin issued
    /\ issued' = issued \cup {i}
    /\ sessions' = [sessions EXCEPT ![i] = data]
    /\ warmData' = [warmData EXCEPT ![i] = data]
    /\ phase' = [phase EXCEPT ![i] = 1]
    /\ loaded' = loaded \cup {i}

\* The bundle is extracted and parsed ...
UploadStore(q, i) ==
    /\ pc[q] = "upload"
    /\ StoreNew(i, "whole")
    /\ pc' = [pc EXCEPT ![i] = "check", ![q] = "insert"]
    /\ id' = [id EXCEPT ![q] = i]
    /\ UNCHANGED <<tables, cache, result, row>>

\* ... or the client is gone and the parser stops early: the error is only logged,
\* and the row will not be inserted.
UploadStoreCut(q, i) ==
    /\ pc[q] = "upload" /\ Cancels
    /\ StoreNew(i, Cut)
    /\ pc' = [pc EXCEPT ![i] = "check", ![q] = "idle"]
    /\ UNCHANGED <<tables, cache, result, id, row>>

\* InsertBundle, with no constraint on the content; a failure is only logged.
InsertRow(q) ==
    /\ pc[q] = "insert"
    /\ bundles' = bundles \cup {id[q]}
    /\ Finish(q)
    /\ UNCHANGED <<saved, cache, memory, loaded>>

\* The extraction or the insert fails: the request is answered.
UploadFails(q) ==
    /\ pc[q] \in {"upload", "insert"} /\ (Cancels \/ Faults)
    /\ Finish(q)
    /\ UNCHANGED <<tables, cache, memory, loaded>>

-----------------------------------------------------------------------------
(* Restores. *)

\* restoreSessionFromDB stores the session first, with no data when the
\* extraction failed.
RestoreSession(q, data) ==
    /\ pc[q] = "restore"
    /\ data = "whole" \/ (Faults /\ data = Cut)
    /\ sessions' = [sessions EXCEPT ![id[q]] = data]
    /\ Goto(q, "load")
    /\ loaded' = loaded \ {id[q]}
    /\ UNCHANGED <<tables, cache, issued, warmData, phase, result, id, row>>

\* The client goes away while the bundle is read: the session has no data, and the
\* query for its analyses fails, on a context that is done.
RestoreSessionCut(q) ==
    /\ pc[q] = "restore" /\ Cancels
    /\ sessions' = [sessions EXCEPT ![id[q]] = Cut]
    /\ Finish(q)
    /\ loaded' = loaded \ {id[q]}
    /\ UNCHANGED <<tables, cache, issued, warmData>>

\* GetAnalysisByBundleID reads the row.  Scan has an int for the severity, which
\* is NULL as long as no triage is saved, and then the row is lost to an error.
Readable(i) == saved[i][1] # "none"

LoadRow(q) ==
    /\ pc[q] = "load" /\ Readable(id[q])
    /\ row' = [row EXCEPT ![q] = saved[id[q]]]
    /\ Goto(q, "fill")
    /\ UNCHANGED <<tables, cache, memory, phase, result, id, loaded>>

\* Nothing is stored, or it cannot be read: the cache stays as it is.
LoadNothing(q) ==
    /\ pc[q] = "load"
    /\ ~ Readable(id[q]) \/ Cancels \/ Faults
    /\ Finish(q)
    /\ loaded' = IF saved[id[q]] = Nothing THEN loaded \cup {id[q]} ELSE loaded
    /\ UNCHANGED <<tables, cache, memory>>

\* restoreAnalysisCache goes through the phases the row has, in order.
Remaining(q) == {p \in Phases : p > phase[q] /\ row[q][p] # "none"}

FillPhase(q, p, r) ==
    /\ pc[q] = "fill"
    /\ p \in Remaining(q) /\ \A n \in Remaining(q) : p <= n
    /\ Get(q, r)
    /\ Goto(q, "mutate")
    /\ phase' = [phase EXCEPT ![q] = p]
    /\ result' = [result EXCEPT ![q] = row[q][p]]
    /\ UNCHANGED <<tables, memory, id, row, loaded>>

\* Mutant: the stored timeline and root cause are not put in the cache.
FillDone_TriageOnly(q) ==
    /\ pc[q] = "fill" /\ phase[q] = 1
    /\ Finish(q)
    /\ loaded' = loaded \cup {id[q]}
    /\ UNCHANGED <<tables, cache, memory>>

FillDone(q) ==
    /\ pc[q] = "fill" /\ Remaining(q) = {}
    /\ Finish(q)
    /\ loaded' = loaded \cup {id[q]}
    /\ UNCHANGED <<tables, cache, memory>>

-----------------------------------------------------------------------------
(* Server-sent events of a session. *)

\* The phase is not in the cache, and the analysis is run on the session's data.  (A
\* phase that is in the cache is replayed from it: nothing is saved or changed.)
RunStarts(q, i, p) ==
    /\ pc[q] = "idle" /\ sessions[i] # "none"
    /\ Cached(p) = "none"
    /\ Goto(q, "run")
    /\ id' = [id EXCEPT ![q] = i]
    /\ phase' = [phase EXCEPT ![q] = p]
    /\ result' = [result EXCEPT ![q] = sessions[i]]
    /\ UNCHANGED <<tables, cache, memory, row, loaded>>

RunFails(q) ==
    /\ pc[q] = "run" /\ (Cancels \/ Faults)
    /\ Finish(q)
    /\ UNCHANGED <<tables, cache, memory, loaded>>

\* A restore goes on with its row; a run is to be saved.
RequestSets(q) ==
    /\ Set(q)
    /\ Goto(q, IF row[q] = Nothing THEN "save" ELSE "fill")
    /\ UNCHANGED <<tables, memory, phase, result, id, row, loaded>>

\* SaveTriage, SaveTimeline or SaveRCA upserts its column, and the result is sent.
Save(q) ==
    /\ pc[q] = "save" /\ id[q] \in bundles
    /\ saved' = [saved EXCEPT ![id[q]][phase[q]] = result[q]]
    /\ Finish(q)
    /\ UNCHANGED <<bundles, cache, memory, loaded>>

\* The foreign key or the database refuses; the result is sent all the same.
SaveFails(q) ==
    /\ pc[q] = "save" /\ (id[q] \notin bundles \/ Cancels \/ Faults)
    /\ Finish(q)
    /\ UNCHANGED <<tables, cache, memory, loaded>>

-----------------------------------------------------------------------------
(* Analyses, of a request or a pre-warm goroutine. *)

\* The analysis is there, and upsertCache begins.
RunSucceeds(w, r) ==
    /\ pc[w] = "run"
    /\ Get(w, r)
    /\ Goto(w, "mutate")
    /\ UNCHANGED <<tables, memory, phase, result, id, row, loaded>>

\* RunRCA returns no text and no error: it is cached and saved like any text, and
\* looks like no root cause at all.
RunReturnsNothing(w, r) ==
    /\ pc[w] = "run" /\ phase[w] = LastPhase /\ Faults
    /\ Get(w, r)
    /\ Goto(w, "mutate")
    /\ result' = [result EXCEPT ![w] = "none"]
    /\ UNCHANGED <<tables, memory, phase, id, row, loaded>>

-----------------------------------------------------------------------------
(* preWarmAnalysis of session i, which never touches the database. *)

WarmAdvance_NoEnd(i) ==   \* mutant: the goroutine does not return after the root cause
    /\ Goto(i, "check")
    /\ phase' = [phase EXCEPT ![i] = @ + 1]
    /\ result' = [result EXCEPT ![i] = "none"]

WarmAdvance(i) ==
    /\ Goto(i, IF phase[i] = LastPhase THEN "idle" ELSE "check")
    /\ phase' = [phase EXCEPT ![i] = IF @ = LastPhase THEN 0 ELSE @ + 1]
    /\ result' = [result EXCEPT ![i] = "none"]

WarmUnchanged == UNCHANGED <<tables, memory, id, row, loaded>>

WarmSkip(i) ==
    /\ pc[i] = "check"
    /\ Cached(phase[i]) # "none"
    /\ WarmAdvance(i)
    /\ UNCHANGED cache /\ WarmUnchanged

WarmStart(i) ==
    /\ pc[i] = "check"
    /\ Cached(phase[i]) = "none"
    /\ Goto(i, "run")
    /\ result' = [result EXCEPT ![i] = warmData[i]]
    /\ UNCHANGED <<cache, phase>> /\ WarmUnchanged

WarmFails(i) ==
    /\ pc[i] = "run" /\ Faults
    /\ WarmAdvance(i)
    /\ UNCHANGED cache /\ WarmUnchanged

WarmSets(i) ==
    /\ Set(i)
    /\ WarmAdvance(i)
    /\ WarmUnchanged

-----------------------------------------------------------------------------
(* Environment. *)

Sweep(i) ==
    /\ sessions[i] # "none"
    /\ sessions' = [sessions EXCEPT ![i] = "none"]
    /\ loaded' = loaded \ {i}
    /\ UNCHANGED <<tables, cache, issued, warmData, workers>>

\* The cache entry passes its TTL.
Expire ==
    /\ Expiry /\ entry # NoRef
    /\ entry' = NoRef
    /\ UNCHANGED held /\ Collect
    /\ UNCHANGED <<tables, memory, workers, loaded>>

\* The process is restarted; the tables stay.
Restart ==
    /\ sessions' = [i \in Ids |-> "none"]
    /\ entry' = NoRef
    /\ objects' = [r \in Refs |-> Nothing]
    /\ held' = [w \in Workers |-> NoRef]
    /\ warmData' = [i \in Ids |-> "none"]
    /\ pc' = [w \in Workers |-> "idle"]
    /\ phase' = [w \in Workers |-> 0]
    /\ result' = [w \in Workers |-> "none"]
    /\ id' = [q \in Requests |-> NoId]
    /\ row' = [q \in Requests |-> Nothing]
    /\ loaded' = {}
    /\ UNCHANGED <<tables, issued>>

Step ==
    \/ \E q \in Requests :
        \/ Upload(q) \/ InsertRow(q) \/ UploadFails(q)
        \/ RestoreSessionCut(q) \/ LoadRow(q) \/ LoadNothing(q) \/ FillDone(q)
        \/ RunFails(q) \/ RequestSets(q) \/ Save(q) \/ SaveFails(q)
        \/ \E data \in {"whole", Cut} : RestoreSession(q, data)
        \/ \E i \in Ids : \/ Reopen(q, i) \/ UploadStore(q, i) \/ UploadStoreCut(q, i)
                          \/ \E p \in Phases : RunStarts(q, i, p)
        \/ \E p \in Phases, r \in Refs : FillPhase(q, p, r)
    \/ \E i \in Ids : WarmSkip(i) \/ WarmStart(i) \/ WarmFails(i) \/ WarmSets(i) \/ Sweep(i)
    \/ \E w \in Workers : \/ Mutate(w)
                          \/ \E r \in Refs : RunSucceeds(w, r) \/ RunReturnsNothing(w, r)
    \/ Expire \/ Restart

-----------------------------------------------------------------------------
(* History: what may be missing from the cache though it is stored.  An expired    *)
(* entry loses every phase, and so do two workers of which each makes an object,   *)
(* as one will replace the other's; an empty text loses the root cause.            *)

TwoObjects ==
    /\ entry = NoRef
    /\ \E v, w \in Workers : v # w /\ held[v] # NoRef /\ held'[w] # held[w] /\ held'[w] # NoRef

EmptyText == \E w \in Workers : pc[w] = "run" /\ result[w] # "none"
                                /\ pc'[w] = "mutate" /\ result'[w] = "none"

LossyNext ==
    lossy' = IF Restart THEN {}
             ELSE IF Expire \/ TwoObjects THEN Phases
             ELSE IF EmptyText THEN lossy \cup {LastPhase}
             ELSE lossy

\* The history variables constrain no step.
Next == Step /\ LossyNext

Spec == Init /\ [][Next]_vars
-----------------------------------------------------------------------------
(* Properties. *)

Positions == {"idle", "upload", "insert", "restore", "load", "fill", "check", "run",
              "mutate", "set", "save"}

TypeOK == /\ bundles \in SUBSET issued
          /\ saved \in [Ids -> [Phases -> Results]]
          /\ sessions \in [Ids -> Results]
          /\ entry \in Refs \cup {NoRef}
          /\ objects \in [Refs -> [Phases -> Results]]
          /\ held \in [Workers -> Refs \cup {NoRef}]
          /\ issued \in SUBSET Ids
          /\ warmData \in [Ids -> Results]
          /\ pc \in [Workers -> Positions]
          /\ phase \in [Workers -> 0..LastPhase]
          /\ result \in [Workers -> Results]
          /\ id \in [Requests -> Ids \cup {NoId}]
          /\ row \in [Requests -> [Phases -> Results]]
          /\ loaded \in SUBSET issued
          /\ lossy \in SUBSET Phases

\* A session that started with its stored analyses in the cache never runs one
\* of them again, whatever other requests, restores, failures and saves overlap
\* with it, unless the entry expired, two workers had each made an object for it
\* in upsertCache, or, for the root cause, an empty text was cached.
LoadedSessionsRerunNothing ==
    [][\A q \in Requests, i \in loaded, p \in Phases \ lossy :
          RunStarts(q, i, p) => saved[i][p] = "none"]_vars

\* What is stored is in the cache once its session is restored, with the same
\* exceptions.  A timeline or root cause stored before the triage breaks it.
SavedIsRestored ==
    [][\A q \in Requests : pc[q] \in {"load", "fill"} /\ pc'[q] = "idle" =>
          \/ sessions'[id[q]] = "none"
          \/ \A p \in Phases \ lossy : saved[id[q]][p] # "none" => Cached(p)' # "none"]_vars

\* A session that has its bundle is not shown an analysis of an empty one.  A
\* client that goes away during an upload or a restore breaks it.
WholeSessionsSeeWholeResults ==
    \A i \in Ids : sessions[i] = "whole" => \A p \in Phases : Cached(p) # "cut"
=============================================================================
