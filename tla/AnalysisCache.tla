---------------------------- MODULE AnalysisCache ----------------------------
(***************************************************************************)
(* The in-memory analysis cache (internal/analysis/cache.go) together with *)
(* every goroutine that fills it: the pre-warm goroutine of an upload, the *)
(* three SSE handlers, and the restore of a session from the database      *)
(* (internal/server/handlers.go).                                          *)
(*                                                                         *)
(* The map of the cache holds pointers.  cache.Get returns the pointer and *)
(* releases the lock, upsertCache mutates the object it points to with no  *)
(* lock held, and cache.Set stamps it before it takes the lock; so the     *)
(* objects are a heap of their own, shared by the map and by every worker  *)
(* that holds a pointer.                                                   *)
(***************************************************************************)
EXTENDS Integers, FiniteSets

CONSTANTS Shas,       \* SHA256 keys of uploaded bundles
          Workers,    \* goroutines: handlers and pre-warm runs
          Refs,       \* addresses of CachedResult objects
          NoRef,      \* nil pointer
          NoResult,   \* a phase field that is nil or ""
          LastPhase,  \* the phases of an analysis: triage, timeline and, last, the RCA
          TTL,        \* cacheTTL, in clock ticks
          Started     \* the kinds of goroutine this instance starts

ASSUME ConstantsAssumption == /\ NoRef \notin Refs
                              /\ NoResult \notin Shas
                              /\ LastPhase \in Nat \ {0}
                              /\ TTL \in Nat
                              /\ Started \subseteq {"prewarm", "sse", "restore"}

Phases == 1..LastPhase

\* A goroutine that fills the cache: preWarmAnalysis runs the three phases in
\* order, an SSE handler runs one, restoreAnalysisCache copies the phases the
\* database has, in order.
Kinds == {"prewarm", "sse", "restore"}

Steps == {"idle", "lookup", "run", "retry", "fetch", "mutate", "install"}

VARIABLES
    entries,    \* Cache.entries: the pointer stored under each key, or NoRef
    results,    \* results[r][p]: field p of the object at address r
    age,        \* age[r]: time.Since(CachedAt) of the object at address r, which
                \* stops counting at TTL + 1: all expired objects are equal
    pc, kind, job, phase, held,   \* per goroutine: position, kind, key, phase, pointer
    empty,      \* goroutines whose root cause, not stored yet, is the empty text
    doomed      \* keys evictExpired collected and has not deleted yet

workerVars == <<kind, job, phase>>
vars == <<entries, results, age, pc, workerVars, held, empty, doomed>>

-----------------------------------------------------------------------------
(* Objects. *)

Blank == [p \in Phases |-> NoResult]

\* The object at r is young enough for Get: not (time.Since(CachedAt) > cacheTTL).
Fresh(r) == age[r] <= TTL

\* Get(sha) returns a pointer (to the object entries[s]) rather than (nil, false).
Hit(s) == entries[s] # NoRef /\ Fresh(entries[s])

\* Addresses a new CachedResult may have: none the program can still reach.
Free(r) == /\ \A s \in Shas : entries[s] # r
           /\ \A w \in Workers : held[w] # r

\* The Go runtime reclaims the objects a step made unreachable; a new object at
\* such an address is a zero CachedResult.
Collect == /\ results' = [r \in Refs |-> IF Free(r)' THEN Blank ELSE results[r]]
           /\ age' = [r \in Refs |-> IF Free(r)' THEN 0 ELSE age[r]]

-----------------------------------------------------------------------------
Init == /\ entries = [s \in Shas |-> NoRef]
        /\ results = [r \in Refs |-> Blank]
        /\ age = [r \in Refs |-> 0]
        /\ pc = [w \in Workers |-> "idle"]
        /\ kind = [w \in Workers |-> "sse"]
        /\ job \in [Workers -> Shas]
        /\ phase = [w \in Workers |-> 1]
        /\ held = [w \in Workers |-> NoRef]
        /\ empty = {}
        /\ doomed = {}

-----------------------------------------------------------------------------
(* The goroutines. *)

\* An upload starts preWarmAnalysis, a report page restores its session, or the
\* browser opens one of the three SSE connections.
Start(w, k, s, p) ==
    /\ pc[w] = "idle"
    /\ k # "sse" => p = 1
    /\ pc' = [pc EXCEPT ![w] = "lookup"]
    /\ kind' = [kind EXCEPT ![w] = k]
    /\ job' = [job EXCEPT ![w] = s]
    /\ phase' = [phase EXCEPT ![w] = p]
    /\ UNCHANGED <<entries, results, age, held, empty, doomed>>

\* The goroutine has done its last phase.
Ends_Past(w) == phase[w] > LastPhase   \* mutant: goes on after the last phase
Ends(w) == kind[w] = "sse" \/ phase[w] = LastPhase

\* Goes on with the next phase, or returns after the last one; what is left in
\* the locals of a goroutine that returned does not matter, so they are reset.
Advance(w) ==
    IF Ends(w)
      THEN /\ pc' = [pc EXCEPT ![w] = "idle"]
           /\ kind' = [kind EXCEPT ![w] = "sse"]
           /\ phase' = [phase EXCEPT ![w] = 1]
      ELSE /\ pc' = [pc EXCEPT ![w] = "lookup"]
           /\ phase' = [phase EXCEPT ![w] = @ + 1]
           /\ UNCHANGED kind

\* The cache has the phase: it is served or skipped.
LookupHit(w) ==
    /\ pc[w] = "lookup" /\ kind[w] # "restore"
    /\ Hit(job[w])
    /\ results[entries[job[w]]][phase[w]] # NoResult
    /\ Advance(w)
    /\ UNCHANGED <<entries, results, age, job, held, empty, doomed>>

\* The cache has no entry, an expired one, or one without the phase: Claude is called.
LookupMiss(w) ==
    /\ pc[w] = "lookup" /\ kind[w] # "restore"
    /\ Hit(job[w]) => results[entries[job[w]]][phase[w]] = NoResult
    /\ pc' = [pc EXCEPT ![w] = "run"]
    /\ UNCHANGED <<entries, results, age, workerVars, held, empty, doomed>>

\* withRetry: Claude answers 529, overloaded.  The goroutine waits two seconds and
\* calls once more; what it gets then is final.  RunRCA is not called through
\* withRetry.
Overloaded_Again(w) ==   \* mutant: every 529 starts another wait
    /\ pc[w] \in {"run", "retry"}
    /\ phase[w] # LastPhase
    /\ pc' = [pc EXCEPT ![w] = IF pc[w] = "run" THEN "retry" ELSE "run"]
    /\ UNCHANGED <<entries, results, age, workerVars, held, empty, doomed>>
Overloaded(w) ==
    /\ pc[w] = "run"
    /\ phase[w] # LastPhase
    /\ pc' = [pc EXCEPT ![w] = "retry"]
    /\ UNCHANGED <<entries, results, age, workerVars, held, empty, doomed>>

\* The analysis of the bundle returns a result, at the first call or at the second.
RunSucceeds(w) ==
    /\ pc[w] \in {"run", "retry"}
    /\ pc' = [pc EXCEPT ![w] = "fetch"]
    /\ UNCHANGED <<entries, results, age, workerVars, held, empty, doomed>>

\* RunRCA returns no error and no text: the empty text is stored like any other.
RunReturnsNothing(w) ==
    /\ pc[w] = "run"
    /\ phase[w] = LastPhase
    /\ pc' = [pc EXCEPT ![w] = "fetch"]
    /\ empty' = empty \cup {w}
    /\ UNCHANGED <<entries, results, age, workerVars, held, doomed>>

\* The last call fails, its answer is not the JSON of a result, or the client of
\* the handler goes away during a call or the wait before the second: an SSE
\* handler returns, preWarmAnalysis logs and goes on.
RunFails(w) ==
    /\ pc[w] \in {"run", "retry"}
    /\ Advance(w)
    /\ UNCHANGED <<entries, results, age, job, held, empty, doomed>>

\* restoreAnalysisCache: the column of this phase holds the result of an
\* analysis of the bundle, from an earlier run of the server ...
LoadSaved(w) ==
    /\ pc[w] = "lookup" /\ kind[w] = "restore"
    /\ pc' = [pc EXCEPT ![w] = "fetch"]
    /\ UNCHANGED <<entries, results, age, workerVars, held, empty, doomed>>

\* ... or it is empty, or not the JSON of a result.
LoadNothing(w) ==
    /\ pc[w] = "lookup" /\ kind[w] = "restore"
    /\ Advance(w)
    /\ UNCHANGED <<entries, results, age, job, held, empty, doomed>>

\* Mutant: the key is compared by a prefix that bundles share.
FetchShared_AnyKey(w) ==
    /\ pc[w] = "fetch"
    /\ \E s \in Shas : Hit(s) /\ held' = [held EXCEPT ![w] = entries[s]]
    /\ pc' = [pc EXCEPT ![w] = "mutate"]
    /\ UNCHANGED <<entries, results, age, workerVars, empty, doomed>>

\* upsertCache, first step: the pointer Get returns ...
FetchShared(w) ==
    /\ pc[w] = "fetch"
    /\ Hit(job[w])
    /\ held' = [held EXCEPT ![w] = entries[job[w]]]
    /\ pc' = [pc EXCEPT ![w] = "mutate"]
    /\ UNCHANGED <<entries, results, age, workerVars, empty, doomed>>

\* Mutant: a new object that is the expired object of some other key.
FetchNew_Recycles(w, r) ==
    /\ pc[w] = "fetch" /\ ~ Hit(job[w]) /\ (Free(r) \/ ~ Fresh(r))
    /\ held' = [held EXCEPT ![w] = r]
    /\ pc' = [pc EXCEPT ![w] = "mutate"]
    /\ UNCHANGED <<entries, results, age, workerVars, empty, doomed>>

\* ... or, without one, a new object.
FetchNew(w, r) ==
    /\ pc[w] = "fetch"
    /\ ~ Hit(job[w])
    /\ Free(r)
    /\ held' = [held EXCEPT ![w] = r]
    /\ pc' = [pc EXCEPT ![w] = "mutate"]
    /\ UNCHANGED <<entries, results, age, workerVars, empty, doomed>>

\* The field the mutator of w assigns.
Field_Wrong(w) == (phase[w] % LastPhase) + 1   \* mutant: that of another phase
Field(w) == phase[w]

\* What it assigns: the result of an analysis of the bundle, or "".
Written(w) == IF w \in empty THEN NoResult ELSE job[w]

\* Second step, no lock held: the mutator assigns its field, and Set stamps the
\* object before it locks.
Mutate(w) ==
    /\ pc[w] = "mutate"
    /\ results' = [results EXCEPT ![held[w]][Field(w)] = Written(w)]
    /\ age' = [age EXCEPT ![held[w]] = 0]
    /\ pc' = [pc EXCEPT ![w] = "install"]
    /\ UNCHANGED <<entries, workerVars, held, empty, doomed>>

\* Third step: Set stores the pointer under the lock.
Install(w) ==
    /\ pc[w] = "install"
    /\ entries' = [entries EXCEPT ![job[w]] = held[w]]
    /\ held' = [held EXCEPT ![w] = NoRef]
    /\ empty' = empty \ {w}
    /\ Advance(w)
    /\ Collect
    /\ UNCHANGED <<job, doomed>>

-----------------------------------------------------------------------------
(* The cleanup goroutine, and time. *)

\* The keys whose object is older than cacheTTL.
ExpiredKeys == {s \in Shas : entries[s] # NoRef /\ ~ Fresh(entries[s])}

\* evictExpired, under the read lock: nothing more is done when no key expired.
EvictCollect ==
    /\ doomed = {}
    /\ ExpiredKeys # {}
    /\ doomed' = ExpiredKeys
    /\ UNCHANGED <<entries, results, age, pc, workerVars, held, empty>>

\* The map without some keys.
Without_None(keys) == entries   \* mutant: nothing is deleted
Without(keys) == [s \in Shas |-> IF s \in keys THEN NoRef ELSE entries[s]]

\* evictExpired, under the write lock: the collected keys are deleted.
EvictDelete ==
    /\ doomed # {}
    /\ entries' = Without(doomed)
    /\ doomed' = {}
    /\ UNCHANGED <<pc, workerVars, held, empty>>
    /\ Collect

Tick == /\ age' = [r \in Refs |-> IF Free(r) \/ age[r] > TTL THEN age[r] ELSE age[r] + 1]
        /\ UNCHANGED <<entries, results, pc, workerVars, held, empty, doomed>>

-----------------------------------------------------------------------------
WorkerStep(w) == \/ LookupHit(w) \/ LookupMiss(w)
                 \/ Overloaded(w) \/ RunSucceeds(w) \/ RunReturnsNothing(w) \/ RunFails(w)
                 \/ LoadSaved(w) \/ LoadNothing(w)
                 \/ FetchShared(w)
                 \/ \E r \in Refs : FetchNew(w, r)
                 \/ Mutate(w) \/ Install(w)

Next == \/ \E w \in Workers, k \in Started, s \in Shas, p \in Phases : Start(w, k, s, p)
        \/ \E w \in Workers : WorkerStep(w)
        \/ EvictCollect \/ EvictDelete
        \/ Tick

Spec == Init /\ [][Next]_vars

\* Goroutines keep running, calls to Claude return and so does the timer of a retry;
\* the cleanup ticker fires.
\* Nothing forces a request to arrive.
Fairness == /\ \A w \in Workers : WF_vars(WorkerStep(w))
            /\ WF_vars(EvictCollect)
            /\ WF_vars(EvictDelete)

FairSpec == Spec /\ Fairness
-----------------------------------------------------------------------------
(* Properties. *)

TypeOK == /\ entries \in [Shas -> Refs \cup {NoRef}]
          /\ results \in [Refs -> [Phases -> Shas \cup {NoResult}]]
          /\ age \in [Refs -> 0..(TTL + 1)]
          /\ pc \in [Workers -> Steps]
          /\ kind \in [Workers -> Kinds]
          /\ job \in [Workers -> Shas]
          /\ phase \in [Workers -> Phases]
          /\ held \in [Workers -> Refs \cup {NoRef}]
          /\ empty \in SUBSET Workers
          /\ doomed \in SUBSET Shas

\* The object at r can be read or written on behalf of bundle s: the map has it
\* under s, or a goroutine working for s holds it.
Reaches(r, s) == \/ entries[s] = r
                 \/ \E w \in Workers : held[w] = r /\ job[w] = s

\* Although pointers escape the lock, an object belongs to one bundle only: no
\* goroutine of one upload ever holds a pointer to the analysis of another.
ObjectsUnshared ==
    \A r \in Refs, s, t \in Shas : Reaches(r, s) /\ Reaches(r, t) => s = t

\* Whatever is stored under a key, by whichever interleaving of pre-warm, SSE
\* handlers, restores and evictions, came from an analysis of that bundle.
ServesOwnBundle ==
    \A s \in Shas : entries[s] # NoRef =>
        \A p \in Phases : results[entries[s]][p] \in {NoResult, s}

\* The phases a lookup of s would find now.
Visible(s) == IF Hit(s) THEN {p \in Phases : results[entries[s]][p] # NoResult} ELSE {}

\* Storing a phase never takes another phase of the bundle away ("fetches (or
\* creates) a CachedResult ... before writing it back to the cache").  Two
\* goroutines that miss together break it.
InstallKeepsPhases ==
    [][\A w \in Workers : Install(w) => Visible(job[w]) \subseteq Visible(job[w])']_vars

\* "A concurrent SSE request that wins the race won't trigger redundant Claude
\* calls" (preWarmAnalysis): no two goroutines ask Claude for one phase of one
\* bundle at a time.  Two that look it up before either stores it do.
NoRedundantCalls ==
    \A v, w \in Workers :
        /\ pc[v] \in {"run", "retry"} /\ pc[w] \in {"run", "retry"}
        /\ job[v] = job[w] /\ phase[v] = phase[w]
        => v = w

\* Every goroutine that fills the cache returns: no phase keeps the pre-warm, the
\* handler or the restore going for ever, however often Claude is overloaded.
WorkersReturn == \A w \in Workers : pc[w] # "idle" ~> pc[w] = "idle"

\* An expired entry does not stay: it is evicted or replaced by a fresh one, so
\* the map does not grow with bundles nobody opens again.
ExpiredEntriesGo == \A s \in Shas : s \in ExpiredKeys ~> s \notin ExpiredKeys
=============================================================================
