------------------------- MODULE AnalysisCache_proofs -------------------------
(***************************************************************************)
(* Type correctness of the analysis cache, that no interleaving mixes the  *)
(* analyses of two bundles, and that the cache implements AnalysisStore,   *)
(* for any number of bundles, goroutines, objects and phases, and any TTL. *)
(***************************************************************************)
EXTENDS AnalysisCacheStore, TLAPS

\* A goroutine holds a pointer exactly between upsertCache's Get and Set.
HoldersWrite == \A w \in Workers : held[w] # NoRef <=> pc[w] \in {"mutate", "install"}

\* An object that can be reached for s has results of s only.
OwnResults == \A r \in Refs, s \in Shas : Reaches(r, s) =>
                  \A p \in Phases : results[r][p] \in {NoResult, s}

\* A new object is a zero CachedResult.
FreeAreBlank == \A r \in Refs : Free(r) => results[r] = Blank

IInv == /\ TypeOK
        /\ HoldersWrite
        /\ ObjectsUnshared
        /\ OwnResults
        /\ FreeAreBlank
-----------------------------------------------------------------------------
\* The variables of the cache and its goroutines keep their types: every action
\* of AnalysisCache assigns values of the right kind.
THEOREM TypeCorrect == Spec => []TypeOK
<1> USE ConstantsAssumption DEF TypeOK, Phases, Kinds, Steps
<1>1. Init => TypeOK
  BY DEF Init, Blank
<1>2. TypeOK /\ [Next]_vars => TypeOK'
  <2> SUFFICES ASSUME TypeOK, [Next]_vars
               PROVE  TypeOK'
    OBVIOUS
  <2>0. ASSUME NEW w \in Workers, Advance(w)
        PROVE  /\ pc' \in [Workers -> Steps]
               /\ kind' \in [Workers -> Kinds]
               /\ phase' \in [Workers -> Phases]
    <3>1. CASE Ends(w)
      <4>1. 1 \in Phases
        OBVIOUS
      <4>2. /\ pc' = [pc EXCEPT ![w] = "idle"]
            /\ kind' = [kind EXCEPT ![w] = "sse"]
            /\ phase' = [phase EXCEPT ![w] = 1]
        BY <2>0, <3>1 DEF Advance
      <4>3. QED
        BY <4>1, <4>2
    <3>2. CASE ~ Ends(w)
      <4>1. phase[w] + 1 \in Phases
        BY <3>2 DEF Ends
      <4>2. /\ pc' = [pc EXCEPT ![w] = "lookup"]
            /\ kind' = kind
            /\ phase' = [phase EXCEPT ![w] = phase[w] + 1]
        BY <2>0, <3>2 DEF Advance
      <4>3. QED
        BY <4>1, <4>2
    <3>3. QED
      BY <3>1, <3>2
  <2>1. ASSUME Collect, entries' \in [Shas -> Refs \cup {NoRef}]
        PROVE  /\ results' \in [Refs -> [Phases -> Shas \cup {NoResult}]]
               /\ age' \in [Refs -> 0..(TTL + 1)]
    <3>1. Blank \in [Phases -> Shas \cup {NoResult}]
      BY DEF Blank
    <3>2. \A r \in Refs : (IF Free(r)' THEN Blank ELSE results[r])
                              \in [Phases -> Shas \cup {NoResult}]
      BY <3>1 DEF TypeOK
    <3>3. results' \in [Refs -> [Phases -> Shas \cup {NoResult}]]
      BY ONLY <2>1, <3>2 DEF Collect
    <3>4. age' \in [Refs -> 0..(TTL + 1)]
      BY <2>1 DEF Collect
    <3>5. QED
      BY <3>3, <3>4
  <2>2. ASSUME NEW w \in Workers, NEW k \in Started, NEW s \in Shas, NEW p \in Phases,
               Start(w, k, s, p)
        PROVE  TypeOK'
    BY <2>2 DEF Start
  <2>3. ASSUME NEW w \in Workers, LookupHit(w) \/ RunFails(w) \/ LoadNothing(w)
        PROVE  TypeOK'
    BY <2>3, <2>0 DEF LookupHit, RunFails, LoadNothing
  <2>4. ASSUME NEW w \in Workers,
               LookupMiss(w) \/ Overloaded(w) \/ RunSucceeds(w) \/ RunReturnsNothing(w) \/ LoadSaved(w)
        PROVE  TypeOK'
    BY <2>4 DEF LookupMiss, Overloaded, RunSucceeds, RunReturnsNothing, LoadSaved, workerVars
  <2>5. ASSUME NEW w \in Workers, FetchShared(w)
        PROVE  TypeOK'
    BY <2>5 DEF FetchShared, workerVars
  <2>6. ASSUME NEW w \in Workers, NEW r \in Refs, FetchNew(w, r)
        PROVE  TypeOK'
    BY <2>6 DEF FetchNew, workerVars
  <2>7. ASSUME NEW w \in Workers, Mutate(w)
        PROVE  TypeOK'
    <3>0. Written(w) \in Shas \cup {NoResult}
      BY DEF Written
    <3>1. ASSUME held[w] \in Refs
          PROVE  [results[held[w]] EXCEPT ![phase[w]] = Written(w)]
                    \in [Phases -> Shas \cup {NoResult}]
      BY <3>0, <3>1
    <3>2. results' \in [Refs -> [Phases -> Shas \cup {NoResult}]]
      BY <2>7, <3>1 DEF Mutate, Field
    <3>3. QED
      BY <2>7, <3>2 DEF Mutate, workerVars
  <2>8. ASSUME NEW w \in Workers, Install(w)
        PROVE  TypeOK'
    <3>1. entries' \in [Shas -> Refs \cup {NoRef}]
      BY <2>8 DEF Install
    <3>2. QED
      BY <2>8, <2>0, <2>1, <3>1 DEF Install
  <2>9. CASE EvictCollect
    BY <2>9 DEF EvictCollect, ExpiredKeys, workerVars
  <2>10. CASE EvictDelete
    <3>1. entries' \in [Shas -> Refs \cup {NoRef}]
      BY <2>10 DEF EvictDelete, Without
    <3>2. QED
      BY <2>10, <2>1, <3>1 DEF EvictDelete, workerVars
  <2>11. CASE Tick
    BY <2>11 DEF Tick, workerVars
  <2>12. CASE UNCHANGED vars
    BY <2>12 DEF vars, workerVars
  <2>13. QED
    BY <2>2, <2>3, <2>4, <2>5, <2>6, <2>7, <2>8, <2>9, <2>10, <2>11, <2>12
       DEF Next, WorkerStep
<1>3. QED
  BY <1>1, <1>2, PTL DEF Spec
-----------------------------------------------------------------------------
\* A step that makes no object reachable for a bundle it was not reachable for,
\* and writes no reachable object, keeps the objects apart.
LEMMA ReachesLess ==
    ASSUME TypeOK, TypeOK', ObjectsUnshared, OwnResults,
           \A r \in Refs, s \in Shas : Reaches(r, s)' => Reaches(r, s),
           \A r \in Refs : ~ Free(r)' => results'[r] = results[r]
    PROVE  ObjectsUnshared' /\ OwnResults'
<1>1. ObjectsUnshared'
  BY DEF ObjectsUnshared
<1>2. ASSUME NEW r \in Refs, NEW s \in Shas, Reaches(r, s)', NEW p \in Phases
      PROVE  results'[r][p] \in {NoResult, s}
  <2>1. ~ Free(r)'
    BY <1>2 DEF Reaches, Free
  <2>2. results'[r] = results[r]
    BY <2>1
  <2>3. QED
    BY <1>2, <2>2 DEF OwnResults
<1>3. QED
  BY <1>1, <1>2 DEF OwnResults

\* A step of one goroutine that touches neither the map, an object nor a pointer.
LEMMA LocalStep ==
    ASSUME IInv, TypeOK', UNCHANGED <<entries, results, held, job>>,
           HoldersWrite'
    PROVE  IInv'
<1> USE DEF IInv
<1>1. \A r \in Refs, s \in Shas : Reaches(r, s)' => Reaches(r, s)
  BY DEF Reaches
<1>2. ObjectsUnshared' /\ OwnResults'
  BY <1>1, ReachesLess
<1>3. FreeAreBlank'
  BY DEF FreeAreBlank, Free
<1>4. QED
  BY <1>2, <1>3

\* Advance leaves w outside upsertCache and the others where they were.
LEMMA AdvanceMoves ==
    ASSUME TypeOK, NEW w \in Workers, Advance(w)
    PROVE  pc' \in {[pc EXCEPT ![w] = "idle"], [pc EXCEPT ![w] = "lookup"]}
BY DEF Advance

\* No interleaving of pre-warm, SSE handlers, restores and evictions mixes the
\* analyses of two bundles: the inductive invariant.
THEOREM Separation == Spec => []IInv
<1>1. Init => IInv
  <2> SUFFICES ASSUME Init PROVE IInv
    OBVIOUS
  <2> USE ConstantsAssumption DEF Init
  <2>1. TypeOK
    BY DEF TypeOK, Phases, Kinds, Steps, Blank
  <2>2. \A r \in Refs, s \in Shas : ~ Reaches(r, s)
    BY DEF Reaches
  <2>3. HoldersWrite /\ FreeAreBlank
    BY DEF HoldersWrite, FreeAreBlank
  <2>4. QED
    BY <2>1, <2>2, <2>3 DEF IInv, ObjectsUnshared, OwnResults
<1>2. TypeOK' /\ IInv /\ [Next]_vars => IInv'
  <2> SUFFICES ASSUME TypeOK', IInv, [Next]_vars
               PROVE  IInv'
    OBVIOUS
  <2>a. TypeOK /\ HoldersWrite
    BY DEF IInv
  <2>1. ASSUME NEW w \in Workers, NEW k \in Started, NEW s \in Shas, NEW p \in Phases,
               Start(w, k, s, p)
        PROVE  IInv'
    <3>1. held[w] \notin Refs /\ held' = held /\ entries' = entries /\ results' = results
      BY <2>1, <2>a, ConstantsAssumption DEF Start, HoldersWrite, TypeOK
    <3>2. \A r \in Refs, t \in Shas : Reaches(r, t)' => Reaches(r, t)
      BY <2>1, <2>a, <3>1 DEF Start, Reaches, TypeOK
    <3>3. ObjectsUnshared' /\ OwnResults'
      BY <2>1, <3>1, <3>2, ReachesLess DEF IInv
    <3>4. HoldersWrite'
      BY <2>1, <2>a DEF Start, HoldersWrite, TypeOK
    <3>5. FreeAreBlank'
      BY <3>1 DEF IInv, FreeAreBlank, Free
    <3>6. QED
      BY <3>3, <3>4, <3>5 DEF IInv
  <2>2. ASSUME NEW w \in Workers, LookupHit(w) \/ RunFails(w) \/ LoadNothing(w)
        PROVE  IInv'
    <3>1. Advance(w) /\ UNCHANGED <<entries, results, job, held>>
      BY <2>2 DEF LookupHit, RunFails, LoadNothing
    <3>2. pc[w] \in {"lookup", "run", "retry"}
      BY <2>2 DEF LookupHit, RunFails, LoadNothing
    <3>3. pc' \in {[pc EXCEPT ![w] = "idle"], [pc EXCEPT ![w] = "lookup"]}
      BY <2>a, <3>1, AdvanceMoves
    <3>4. HoldersWrite'
      BY <2>a, <3>1, <3>2, <3>3 DEF HoldersWrite, TypeOK
    <3>5. QED
      BY <3>1, <3>4, LocalStep
  <2>3. ASSUME NEW w \in Workers,
               LookupMiss(w) \/ Overloaded(w) \/ RunSucceeds(w) \/ RunReturnsNothing(w) \/ LoadSaved(w)
        PROVE  IInv'
    <3>1. /\ pc[w] \in {"lookup", "run", "retry"}
          /\ \E step \in {"run", "retry", "fetch"} : pc' = [pc EXCEPT ![w] = step]
          /\ UNCHANGED <<entries, results, job, held>>
      BY <2>3 DEF LookupMiss, Overloaded, RunSucceeds, RunReturnsNothing, LoadSaved, workerVars
    <3>2. HoldersWrite'
      BY <2>a, <3>1 DEF HoldersWrite, TypeOK
    <3>3. QED
      BY <3>1, <3>2, LocalStep
  <2>4. ASSUME NEW w \in Workers, FetchShared(w)
        PROVE  IInv'
    <3>1. /\ pc[w] = "fetch" /\ held' = [held EXCEPT ![w] = entries[job[w]]]
          /\ pc' = [pc EXCEPT ![w] = "mutate"]
          /\ entries[job[w]] # NoRef
          /\ UNCHANGED <<entries, results, job>>
      BY <2>4 DEF FetchShared, Hit, workerVars
    <3>2. \A r \in Refs, t \in Shas : Reaches(r, t)' => Reaches(r, t)
      BY <3>1, <2>a DEF Reaches, TypeOK
    <3>3. ObjectsUnshared' /\ OwnResults'
      BY <3>1, <3>2, ReachesLess DEF IInv
    <3>4. HoldersWrite'
      BY <3>1, <2>a DEF HoldersWrite, TypeOK
    <3>5. FreeAreBlank'
      <4>1. held[w] \notin Refs
        BY <3>1, <2>a, ConstantsAssumption DEF HoldersWrite, TypeOK
      <4>2. \A q \in Refs : Free(q)' => Free(q)
        BY <3>1, <4>1, <2>a DEF Free, TypeOK
      <4>3. QED
        BY <3>1, <4>2 DEF IInv, FreeAreBlank
    <3>6. QED
      BY <3>3, <3>4, <3>5 DEF IInv
  <2>5. ASSUME NEW w \in Workers, NEW r \in Refs, FetchNew(w, r)
        PROVE  IInv'
    <3>1. /\ pc[w] = "fetch" /\ held' = [held EXCEPT ![w] = r]
          /\ pc' = [pc EXCEPT ![w] = "mutate"]
          /\ Free(r)
          /\ UNCHANGED <<entries, results, job>>
      BY <2>5 DEF FetchNew, workerVars
    <3>2. results[r] = Blank
      BY <3>1 DEF IInv, FreeAreBlank
    <3>3. \A s \in Shas : ~ Reaches(r, s) /\ (Reaches(r, s)' => s = job[w])
      BY <3>1, <2>a DEF Reaches, Free, TypeOK
    <3>4. \A q \in Refs, s \in Shas : q # r => (Reaches(q, s)' => Reaches(q, s))
      BY <3>1, <2>a DEF Reaches, TypeOK
    <3>5. ObjectsUnshared'
      BY <3>3, <3>4 DEF IInv, ObjectsUnshared
    <3>6. OwnResults'
      <4>1. \A p \in Phases : results'[r][p] = NoResult
        BY <3>1, <3>2 DEF Blank
      <4>2. \A q \in Refs, s \in Shas : q # r /\ Reaches(q, s)' =>
                \A p \in Phases : results'[q][p] \in {NoResult, s}
        BY <3>1, <3>4 DEF IInv, OwnResults
      <4>3. QED
        BY <4>1, <4>2 DEF OwnResults
    <3>7. HoldersWrite'
      BY <3>1, <2>a, ConstantsAssumption DEF HoldersWrite, TypeOK
    <3>8. FreeAreBlank'
      <4>1. held[w] \notin Refs
        BY <3>1, <2>a, ConstantsAssumption DEF HoldersWrite, TypeOK
      <4>2. \A q \in Refs : Free(q)' => Free(q)
        BY <3>1, <4>1, <2>a DEF Free, TypeOK
      <4>3. QED
        BY <3>1, <4>2 DEF IInv, FreeAreBlank
    <3>9. QED
      BY <3>5, <3>6, <3>7, <3>8 DEF IInv
  <2>6. ASSUME NEW w \in Workers, Mutate(w)
        PROVE  IInv'
    <3>0. PICK r \in Refs : held[w] = r
      BY <2>6, <2>a DEF Mutate, HoldersWrite, TypeOK
    <3>1. /\ pc[w] = "mutate" /\ pc' = [pc EXCEPT ![w] = "install"]
          /\ results' = [results EXCEPT ![r][phase[w]] = Written(w)]
          /\ UNCHANGED <<entries, job, held>>
      BY <2>6, <3>0 DEF Mutate, Field, workerVars
    <3>2. Reaches(r, job[w]) /\ ~ Free(r)
      BY <3>0 DEF Reaches, Free
    <3>3. \A q \in Refs, s \in Shas : Reaches(q, s)' <=> Reaches(q, s)
      BY <3>1 DEF Reaches
    <3>4. /\ \A q \in Refs : q # r => results'[q] = results[q]
          /\ \A p \in Phases : p # phase[w] => results'[r][p] = results[r][p]
          /\ results'[r][phase[w]] = Written(w)
      BY <3>1, <3>2, <2>a DEF TypeOK
    <3>5. job[w] \in Shas /\ Written(w) \in {NoResult, job[w]}
      BY <2>a DEF TypeOK, Written
    <3>6. ObjectsUnshared'
      BY <3>3 DEF IInv, ObjectsUnshared
    <3>7. OwnResults'
      <4>1. \A s \in Shas : Reaches(r, s) => s = job[w]
        BY <3>2, <3>5 DEF IInv, ObjectsUnshared
      <4>2. \A s \in Shas : Reaches(r, s)' =>
                \A p \in Phases : results'[r][p] \in {NoResult, s}
        BY <4>1, <3>2, <3>3, <3>4, <3>5 DEF IInv, OwnResults
      <4>3. QED
        BY <4>2, <3>3, <3>4 DEF IInv, OwnResults
    <3>8. HoldersWrite'
      BY <3>1, <2>a DEF HoldersWrite, TypeOK
    <3>9. FreeAreBlank'
      BY <3>1, <3>2, <3>4 DEF IInv, FreeAreBlank, Free
    <3>10. QED
      BY <3>6, <3>7, <3>8, <3>9 DEF IInv
  <2>7. ASSUME NEW w \in Workers, Install(w)
        PROVE  IInv'
    <3>1. /\ pc[w] = "install" /\ Advance(w) /\ Collect
          /\ entries' = [entries EXCEPT ![job[w]] = held[w]]
          /\ held' = [held EXCEPT ![w] = NoRef]
          /\ job' = job
      BY <2>7 DEF Install
    <3>2. pc' \in {[pc EXCEPT ![w] = "idle"], [pc EXCEPT ![w] = "lookup"]}
      BY <2>a, <3>1, AdvanceMoves
    <3>3. held[w] \in Refs
      BY <3>1, <2>a DEF HoldersWrite, TypeOK
    <3>4. \A r \in Refs, s \in Shas : Reaches(r, s)' => Reaches(r, s)
      BY <3>1, <3>3, <2>a, ConstantsAssumption DEF Reaches, TypeOK
    <3>5. \A r \in Refs : /\ Free(r)' => results'[r] = Blank
                          /\ ~ Free(r)' => results'[r] = results[r]
      BY <3>1 DEF Collect
    <3>6. ObjectsUnshared' /\ OwnResults'
      BY <3>4, <3>5, ReachesLess DEF IInv
    <3>7. HoldersWrite'
      BY <3>1, <3>2, <2>a DEF HoldersWrite, TypeOK
    <3>8. FreeAreBlank'
      BY <3>5 DEF FreeAreBlank
    <3>9. QED
      BY <3>6, <3>7, <3>8 DEF IInv
  <2>8. CASE EvictDelete
    <3>1. /\ Collect /\ UNCHANGED <<pc, job, held>>
          /\ entries' = [s \in Shas |-> IF s \in doomed THEN NoRef ELSE entries[s]]
      BY <2>8 DEF EvictDelete, Without, workerVars
    <3>2. \A r \in Refs, s \in Shas : Reaches(r, s)' => Reaches(r, s)
      BY <3>1, ConstantsAssumption DEF Reaches
    <3>3. \A r \in Refs : /\ Free(r)' => results'[r] = Blank
                          /\ ~ Free(r)' => results'[r] = results[r]
      BY <3>1 DEF Collect
    <3>4. ObjectsUnshared' /\ OwnResults'
      BY <3>2, <3>3, ReachesLess DEF IInv
    <3>5. HoldersWrite'
      BY <3>1, <2>a DEF HoldersWrite
    <3>6. FreeAreBlank'
      BY <3>3 DEF FreeAreBlank
    <3>7. QED
      BY <3>4, <3>5, <3>6 DEF IInv
  <2>9. CASE EvictCollect \/ Tick \/ UNCHANGED vars
    <3>1. UNCHANGED <<entries, results, pc, held, job>>
      BY <2>9 DEF EvictCollect, Tick, vars, workerVars
    <3>2. HoldersWrite'
      BY <3>1, <2>a DEF HoldersWrite
    <3>3. QED
      BY <3>1, <3>2, LocalStep
  <2>10. QED
    BY <2>1, <2>2, <2>3, <2>4, <2>5, <2>6, <2>7, <2>8, <2>9 DEF Next, WorkerStep
<1>3. QED
  BY <1>1, <1>2, TypeCorrect, PTL DEF Spec

\* Whatever is stored under a key came from an analysis of that bundle: a reader
\* is never served the analysis of another upload.
THEOREM CacheServesOwnBundle == Spec => []ServesOwnBundle
<1>1. IInv => ServesOwnBundle
  BY DEF IInv, OwnResults, ServesOwnBundle, Reaches, TypeOK
<1>2. QED
  BY <1>1, Separation, PTL

\* No goroutine of one upload holds a pointer to the analysis of another, although
\* pointers escape the lock of the cache.
THEOREM CacheObjectsUnshared == Spec => []ObjectsUnshared
<1>1. IInv => ObjectsUnshared
  BY DEF IInv
<1>2. QED
  BY <1>1, Separation, PTL
-----------------------------------------------------------------------------
(* The refinement: every step of a goroutine, of the sweeper or of the clock *)
(* produces, publishes or hides phases, or changes nothing that a reader     *)
(* could see.                                                                *)

\* Goroutine w is in upsertCache with a result that is not the empty text.
Storing(w) == pc[w] \in {"fetch", "mutate", "install"} /\ w \notin empty

\* What a goroutine stores, it has received.
ObtainedIsProduced == \A w \in Workers : Storing(w) => phase[w] \in produced[job[w]]

\* What an object has of a bundle that it is reachable for was produced.
HeldIsProduced ==
    \A r \in Refs, s \in Shas : Reaches(r, s) =>
        \A p \in Phases : results[r][p] # NoResult => p \in produced[s]

PInv == /\ produced \in [Shas -> SUBSET Phases]
        /\ ObtainedIsProduced
        /\ HeldIsProduced

\* All that a lookup finds was produced.
SeenAreProduced == \A s \in Shas : Visible(s) \subseteq produced[s] /\ Visible(s) \subseteq Phases
-----------------------------------------------------------------------------
\* Step v of a goroutine that receives a result leaves the cache alone, and is the
\* only one that receives one.
LEMMA ObtainStep ==
    ASSUME IInv, NEW v \in Workers, Obtains(v)
    PROVE  /\ UNCHANGED <<entries, results, age, job, phase, held, empty>>
           /\ pc' = [pc EXCEPT ![v] = "fetch"]
           /\ \A w \in Workers : Obtains(w) => w = v
<1>1. /\ UNCHANGED <<entries, results, age, job, phase, held, empty>>
      /\ pc' = [pc EXCEPT ![v] = "fetch"]
  BY DEF Obtains, RunSucceeds, LoadSaved, workerVars
<1>2. ASSUME NEW w \in Workers, Obtains(w)
      PROVE  w = v
  <2>1. pc[w] # "fetch" /\ pc' = [pc EXCEPT ![w] = "fetch"]
    BY <1>2 DEF Obtains, RunSucceeds, LoadSaved
  <2>2. QED
    BY <1>1, <2>1 DEF IInv, TypeOK
<1>3. QED
  BY <1>1, <1>2

LEMMA ProducedThen ==
    ASSUME IInv, PInv, HNext, NEW v \in Workers, Obtains(v)
    PROVE  /\ produced' = [produced EXCEPT ![job[v]] = @ \cup {phase[v]}]
           /\ job[v] \in Shas /\ phase[v] \in Phases
<1>1. job[v] \in Shas /\ phase[v] \in Phases
  BY DEF IInv, TypeOK
<1>2. ASSUME NEW s \in Shas
      PROVE  {w \in Workers : job[w] = s /\ Obtains(w)} = IF s = job[v] THEN {v} ELSE {}
  BY ObtainStep
<1>3. ASSUME NEW s \in Shas
      PROVE  {phase[w] : w \in {u \in Workers : job[u] = s /\ Obtains(u)}}
                = IF s = job[v] THEN {phase[v]} ELSE {}
  BY <1>2
<1>4. produced' = [s \in Shas |-> produced[s] \cup IF s = job[v] THEN {phase[v]} ELSE {}]
  BY <1>3 DEF HNext
<1>5. QED
  BY <1>1, <1>4 DEF PInv

LEMMA ProducedElse ==
    ASSUME PInv, HNext, \A v \in Workers : ~ Obtains(v)
    PROVE  produced' = produced
<1>1. ASSUME NEW s \in Shas
      PROVE  {phase[w] : w \in {u \in Workers : job[u] = s /\ Obtains(u)}} = {}
  OBVIOUS
<1>2. produced' = [s \in Shas |-> produced[s]]
  BY <1>1 DEF HNext
<1>3. QED
  BY <1>2 DEF PInv
-----------------------------------------------------------------------------
\* The invariant holds after a step that makes no object reachable for a bundle it
\* was not reachable for, and writes no object.
LEMMA NothingReached ==
    ASSUME PInv, UNCHANGED produced,
           \A r \in Refs, s \in Shas : Reaches(r, s)' => Reaches(r, s),
           \A r \in Refs : ~ Free(r)' => results'[r] = results[r],
           \A w \in Workers : Storing(w)' =>
               Storing(w) /\ job'[w] = job[w] /\ phase'[w] = phase[w]
    PROVE  PInv'
<1>1. ObtainedIsProduced'
  BY DEF PInv, ObtainedIsProduced
<1>2. ASSUME NEW r \in Refs, NEW s \in Shas, Reaches(r, s)', NEW p \in Phases, results'[r][p] # NoResult
      PROVE  p \in produced'[s]
  <2>1. ~ Free(r)'
    BY <1>2 DEF Reaches, Free
  <2>2. QED
    BY <1>2, <2>1 DEF PInv, HeldIsProduced
<1>3. QED
  BY <1>1, <1>2 DEF PInv, HeldIsProduced

LEMMA ProducedStep == IInv /\ IInv' /\ PInv /\ [HNext]_<<vars, produced>> => PInv'
<1> SUFFICES ASSUME IInv, IInv', PInv, HNext
             PROVE  PInv'
  <2>1. ASSUME IInv, PInv, UNCHANGED <<vars, produced>>
        PROVE  PInv'
    <3>1. UNCHANGED <<entries, results, pc, job, phase, held, empty, produced>>
      BY <2>1 DEF vars, workerVars
    <3>2. QED
      BY <2>1, <3>1 DEF PInv, ObtainedIsProduced, Storing, HeldIsProduced, Reaches
  <2>2. QED
    BY <2>1
<1>a. TypeOK /\ HoldersWrite /\ PInv
  BY DEF IInv
<1>1. ASSUME NEW v \in Workers, Obtains(v)
      PROVE  PInv'
  <2>1. /\ UNCHANGED <<entries, results, job, phase, held, empty>>
        /\ pc' = [pc EXCEPT ![v] = "fetch"]
    BY <1>1, ObtainStep
  <2>2. /\ produced' = [produced EXCEPT ![job[v]] = @ \cup {phase[v]}]
        /\ job[v] \in Shas /\ phase[v] \in Phases
    BY <1>1, ProducedThen
  <2>3. produced' \in [Shas -> SUBSET Phases]
    BY <2>2 DEF PInv
  <2>4. \A s \in Shas : produced[s] \subseteq produced'[s]
    BY <2>2 DEF PInv
  <2>5. phase[v] \in produced'[job[v]]
    BY <2>2 DEF PInv
  <2>6. ObtainedIsProduced'
    BY <2>1, <2>4, <2>5, <1>a DEF PInv, ObtainedIsProduced, Storing, TypeOK
  <2>7. HeldIsProduced'
    BY <2>1, <2>4 DEF PInv, HeldIsProduced, Reaches
  <2>8. QED
    BY <2>3, <2>6, <2>7 DEF PInv
<1>2. ASSUME \A v \in Workers : ~ Obtains(v)
      PROVE  PInv'
  <2>0. produced' = produced
    BY <1>2, ProducedElse
  <2>1. ASSUME NEW w \in Workers, NEW k \in Started, NEW s \in Shas, NEW p \in Phases,
               Start(w, k, s, p)
        PROVE  PInv'
    <3>1. held[w] \notin Refs /\ held' = held /\ entries' = entries /\ results' = results
      BY <2>1, <1>a, ConstantsAssumption DEF Start, HoldersWrite, TypeOK
    <3>2. \A r \in Refs, t \in Shas : Reaches(r, t)' => Reaches(r, t)
      BY <2>1, <1>a, <3>1 DEF Start, Reaches, TypeOK
    <3>3. \A v \in Workers : Storing(v)' =>
              Storing(v) /\ job'[v] = job[v] /\ phase'[v] = phase[v]
      BY <2>1, <1>a DEF Start, Storing, TypeOK
    <3>4. QED
      BY <2>0, <3>1, <3>2, <3>3, NothingReached
  <2>2. ASSUME NEW w \in Workers,
               LookupHit(w) \/ RunFails(w) \/ LoadNothing(w) \/ LookupMiss(w) \/ Overloaded(w)
                 \/ RunReturnsNothing(w)
        PROVE  PInv'
    <3>1. UNCHANGED <<entries, results, job, held>>
      BY <2>2 DEF LookupHit, RunFails, LoadNothing, LookupMiss, Overloaded, RunReturnsNothing,
                  workerVars
    <3>2. /\ \E step \in Steps : pc' = [pc EXCEPT ![w] = step]
          /\ \E p \in Nat : phase' = [phase EXCEPT ![w] = p]
          /\ empty \subseteq empty'
      BY <2>2, <1>a DEF LookupHit, RunFails, LoadNothing, LookupMiss, Overloaded,
                        RunReturnsNothing, workerVars, Advance, TypeOK, Phases, Steps
    <3>3. ~ Storing(w)'
      BY <2>2, <1>a DEF LookupHit, RunFails, LoadNothing, LookupMiss, Overloaded,
                        RunReturnsNothing, Advance, Storing, TypeOK
    <3>4. \A v \in Workers : Storing(v)' =>
              Storing(v) /\ job'[v] = job[v] /\ phase'[v] = phase[v]
      BY <3>1, <3>2, <3>3, <1>a DEF Storing, TypeOK
    <3>5. \A r \in Refs, t \in Shas : Reaches(r, t)' => Reaches(r, t)
      BY <3>1 DEF Reaches
    <3>6. QED
      BY <2>0, <3>1, <3>4, <3>5, NothingReached
  <2>3. ASSUME NEW w \in Workers, FetchShared(w)
        PROVE  PInv'
    <3>1. /\ pc[w] = "fetch" /\ held' = [held EXCEPT ![w] = entries[job[w]]]
          /\ pc' = [pc EXCEPT ![w] = "mutate"]
          /\ UNCHANGED <<entries, results, job, phase, empty>>
      BY <2>3 DEF FetchShared, workerVars
    <3>2. \A r \in Refs, t \in Shas : Reaches(r, t)' => Reaches(r, t)
      BY <3>1, <1>a DEF Reaches, TypeOK
    <3>3. \A v \in Workers : Storing(v)' => Storing(v)
      BY <3>1, <1>a DEF Storing, TypeOK
    <3>4. QED
      BY <2>0, <3>1, <3>2, <3>3, NothingReached
  <2>4. ASSUME NEW w \in Workers, NEW r \in Refs, FetchNew(w, r)
        PROVE  PInv'
    <3>1. /\ pc[w] = "fetch" /\ held' = [held EXCEPT ![w] = r]
          /\ pc' = [pc EXCEPT ![w] = "mutate"]
          /\ Free(r)
          /\ UNCHANGED <<entries, results, job, phase, empty>>
      BY <2>4 DEF FetchNew, workerVars
    <3>2. \A p \in Phases : results[r][p] = NoResult
      BY <3>1 DEF IInv, FreeAreBlank, Blank
    <3>3. \A q \in Refs, s \in Shas : q # r => (Reaches(q, s)' => Reaches(q, s))
      BY <3>1, <1>a DEF Reaches, TypeOK
    <3>4. HeldIsProduced'
      BY <2>0, <3>1, <3>2, <3>3 DEF PInv, HeldIsProduced
    <3>5. ObtainedIsProduced'
      BY <2>0, <3>1, <1>a DEF PInv, ObtainedIsProduced, Storing, TypeOK
    <3>6. QED
      BY <2>0, <3>4, <3>5 DEF PInv
  <2>5. ASSUME NEW w \in Workers, Mutate(w)
        PROVE  PInv'
    <3>0. PICK r \in Refs : held[w] = r
      BY <2>5, <1>a DEF Mutate, HoldersWrite, TypeOK
    <3>1. /\ pc[w] = "mutate" /\ pc' = [pc EXCEPT ![w] = "install"]
          /\ results' = [results EXCEPT ![r][phase[w]] = Written(w)]
          /\ UNCHANGED <<entries, job, phase, held, empty>>
      BY <2>5, <3>0 DEF Mutate, Field, workerVars
    <3>2. \A q \in Refs, s \in Shas : Reaches(q, s)' <=> Reaches(q, s)
      BY <3>1 DEF Reaches
    <3>3. /\ \A q \in Refs : q # r => results'[q] = results[q]
          /\ \A p \in Phases : p # phase[w] => results'[r][p] = results[r][p]
          /\ w \in empty => \A p \in Phases : results'[r][p] \in {NoResult, results[r][p]}
      BY <3>1, <1>a DEF TypeOK, Written
    <3>4. \A s \in Shas : Reaches(r, s) => s = job[w]
      BY <3>0, <1>a DEF IInv, ObjectsUnshared, Reaches, TypeOK
    <3>5. w \notin empty => phase[w] \in produced[job[w]]
      BY <3>1 DEF PInv, ObtainedIsProduced, Storing
    <3>6. HeldIsProduced'
      BY <2>0, <3>2, <3>3, <3>4, <3>5 DEF PInv, HeldIsProduced
    <3>7. ObtainedIsProduced'
      BY <2>0, <3>1, <1>a DEF PInv, ObtainedIsProduced, Storing, TypeOK
    <3>8. QED
      BY <2>0, <3>6, <3>7 DEF PInv
  <2>6. ASSUME NEW w \in Workers, Install(w)
        PROVE  PInv'
    <3>1. /\ pc[w] = "install" /\ Collect
          /\ entries' = [entries EXCEPT ![job[w]] = held[w]]
          /\ held' = [held EXCEPT ![w] = NoRef]
          /\ empty' = empty \ {w}
          /\ job' = job
      BY <2>6 DEF Install
    <3>2. /\ \E step \in {"idle", "lookup"} : pc' = [pc EXCEPT ![w] = step]
          /\ \E p \in Nat : phase' = [phase EXCEPT ![w] = p]
      BY <2>6, <1>a DEF Install, Advance, TypeOK, Phases
    <3>3. \A v \in Workers : Storing(v)' => Storing(v) /\ phase'[v] = phase[v]
      BY <3>1, <3>2, <1>a DEF Storing, TypeOK
    <3>4. \A r \in Refs, s \in Shas : Reaches(r, s)' => Reaches(r, s)
      BY <3>1, <1>a, ConstantsAssumption DEF Reaches, TypeOK
    <3>5. \A r \in Refs : ~ Free(r)' => results'[r] = results[r]
      BY <3>1 DEF Collect
    <3>6. QED
      BY <2>0, <3>1, <3>3, <3>4, <3>5, NothingReached
  <2>7. CASE EvictDelete
    <3>1. /\ Collect /\ UNCHANGED <<pc, job, phase, held, empty>>
          /\ entries' = [s \in Shas |-> IF s \in doomed THEN NoRef ELSE entries[s]]
      BY <2>7 DEF EvictDelete, Without, workerVars
    <3>2. \A r \in Refs, s \in Shas : Reaches(r, s)' => Reaches(r, s)
      BY <3>1, ConstantsAssumption DEF Reaches
    <3>3. \A r \in Refs : ~ Free(r)' => results'[r] = results[r]
      BY <3>1 DEF Collect
    <3>4. \A v \in Workers : Storing(v)' => Storing(v)
      BY <3>1 DEF Storing
    <3>5. QED
      BY <2>0, <3>1, <3>2, <3>3, <3>4, NothingReached
  <2>8. CASE EvictCollect \/ Tick
    <3>1. UNCHANGED <<entries, results, pc, held, job, phase, empty>>
      BY <2>8 DEF EvictCollect, Tick, workerVars
    <3>2. /\ \A r \in Refs, s \in Shas : Reaches(r, s)' => Reaches(r, s)
          /\ \A v \in Workers : Storing(v)' => Storing(v)
      BY <3>1 DEF Reaches, Storing
    <3>3. QED
      BY <2>0, <3>1, <3>2, NothingReached
  <2>9. QED
    BY <1>2, <2>1, <2>2, <2>3, <2>4, <2>5, <2>6, <2>7, <2>8 DEF HNext, Next, WorkerStep, Obtains
<1>3. QED
  BY <1>1, <1>2
-----------------------------------------------------------------------------
\* What an object that the map has under s shows of the bundle, if it is fresh.
LEMMA VisibleKept ==
    ASSUME TypeOK, NEW s \in Shas, entries'[s] = entries[s],
           \A r \in Refs : entries[s] = r => results'[r] = results[r] /\ age'[r] = age[r]
    PROVE  Visible(s)' = Visible(s)
<1>1. CASE entries[s] = NoRef
  BY <1>1 DEF Visible, Hit
<1>2. CASE entries[s] # NoRef
  <2>1. PICK r \in Refs : entries[s] = r
    BY <1>2 DEF TypeOK
  <2>2. QED
    BY <2>1 DEF Visible, Hit, Fresh
<1>3. QED
  BY <1>1, <1>2

LEMMA VisibleIsProduced == TypeOK /\ PInv => SeenAreProduced
<1> SUFFICES ASSUME TypeOK, PInv, NEW s \in Shas
             PROVE  Visible(s) \subseteq produced[s]
  BY DEF PInv, SeenAreProduced
<1>1. CASE Hit(s)
  <2>1. PICK r \in Refs : entries[s] = r
    BY <1>1 DEF Hit, TypeOK
  <2>2. Reaches(r, s)
    BY <2>1 DEF Reaches
  <2>3. QED
    BY <1>1, <2>1, <2>2 DEF Visible, PInv, HeldIsProduced
<1>2. CASE ~ Hit(s)
  BY <1>2 DEF Visible
<1>3. QED
  BY <1>1, <1>2

\* A step that changes what is visible of one bundle publishes a phase of it, or
\* hides all of them.
LEMMA OneBundle ==
    ASSUME PInv, SeenAreProduced, SeenAreProduced', UNCHANGED produced, NEW s \in Shas,
           \A t \in Shas : t # s => Visible(t)' = Visible(t)
    PROVE  Store!Next
<1> DEFINE visible == [t \in Shas |-> Visible(t)]
<1>1. visible' = [t \in Shas |-> Visible(t)']
  OBVIOUS
<1>2. /\ \A t \in Shas : Visible(t) \in SUBSET Phases /\ Visible(t)' \in SUBSET Phases
      /\ Visible(s)' \subseteq produced[s]
  BY DEF SeenAreProduced, PInv
<1>3. CASE Visible(s)' = {}
  <2>1. Store!Hide
    BY <1>1, <1>2, <1>3 DEF Store!Hide
  <2>2. QED
    BY <2>1 DEF Store!Next
<1>4. ASSUME NEW p \in Visible(s)'
      PROVE  Store!Next
  <2>1. visible' = [visible EXCEPT ![s] = Visible(s)']
    BY <1>1
  <2>2. p \in Phases /\ p \in produced[s]
    BY <1>2
  <2>3. Store!Publish(s, p)
    BY <1>2, <2>1, <2>2 DEF Store!Publish
  <2>4. QED
    BY <2>2, <2>3 DEF Store!Next
<1>5. QED
  BY <1>3, <1>4
-----------------------------------------------------------------------------
LEMMA StoreStep ==
    IInv /\ IInv' /\ PInv /\ PInv' /\ [HNext]_<<vars, produced>> => [Store!Next]_(Store!vars)
<1> SUFFICES ASSUME IInv, IInv', PInv, PInv', HNext
             PROVE  Store!Next \/ UNCHANGED Store!vars
  <2>1. ASSUME UNCHANGED <<vars, produced>>
        PROVE  UNCHANGED Store!vars
    BY <2>1 DEF vars, Store!vars, Visible, Hit, Fresh
  <2>2. QED
    BY <2>1
<1> DEFINE visible == [t \in Shas |-> Visible(t)]
<1>a. TypeOK /\ TypeOK'
  BY DEF IInv
<1>b. SeenAreProduced /\ SeenAreProduced'
  BY <1>a, VisibleIsProduced, PTL
<1>c. ASSUME UNCHANGED <<entries, results, age>>
      PROVE  visible' = visible
  BY <1>c DEF Visible, Hit, Fresh
<1>1. ASSUME NEW v \in Workers, Obtains(v)
      PROVE  Store!Next
  <2>1. UNCHANGED <<entries, results, age>>
    BY <1>1, ObtainStep
  <2>2. /\ produced' = [produced EXCEPT ![job[v]] = @ \cup {phase[v]}]
        /\ job[v] \in Shas /\ phase[v] \in Phases
    BY <1>1, ProducedThen
  <2>3. Store!Produce(job[v], phase[v])
    BY <2>1, <2>2, <1>c DEF Store!Produce
  <2>4. QED
    BY <2>2, <2>3 DEF Store!Next
<1>2. ASSUME \A v \in Workers : ~ Obtains(v)
      PROVE  Store!Next \/ UNCHANGED Store!vars
  <2>0. produced' = produced
    BY <1>2, ProducedElse
  <2>1. CASE UNCHANGED <<entries, results, age>>
    BY <2>0, <2>1, <1>c DEF Store!vars
  <2>2. ASSUME NEW w \in Workers, Mutate(w)
        PROVE  Store!Next
    <3>0. PICK r \in Refs : held[w] = r
      BY <2>2, <1>a DEF Mutate, IInv, HoldersWrite, TypeOK
    <3>1. /\ UNCHANGED entries
          /\ \A q \in Refs : q # r => results'[q] = results[q] /\ age'[q] = age[q]
      BY <2>2, <3>0, <1>a DEF Mutate, TypeOK
    <3>2. ASSUME NEW t \in Shas, t # job[w]
          PROVE  entries[t] # r
      BY <3>0, <3>2, <1>a DEF IInv, ObjectsUnshared, Reaches, TypeOK
    <3>3. \A t \in Shas : t # job[w] => Visible(t)' = Visible(t)
      BY <3>1, <3>2, <1>a, VisibleKept
    <3>4. QED
      BY <2>0, <3>3, <1>a, <1>b, OneBundle DEF TypeOK
  <2>3. ASSUME NEW w \in Workers, Install(w)
        PROVE  Store!Next
    <3>1. /\ Collect
          /\ \A t \in Shas : t # job[w] => entries'[t] = entries[t]
      BY <2>3, <1>a DEF Install, TypeOK
    <3>2. ASSUME NEW t \in Shas, t # job[w]
          PROVE  Visible(t)' = Visible(t)
      <4>1. \A r \in Refs : entries[t] = r => ~ Free(r)'
        BY <3>1, <3>2 DEF Free
      <4>2. \A r \in Refs : entries[t] = r => results'[r] = results[r] /\ age'[r] = age[r]
        BY <4>1, <3>1 DEF Collect
      <4>3. QED
        BY <3>1, <3>2, <4>2, <1>a, VisibleKept
    <3>3. QED
      BY <2>0, <3>2, <1>a, <1>b, OneBundle DEF TypeOK
  <2>4. ASSUME EvictDelete \/ Tick
        PROVE  Store!Next
    <3>1. ASSUME NEW t \in Shas
          PROVE  Visible(t)' \subseteq Visible(t)
      <4>1. CASE EvictDelete
        <5>1. CASE t \in doomed
          BY <4>1, <5>1 DEF EvictDelete, Without, Visible, Hit
        <5>2. CASE t \notin doomed
          <6>1. entries'[t] = entries[t] /\ Collect
            BY <4>1, <5>2 DEF EvictDelete, Without
          <6>2. \A r \in Refs : entries[t] = r => ~ Free(r)'
            BY <6>1 DEF Free
          <6>3. \A r \in Refs : entries[t] = r => results'[r] = results[r] /\ age'[r] = age[r]
            BY <6>1, <6>2 DEF Collect
          <6>4. QED
            BY <6>1, <6>3, <1>a, VisibleKept
        <5>3. QED
          BY <5>1, <5>2
      <4>2. CASE Tick
        <5>1. UNCHANGED <<entries, results>>
          BY <4>2 DEF Tick
        <5>2. \A r \in Refs : age[r] \in Nat /\ age'[r] \in {age[r], age[r] + 1}
          BY <4>2, <1>a, ConstantsAssumption DEF Tick, TypeOK
        <5>3. Hit(t)' => Hit(t)
          <6>1. SUFFICES ASSUME entries[t] # NoRef, age'[entries[t]] <= TTL
                         PROVE  age[entries[t]] <= TTL
            BY <5>1 DEF Hit, Fresh
          <6>2. entries[t] \in Refs
            BY <6>1, <1>a DEF TypeOK
          <6>3. QED
            BY <6>1, <6>2, <5>2, ConstantsAssumption
        <5>4. QED
          BY <5>1, <5>3 DEF Visible
      <4>3. QED
        BY <2>4, <4>1, <4>2
    <3>2. \A t \in Shas : Visible(t)' \in SUBSET Phases
      BY <1>b DEF SeenAreProduced
    <3>3. Store!Hide
      BY <2>0, <3>1, <3>2 DEF Store!Hide
    <3>4. QED
      BY <3>3 DEF Store!Next
  <2>5. QED
    <3>1. ASSUME NEW w \in Workers, WorkerStep(w), ~ Mutate(w), ~ Install(w)
          PROVE  UNCHANGED <<entries, results, age>>
      BY <3>1, <1>2 DEF WorkerStep, Obtains, LookupHit, LookupMiss, Overloaded, RunFails,
                        RunReturnsNothing, LoadNothing, FetchShared, FetchNew
    <3>2. ASSUME NEW w \in Workers, NEW k \in Started, NEW s \in Shas, NEW p \in Phases,
                 Start(w, k, s, p)
          PROVE  UNCHANGED <<entries, results, age>>
      BY <3>2 DEF Start
    <3>3. EvictCollect => UNCHANGED <<entries, results, age>>
      BY DEF EvictCollect
    <3>4. QED
      BY <2>1, <2>2, <2>3, <2>4, <3>1, <3>2, <3>3 DEF HNext, Next
<1>3. QED
  BY <1>1, <1>2

\* The cache implements the abstract store: whatever goroutines, sweeper and clock do,
\* and although no lock is held from the look-up of an entry to its store, a reader only
\* ever sees phases that an analysis of the bundle returned.
THEOREM CacheImplementsStore == HSpec => ImplementsStore
<1>1. HSpec => Spec
  <2>1. HInit => Init
    BY DEF HInit
  <2>2. [HNext]_<<vars, produced>> => [Next]_vars
    BY DEF HNext
  <2>3. QED
    BY <2>1, <2>2, PTL DEF HSpec, Spec
<1>2. HInit => PInv
  BY DEF HInit, Init, PInv, ObtainedIsProduced, Storing, HeldIsProduced, Blank
<1>3. HInit => Store!Init
  BY ConstantsAssumption DEF HInit, Init, Store!Init, Visible, Hit
<1>4. QED
  BY <1>1, <1>2, <1>3, Separation, ProducedStep, StoreStep, PTL
     DEF HSpec, ImplementsStore, Store!Spec
=============================================================================
