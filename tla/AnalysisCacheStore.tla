-------------------------- MODULE AnalysisCacheStore --------------------------
(***************************************************************************)
(* AnalysisCache implements AnalysisStore.  The abstract store remembers   *)
(* which phases an analysis has produced; the cache does not, so a history *)
(* variable records it here, and constrains no step of the cache.          *)
(***************************************************************************)
EXTENDS AnalysisCache

VARIABLE produced   \* [Shas -> SUBSET Phases]

\* Worker w receives a result for its phase: Claude's, or the stored one.  The empty
\* text is none: no reader could tell it from a miss.
Obtains(w) == RunSucceeds(w) \/ LoadSaved(w)

HInit == Init /\ produced = [s \in Shas |-> {}]

HNext == /\ Next
         /\ produced' = [s \in Shas |-> produced[s] \cup
                             {phase[w] : w \in {v \in Workers : job[v] = s /\ Obtains(v)}}]

HSpec == HInit /\ [][HNext]_<<vars, produced>>

Store == INSTANCE AnalysisStore WITH visible <- [s \in Shas |-> Visible(s)]

\* The cache implements the abstract store: a reader only ever sees phases that
\* an analysis of the bundle returned, and what a store makes visible contains
\* the phase it stores, unless the entry expired meanwhile.
ImplementsStore == Store!Spec
=============================================================================
