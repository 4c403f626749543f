------------------------- MODULE MCAnalysisCacheStore -------------------------
(* Finite instances of AnalysisCacheStore for TLC. *)
EXTENDS AnalysisCacheStore, TLC

\* Keys, goroutines and addresses are interchangeable.
Symmetry == Permutations(Shas) \cup Permutations(Workers) \cup Permutations(Refs)
=============================================================================
