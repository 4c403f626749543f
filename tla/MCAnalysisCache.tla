--------------------------- MODULE MCAnalysisCache ---------------------------
(* Finite instances of AnalysisCache for TLC. *)
EXTENDS AnalysisCache, TLC

\* Keys, goroutines and addresses are interchangeable.
Symmetry == Permutations(Shas) \cup Permutations(Workers) \cup Permutations(Refs)
=============================================================================
