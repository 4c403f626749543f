------------------------- MODULE MCReportPersistence -------------------------
(* Finite instances of ReportPersistence for TLC. *)
EXTENDS ReportPersistence, TLC

Symmetry == Permutations(Ids) \cup Permutations(Requests) \cup Permutations(Refs)
==============================================================================
