--------------------------- MODULE MCRCAStream ---------------------------
(* Finite instances of RCAStream for TLC. *)
EXTENDS RCAStream
==========================================================================
