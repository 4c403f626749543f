--------------------------- MODULE MCSessionStore ---------------------------
(* Finite instances of SessionStore for TLC. *)
EXTENDS SessionStore, TLC

\* Session objects and requests are interchangeable; ids are not, because of
\* the id an idle request is left with.
Symmetry == Permutations(Sessions) \cup Permutations(Requests)
=============================================================================
