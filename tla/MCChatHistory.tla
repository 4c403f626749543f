---------------------------- MODULE MCChatHistory ----------------------------
(* Finite instances of ChatHistory for TLC. *)
EXTENDS ChatHistory, TLC

Symmetry == Permutations(Objects) \cup Permutations(Requests) \cup Permutations(Messages)
==============================================================================
