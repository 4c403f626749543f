------------------------------ MODULE Filtering ------------------------------
(***************************************************************************)
(* Loops that keep some of the elements of a list.                         *)
(***************************************************************************)
EXTENDS Integers, Sequences, SequencesExt

\* SelectSeq for a set of elements, by a fold, which a proof can unfold.
Filtered(s, keep) == FoldLeft(LAMBDA kept, x : IF x \in keep THEN Append(kept, x) ELSE kept, <<>>, s)

\* The indices of s that are in a set, in order.
Places(s, in) == Filtered([i \in DOMAIN s |-> i], in)

\* Every element of s once, where it comes first.
Distinct(s) == LET first == Places(s, {i \in DOMAIN s : \A j \in 1..(i - 1) : s[j] # s[i]})
               IN  [k \in DOMAIN first |-> s[first[k]]]
=============================================================================
