---------------------------- MODULE MCBundleIntake ----------------------------
(* Finite instances of BundleIntake for TLC. *)
EXTENDS BundleIntake, TLC

CONSTANTS d, f, g

\* A directory, a file in it, and a file at the top.
MCParent == (d :> Top) @@ (f :> d) @@ (g :> Top)

Symmetry == Permutations(Keys)
===============================================================================
