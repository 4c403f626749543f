----------------------------- MODULE MCDashboards -----------------------------
(* Finite instances of Dashboards for TLC. *)
EXTENDS Dashboards, TLC

CONSTANTS s1, s2, o1, o2, c1, c2

\* The first customer has two demo bundles, the newer one first, and a namesake.
MCEntries == <<[id |-> s1, org |-> o1, customer |-> c1, at |-> 2,
                triage |-> [score |-> 90, health |-> "critical"]],
               [id |-> s2, org |-> o1, customer |-> c1, at |-> 1,
                triage |-> [score |-> 50, health |-> ""]]>>
MCSlug == [c \in {c1, c2} |-> "slug"]
MCTriages == {[score |-> 90, health |-> "critical"], [score |-> 50, health |-> ""]}

Symmetry == Permutations(Clicks)
===============================================================================
