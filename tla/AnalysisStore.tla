---------------------------- MODULE AnalysisStore ----------------------------
(***************************************************************************)
(* What the analysis cache promises, whatever happens inside it: of every  *)
(* bundle (by SHA256) some phases have been produced by an analysis of     *)
(* that bundle, and the phases a reader can see are among those.  A        *)
(* publication makes the published phase visible; it may hide others,      *)
(* because a writer replaces the whole entry of the bundle.  Visibility    *)
(* may be lost at any time, by expiry, eviction or replacement.            *)
(***************************************************************************)
CONSTANTS Shas, Phases

VARIABLES produced,   \* [Shas -> SUBSET Phases]: phases some analysis of the bundle returned
          visible     \* [Shas -> SUBSET Phases]: phases a cache lookup would now return

vars == <<produced, visible>>

Init == /\ produced = [s \in Shas |-> {}]
        /\ visible = [s \in Shas |-> {}]

\* An analysis of bundle s returns its result for phase p.
Produce(s, p) ==
    /\ produced' = [produced EXCEPT ![s] = @ \cup {p}]
    /\ UNCHANGED visible

\* A result of s that was produced becomes visible, with a set of phases of s
\* produced before.
Publish(s, p) ==
    /\ p \in produced[s]
    /\ \E seen \in SUBSET produced[s] :
          /\ p \in seen
          /\ visible' = [visible EXCEPT ![s] = seen]
    /\ UNCHANGED produced

\* Time passes, an entry is evicted, or an entry is replaced by an older one.
Hide ==
    /\ visible' \in [Shas -> SUBSET Phases]
    /\ \A s \in Shas : visible'[s] \subseteq visible[s]
    /\ UNCHANGED produced

Next == \/ \E s \in Shas, p \in Phases : Produce(s, p) \/ Publish(s, p)
        \/ Hide

Spec == Init /\ [][Next]_vars
=============================================================================
