----------------------------- MODULE BundleIntake -----------------------------
(***************************************************************************)
(* What HandleUpload (internal/server/handlers.go) does with an archive:   *)
(* Extract, and Parse of what it returns, under one context that is done   *)
(* when the client goes away, before, between or in the middle of the two. *)
(* The pure functions of the bundle's data are checked with it.            *)
(***************************************************************************)
EXTENDS BundleParser, TokenBudget, ChatContext

vars == <<local, parseVars, cancelled>>

Init == ExtractInit /\ ParseInit /\ cancelled = FALSE

\* The client of the upload goes away.
Cancel == /\ ~cancelled /\ stage \notin {"done", "failed"}
          /\ cancelled' = TRUE
          /\ UNCHANGED <<local, parseVars>>

Extracting == ExtractNext /\ UNCHANGED <<parseVars, cancelled>>
Parsing == place = "returned" /\ ok /\ ParseNext /\ UNCHANGED <<local, cancelled>>

Next == Cancel \/ Extracting \/ Parsing

Spec == Init /\ [][Next]_vars
-----------------------------------------------------------------------------
(* Properties. *)

TypeOK == ExtractTypeOK /\ ParseTypeOK /\ cancelled \in BOOLEAN

\* EnforceBudget trims any data as far as it must and no further.
BudgetIsKept ==
    place = "make" => \A data \in BudgetData, limit \in 0..MaxLimit : TrimsNoMoreThanNeeded(data, limit)

\* Chat turns are about the bundle, whatever is asked, and the chat panel always
\* suggests how to go on.
ChatIsGrounded ==
    place = "make" =>
        /\ \A data \in Bundles4Chat, keywords \in BOOLEAN : TurnIsGrounded(data, keywords)
        /\ \A issues \in BoundedSeq({"known", "other"}, LongestList + 2) : AnchorsAreSuggested(issues)
===============================================================================
