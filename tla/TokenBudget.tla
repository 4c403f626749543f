----------------------------- MODULE TokenBudget -----------------------------
(***************************************************************************)
(* EnforceBudget (internal/bundle/budget.go), which trims the data of a    *)
(* bundle in four passes as long as its estimate is over the limit.  No    *)
(* other code of the repository calls it, but its tests; the estimate is   *)
(* in units of a line, a message character, a pod or an event.             *)
(***************************************************************************)
EXTENDS Integers, Sequences, FiniteSets, FiniteSetsExt, SequencesExt

CONSTANTS LineCap,      \* budgetLogLineCap
          MessageCap,   \* budgetEventMsgCap
          Largest,      \* bound: lines of an excerpt, length of a message, pods of a kind
          MaxExcerpts,  \* bound: log excerpts
          MaxMessages,  \* bound: events of a type
          MaxLimit      \* bound: maxTokens

ASSUME BudgetAssumption == {LineCap, MessageCap, Largest, MaxExcerpts, MaxMessages, MaxLimit} \subseteq Nat

\* logs: lines of each excerpt; warnings and normal: length of each event's message.
BudgetData == [logs : BoundedSeq(0..Largest, MaxExcerpts), healthy : 0..Largest, failing : 0..Largest,
               warnings : BoundedSeq(0..Largest, MaxMessages), normal : BoundedSeq(0..Largest, MaxMessages)]

TotalOf(lengths) == MapThenSumSet(LAMBDA i : lengths[i], DOMAIN lengths)
EstimateTokens(data) == TotalOf(data.logs) + data.healthy + data.failing
                        + TotalOf(data.warnings) + Len(data.warnings)
                        + TotalOf(data.normal) + Len(data.normal)

Capped(lengths, cap) == [i \in DOMAIN lengths |-> Min({lengths[i], cap})]

\* The passes, in order.
Pass(n, data) == CASE n = 1 -> [data EXCEPT !.logs = Capped(@, LineCap)]
                   [] n = 2 -> [data EXCEPT !.healthy = 0]
                   [] n = 3 -> [data EXCEPT !.normal = <<>>]
                   [] n = 4 -> [data EXCEPT !.warnings = Capped(@, MessageCap),
                                            !.normal = Capped(@, MessageCap)]

EnforceBudget_NoRecheck(data, limit) ==  \* mutant: the budget is checked once
    IF EstimateTokens(data) <= limit THEN data
    ELSE Pass(4, Pass(3, Pass(2, Pass(1, data))))
EnforceBudget(data, limit) ==
    LET trim(n, d) == IF EstimateTokens(d) <= limit THEN d ELSE Pass(n, d)
    IN  trim(4, trim(3, trim(2, trim(1, data))))

-----------------------------------------------------------------------------
\* The result is within the limit, or nothing is left that a pass could trim; and
\* nothing is lost in vain: what a pass has trimmed would have been over the limit
\* with everything that the passes before it trim gone.  Failing pods and warnings
\* stay.
TrimsNoMoreThanNeeded(data, limit) ==
    LET trimmed == EnforceBudget(data, limit)
        shortLogs == [data EXCEPT !.logs = trimmed.logs]
        noHealthy == [shortLogs EXCEPT !.healthy = 0]
        noNormal == [noHealthy EXCEPT !.normal = <<>>]
    IN  /\ \/ EstimateTokens(trimmed) <= limit
           \/ /\ \A i \in DOMAIN trimmed.logs : trimmed.logs[i] <= LineCap
              /\ trimmed.healthy = 0 /\ trimmed.normal = <<>>
              /\ \A i \in DOMAIN trimmed.warnings : trimmed.warnings[i] <= MessageCap
        /\ trimmed.logs # data.logs => EstimateTokens(data) > limit
        /\ trimmed.healthy # data.healthy => EstimateTokens(shortLogs) > limit
        /\ trimmed.normal # data.normal => EstimateTokens(noHealthy) > limit
        /\ trimmed.warnings # data.warnings => EstimateTokens(noNormal) > limit
        /\ trimmed.failing = data.failing /\ Len(trimmed.warnings) = Len(data.warnings)
=============================================================================
