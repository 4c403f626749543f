------------------------------ MODULE LogExcerpt ------------------------------
(***************************************************************************)
(* readLogExcerpt (internal/bundle/logs.go): which lines of one log file a *)
(* report keeps.                                                           *)
(***************************************************************************)
EXTENDS Integers, Sequences, FiniteSets, SequencesExt, Filtering

CONSTANTS ErrorLines,  \* texts isErrorLine accepts
          PlainLines,  \* other texts
          MaxErrors,   \* maxErrorLines
          MaxTail,     \* maxLastLines
          MaxLines,    \* maxLogLinesPerContainer
          LongestLog   \* lines of the logs the instance looks at

ASSUME ExcerptAssumption == /\ {MaxErrors, MaxTail, MaxLines, LongestLog} \subseteq Nat
                            /\ MaxErrors + MaxTail <= MaxLines

Least(a, b) == IF a <= b THEN a ELSE b
Greatest(a, b) == IF a >= b THEN a ELSE b

Logs == BoundedSeq(ErrorLines \cup PlainLines, LongestLog)

ErrorsOf(log) == Filtered(log, ErrorLines)

\* The first error lines, and the last lines, of a log.
FirstErrors(log) == SubSeq(ErrorsOf(log), 1, Least(MaxErrors, Len(ErrorsOf(log))))
LastLines_OneShort(log) == SubSeq(log, Greatest(2, Len(log) - MaxTail + 2), Len(log))  \* mutant
LastLines(log) == SubSeq(log, Greatest(1, Len(log) - MaxTail + 1), Len(log))

\* Both, each text once, where it comes first.
Merged(log) == Distinct(FirstErrors(log) \o LastLines(log))

Excerpt(log) == [lines |-> SubSeq(Merged(log), 1, Least(MaxLines, Len(Merged(log)))),
                 truncated |-> Len(log) > MaxTail \/ Len(Merged(log)) > MaxLines]

-----------------------------------------------------------------------------
\* An excerpt shows the end of its log, where the crash is, whatever number of
\* errors the limits let in before it; an error left out has as many as allowed
\* before it; an excerpt not marked truncated lacks nothing; no text comes twice.
\* The limits on errors and on the tail add up to that on the excerpt.
ExcerptKeepsWhatMatters(log) ==
    LET shown == ToSet(Excerpt(log).lines)
        last == {log[i] : i \in (Len(log) - MaxTail + 1)..Len(log) \cap DOMAIN log}
        errors(i) == {j \in 1..i : log[j] \in ErrorLines}
    IN  /\ last \subseteq shown
        /\ \A i \in DOMAIN log :
              log[i] \in ErrorLines \ shown => Cardinality(errors(i - 1)) >= MaxErrors
        /\ ~Excerpt(log).truncated => ToSet(log) \subseteq shown
        /\ IsInjective(Excerpt(log).lines)
=============================================================================
