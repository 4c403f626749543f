----------------------------- MODULE ChatContext -----------------------------
(***************************************************************************)
(* What a chat turn tells Claude of the bundle: the system prompt          *)
(* (internal/analysis/prompts.go) and the context put before the question  *)
(* (internal/analysis/context.go); and the questions the chat panel        *)
(* suggests (internal/server/handlers.go).  Whether one of the question's  *)
(* keywords is in a text is a flag of the text.  Each text is cut after    *)
(* 2000 characters: how many of its lines these hold whole depends on how  *)
(* long the lines are, and is a number of the data.                        *)
(***************************************************************************)
EXTENDS Integers, Sequences, FiniteSets, SequencesExt, Filtering

CONSTANTS MaxMatches,   \* matches in the context
          MaxFallback,  \* pods in the context when nothing matches
          MaxIssues,    \* pods in the system prompt
          MaxWarnings,  \* events in the system prompt
          LongestList   \* bound: pods, events, and lines of a log

ASSUME ContextAssumption == /\ {MaxMatches, MaxFallback} \subseteq Nat \ {0}
                            /\ {MaxIssues, MaxWarnings, LongestList} \subseteq Nat

\* issue: the pod has a reason or restarts; promptHolds and contextHolds: how many
\* lines of the text 2000 characters hold.  Of the context they hold one at least,
\* since names are short and the message in a line is cut.
Bundles4Chat == [pods : BoundedSeq([matches : BOOLEAN, issue : BOOLEAN], LongestList),
                 events : BoundedSeq([matches : BOOLEAN, warning : BOOLEAN], LongestList),
                 logMatches : BOOLEAN,
                 log : BoundedSeq([matches : BOOLEAN], LongestList),
                 promptHolds : 0..(MaxIssues + MaxWarnings),
                 contextHolds : 1..(MaxMatches + MaxFallback)]

\* The items of a list that pass, in order; an item is named by its kind and place.
Items(kind, passes) ==
    LET places == Places(passes, {i \in DOMAIN passes : passes[i]})
    IN  [i \in DOMAIN places |-> <<kind, places[i]>>]
Upto(n, s) == SubSeq(s, 1, IF Len(s) < n THEN Len(s) ELSE n)

\* buildChatBundleContext.
Issues(data) == Items("pod", [i \in DOMAIN data.pods |-> data.pods[i].issue])
Warnings(data) == Items("event", [i \in DOMAIN data.events |-> data.events[i].warning])
SystemPrompt(data) ==
    Upto(data.promptHolds, Upto(MaxIssues, Issues(data)) \o Upto(MaxWarnings, Warnings(data)))

\* Pods, then warnings, then lines of logs whose pod matches.
Matches(data) == Items("pod", [i \in DOMAIN data.pods |-> data.pods[i].matches])
                 \o Items("event", [i \in DOMAIN data.events |-> data.events[i].warning /\ data.events[i].matches])
                 \o IF data.logMatches THEN Items("log", [i \in DOMAIN data.log |-> data.log[i].matches]) ELSE <<>>

Fallback(data) == Upto(MaxFallback, Items("pod", [i \in DOMAIN data.pods |-> TRUE]))

FindRelevantContext_NoFallback(data, keywords) ==   \* mutant: only for a question without keywords
    Upto(data.contextHolds, IF ~keywords THEN Fallback(data) ELSE Upto(MaxMatches, Matches(data)))
FindRelevantContext(data, keywords) ==
    Upto(data.contextHolds, IF ~keywords \/ Matches(data) = <<>> THEN Fallback(data)
                            ELSE Upto(MaxMatches, Matches(data)))

-----------------------------------------------------------------------------
(* generateSuggestedQuestions; an issue is known when its category has a question. *)

Anchors == <<"first", "kubectl">>
Contextual(issues) == Upto(2, Filtered(issues, {"known"}))
SuggestedQuestions(issues) == Upto(4, Contextual(issues) \o Anchors)

-----------------------------------------------------------------------------
\* A turn about a bundle with pods says something of it.  With a question that
\* matches something, it tells what matches and nothing else, up to five matches or
\* what 2000 characters hold.  Between them the two texts leave out a warning that
\* matches only when the context is full, with nothing in it that comes after the
\* warning, and the system prompt has its number of warnings or is cut.  They leave
\* out a pod with an issue only when the system prompt has its number of pods, or is
\* cut before the first warning: a cut takes the warnings first.
TurnIsGrounded(data, keywords) ==
    LET context == FindRelevantContext(data, keywords)
        prompt == SystemPrompt(data)
        told == Range(context \o prompt)
        matching == Range(Matches(data))
        full == Len(context) \in {MaxMatches, data.contextHolds}
        cut == Len(prompt) = data.promptHolds
    IN  /\ data.pods # <<>> => context # <<>>
        /\ keywords /\ matching # {} =>
              /\ Range(context) \subseteq matching
              /\ full \/ Range(context) = matching
              /\ \A w \in Range(Warnings(data)) \ told : w \in matching =>
                    /\ full /\ \A x \in Range(context) : x[1] # "log"
                    /\ Len(Warnings(data)) > MaxWarnings \/ cut
        /\ \A p \in Range(Issues(data)) \ told :
              \/ Len(Issues(data)) > MaxIssues
              \/ cut /\ Range(prompt) \cap Range(Warnings(data)) = {}

\* However many issues there are, the two questions about remediation are suggested.
AnchorsAreSuggested(issues) ==
    LET questions == SuggestedQuestions(issues)
    IN  \E contextual \in BoundedSeq({"known"}, 2) : questions = contextual \o Anchors
=============================================================================
