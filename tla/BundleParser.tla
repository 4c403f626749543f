----------------------------- MODULE BundleParser -----------------------------
(***************************************************************************)
(* Parse (internal/bundle/parser.go) of an extracted bundle: the pods of   *)
(* every namespace directory, then its events (events.go), which are       *)
(* filtered, collapsed one by one and sorted, then the logs of unhealthy   *)
(* pods (logs.go), of each of which module LogExcerpt keeps some lines.    *)
(* What is said of a pod, and which pods are unhealthy, is in PodSummary.  *)
(* The upload's context may be cancelled at any time, and each of the      *)
(* three loops looks at it in its own way.  What is in a file is chosen    *)
(* when the file is read; cluster version, nodes and Helm releases are     *)
(* read without a look at the context and left out.  Where in the          *)
(* directory the files are is in BundleRoot.                               *)
(***************************************************************************)
EXTENDS BundleExtract, BundleRoot, LogExcerpt, PodSummary, Filtering

CONSTANTS Directories,   \* entries of cluster-resources/
          MaxPods,       \* pods in a pods.json
          MaxFiles,      \* log files of a pod
          MaxContainers, \* maxContainersForLogs
          Keys,          \* (namespace, involved object, reason) of events
          Times,         \* timestamps; 0 is the zero time of an unreadable one
          Counts,        \* counts of single events
          MinCount,      \* events other than warnings need a count above this
          MaxEvents      \* events in a bundle

ASSUME ParserAssumption == /\ {Directories, MaxPods, MaxFiles, MaxContainers} \subseteq Nat
                           /\ Times \subseteq Nat /\ Counts \subseteq Nat
                           /\ MinCount \in Nat /\ MaxEvents \in Nat

VARIABLES
    stage,     \* which of Parse's calls is running
    next,      \* index of the directory, event or pod its loop takes next
    pods,      \* PodSummaries
    all,       \* events read, then filtered
    result,    \* result of deduplicateEvents so far, then data.Events
    excerpts,  \* number of LogExcerpts
    notes,     \* ParseErrors that tell of a cancelled context
    missed     \* whether a loop stopped before its end (history)

parseVars == <<stage, next, pods, all, result, excerpts, notes, missed>>

Stages == {"start", "pods", "events", "collapse", "logs", "done", "failed"}
Pods == [unhealthy : BOOLEAN, logs : 0..MaxFiles]
Events == [key : Keys, time : Times, count : Counts, type : {"Warning", "Normal"}]

ParseInit ==
        /\ stage = "start"
        /\ next = 1
        /\ pods = <<>>
        /\ all = <<>>
        /\ result = <<>>
        /\ excerpts = 0
        /\ notes = {}
        /\ missed = FALSE

GoOn(s) == stage' = s /\ next' = 1

\* Parse returns an error only when it is called too late.
Start == /\ stage = "start"
         /\ GoOn(IF cancelled THEN "failed" ELSE "pods")
         /\ UNCHANGED <<pods, all, result, excerpts, notes, missed>>

-----------------------------------------------------------------------------
(* parsePods. *)

\* The pods.json of the next directory, which may be missing or unreadable.
ReadPods(file) ==
    /\ stage = "pods" /\ next <= Directories /\ ~cancelled
    /\ pods' = pods \o file
    /\ next' = next + 1
    /\ UNCHANGED <<stage, all, result, excerpts, notes, missed>>

\* A cancelled context ends the loop without an error or a note.
PodsEnd ==
    /\ stage = "pods" /\ (next > Directories \/ cancelled)
    /\ missed' = (missed \/ next <= Directories)
    /\ GoOn("events")
    /\ UNCHANGED <<pods, all, result, excerpts, notes>>

-----------------------------------------------------------------------------
(* parseEvents. *)

\* The events.json of the next directory, which may be missing or unreadable.
ReadEvents(file) ==
    /\ stage = "events" /\ next <= Directories /\ ~cancelled
    /\ all' = all \o file
    /\ next' = next + 1
    /\ UNCHANGED <<stage, pods, result, excerpts, notes, missed>>

\* Mutant: the loop ends as that of parsePods does.
EventsInterrupted_Silent ==
    /\ stage = "events" /\ next <= Directories /\ cancelled
    /\ all' = <<>>
    /\ missed' = TRUE
    /\ GoOn("logs")
    /\ UNCHANGED <<pods, result, excerpts, notes>>

\* A cancelled context loses the events read so far, and Parse notes the error.
EventsInterrupted ==
    /\ stage = "events" /\ next <= Directories /\ cancelled
    /\ all' = <<>>
    /\ notes' = notes \cup {"events"}
    /\ missed' = TRUE
    /\ GoOn("logs")
    /\ UNCHANGED <<pods, result, excerpts>>

Kept(e) == e.type = "Warning" \/ e.count > MinCount

\* The filter.
Filter ==
    /\ stage = "events" /\ next > Directories
    /\ all' = Filtered(all, {e \in Events : Kept(e)})
    /\ GoOn("collapse")
    /\ UNCHANGED <<pods, result, excerpts, notes, missed>>

\* result[i] after event e of its key: the counts add up and the later one stays,
\* the earlier in the files when they are as late as each other.
Merge_LosesCount(old, e) == IF e.time > old.time THEN e ELSE [old EXCEPT !.count = @ + e.count] \* mutant
Merge_Minus(old, e) == [old EXCEPT !.count = @ - e.count]                                  \* mutant
Merge(old, e) == LET kept == IF e.time > old.time THEN e ELSE old
                 IN  [kept EXCEPT !.count = old.count + e.count]

\* One turn of the loop of deduplicateEvents.
Collapse ==
    /\ stage = "collapse" /\ next <= Len(all)
    /\ LET e == all[next]
           same == {i \in DOMAIN result : result[i].key = e.key}
       IN  result' = IF same = {} THEN Append(result, e)
                     ELSE [i \in DOMAIN result |-> IF i \in same THEN Merge(result[i], e)
                                                   ELSE result[i]]
    /\ next' = next + 1
    /\ UNCHANGED <<stage, pods, all, excerpts, notes, missed>>

Sorted(s) == \A i, j \in DOMAIN s : i < j => s[i].time <= s[j].time

\* sort.Slice by timestamp, which is not stable.
Sort ==
    /\ stage = "collapse" /\ next > Len(all)
    /\ \E f \in Bijection(DOMAIN result, DOMAIN result) :
          /\ Sorted([i \in DOMAIN result |-> result[f[i]]])
          /\ result' = [i \in DOMAIN result |-> result[f[i]]]
    /\ GoOn("logs")
    /\ UNCHANGED <<pods, all, excerpts, notes, missed>>

-----------------------------------------------------------------------------
(* extractLogs. *)

\* The loop is over when there are enough excerpts, ...
LogsPending == stage = "logs" /\ next <= Len(pods) /\ excerpts < MaxContainers

\* Excerpts after the logs of a pod.
Excerpts_Unbounded(pod) == excerpts + (IF pod.unhealthy THEN pod.logs ELSE 0)  \* mutant
Excerpts(pod) == IF pod.unhealthy THEN Least(excerpts + pod.logs, MaxContainers) ELSE excerpts

\* ... until then it takes the logs of the next pod, if the pod is unhealthy.
ReadLogs ==
    /\ LogsPending /\ ~cancelled
    /\ excerpts' = Excerpts(pods[next])
    /\ next' = next + 1
    /\ UNCHANGED <<stage, pods, all, result, notes, missed>>

\* A cancelled context, seen before a pod or one of its files, keeps the excerpts
\* of the pods before, and Parse notes the error.
LogsInterrupted ==
    /\ LogsPending /\ cancelled
    /\ notes' = notes \cup {"logs"}
    /\ missed' = TRUE
    /\ GoOn("done")
    /\ UNCHANGED <<pods, all, result, excerpts>>

LogsEnd ==
    /\ stage = "logs" /\ ~LogsPending
    /\ GoOn("done")
    /\ UNCHANGED <<pods, all, result, excerpts, notes, missed>>

-----------------------------------------------------------------------------
ParseNext ==
        \/ Start
        \/ (\E file \in BoundedSeq(Pods, MaxPods) : ReadPods(file)) \/ PodsEnd
        \/ \E file \in BoundedSeq(Events, MaxEvents - Len(all)) : ReadEvents(file)
        \/ EventsInterrupted \/ Filter \/ Collapse \/ Sort
        \/ ReadLogs \/ LogsInterrupted \/ LogsEnd
-----------------------------------------------------------------------------
(* Properties. *)

ParseTypeOK ==
          /\ stage \in Stages
          /\ next \in 1..(Directories + MaxEvents + Directories * MaxPods + 1)
          /\ pods \in Seq(Pods) /\ Len(pods) <= Directories * MaxPods
          /\ all \in Seq(Events) /\ Len(all) <= MaxEvents
          /\ result \in Seq([key : Keys, time : Times, count : Nat, type : {"Warning", "Normal"}])
          /\ excerpts \in 0..MaxContainers
          /\ notes \in SUBSET {"events", "logs"}
          /\ missed \in BOOLEAN

\* Data of a cancelled upload that lacks something says so: what parsePods leaves
\* out in silence is noted by the loops after it, and nothing is noted of a
\* bundle that was read to its end.
IncompleteIsNoted == stage = "done" => (missed <=> notes # {})

\* Reference: what the events of one key before index n of all amount to.
OfKey(k, n) == {i \in 1..(n - 1) : all[i].key = k}
Latest(is) == CHOOSE i \in is :
                 \A j \in is : all[j].time < all[i].time \/ (all[j].time = all[i].time /\ i <= j)
Total(is) == MapThenSumSet(LAMBDA i : all[i].count, is)
Reference(n) ==
    {[all[Latest(OfKey(k, n))] EXCEPT !.count = Total(OfKey(k, n))] :
        k \in {all[i].key : i \in 1..(n - 1)}}

\* At every turn of the loop, and ever after, there is one event of each key
\* seen: the first of its latest ones, with the counts of all of them.  The loop
\* reaches this by in-place updates in which the later event replaces the other
\* and the sum has to be saved and put back.
MatchesReference ==
    stage \in {"collapse", "logs", "done"} =>
        LET seen == Reference(IF stage = "collapse" THEN next ELSE Len(all) + 1)
        IN  Range(result) = seen /\ Len(result) = Cardinality(seen)

\* A bundle read to its end has the logs of its first unhealthy pods, up to the
\* limit and not one fewer, whichever of the nested loops meets the limit.
LogsUpToLimit ==
    stage = "done" /\ notes = {} =>
        LET files == {file \in (DOMAIN pods) \X (1..MaxFiles) :
                         pods[file[1]].unhealthy /\ file[2] <= pods[file[1]].logs}
        IN  excerpts = Least(Cardinality(files), MaxContainers)

\* Every log gets a sound excerpt; logs do not depend on the rest of a bundle, so
\* the initial state stands for all.
ExcerptsKeepWhatMatters == place = "make" => \A log \in Logs : ExcerptKeepsWhatMatters(log)

\* Every pod's summary tells its trouble; summaries do not depend on the rest of a
\* bundle either.
PodsTellTheirTrouble == place = "make" => \A pod \in PodStatuses : PodTellsItsTrouble(pod)

\* The root of every bundle is found, wherever its archive has it.
RootsAreFound == place = "make" => \A marked \in Archives : RootIsFound(marked)
=============================================================================
