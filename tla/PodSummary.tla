------------------------------ MODULE PodSummary ------------------------------
(***************************************************************************)
(* buildPodSummary (internal/bundle/parser.go): what a report says is      *)
(* wrong with a pod, and whether extractLogs (logs.go) reads its logs.     *)
(*                                                                         *)
(* Of a reason only where it was found matters, as a place in the priority *)
(* list of the comment at parser.go:282.  Its message goes with it.        *)
(***************************************************************************)
EXTENDS Integers, Sequences, FiniteSets, SequencesExt

CONSTANT MaxStatuses  \* container statuses of a pod, and init container statuses

ASSUME StatusAssumption == MaxStatuses \in Nat

None == 0
Waiting == 1
Terminated == 2
LastTerminated == 3
InitContainer == 4
Scheduling == 5
PodLevel == 6

\* A k8sContainerStatus: where it has a reason (a state is waiting, terminated
\* or neither), whether what is terminated of it has finished its work, with the
\* reason Completed, and its restarts.
Terminations == {Terminated, LastTerminated}
Containers == {c \in [reasons : SUBSET ({Waiting} \cup Terminations), finished : BOOLEAN, restarts : 0..1] :
                  /\ ~ {Waiting, Terminated} \subseteq c.reasons
                  /\ c.finished => c.reasons \cap Terminations # {}}

\* unscheduled: condition PodScheduled is False; marked: the pod has a reason itself.
PodStatuses == [phase : {"Pending", "Running", "Failed"}, unscheduled : BOOLEAN, marked : BOOLEAN,
                containers : BoundedSeq(Containers, MaxStatuses),
                inits : BoundedSeq(Containers, MaxStatuses)]

LowestOf(places) == IF places = {} THEN None ELSE CHOOSE p \in places : \A other \in places : p <= other

\* extractContainerReason: the current state before the last one.
ContainerReason_LastFirst(c) ==                                                        \* mutant
    IF LastTerminated \in c.reasons THEN LastTerminated ELSE LowestOf(c.reasons)
ContainerReason(c) == LowestOf(c.reasons)

Else(reason, other) == IF reason # None THEN reason ELSE other

\* The first reason in the order of the containers, then of the init containers.
WithReason(cs) == {i \in DOMAIN cs : ContainerReason(cs[i]) # None}
OfContainers(pod) == LET with == WithReason(pod.containers)
                     IN  IF with = {} THEN None ELSE ContainerReason(pod.containers[LowestOf(with)])
OfInits(pod) == IF WithReason(pod.inits) = {} THEN None ELSE InitContainer

OfScheduling(pod) == IF pod.phase = "Pending" /\ pod.unscheduled THEN Scheduling ELSE None
OfPod(pod) == IF pod.marked THEN PodLevel ELSE None

Reason(pod) == Else(OfContainers(pod), Else(OfInits(pod), Else(OfScheduling(pod), OfPod(pod))))

RestartCount(pod) == LET statuses == pod.containers \o pod.inits
                     IN  MapThenSumSet(LAMBDA i : statuses[i].restarts, DOMAIN statuses)

Unhealthy(pod) == RestartCount(pod) # 0 \/ pod.phase = "Failed"

-----------------------------------------------------------------------------
\* Every place where something has failed, or waits with a reason: to have
\* finished is no failure.  An unscheduled pod fails while it is pending.
Failures(c) == IF c.finished THEN c.reasons \ Terminations ELSE c.reasons
Troubles(pod) ==
    (UNION {Failures(c) : c \in ToSet(pod.containers)})
    \cup {InitContainer : c \in {d \in ToSet(pod.inits) : Failures(d) # {}}}
    \cup ({OfScheduling(pod), OfPod(pod)} \ {None})

HasFinished(pod) == \E c \in ToSet(pod.containers) \cup ToSet(pod.inits) : c.finished

\* No trouble of a pod is passed over: a pod with any has a reason.  If none of
\* its containers has finished, a healthy pod has no reason (parser_test.go:123),
\* and with one container the reason is the highest in the comment's list.  With
\* several the list orders the sources of a summary and the reasons of one
\* container, not the reasons of all: an old termination of the first container
\* is shown before the CrashLoopBackOff of the second.  The code takes Completed
\* for a failure (extractContainerReason), so that a healthy pod with a finished
\* init container has the reason Init:Completed, though parser.go:286 lists init
\* container failures: of such a pod only the first claim is made.  A restart of
\* any container, an init container's too, gets the pod's logs read.
PodTellsItsTrouble(pod) ==
    LET reason == Reason(pod)
        troubles == Troubles(pod)
    IN  /\ troubles # {} => reason # None
        /\ ~ HasFinished(pod) =>
              /\ troubles = {} => reason = None
              /\ Len(pod.containers) <= 1 \/ reason > LastTerminated => reason = LowestOf(troubles)
        /\ (\E c \in ToSet(pod.containers \o pod.inits) : c.restarts > 0) => Unhealthy(pod)
=============================================================================
