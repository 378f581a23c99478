---------------------------- MODULE AggregateLogs ----------------------------
(* One aggregated log stream: run_aggregated_log_stream of                  *)
(* commands/streams/aggregate_logs.rs, with a task for every container of   *)
(* the pods that a Deployment or Service selects.                           *)
(*                                                                          *)
(* A source is a container of a pod; sources are numbers, in the order of    *)
(* their names.  A log is the number of lines that the container's current   *)
(* run has written.  An aborted task is gone before the next pass of the     *)
(* loop, which is at least a second later; since_seconds, which can only cut *)
(* a tail shorter, is left out.                                              *)
EXTENDS Naturals, FiniteSets

CONSTANTS
    Sources,        \* containers that the selector may match
    Targets,        \* what the stream may be asked for
    MaxSources,     \* MAX_AGGREGATED_LOG_SOURCES
    TailLines,           \* tail_lines: how much of a log is replayed
    MaxLines,       \* bound on the lines of a log
    MaxPodChanges   \* bound on the changes of the pods

ASSUME SourcesAssumption == Sources \subseteq Nat
ASSUME AggregateNumbersAssumption ==
    MaxSources \in Nat /\ TailLines \in Nat /\ MaxLines \in Nat /\ MaxPodChanges \in Nat

VARIABLES
    pods,         \* source -> what the cluster has: see PodStates
    log,          \* source -> lines the container has written in this run
    podChanges,   \* pod events so far
    target,       \* what the stream was asked for
    step,         \* where the loop is
    listed,       \* the sources of the last list, cut to MaxSources
    sourceTasks,      \* source -> its task, if the loop has a handle for it
    attached,     \* sources spawned in the current target set
    shown         \* history: source -> last line shown since it was attached

cluster == <<pods, log, podChanges>>
aggregateVars == <<pods, log, podChanges, target, step, listed, sourceTasks, attached, shown>>

\* "leaving" has a deletion timestamp; "waiting" has not started its container.
PodPhases == {"unmatched", "waiting", "running", "exited", "leaving"}
NoTask == [at |-> "none", tail |-> 0, line |-> 0]

AggregateInit ==
    /\ pods \in [Sources -> {"unmatched", "running"}]
    /\ log = [s \in Sources |-> 0]
    /\ podChanges = 0
    /\ target \in Targets
    /\ step = "resolve"
    /\ listed = {}
    /\ sourceTasks = [s \in Sources |-> NoTask]
    /\ attached = {}
    /\ shown = [s \in Sources |-> 0]

-----------------------------------------------------------------------------
(* The pods, as the API server and the kubelet show them.                   *)

PodChange(s, from, to) ==
    /\ pods[s] \in from /\ podChanges < MaxPodChanges
    /\ pods' = [pods EXCEPT ![s] = to]
    /\ podChanges' = podChanges + 1
    /\ UNCHANGED <<target, step, listed, sourceTasks, attached>>

\* A pod is created, or the label that the selector wants is set again.
NewPod(s) == /\ PodChange(s, {"unmatched"}, "waiting")
             /\ log' = [log EXCEPT ![s] = 0] /\ shown' = [shown EXCEPT ![s] = 0]
Relabel(s) == \/ PodChange(s, {"unmatched"}, "running") /\ UNCHANGED <<log, shown>>
              \/ PodChange(s, {"running"}, "unmatched") /\ UNCHANGED <<log, shown>>
Terminate(s) == PodChange(s, {"waiting", "running", "exited"}, "leaving")
                /\ UNCHANGED <<log, shown>>
ContainerExit(s) == PodChange(s, {"running"}, "exited") /\ UNCHANGED <<log, shown>>
\* A restarted container has a new log; the streams of the old one have ended.
ContainerStart(s) == /\ sourceTasks[s].at # "following"
                     /\ PodChange(s, {"waiting", "exited"}, "running")
                     /\ log' = [log EXCEPT ![s] = 0] /\ shown' = [shown EXCEPT ![s] = 0]

Write(s) ==
    /\ pods[s] \in {"running", "unmatched"} /\ log[s] < MaxLines
    /\ log' = [log EXCEPT ![s] = @ + 1]
    /\ UNCHANGED <<pods, podChanges, target, step, listed, sourceTasks, attached, shown>>

-----------------------------------------------------------------------------
(* resolve_target_selector: the selector of the target, or an error.        *)

\* selector_from_label_selector: an In or NotIn needs values; Equals stands for
\* an entry of match_labels.
Expressible(r) ==
    \/ r.operator \in {"Equals", "Exists", "DoesNotExist"}
    \/ r.operator \in {"In", "NotIn"} /\ r.values # {}

Selectable(t) ==
    /\ t.spec /\ t.selector # {}
    /\ \/ t.kind = "Deployment" /\ \A r \in t.selector : Expressible(r)
       \/ t.kind = "Service" /\ ~t.external

\* A target without a selector ends the stream: its selector would match every pod.
Resolve ==
    /\ step = "resolve"
    /\ step' \in IF Selectable(target) THEN {"list", "stopped"} ELSE {"stopped"}
    /\ UNCHANGED <<cluster, target, listed, sourceTasks, attached, shown>>

\* log_sources_from_pods: sorted, then truncated.
LogSources(S) == {s \in S : Cardinality({t \in S : t < s}) < MaxSources}

\* A list that fails is tried again after 2 s.
ListPods ==
    /\ step = "list"
    /\ listed' = LogSources({s \in Sources : pods[s] \in {"waiting", "running", "exited"}})
    /\ step' = "reconcile"
    /\ UNCHANGED <<cluster, target, sourceTasks, attached, shown>>

\* Mutant: a source whose task has finished counts as one that has a task.
Stays_finished(s) == sourceTasks[s].at # "none" /\ s \in listed

Stays(s) == sourceTasks[s].at \in {"opening", "following"} /\ s \in listed

\* Mutant: every task begins with the last lines of the log.
Respawned_with_tail(s) == [at |-> "opening", tail |-> TailLines, line |-> 0]

Respawned(s) == [at |-> "opening", tail |-> IF s \in attached THEN 0 ELSE TailLines, line |-> 0]

\* reconcile_sources: handles of sources that have gone are aborted, finished
\* ones are replaced, and a source keeps its mark while it is in the target set.
Reconcile ==
    /\ step = "reconcile"
    /\ sourceTasks' = [s \in Sources |-> IF Stays(s) THEN sourceTasks[s]
                                     ELSE IF s \in listed THEN Respawned(s) ELSE NoTask]
    /\ attached' = listed
    /\ shown' = [s \in Sources |-> IF s \in attached \cap listed THEN shown[s] ELSE 0]
    /\ step' = "watch"
    /\ UNCHANGED <<cluster, target, listed>>

\* The watch ends: after 30 s, with an error, or with the first event of a pod;
\* the pods are listed again a second later.
WatchEnds ==
    /\ step = "watch"
    /\ step' = "list"
    /\ UNCHANGED <<cluster, target, listed, sourceTasks, attached, shown>>

\* The view stops the stream, or its channel is gone when a status is sent:
\* dropping SourceStreams aborts every source.
AbortAll == sourceTasks' = [s \in Sources |-> NoTask]
StopStream ==
    /\ step # "stopped"
    /\ step' = "stopped"
    /\ AbortAll
    /\ UNCHANGED <<cluster, target, listed, attached, shown>>

-----------------------------------------------------------------------------
(* stream_log_source                                                        *)

Later(a, b) == IF a < b THEN 0 ELSE a - b
\* A replacement of the handle that keeps it in the map, as a finished task.
Finished(s) == sourceTasks' = [sourceTasks EXCEPT ![s].at = "finished"]

OpenLog(s) ==
    /\ sourceTasks[s].at = "opening"
    /\ pods[s] \in {"running", "exited", "unmatched"}
    /\ sourceTasks' = [sourceTasks EXCEPT ![s].at = "following",
                                  ![s].line = Later(log[s], sourceTasks[s].tail)]
    /\ UNCHANGED <<cluster, target, step, listed, attached, shown>>

\* The container has not started, or the request fails.
OpenFails(s) ==
    /\ sourceTasks[s].at = "opening"
    /\ Finished(s)
    /\ UNCHANGED <<cluster, target, step, listed, attached, shown>>

ShowLine(s) ==
    /\ sourceTasks[s].at = "following" /\ sourceTasks[s].line < log[s]
    /\ sourceTasks' = [sourceTasks EXCEPT ![s].line = @ + 1]
    /\ shown' = [shown EXCEPT ![s] = sourceTasks[s].line + 1]
    /\ UNCHANGED <<cluster, target, step, listed, attached>>

\* The container has exited and all of its log has been read, or the read fails,
\* or the view is gone when a line is sent.
LogEnds(s) ==
    /\ sourceTasks[s].at = "following"
    /\ Finished(s)
    /\ UNCHANGED <<cluster, target, step, listed, attached, shown>>

-----------------------------------------------------------------------------
LogLoop == Resolve \/ ListPods \/ Reconcile \/ WatchEnds \/ StopStream
SourceTask(s) == OpenLog(s) \/ OpenFails(s) \/ ShowLine(s) \/ LogEnds(s)
PodStep(s) ==
    NewPod(s) \/ Relabel(s) \/ Terminate(s) \/ ContainerExit(s) \/ ContainerStart(s) \/ Write(s)

AggregateNext == LogLoop \/ \E s \in Sources : SourceTask(s) \/ PodStep(s)

\* Awaits end, a list that fails is tried again until it succeeds, and opening the
\* log of a container that runs succeeds again and again.
AggregateFairness ==
    /\ WF_aggregateVars(Reconcile) /\ WF_aggregateVars(WatchEnds)
    /\ WF_aggregateVars(ListPods)
    /\ \A s \in Sources : SF_aggregateVars(OpenLog(s))

AggregateSpec == AggregateInit /\ [][AggregateNext]_aggregateVars /\ AggregateFairness

-----------------------------------------------------------------------------
(* Properties.                                                              *)

AggregateTypeOK ==
    /\ pods \in [Sources -> PodPhases]
    /\ log \in [Sources -> 0..MaxLines] /\ shown \in [Sources -> 0..MaxLines]
    /\ podChanges \in 0..MaxPodChanges
    /\ step \in {"resolve", "list", "reconcile", "watch", "stopped"}
    /\ target \in Targets
    /\ listed \subseteq Sources /\ attached \subseteq Sources
    /\ sourceTasks \in [Sources -> [at : {"none", "opening", "following", "finished"},
                                tail : {0, TailLines}, line : 0..MaxLines]]

\* No line is shown twice while its source stays in the target set, however often
\* its stream breaks and is opened again; no more than MaxSources are followed,
\* none once the stream has stopped, and never the pods of an empty selector.
LinesAreShownOnce ==
    /\ AggregateTypeOK
    /\ \A s \in attached : sourceTasks[s].at = "following" => sourceTasks[s].line >= shown[s]
    /\ Cardinality({s \in Sources : sourceTasks[s].at # "none"}) <= MaxSources
    /\ step \in {"resolve", "stopped"} => \A s \in Sources : sourceTasks[s].at = "none"
    /\ step \notin {"resolve", "stopped"} => target.selector # {}

Wanted(s) ==
    s \in LogSources({t \in Sources : pods[t] \in {"waiting", "running", "exited"}})
    /\ pods[s] = "running"

\* A container that stays among the first MaxSources running ones is followed,
\* again and again: no break of its stream or of the watch loses it for good.
WantedSourcesAreFollowed ==
    \A s \in Sources :
        <>[](Wanted(s) /\ step \notin {"resolve", "stopped"}) => []<>(sourceTasks[s].at = "following")
=============================================================================
