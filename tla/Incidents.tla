------------------------------- MODULE Incidents -------------------------------
(* The incident cockpit of commands/incidents: the rows of the selected       *)
(* scope, the restarts of their Pods and the warning events, which are read   *)
(* one after the other and side by side while the cluster changes.            *)
EXTENDS Health, Sequences, SequencesExt

CONSTANTS
    IncidentNamespaces,  \* the namespaces of the scope; each has one Pod
    PodStates,           \* what a Pod may look like: status, ready, containers
    MaxWarningEvents,    \* MAX_WARNING_EVENTS_TOTAL
    MaxIncidentChanges   \* bound on changes of the cluster

ASSUME MaxWarningEventsAssumption == MaxWarningEvents \in Nat \ {0}

VARIABLES
    pod,          \* namespace -> its Pod
    warned,       \* namespace -> the times of the warning events about its Pod
    changed,      \* changes so far
    row,          \* namespace -> the row of its Pod, or nothing yet
    restartsRead, \* namespace -> the restart evidence, once it has been read
    eventsRead,   \* namespace -> the times of the events read, or "denied"
    early,        \* history: namespace -> the events there before any read
    incidentStage \* "rows", "evidence", "built" or "failed"

incidentVars == <<pod, warned, changed, row, restartsRead, eventsRead, early, incidentStage>>

\* A row counts restarts only if one of its containers has restarted.
HasRestarts(p) == \E c \in p.containers : c.restarts > 0

\* A Pod that counts restarts has a phase or a condition: both come with the statuses
\* of its containers.
ASSUME IncidentsAssumption ==
    /\ IsFiniteSet(IncidentNamespaces)
    /\ \A p \in PodStates : HasRestarts(p) => p.status # "" \/ p.ready # ""

NoRow == [status |-> "", ready |-> "", containers |-> {}]
NotRead == [state |-> "todo"]
NoRestart == [state |-> "none"]

IncidentsInit ==
    /\ pod \in [IncidentNamespaces -> PodStates]
    /\ warned \in [IncidentNamespaces -> {{}, {1}}]
    /\ changed = 0
    /\ row = [n \in IncidentNamespaces |-> NoRow]
    /\ restartsRead = [n \in IncidentNamespaces |-> NotRead]
    /\ eventsRead = [n \in IncidentNamespaces |-> [at |-> "todo", times |-> {}]]
    /\ early = warned
    /\ incidentStage = "rows"

\* A Pod changes, or an event happens; events expire too.
PodChanges ==
    /\ incidentStage \in {"rows", "evidence"} /\ changed < MaxIncidentChanges
    /\ changed' = changed + 1
    /\ \E n \in IncidentNamespaces :
         \/ \E p \in PodStates \ {pod[n]} : pod' = [pod EXCEPT ![n] = p] /\ UNCHANGED <<warned, early>>
         \/ /\ warned' = [warned EXCEPT ![n] = @ \cup {changed + 2}]
            /\ UNCHANGED <<pod, early>>
         \/ \E t \in warned[n] : /\ warned' = [warned EXCEPT ![n] = @ \ {t}]
                                 /\ early' = [early EXCEPT ![n] = @ \ {t}]
                                 /\ UNCHANGED pod
    /\ UNCHANGED <<row, restartsRead, eventsRead, incidentStage>>

\* resource_scope_from: every list of the scope must succeed.
ReadRow(n) ==
    /\ incidentStage = "rows" /\ row[n] = NoRow
    /\ row' = [row EXCEPT ![n] = pod[n]]
    /\ UNCHANGED <<pod, warned, changed, restartsRead, eventsRead, early, incidentStage>>
RowsRead ==
    /\ incidentStage = "rows" /\ \A n \in IncidentNamespaces : row[n] # NoRow
    /\ incidentStage' = "evidence"
    /\ UNCHANGED <<pod, warned, changed, row, restartsRead, eventsRead, early>>

\* restart_evidence_from_pod, of the containers that have restarted: one that is
\* failing now makes it active, a last termination that failed resolved.
RestartEvidence(p) ==
    LET occurred == {c \in p.containers : c.restarts > 0}
        ended == {c \in occurred : c.endedAt > 0}
        latest == {c \in ended : \A d \in ended : d.endedAt <= c.endedAt}
    IN  IF occurred = {} THEN NoRestart
        ELSE [state |-> IF \E c \in occurred : c.failing THEN "Active"
                        ELSE IF \E c \in latest : c.failed THEN "Resolved" ELSE "Historical"]

\* list_restart_evidence: the Pods of the rows with restarts are read again.
ReadRestarts(n) ==
    /\ incidentStage = "evidence" /\ restartsRead[n] = NotRead
    /\ restartsRead' = [restartsRead EXCEPT ![n] = IF HasRestarts(row[n]) THEN RestartEvidence(pod[n])
                                                  ELSE NoRestart]
    /\ UNCHANGED <<pod, warned, changed, row, eventsRead, early, incidentStage>>

\* list_warning_events: 403 in a namespace costs its events.
ReadEvents(n) ==
    /\ incidentStage = "evidence" /\ eventsRead[n].at = "todo"
    /\ \/ eventsRead' = [eventsRead EXCEPT ![n] = [at |-> "read", times |-> warned[n]]]
       \/ eventsRead' = [eventsRead EXCEPT ![n].at = "denied"]
    /\ UNCHANGED <<pod, warned, changed, row, restartsRead, early, incidentStage>>

\* A list of the scope, the Pods or the events fail in any other way.
CockpitFails ==
    /\ incidentStage \in {"rows", "evidence"}
    /\ incidentStage' = "failed"
    /\ UNCHANGED <<pod, warned, changed, row, restartsRead, eventsRead, early>>

BuildItems ==
    /\ incidentStage = "evidence"
    /\ \A n \in IncidentNamespaces : restartsRead[n] # NotRead /\ eventsRead[n].at # "todo"
    /\ incidentStage' = "built"
    /\ UNCHANGED <<pod, warned, changed, row, restartsRead, eventsRead, early>>

IncidentsNext ==
    \/ \E n \in IncidentNamespaces : ReadRow(n) \/ ReadRestarts(n) \/ ReadEvents(n)
    \/ PodChanges \/ RowsRead \/ CockpitFails \/ BuildItems

IncidentsSpec == IncidentsInit /\ [][IncidentsNext]_incidentVars

-----------------------------------------------------------------------------
(* build_incident_items                                                      *)

Denied == {n \in IncidentNamespaces : eventsRead[n].at = "denied"}
AllEvents == UNION {{<<n, t>> : t \in eventsRead[n].times} : n \in IncidentNamespaces}
\* The newest are kept, of equal ones any.
Kept == CHOOSE kept \in SUBSET AllEvents :
            /\ Cardinality(kept) = Min({Cardinality(AllEvents), MaxWarningEvents})
            /\ \A e \in kept, f \in AllEvents \ kept : f[2] <= e[2]
Capped == Cardinality(Kept) >= MaxWarningEvents
EventsOf(n) == {e \in Kept : e[1] = n}

\* Mutant: a warning event counts as current whatever the row says.
IncidentAssessment_of_events(n) ==
    LET base == ResourceAssessment(row[n].status, row[n].ready)
    IN  EvaluateHealth(base.state # "NotEvaluated", base.complete,
          base.evidence \cup {Evidence("WarningEvent", "NeedsAttention", TRUE) : e \in EventsOf(n)})

\* apply_incident_health_evidence: events count as current only for a row whose
\* own status is a concern, restarts only while they are active.
IncidentAssessment(n) ==
    LET base == ResourceAssessment(row[n].status, row[n].ready)
        restart == restartsRead[n].state
    IN  EvaluateHealth(base.state # "NotEvaluated", base.complete,
          base.evidence
          \cup (IF restart = "none" THEN {}
                ELSE {Evidence("ContainerRestart", IF restart = "Active" THEN "NeedsAttention"
                                                   ELSE "none", restart = "Active")})
          \cup {Evidence("WarningEvent", IF Concern(base) THEN "NeedsAttention" ELSE "none",
                         Concern(base)) : e \in EventsOf(n)})

\* incident_item: the states of the signals, the severity, and the state.
Signals(n) ==
    LET assessment == IncidentAssessment(n)
    IN  (IF StatusSeverity(assessment) = "none" THEN {} ELSE {"Active"})
        \cup ({restartsRead[n].state} \ {"none"})
        \cup (IF EventsOf(n) = {} THEN {}
              ELSE {IF Concern(assessment) THEN "Active" ELSE "Historical"})
Severity(n) ==
    IF StatusSeverity(IncidentAssessment(n)) # "none" THEN StatusSeverity(IncidentAssessment(n))
    ELSE IF EventsOf(n) # {} THEN "Warning"
    ELSE IF restartsRead[n].state # "none" THEN "Restarted" ELSE "none"
ItemState(n) ==
    IF "Active" \in Signals(n) THEN "Active"
    ELSE IF "Resolved" \in Signals(n) THEN "Resolved" ELSE "Historical"

-----------------------------------------------------------------------------
(* Properties.                                                               *)

\* A scope that looks clean is: a Pod that is not an incident had nothing wrong when
\* its row was read, and no warning event about it was there all along -- unless the
\* cockpit says that the events of its namespace were denied or that they were
\* cut off, in which case every event that was kept is at least as new.
CleanMeansClean ==
    incidentStage = "built" =>
      \A n \in IncidentNamespaces : Severity(n) = "none" =>
        /\ ResourceHealthState(row[n].status, row[n].ready) \in {"Healthy", "Unknown"}
        /\ \/ n \in Denied
           \/ early[n] = {}
           \/ Capped /\ \A e \in Kept, t \in early[n] : e[2] >= t

\* Severity and state agree: what is degraded or needs attention is active, for the
\* sake of its own status or of a container that is failing; and what is only history -- events and restarts of a Pod that is well now -- is not,
\* however the events, the restarts and the row were read.
HistoryIsNotActive ==
    incidentStage = "built" =>
      \A n \in IncidentNamespaces :
        /\ Severity(n) \in {"Degraded", "Attention"} =>
             /\ ItemState(n) = "Active"
             /\ \/ ResourceHealthState(row[n].status, row[n].ready) \in {"Degraded", "NeedsAttention"}
                \/ restartsRead[n].state = "Active"
        /\ Severity(n) \in {"Warning", "Restarted"} => ItemState(n) # "Active"

\* Health is never overstated: evidence that is not current changes nothing, a
\* worse state that is current is never hidden by a better one, and what an
\* Application or an ApplicationSet is called healthy for is both health and sync.
Observable == [source : {"Kubernetes", "WarningEvent"},
               state : {"Healthy", "NeedsAttention", "Degraded", "Unknown", "none"},
               current : BOOLEAN]
HealthIsNotOverstated ==
    /\ \A available \in BOOLEAN, e, f \in Observable :
         LET both == EvaluateHealth(TRUE, available, {e, f})
             one == EvaluateHealth(TRUE, available, {e})
         IN  /\ ~f.current => both.state = one.state
             /\ f.current => Rank(both.state) >= Rank(f.state)
             /\ Rank(both.state) >= Rank(one.state)
    /\ \A health \in {"", "Healthy", "Progressing", "Degraded", "Missing"} :
         /\ \A sync \in {"", "Synced", "OutOfSync", "Unknown"} :
              LET a == ArgoAssessment(health, sync)
              IN  a.state = "Healthy" => health = "Healthy" /\ sync = "Synced"
         /\ \A conditions \in SUBSET ({"ErrorOccurred", "ResourcesUpToDate", "RolloutProgressing"}
                                      \X {"True", "False"}) :
              LET a == SetAssessment(health, conditions)
              IN  a.state = "Healthy" =>
                     health = "Healthy" /\ <<"ResourcesUpToDate", "True">> \in conditions
                     /\ <<"ErrorOccurred", "True">> \notin conditions
    /\ \A conditions \in SUBSET ({"Ready", "Healthy", "Reconciling", "Stalled"} \X {"True", "False"}) :
         DynamicAssessment(conditions).state = "Healthy" =>
            {<<"Stalled", "True">>, <<"Ready", "False">>, <<"Reconciling", "True">>} \cap conditions = {}

\* The cockpit neither hides a concern nor invents one.
IncidentsAreHonest == CleanMeansClean /\ HistoryIsNotActive /\ HealthIsNotOverstated
=============================================================================
