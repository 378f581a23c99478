-------------------------------- MODULE Health --------------------------------
(* Health assessments: models/health.rs and the sources that feed it.  What   *)
(* is observed of an object is a set of evidence; each piece has a source, a *)
(* state that it stands for (or none), and is current or historical.         *)
EXTENDS Naturals, FiniteSets, FiniteSetsExt

\* HealthAssessmentState::rank; the other states have none.
Rank(state) ==
    CASE state = "Degraded" -> 3 [] state = "NeedsAttention" -> 2 [] state = "Healthy" -> 1
      [] OTHER -> 0
Ranked(rank) == CASE rank = 3 -> "Degraded" [] rank = 2 -> "NeedsAttention"
                  [] rank = 1 -> "Healthy" [] OTHER -> "Unknown"

Evidence(source, state, current) == [source |-> source, state |-> state, current |-> current]

\* evaluate_health: the worst current state wins.
EvaluateHealth(recognized, available, observed) ==
    LET all == IF available THEN observed
               ELSE observed \cup {Evidence("Provider", "Unknown", TRUE)}
        current == {e \in all : e.current}
        worst == Max({Rank(e.state) : e \in current} \cup {0})
        winning == {e \in current : IF worst = 0 THEN e.state = "Unknown" ELSE Rank(e.state) = worst}
    IN  [state |-> IF recognized THEN Ranked(worst) ELSE "NotEvaluated",
         complete |-> available,
         sources |-> IF ~recognized \/ winning = {} THEN {"HealthContract"}
                     ELSE {e.source : e \in winning},
         evidence |-> all \cup
            IF ~recognized THEN {Evidence("HealthContract", "NotEvaluated", TRUE)}
            ELSE IF winning = {} THEN {Evidence("HealthContract", "Unknown", TRUE)} ELSE {}]

\* classify_resource_health, of a status and of what "ready" says: "true", "false",
\* a complete or an incomplete ratio, or nothing.
Terminal == {"succeeded", "complete", "completed"}
Failing == {"failed", "error", "crashloopbackoff", "imagepullbackoff"}
ResourceHealthState(status, ready) ==
    CASE status \in {"pending", "terminating"} -> "NeedsAttention"
      [] status \in Failing \/ (status \notin Terminal /\ ready = "false") -> "Degraded"
      [] status \notin Terminal /\ ready = "incomplete" -> "NeedsAttention"
      [] \/ status \in Terminal \/ status \in {"running", "ready", "true"}
         \/ ready \in {"true", "complete"} -> "Healthy"
      [] OTHER -> "Unknown"

\* update_resource_health: restarts are evidence without a state.
ResourceAssessment(status, ready) ==
    EvaluateHealth(status # "" \/ ready # "", TRUE,
        {Evidence("Kubernetes", ResourceHealthState(status, ready), TRUE),
         Evidence("ContainerRestart", "none", FALSE)})

\* dynamic_health_assessment, of a set of conditions <<type, status>>.
DynamicAssessment(conditions) ==
    LET known == {c \in conditions : c[1] \in {"Ready", "Healthy", "Reconciling", "Stalled"}}
        state(c) ==
          CASE c \in {<<"Stalled", "True">>, <<"Ready", "False">>, <<"Healthy", "False">>}
                 -> "Degraded"
            [] c = <<"Reconciling", "True">> -> "NeedsAttention"
            [] c \in {<<"Ready", "True">>, <<"Healthy", "True">>, <<"Reconciling", "False">>}
                 -> "Healthy"
            [] OTHER -> "Unknown"
    IN  EvaluateHealth(known # {}, TRUE, {Evidence("Kubernetes", state(c), TRUE) : c \in known})

\* argo_health_assessment: a status that is missing is "".
ArgoHealthState(health, fully) ==
    CASE health \in {"Missing", "Degraded"} -> "Degraded"
      [] health = "Progressing" -> "NeedsAttention"
      [] health = "Healthy" /\ fully -> "Healthy"
      [] OTHER -> "Unknown"
ArgoAssessment(health, sync) ==
    LET fully == health = "Healthy" /\ sync = "Synced"
        syncState == IF sync = "OutOfSync" THEN "NeedsAttention"
                     ELSE IF fully THEN "Healthy" ELSE "Unknown"
    IN  EvaluateHealth(TRUE, health # "" /\ sync # "",
          (IF health = "" THEN {} ELSE {Evidence("ArgoHealth", ArgoHealthState(health, fully), TRUE)})
          \cup (IF sync = "" THEN {} ELSE {Evidence("ArgoSync", syncState, TRUE)}))

\* argo_application_set_health_assessment
SetAssessment(health, conditions) ==
    LET fully == health = "Healthy" /\ <<"ResourcesUpToDate", "True">> \in conditions
        state(c) == CASE c = <<"ErrorOccurred", "True">> -> "Degraded"
                      [] c = <<"RolloutProgressing", "True">> -> "NeedsAttention"
                      [] c = <<"ResourcesUpToDate", "True">> -> IF fully THEN "Healthy" ELSE "Unknown"
                      [] OTHER -> "none"
    IN  EvaluateHealth(TRUE, health # "" /\ conditions # {},
          (IF health = "" THEN {} ELSE {Evidence("ArgoHealth", ArgoHealthState(health, fully), TRUE)})
          \cup {Evidence("ArgoHealth", state(c), TRUE) : c \in conditions})

\* current_status_severity: what an assessment alone is worth as an incident.
StatusSeverity(assessment) ==
    CASE assessment.state = "Degraded" -> "Degraded"
      [] assessment.state = "NeedsAttention" -> "Attention"
      [] OTHER -> "none"

\* has_current_kubernetes_concern
Concern(assessment) ==
    \E e \in assessment.evidence :
        e.source = "Kubernetes" /\ e.current /\ e.state \in {"NeedsAttention", "Degraded"}
=============================================================================
