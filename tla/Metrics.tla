-------------------------------- MODULE Metrics --------------------------------
(* What Pods, Nodes and workloads use: list_resource_metrics of                *)
(* commands/metrics.rs, which reads the samples of the metrics API, the Pods    *)
(* and the ReplicaSets one after the other while the cluster changes.           *)
(*                                                                             *)
(* Memory and processor time are added up alike, so a sample has one quantity    *)
(* for each container; quantities above MaxUsage cannot be represented.         *)
EXTENDS Integers, Sequences, SequencesExt, FiniteSets

CONSTANTS
    UsageScopes,      \* namespaces that may be selected; {} is all of them
    UsageClusters,    \* [pods, sets]: clusters to begin with
    SampledPods,      \* Pods there may be: [namespace, name, owner, usage], where the owner
                      \* is [kind, name] or Unowned, and the usage a sequence of quantities
    ReplicaSets,      \* ReplicaSets there may be: [namespace, name, owner]
    MaxUsage,         \* the largest quantity that can be represented
    MaxUsageChanges,  \* bound on the changes of the cluster
    AnyNamespace,     \* the one list of an unrestricted selection
    Unowned, NoUsage, TooMuch

ASSUME UsageAssumption ==
    MaxUsage \in Nat /\ NoUsage \notin Nat /\ TooMuch \notin Nat \cup {NoUsage}

\* A cluster has finitely many Pods; a container that leaves a quantity out, or has one
\* that cannot be read, has NoUsage.
ASSUME PodsAssumption ==
    /\ \A p \in SampledPods :
         /\ p.usage \in Seq((0..MaxUsage) \cup {NoUsage})
         /\ p.owner = Unowned \/ p.owner = [kind |-> p.owner.kind, name |-> p.owner.name]
    /\ UsageClusters \subseteq [pods : SUBSET SampledPods, sets : SUBSET ReplicaSets]
    /\ \A c \in UsageClusters : IsFiniteSet(c.pods)

VARIABLES
    usageScope,    \* the selected namespaces
    cluster,       \* [pods, sets]: what there is
    samples,       \* the samples that the metrics API has: [namespace, name, usage]
    usageStage,    \* "discovery", "samples", "nodes", "pods", "sets" or "done"
    openLists,     \* the lists of this stage that are not answered yet
    usageRead,     \* [samples, pods, sets]: what the lists have brought
    nodesSampled,  \* has a Node a sample?
    failures,      \* lists that have failed: [list, why]
    lasting,       \* history: [pods, sets, samples] that have been there since the beginning
    ever,          \* history: [pods, sets] that have been there at some time
    usageChanges   \* changes so far

usageClusterVars == <<cluster, samples, lasting, ever, usageChanges>>
usageReadVars == <<usageStage, openLists, usageRead, nodesSampled, failures>>
usageVars == <<usageScope, usageClusterVars, usageReadVars>>

Lists == IF usageScope = {} THEN {AnyNamespace} ELSE usageScope
In(list, things) == {t \in things : list = AnyNamespace \/ t.namespace = list}
SampleOf(pod) == [namespace |-> pod.namespace, name |-> pod.name, usage |-> pod.usage]
SamplesOf(pods) == {SampleOf(p) : p \in pods}

UsageInit ==
    /\ usageScope \in UsageScopes
    /\ cluster \in UsageClusters
    /\ samples \in {{}, SamplesOf(cluster.pods)}
    /\ lasting = [pods |-> cluster.pods, sets |-> cluster.sets, samples |-> samples]
    /\ ever = cluster
    /\ usageChanges = 0
    /\ usageStage = "discovery" /\ openLists = {}
    /\ usageRead = [samples |-> {}, pods |-> {}, sets |-> {}]
    /\ nodesSampled = FALSE
    /\ failures = {}

-----------------------------------------------------------------------------
(* The reads                                                                *)

Failure(list, why) == [list |-> list, why |-> why]
Enter(stage) == usageStage' = stage /\ openLists' = IF stage = "done" THEN {} ELSE Lists

\* has_metrics_api
DiscoverMetrics ==
    /\ usageStage = "discovery"
    /\ \/ Enter("samples") /\ UNCHANGED failures
       \/ /\ Enter("done")
          /\ \E why \in {"absent", "Forbidden", "Unavailable"} :
               failures' = {Failure("discovery", why)}
    /\ UNCHANGED <<usageScope, usageClusterVars, usageRead, nodesSampled>>

After(stage) ==
    CASE stage = "samples" -> "nodes"
      [] stage = "pods" /\ Failure("pods", "failed") \notin failures' -> "sets"
      [] OTHER -> "done"

\* One answer of a stage; the next stage begins when all of them have come.
Settle(list) ==
    IF openLists = {list} THEN Enter(After(usageStage))
    ELSE openLists' = openLists \ {list} /\ UNCHANGED usageStage

Has(stage) == CASE stage = "samples" -> samples [] stage = "pods" -> cluster.pods
                [] OTHER -> cluster.sets

\* list_pod_metric_objects, list_pods and list_replicasets, a list for each namespace.
UsageListSucceeds(list) ==
    /\ usageStage \in {"samples", "pods", "sets"} /\ list \in openLists
    /\ usageRead' = [usageRead EXCEPT ![usageStage] = @ \cup In(list, Has(usageStage))]
    /\ UNCHANGED failures /\ Settle(list)
    /\ UNCHANGED <<usageScope, usageClusterVars, nodesSampled>>

\* classify_metrics_error; the failure of one list of Pods or ReplicaSets is that of all.
UsageListFails(list) ==
    /\ usageStage \in {"samples", "pods", "sets"} /\ list \in openLists
    /\ \E why \in (IF usageStage = "samples" THEN {"Forbidden", "Unavailable"} ELSE {"failed"}) :
         failures' = failures \cup {Failure(usageStage, why)}
    /\ Settle(list)
    /\ UNCHANGED <<usageScope, usageClusterVars, usageRead, nodesSampled>>

ListNodeMetrics ==
    /\ usageStage = "nodes"
    /\ \/ nodesSampled' \in BOOLEAN /\ UNCHANGED failures
       \/ /\ UNCHANGED nodesSampled
          /\ \E why \in {"Forbidden", "Unavailable"} :
               failures' = failures \cup {Failure("nodes", why)}
    /\ Enter("pods")
    /\ UNCHANGED <<usageScope, usageClusterVars, usageRead>>

-----------------------------------------------------------------------------
(* The cluster: Pods and ReplicaSets come and go, and the metrics API takes its *)
(* samples when it likes.                                                      *)

SameName(t, u) == t.namespace = u.namespace /\ t.name = u.name
Toggled(things, t) == IF t \in things THEN things \ {t} ELSE things \cup {t}
UsageChange ==
    /\ usageStage # "done" /\ usageChanges < MaxUsageChanges
    /\ usageChanges' = usageChanges + 1
    /\ \/ /\ \E p \in SampledPods :
               /\ \A q \in cluster.pods \ {p} : ~SameName(p, q)
               /\ cluster' = [cluster EXCEPT !.pods = Toggled(@, p)]
          /\ UNCHANGED samples
       \/ /\ \E s \in ReplicaSets :
               /\ \A t \in cluster.sets \ {s} : ~SameName(s, t)
               /\ cluster' = [cluster EXCEPT !.sets = Toggled(@, s)]
          /\ UNCHANGED samples
       \/ samples' = SamplesOf(cluster.pods) /\ UNCHANGED cluster
    /\ lasting' = [pods |-> lasting.pods \cap cluster'.pods,
                   sets |-> lasting.sets \cap cluster'.sets,
                   samples |-> lasting.samples \cap samples']
    /\ ever' = [pods |-> ever.pods \cup cluster'.pods, sets |-> ever.sets \cup cluster'.sets]
    /\ UNCHANGED <<usageScope, usageReadVars>>

UsageNext ==
    \/ DiscoverMetrics \/ ListNodeMetrics \/ UsageChange
    \/ \E list \in openLists : UsageListSucceeds(list) \/ UsageListFails(list)

UsageSpec == UsageInit /\ [][UsageNext]_usageVars

-----------------------------------------------------------------------------
(* The answer                                                               *)

Missed(lists) == {f \in failures : f.list \in lists}
UsageStatus ==
    LET missed == Missed({"discovery", "samples", "nodes"})
    IN  IF usageRead.samples # {} \/ nodesSampled THEN "Available"
        ELSE IF \E f \in missed : f.why = "Forbidden" THEN "Forbidden"
        ELSE IF missed # {} THEN "Unavailable" ELSE "NoSamples"
\* list_pods and list_replicasets return nothing at all when one of their lists failed.
Brought(stage) == IF Missed({stage}) = {} THEN usageRead[stage] ELSE {}

\* Adding up: a sum that cannot be represented stays so, whatever comes after it.
Plus(total, usage) ==
    CASE usage = NoUsage \/ total = TooMuch -> total
      [] total = NoUsage -> usage
      [] OTHER -> IF total + usage > MaxUsage THEN TooMuch ELSE total + usage
Sum(usages) ==
    LET total[n \in 0..Len(usages)] ==
          IF n = 0 THEN NoUsage ELSE Plus(total[n - 1], usages[n])
    IN  IF total[Len(usages)] = TooMuch THEN NoUsage ELSE total[Len(usages)]

\* container_usage_totals
SamplesFor(pod) == {s \in usageRead.samples : SameName(s, pod)}
TakenFor(pod) == (CHOOSE s \in SamplesFor(pod) : TRUE).usage
UsageOf(pod) == Sum(TakenFor(pod))

WorkloadKey(thing) ==
    [kind |-> thing.owner.kind, namespace |-> thing.namespace, name |-> thing.owner.name]

\* Mutant: ReplicaSets are told apart by their names alone.
RollUp_by_name(key) ==
    {WorkloadKey(s) : s \in {t \in Brought("sets") :
        t.owner # Unowned /\ key.kind = "ReplicaSet" /\ key.name = t.name}}

\* replicaset_owner_by_key
RollUp(key) ==
    {WorkloadKey(s) : s \in {t \in Brought("sets") :
        /\ t.owner # Unowned
        /\ key = [kind |-> "ReplicaSet", namespace |-> t.namespace, name |-> t.name]}}

\* aggregate_workload_metrics: workload -> its Pods, and what they use together.
CountedFor(pod) == {WorkloadKey(pod)} \cup RollUp(WorkloadKey(pod))
CountedPods == {p \in Brought("pods") : SamplesFor(p) # {} /\ p.owner # Unowned}
SourcePods(key) == {p \in CountedPods : key \in CountedFor(p)}
WorkloadUsage(key) ==
    LET order == SetToSeq(SourcePods(key))
    IN  Sum([i \in 1..Len(order) |-> UsageOf(order[i])])
UsageKeys == UNION {CountedFor(p) : p \in CountedPods}

-----------------------------------------------------------------------------
(* Properties                                                               *)

Selected(thing) == usageScope = {} \/ thing.namespace \in usageScope
Lasts(pod) == pod \in lasting.pods /\ SampleOf(pod) \in lasting.samples /\ Selected(pod)
OwnedBy(pod, set) ==
    pod.owner = [kind |-> "ReplicaSet", name |-> set.name] /\ pod.namespace = set.namespace

\* A Pod counts for nobody but its owner and the owner of its ReplicaSet, as they
\* were at some time of the reads.
NobodyElseIsCharged ==
    \A key \in UsageKeys : \A p \in SourcePods(key) :
        \/ WorkloadKey(p) = key
        \/ \E s \in ever.sets : OwnedBy(p, s) /\ s.owner # Unowned /\ WorkloadKey(s) = key

\* What was there all along is shown and counted, or the answer warns of the list
\* that failed; it never says that there are no samples.
NothingIsLost ==
    \A p \in lasting.pods : Lasts(p) =>
        /\ UsageStatus # "NoSamples"
        /\ SampleOf(p) \in usageRead.samples \/ Missed({"discovery", "samples"}) # {}
        /\ SampleOf(p) \in usageRead.samples /\ p.owner # Unowned =>
             /\ p \in SourcePods(WorkloadKey(p)) \/ Missed({"pods"}) # {}
             /\ \A s \in lasting.sets : OwnedBy(p, s) /\ s.owner # Unowned =>
                  p \in SourcePods(WorkloadKey(s)) \/ Missed({"pods", "sets"}) # {}

\* The units of the containers of a sample, one by one; they fit if there is a quantity
\* and if they can be represented together.
ContainerUnits(usage) ==
    UNION {{i} \X (1..usage[i]) : i \in {j \in 1..Len(usage) : usage[j] # NoUsage}}
Fits(usage) ==
    /\ \E i \in 1..Len(usage) : usage[i] # NoUsage
    /\ Cardinality(ContainerUnits(usage)) <= MaxUsage

\* What is said of a Pod is the units of all its containers, and what is said of a
\* workload those of all its Pods, if they can be represented together.  A Pod whose own
\* containers cannot counts like one without a quantity: its workload then has the sum of
\* the others, and nothing tells.
SumsAreWhole ==
    /\ \A p \in CountedPods :
         UsageOf(p) = IF Fits(TakenFor(p)) THEN Cardinality(ContainerUnits(TakenFor(p)))
                      ELSE NoUsage
    /\ \A key \in UsageKeys :
         LET fitting == {p \in SourcePods(key) : Fits(TakenFor(p))}
             units == Cardinality(UNION {{p} \X ContainerUnits(TakenFor(p)) : p \in fitting})
         IN  WorkloadUsage(key) = IF fitting = {} \/ units > MaxUsage THEN NoUsage ELSE units

\* What a Pod uses, if it is known, is charged once and to the right workloads.
UsageIsHonest ==
    usageStage = "done" => NobodyElseIsCharged /\ NothingIsLost /\ SumsAreWhole
=============================================================================
