---------------------------- MODULE ServiceTargets ----------------------------
(* From a Service to the Pod that a tunnel to it ends at: the Service target  *)
(* of a port forward (commands/sessions/target.rs and service.rs), and        *)
(* discover_argo_servers (commands/argo/connected.rs), which resolves every   *)
(* Service port it offers to see whether it can be reached.                  *)
(*                                                                          *)
(* A Service and its Pods are two reads, and the cluster may change between.  *)
EXTENDS Integers, Sequences, Functions

CONSTANTS
    ServiceSpecs,      \* [argo, external, selector, ports]: Services there may be; a
                       \* selector is a label or NoTarget, a port is [port, tcp, by, target]:
                       \* its target by "number", by "name", or the "same" as the port
    BackendPods,       \* Pods, as numbers, in the order of their names
    PodSpecs,          \* [phase, deleted, ready, label, ports]: states of a Pod
    ForwardPorts,      \* remote ports that a port forward may ask for
    MaxBackendChanges, \* bound on the changes of the cluster
    NoTarget           \* no selector, nothing resolved

PortNumbers == 1..65535
ValidPort(n) == n \in PortNumbers

\* The API server stores no port that is not valid.
ASSUME TargetsAssumption ==
    /\ BackendPods \subseteq Nat
    /\ \A spec \in ServiceSpecs :
         /\ spec.ports \in Seq(Range(spec.ports))
         /\ \A port \in Range(spec.ports) :
              /\ port.by \in {"number", "name", "same"} /\ ValidPort(port.port)
              /\ port.by = "number" => ValidPort(port.target)
    /\ \A pod \in PodSpecs : \A name \in DOMAIN pod.ports : ValidPort(pod.ports[name])
    /\ NoTarget \notin [pod : BackendPods, port : PortNumbers]

VARIABLES
    service,           \* the Service in the cluster
    backends,          \* Pod -> its state in the cluster
    backendChanges,    \* changes of the cluster so far
    offers,            \* position -> the server capability found: [port, reason]
    lookup,            \* the resolution under way
    found,             \* what the last resolution has resolved to
    moved              \* history: the Service or a Pod has changed since the Services
                       \* were listed

targetVars == <<service, backends, backendChanges, offers, lookup, found, moved>>

Resting == [at |-> "idle"]

TargetsInit ==
    /\ service \in ServiceSpecs
    /\ backends \in [BackendPods -> PodSpecs]
    /\ backendChanges = 0 /\ offers = <<>> /\ lookup = Resting /\ found = NoTarget
    /\ moved = FALSE

-----------------------------------------------------------------------------
(* The choice of a Pod and its port                                         *)

First(positions) == CHOOSE p \in positions : \A q \in positions : p <= q

\* select_service_port takes the first port with the number, whatever its protocol.
PortsWith(spec, n) == {i \in DOMAIN spec.ports : spec.ports[i].port = n}
PortOf(spec, n) == spec.ports[First(PortsWith(spec, n))]
Forwardable(spec, n) ==
    /\ ~spec.external /\ spec.selector # NoTarget
    /\ PortsWith(spec, n) # {} /\ PortOf(spec, n).tcp

\* Mutant: a Pod that is being deleted still counts as ready.
Ready_while_leaving(pod) == pod.phase = "Running" /\ pod.ready

Ready(pod) == ~pod.deleted /\ pod.phase = "Running" /\ pod.ready

Candidates(label) == {p \in BackendPods : backends[p].label = label /\ Ready(backends[p])}

\* resolve_ready_service_target: a named port is looked for in every ready Pod, a
\* number is taken to be open in the first.
Number(port) == IF port.by = "number" THEN port.target ELSE port.port
HoldingPods(label, port) ==
    IF port.by = "name" THEN {p \in Candidates(label) : port.target \in DOMAIN backends[p].ports}
                        ELSE Candidates(label)
Backend(label, port) ==
    LET pods == HoldingPods(label, port)
    IN  IF pods = {} THEN NoTarget
        ELSE [pod |-> First(pods),
              port |-> IF port.by = "name" THEN backends[First(pods)].ports[port.target]
                                           ELSE Number(port)]

-----------------------------------------------------------------------------
(* discover_argo_servers                                                    *)

\* servicetunnel_capabilities; the offer of a port has its position.
TcpPorts(spec) == {i \in DOMAIN spec.ports : spec.ports[i].tcp /\ ValidPort(spec.ports[i].port)}
Offer(n, reason) == [port |-> n, reason |-> reason]
Capabilities(spec) ==
    IF ~spec.argo THEN <<>>
    ELSE IF spec.external THEN <<Offer(0, "ExternalName")>>
    ELSE IF TcpPorts(spec) = {} THEN <<Offer(0, "NoTcpPorts")>>
    ELSE [i \in TcpPorts(spec) |->
            Offer(spec.ports[i].port,
                  IF spec.selector = NoTarget THEN "SelectorRequired" ELSE "unchecked")]

Unchecked == {i \in DOMAIN offers : offers[i].reason = "unchecked"}

ListServices ==
    /\ lookup.at = "idle" /\ offers = <<>>
    /\ offers' = Capabilities(service)
    /\ moved' = FALSE
    /\ UNCHANGED <<service, backends, backendChanges, lookup, found>>

\* Each offer is checked in turn by resolve_service_target.
CheckOffer ==
    /\ lookup.at = "idle" /\ Unchecked # {}
    /\ lookup' = [at |-> "service", offer |-> First(Unchecked), port |-> offers[First(Unchecked)].port]
    /\ UNCHANGED <<service, backends, backendChanges, offers, found, moved>>

-----------------------------------------------------------------------------
(* A port forward to a Service; one to a Pod asks for no Service            *)

ForwardRequest(n) ==
    /\ lookup.at = "idle" /\ Unchecked = {} /\ found = NoTarget /\ ValidPort(n)
    /\ lookup' = [at |-> "service", offer |-> 0, port |-> n]
    /\ UNCHANGED <<service, backends, backendChanges, offers, found, moved>>

-----------------------------------------------------------------------------
(* resolve_service_target                                                   *)

\* An offer that cannot be resolved says why; one that can stays as it is.
Conclude(result, reason) ==
    /\ lookup' = Resting
    /\ IF lookup.offer = 0 THEN found' = result /\ UNCHANGED offers
       ELSE /\ offers' = [offers EXCEPT ![lookup.offer].reason = reason]
            /\ UNCHANGED found

ReadService ==
    /\ lookup.at = "service"
    /\ \/ /\ Forwardable(service, lookup.port)
          /\ lookup' = [at |-> "pods", offer |-> lookup.offer, port |-> lookup.port,
                        label |-> service.selector,
                        selected |-> PortOf(service, lookup.port)]
          /\ UNCHANGED <<offers, found>>
       \/ ~Forwardable(service, lookup.port) /\ Conclude(NoTarget, "TargetUnavailable")
       \/ Conclude(NoTarget, "ReadFailed")
    /\ UNCHANGED <<service, backends, backendChanges, moved>>

ListPods ==
    /\ lookup.at = "pods"
    /\ LET backend == Backend(lookup.label, lookup.selected) IN
       \/ /\ backend # NoTarget
          /\ IF ValidPort(backend.port) THEN Conclude(backend, "available")
                                        ELSE Conclude(NoTarget, "TargetUnavailable")
       \/ /\ backend = NoTarget
          /\ Conclude(NoTarget, IF Candidates(lookup.label) = {} THEN "NoReadyPod"
                                                             ELSE "TargetUnavailable")
       \/ Conclude(NoTarget, "ReadFailed")
    /\ UNCHANGED <<service, backends, backendChanges, moved>>

-----------------------------------------------------------------------------
(* The cluster                                                              *)

BackendChange ==
    /\ backendChanges < MaxBackendChanges
    /\ backendChanges' = backendChanges + 1 /\ moved' = TRUE

ChangeService(spec) ==
    /\ BackendChange /\ spec # service /\ service' = spec
    /\ UNCHANGED <<backends, offers, lookup, found>>

ChangeBackend(p, pod) ==
    /\ BackendChange /\ pod # backends[p] /\ backends' = [backends EXCEPT ![p] = pod]
    /\ UNCHANGED <<service, offers, lookup, found>>

TargetsNext ==
    \/ ListServices \/ CheckOffer \/ ReadService \/ ListPods
    \/ \E n \in ForwardPorts : ForwardRequest(n)
    \/ \E spec \in ServiceSpecs : ChangeService(spec)
    \/ \E p \in BackendPods, pod \in PodSpecs : ChangeBackend(p, pod)

TargetsSpec == TargetsInit /\ [][TargetsNext]_targetVars

-----------------------------------------------------------------------------
(* Properties                                                               *)

\* A forward ends at a Pod that is running, ready and not being deleted when the Pods
\* are listed, that the Service selected when it was read, and at the port that the
\* Service gave for the remote port then, however the cluster changes between.
CanServe(pod, label, port) ==
    /\ pod.phase = "Running" /\ pod.ready /\ ~pod.deleted /\ pod.label = label
    /\ port.by = "name" => port.target \in DOMAIN pod.ports
PortAt(pod, port) ==
    CASE port.by = "number" -> port.target
      [] port.by = "same" -> port.port
      [] OTHER -> pod.ports[port.target]
TargetIsServed ==
    LET pod == backends[found'.pod]
    IN  /\ CanServe(pod, lookup.label, lookup.selected) /\ lookup.selected.tcp
        /\ found'.port = PortAt(pod, lookup.selected)

\* A port is only shown as one that cannot be reached if no ready Pod of the Service
\* serves it: unless the cluster has changed since it was offered, or a port of
\* another protocol with the same number stands before it.
RefusalsAreHonest ==
    \A i \in DOMAIN offers :
        LET first == PortOf(service, offers[i].port)
        IN  offers[i].reason \in {"NoReadyPod", "TargetUnavailable"} /\ ~moved /\ first.tcp
            => \A p \in BackendPods : ~CanServe(backends[p], service.selector, first)

\* What is resolved can serve, and what is refused cannot.
TargetsAreHonest ==
    [][/\ found' \notin {found, NoTarget} => TargetIsServed
       /\ RefusalsAreHonest']_targetVars
=============================================================================
