----------------------------- MODULE MCSessions -----------------------------
(* Sessions that a user keeps open, for TLC: in the scene "exec" the Pod     *)
(* shells, in the scene "argo" the connections to an Argo CD server, in the  *)
(* scene "logs" an aggregated log.  The other two rest in a state where they *)
(* want nothing.                                                             *)
EXTENDS PodExec, ArgoConnections, AggregateLogs, TLC

CONSTANTS shell, w1

VARIABLE scene

\* One shell with several writers, of which any two but not all three fit into
\* the budget.  Lengths are in half chunks.
MCTarget == [c \in Writes \cup Resizes |-> shell]
MCSize == [w \in Writes |-> IF w = w1 THEN 1 ELSE 2]

\* A connect is given a token and remembers nothing.
ConnectAsks == [id : Ids, scope : Scopes, remember : {FALSE}, submitted : {TRUE}]

Requirement(operator, values) == [operator |-> operator, values |-> values]
LogTarget(kind, selector) ==
    [kind |-> kind, spec |-> TRUE, external |-> FALSE, selector |-> selector]
\* A Service, one that selects nothing, and a Deployment that cannot be asked for.
LogTargets == {LogTarget("Service", {Requirement("Equals", {})}), LogTarget("Service", {}),
               LogTarget("Deployment", {Requirement("In", {})})}

SessionsInit ==
    /\ scene \in {"exec", "argo", "logs"}
    /\ Init /\ ConnInit /\ AggregateInit
    /\ \/ scene = "logs"
       \/ target.selector = {} /\ \A s \in Sources : pods[s] = "unmatched"

SessionsNext ==
    \/ scene = "exec" /\ Next /\ UNCHANGED <<scene, connVars, aggregateVars>>
    \/ scene = "argo" /\ ConnNext /\ UNCHANGED <<scene, vars, aggregateVars>>
    \/ scene = "logs" /\ AggregateNext /\ UNCHANGED <<scene, vars, connVars>>

\* In a scene that is not its own, nothing that a part is fair to is possible.
SessionsSpec ==
    /\ SessionsInit /\ [][SessionsNext]_<<scene, vars, connVars, aggregateVars>>
    /\ Fairness /\ ConnFairness /\ AggregateFairness
=============================================================================
