--------------------------- MODULE GuardedOperations ---------------------------
(* Guarded operations on one resource: the tab OperationsTab.svelte, which has *)
(* each change previewed and confirmed, and the commands of                *)
(* commands/operations.rs that dry-run it or make it.                        *)
EXTENDS Integers, FiniteSets

CONSTANTS
    Workloads,          \* the resources of the panel: [kind, named]
    ReplicaInputs,      \* what may be typed as the number of replicas
    OperationCalls,     \* commands in flight
    MaxOperationSteps   \* bound on the inputs of the user

VARIABLES
    workload,           \* the resource of the tab
    form,               \* the state of the tab
    calls,              \* call -> the command and how far it is
    operationSteps,     \* inputs so far
    previewed,          \* history: the changes that the cluster accepted as a dry run
    changes             \* history: the changes made

guardedVars == <<workload, form, calls, operationSteps, previewed, changes>>

NoPrint == [action |-> "none"]
BlankForm == [replicas |-> 1, confirmed |-> FALSE, print |-> NoPrint, busy |-> FALSE]

GuardedInit ==
    /\ workload \in Workloads
    /\ form = BlankForm
    /\ calls = [c \in OperationCalls |-> [at |-> "idle"]]
    /\ operationSteps = 0 /\ previewed = {} /\ changes = {}

\* guardedOperations: what the tab offers, and what the backend supports.
Offered(w) ==
    CASE w.kind \in {"Deployment", "StatefulSet"} -> {"scale", "restart"}
      [] w.kind = "DaemonSet" -> {"restart"}
      [] w.kind \in {"Pod", "ConfigMap"} -> {"delete"}
      [] OTHER -> {}

\* Only a scale depends on the number of replicas.
ChangeFor(action, w, replicas) ==
    [action |-> action, target |-> w, replicas |-> IF action = "scale" THEN replicas ELSE 0]

Step == operationSteps < MaxOperationSteps /\ operationSteps' = operationSteps + 1

-----------------------------------------------------------------------------
(* The tab                                                                  *)

\* Another resource has a panel of its own, which the answers in flight do not reach.
OpenPanel(w) ==
    /\ Step /\ w # workload /\ workload' = w /\ form' = BlankForm
    /\ calls' = [c \in OperationCalls |->
         IF calls[c].at = "idle" THEN calls[c] ELSE [calls[c] EXCEPT !.heard = FALSE]]
    /\ UNCHANGED <<previewed, changes>>

TypeReplicas(n) ==
    /\ Step /\ "scale" \in Offered(workload) /\ n # form.replicas
    /\ form' = [form EXCEPT !.replicas = n, !.confirmed = FALSE, !.print = NoPrint]
    /\ UNCHANGED <<workload, calls, previewed, changes>>

\* The checkbox can be ticked at any time, before there is a preview as well.
Tick ==
    /\ Step /\ Offered(workload) # {}
    /\ form' = [form EXCEPT !.confirmed = ~@]
    /\ UNCHANGED <<workload, calls, previewed, changes>>

\* Mutant: the tick is enough, whatever the preview was of.
Run_when_ticked(c, action, execute) ==
    /\ calls[c].at = "idle" /\ ~form.busy /\ action \in Offered(workload)
    /\ execute => form.confirmed
    /\ calls' = [calls EXCEPT ![c] =
         [at |-> "asked", execute |-> execute, print |-> ChangeFor(action, workload, form.replicas),
          replicas |-> form.replicas, confirmed |-> execute, heard |-> TRUE]]
    /\ form' = [form EXCEPT !.busy = TRUE]
    /\ UNCHANGED <<workload, operationSteps, previewed, changes>>

Run(c, action, execute) ==
    LET print == ChangeFor(action, workload, form.replicas) IN
    /\ calls[c].at = "idle" /\ ~form.busy /\ action \in Offered(workload)
    /\ execute => form.confirmed /\ form.print = print
    /\ calls' = [calls EXCEPT ![c] =
         [at |-> "asked", execute |-> execute, print |-> print, replicas |-> form.replicas,
          confirmed |-> execute /\ form.confirmed, heard |-> TRUE]]
    /\ form' =
             IF execute THEN [form EXCEPT !.busy = TRUE]
             ELSE [form EXCEPT !.busy = TRUE, !.confirmed = FALSE, !.print = NoPrint]
    /\ UNCHANGED <<workload, operationSteps, previewed, changes>>

CommandAnswered(c) ==
    /\ calls[c].at \in {"ok", "failed"}
    /\ calls' = [calls EXCEPT ![c] = [at |-> "idle"]]
    /\ form' = IF ~calls[c].heard THEN form
               ELSE IF calls[c].at = "failed" THEN [form EXCEPT !.busy = FALSE]
               ELSE IF calls[c].execute
               THEN [form EXCEPT !.busy = FALSE, !.confirmed = FALSE, !.print = NoPrint]
               ELSE [form EXCEPT !.busy = FALSE, !.print = calls[c].print]
    /\ UNCHANGED <<workload, operationSteps, previewed, changes>>

-----------------------------------------------------------------------------
(* The calls                                                             *)

\* validate_scale, validate_restart, validate_delete and require_confirmation.
Acceptable(r) ==
    /\ r.print.target.named
    /\ r.print.action \in Offered(r.print.target)
    /\ r.print.action = "scale" => r.replicas >= 0
    /\ r.execute => r.confirmed

\* The change as the command makes it: it reads the replicas of the request.
ChangeOf(r) == ChangeFor(r.print.action, r.print.target, r.replicas)

\* Answers may be lost on the way back, after a change as well.
Handle(c) ==
    /\ calls[c].at = "asked"
    /\ \/ /\ Acceptable(calls[c])
          /\ \E answer \in {"ok", "failed"} : calls' = [calls EXCEPT ![c].at = answer]
          /\ IF calls[c].execute
             THEN changes' = changes \cup {ChangeOf(calls[c])} /\ UNCHANGED previewed
             ELSE previewed' = previewed \cup {ChangeOf(calls[c])} /\ UNCHANGED changes
       \/ calls' = [calls EXCEPT ![c].at = "failed"] /\ UNCHANGED <<previewed, changes>>
    /\ UNCHANGED <<workload, form, operationSteps>>

GuardedNext ==
    \/ \E w \in Workloads : OpenPanel(w)
    \/ \E n \in ReplicaInputs : TypeReplicas(n)
    \/ Tick
    \/ \E c \in OperationCalls :
         \/ \E action \in {"scale", "restart", "delete"}, execute \in BOOLEAN :
              Run(c, action, execute)
         \/ CommandAnswered(c) \/ Handle(c)

GuardedSpec == GuardedInit /\ [][GuardedNext]_guardedVars

-----------------------------------------------------------------------------
(* Properties                                                               *)

\* Whatever is typed, ticked or opened while calls are in flight, no change is made
\* to the cluster that the cluster has not accepted before as a dry run: the same
\* action, on the same resource, with the same number of replicas.
ChangesWerePreviewed == changes \subseteq previewed
=============================================================================
