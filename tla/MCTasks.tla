------------------------------- MODULE MCTasks -------------------------------
(* The long-lived tasks of the application, for TLC: in each scene one of    *)
(* them runs, and the others rest in a state where they want nothing.        *)
EXTENDS WorkspaceSwitch, StreamRegistry, ResourceWatch, TLC

CONSTANTS q1, poll, list, prod, w1

VARIABLE scene

-----------------------------------------------------------------------------
(* Instances. *)

OneName == [q \in Requests |-> poll]
OneScope == (poll :> list)
OneContext == [q \in Requests |-> prod]

WatchOf(kind, complete, namespaced, namespace, read) ==
    [kind |-> kind, complete |-> complete, namespaced |-> namespaced,
     namespace |-> namespace, read |-> read]
Unwatchable == WatchOf("Widget", FALSE, TRUE, "", "dynamic")
WatchSubjects == {
    WatchOf("Pod", FALSE, TRUE, "ns", "typed"), WatchOf("Node", FALSE, FALSE, "", "typed"),
    WatchOf("Widget", TRUE, TRUE, "", "dynamic"), WatchOf("Pod", TRUE, TRUE, "ns", "events"),
    Unwatchable}

-----------------------------------------------------------------------------
(* Scenes. *)

\* A part whose scene this is not begins, and stays, in one state.
Resting(part, rest) == scene = part \/ rest

TasksInit ==
    /\ scene \in {"switch", "streams", "watch"}
    /\ SwitchInit /\ Resting("switch", mounted = w1)
    /\ Init
    /\ WatchInit
    /\ Resting("watch", subject = Unwatchable /\ \A n \in Names : objects[n] = 0)

TasksNext ==
    \/ /\ scene = "switch" /\ SwitchNext
       /\ UNCHANGED <<scene, vars, watchedVars>>
    \/ /\ scene = "streams" /\ Next
       /\ UNCHANGED <<scene, switchVars, watchedVars>>
    \/ /\ scene = "watch" /\ WatchNext
       /\ UNCHANGED <<scene, switchVars, vars>>

\* In a scene that is not its own, nothing that a part is fair to is possible.
TasksSpec ==
    /\ TasksInit /\ [][TasksNext]_<<scene, switchVars, vars, watchedVars>>
    /\ SwitchFairness /\ Fairness /\ WatchFairness
=============================================================================
