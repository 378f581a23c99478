----------------------------- MODULE PortForward -----------------------------
(* Port-forward sessions: commands/sessions/{registry,runner}.rs, the scope  *)
(* cleanup of commands/live_sessions.rs that App.svelte calls when the       *)
(* workspace or the kubeconfig source changes, and the loop that starts a    *)
(* workspace's saved forwards (portForwardLifecycle.ts).                     *)
(*                                                                          *)
(* A session is identified with the command that starts it.  What the        *)
(* tunnel resolves to and carries is left out.                               *)
EXTENDS Naturals

CONSTANTS
    Starts,            \* start_pod_port_forward calls, and their sessions
    Conns,             \* local TCP connections
    Ports,             \* local ports
    AnyPort,           \* the request of an automatic port
    None,
    Contexts,          \* cluster contexts
    Sources,           \* kubeconfig sources
    Scopes,            \* what the selected workspace and settings allow
    MaxAcceptFailures, \* MAX_CONSECUTIVE_ACCEPT_FAILURES
    MaxSwitches        \* bound: changes of scope

ASSUME ScopesAssumption ==
    Scopes \subseteq [contexts : SUBSET Contexts, source : Sources]
ASSUME NullsAssumption == AnyPort \notin Ports /\ None \notin Ports /\ None \notin Starts
ASSUME BoundsAssumption == MaxAcceptFailures \in Nat \ {0} /\ MaxSwitches \in Nat

VARIABLES
    call,     \* start -> where its command is
    ask,      \* start -> what it asks for
    batch,    \* start -> the starts that are made one after the other with it
    local,    \* start -> the local port its listener was bound to
    open,     \* the starts whose listener is open
    entry,    \* session -> its status in the registry, or "absent"
    loop,     \* session -> what its accept loop is doing
    failures, \* session -> consecutive accept failures
    doomed,   \* the sessions removed from the registry and not yet aborted
    aborted,  \* the sessions whose task has been aborted
    conn,     \* connection -> its session and where it is
    cut,      \* the connections whose task has been aborted
    scope,    \* what the UI shows
    switches, \* number of changes of scope
    cleanups, \* calls of stop_live_sessions_outside_scope still to run
    unswept   \* history: starts in flight when the newest cleanup ran

command == <<call, ask, batch, local>>
task == <<loop, failures>>
ui == <<scope, switches, cleanups, unswept>>
vars == <<call, ask, batch, local, open, entry, loop, failures, doomed, aborted,
          conn, cut, scope, switches, cleanups, unswept>>

Asks == [port : Ports \cup {AnyPort, None}, context : Contexts \cup {None},
         source : Sources \cup {None}]

Init ==
    /\ call = [s \in Starts |-> "idle"]
    /\ ask = [s \in Starts |-> [port |-> None, context |-> None, source |-> None]]
    /\ batch = [s \in Starts |-> {}]
    /\ local = [s \in Starts |-> None]
    /\ open = {}
    /\ entry = [s \in Starts |-> "absent"]
    /\ loop = [s \in Starts |-> "none"]
    /\ failures = [s \in Starts |-> 0]
    /\ doomed = {}
    /\ aborted = {}
    /\ conn = [c \in Conns |-> [session |-> None, at |-> "none"]]
    /\ cut = {}
    /\ scope \in Scopes
    /\ switches = 0
    /\ cleanups = {}
    /\ unswept = {}

Registered(s) == entry[s] # "absent"

-----------------------------------------------------------------------------
(* The UI.                                                                  *)

Going(s) == call[s] \in {"invoked", "checked", "bound", "rechecked", "verified", "spawned"}

\* startResourcePortForward starts one forward; startSavedPortForwards starts
\* a workspace's saved forwards one after the other, with the context and the
\* source it was called with, whatever the user does meanwhile.
StartForwards(S, port, context) ==
    /\ S # {}
    /\ \A s \in S : call[s] = "idle" /\ context[s] \in scope.contexts
    /\ call' = [s \in Starts |-> IF s \in S THEN "queued" ELSE call[s]]
    /\ ask' = [s \in Starts |->
                 IF s \in S
                 THEN [port |-> port[s], context |-> context[s], source |-> scope.source]
                 ELSE ask[s]]
    /\ batch' = [s \in Starts |-> IF s \in S THEN S ELSE batch[s]]
    /\ UNCHANGED <<local, open, entry, task, doomed, aborted, conn, cut, ui>>

Invoke(s) ==
    /\ call[s] = "queued"
    /\ \A t \in batch[s] : ~Going(t)
    /\ call' = [call EXCEPT ![s] = "invoked"]
    /\ UNCHANGED <<ask, batch, local, open, entry, task, doomed, aborted, conn, cut, ui>>

\* The effect of App.svelte, with keepLiveSessionsOnWorkspaceSwitch off.
SwitchScope(to) ==
    /\ switches < MaxSwitches
    /\ to # scope
    /\ scope' = to
    /\ switches' = switches + 1
    /\ cleanups' = cleanups \cup {[n |-> switches + 1, scope |-> to]}
    /\ unswept' = {}
    /\ UNCHANGED <<command, open, entry, task, doomed, aborted, conn, cut>>

-----------------------------------------------------------------------------
(* start_pod_port_forward_in_registry.                                      *)

HasLocalPort(p) == \E s \in Starts : Registered(s) /\ local[s] = p

InUse(p) == \E s \in open : local[s] = p

\* The command returns an error and drops its listener.
Fails(s) ==
    /\ call' = [call EXCEPT ![s] = "failed"]
    /\ open' = open \ {s}
    /\ UNCHANGED local

Advances(s, at) ==
    /\ call' = [call EXCEPT ![s] = at]
    /\ UNCHANGED <<local, open>>

CheckPort(s) ==
    /\ call[s] = "invoked"
    /\ \/ /\ ask[s].port # AnyPort /\ HasLocalPort(ask[s].port)
          /\ Fails(s)
       \/ /\ ~(ask[s].port # AnyPort /\ HasLocalPort(ask[s].port))
          /\ Advances(s, "checked")
    /\ UNCHANGED <<ask, batch, entry, task, doomed, aborted, conn, cut, ui>>

\* The operating system gives a listener a port no other listener has; other
\* programs may hold any of them.
Bind(s) ==
    /\ call[s] = "checked"
    /\ \/ \E p \in Ports :
            /\ ask[s].port \in {p, AnyPort}
            /\ ~InUse(p)
            /\ local' = [local EXCEPT ![s] = p]
            /\ open' = open \cup {s}
            /\ call' = [call EXCEPT ![s] = "bound"]
       \/ Fails(s)
    /\ UNCHANGED <<ask, batch, entry, task, doomed, aborted, conn, cut, ui>>

RecheckPort(s) ==
    /\ call[s] = "bound"
    /\ IF HasLocalPort(local[s]) THEN Fails(s) ELSE Advances(s, "rechecked")
    /\ UNCHANGED <<ask, batch, entry, task, doomed, aborted, conn, cut, ui>>

\* Resolve the target, build a client, try the tunnel once.
Verify(s) ==
    /\ call[s] = "rechecked"
    /\ Fails(s) \/ Advances(s, "verified")
    /\ UNCHANGED <<ask, batch, entry, task, doomed, aborted, conn, cut, ui>>

Spawn(s) ==
    /\ call[s] = "verified"
    /\ Advances(s, "spawned")
    /\ loop' = [loop EXCEPT ![s] = "waiting"]
    /\ UNCHANGED <<ask, batch, entry, failures, doomed, aborted, conn, cut, ui>>

\* Mutant: the port of the new session is not compared again.
Insert_unchecked(s) ==
    /\ call[s] = "spawned"
    /\ call' = [call EXCEPT ![s] = "done"]
    /\ entry' = [entry EXCEPT ![s] = "listening"]
    /\ UNCHANGED <<ask, batch, local, open, task, doomed, aborted, conn, cut, ui>>

\* Mutant: a session that is refused is not aborted.
Insert_detaches(s) ==
    /\ call[s] = "spawned"
    /\ \/ /\ HasLocalPort(local[s])
          /\ call' = [call EXCEPT ![s] = "failed"]
          /\ UNCHANGED entry
       \/ /\ ~HasLocalPort(local[s])
          /\ call' = [call EXCEPT ![s] = "done"]
          /\ entry' = [entry EXCEPT ![s] = "listening"]
    /\ UNCHANGED <<ask, batch, local, open, task, doomed, aborted, conn, cut, ui>>

\* PortForwardRegistry::insert, after the task was spawned.
Insert(s) ==
    /\ call[s] = "spawned"
    /\ \/ /\ HasLocalPort(local[s])
          /\ call' = [call EXCEPT ![s] = "failed"]
          /\ aborted' = aborted \cup {s}
          /\ UNCHANGED entry
       \/ /\ ~HasLocalPort(local[s])
          /\ call' = [call EXCEPT ![s] = "done"]
          /\ entry' = [entry EXCEPT ![s] = "listening"]
          /\ UNCHANGED aborted
    /\ UNCHANGED <<ask, batch, local, open, task, doomed, conn, cut, ui>>

-----------------------------------------------------------------------------
(* stop and stop_outside_scope: the registry's mutex is released before the  *)
(* handles are aborted.                                                     *)

Remove(S) ==
    /\ entry' = [s \in Starts |-> IF s \in S THEN "absent" ELSE entry[s]]
    /\ doomed' = doomed \cup S

Stop(s) ==
    /\ Registered(s)
    /\ Remove({s})
    /\ UNCHANGED <<command, open, task, aborted, conn, cut, ui>>

Within(s, sc) == ask[s].context \in sc.contexts /\ ask[s].source = sc.source

Pending(s) == call[s] = "queued" \/ Going(s)

\* Mutant: only what is outside both is stopped.
Outside_both(s, sc) == ask[s].context \notin sc.contexts /\ ask[s].source # sc.source

Outside(s, sc) == ~Within(s, sc)

CleanUp(k) ==
    /\ k \in cleanups
    /\ cleanups' = cleanups \ {k}
    /\ Remove({s \in Starts : Registered(s) /\ Outside(s, k.scope)})
    /\ unswept' = IF k.n = switches THEN {s \in Starts : Pending(s)} ELSE unswept
    /\ UNCHANGED <<command, open, task, aborted, conn, cut, scope, switches>>

Abort(s) ==
    /\ s \in doomed
    /\ doomed' = doomed \ {s}
    /\ aborted' = aborted \cup {s}
    /\ UNCHANGED <<command, open, entry, task, conn, cut, ui>>

-----------------------------------------------------------------------------
(* run_port_forward_session.  The task is "waiting" in select!, or "ready"   *)
(* to go round the loop again without having waited: abort stops a task that *)
(* waits, not one that is being polled.                                     *)

Polled(s) == loop[s] = "ready" \/ (loop[s] = "waiting" /\ s \notin aborted)

Now(s, at) == loop' = [loop EXCEPT ![s] = at]

mark_status(s, status) ==
    entry' = IF Registered(s) THEN [entry EXCEPT ![s] = status] ELSE entry

Unjoined(s) == {c \in Conns : conn[c].session = s /\ conn[c].at \notin {"joined", "cut"}}

Accept(s, c) ==
    /\ Polled(s)
    /\ conn[c].at = "none"
    /\ conn' = [conn EXCEPT ![c] = [session |-> s, at |-> "accepted"]]
    /\ failures' = [failures EXCEPT ![s] = 0]
    /\ Now(s, "ready")
    /\ UNCHANGED <<command, open, entry, doomed, aborted, cut, ui>>

AcceptFails(s) ==
    /\ Polled(s)
    /\ failures' = [failures EXCEPT ![s] = @ + 1]
    /\ \/ /\ failures[s] + 1 < MaxAcceptFailures
          /\ mark_status(s, "listening")
          /\ Now(s, "sleeping")
       \/ /\ failures[s] + 1 >= MaxAcceptFailures
          /\ mark_status(s, "error")
          /\ Now(s, "broken")
    /\ UNCHANGED <<command, open, doomed, aborted, conn, cut, ui>>

\* ACCEPT_RETRY_DELAY
Retry(s) ==
    /\ loop[s] = "sleeping"
    /\ s \notin aborted
    /\ Now(s, "ready")
    /\ UNCHANGED <<command, open, entry, failures, doomed, aborted, conn, cut, ui>>

Join(s, c) ==
    /\ Polled(s)
    /\ conn[c].session = s
    /\ \/ /\ conn[c].at = "succeeded"
          /\ IF Unjoined(s) = {c} THEN mark_status(s, "listening") ELSE UNCHANGED entry
       \/ /\ conn[c].at = "failed"
          /\ mark_status(s, "error")
    /\ conn' = [conn EXCEPT ![c].at = "joined"]
    /\ Now(s, "ready")
    /\ UNCHANGED <<command, open, failures, doomed, aborted, cut, ui>>

\* Nothing is ready: select! waits.
Wait(s) ==
    /\ loop[s] = "ready"
    /\ Now(s, "waiting")
    /\ UNCHANGED <<command, open, entry, failures, doomed, aborted, conn, cut, ui>>

\* Mutant: the connections are tasks of their own.
EndTask_detaches(s) ==
    /\ \/ loop[s] = "broken"
       \/ loop[s] \in {"waiting", "sleeping"} /\ s \in aborted
    /\ Now(s, "ended")
    /\ open' = open \ {s}
    /\ UNCHANGED <<command, entry, failures, doomed, aborted, conn, cut, ui>>

\* The task leaves its loop, or is dropped where it waits: the listener closes
\* and the JoinSet aborts its connections.
EndTask(s) ==
    /\ \/ loop[s] = "broken"
       \/ loop[s] \in {"waiting", "sleeping"} /\ s \in aborted
    /\ Now(s, "ended")
    /\ open' = open \ {s}
    /\ cut' = cut \cup Unjoined(s)
    /\ UNCHANGED <<command, entry, failures, doomed, aborted, conn, ui>>

-----------------------------------------------------------------------------
(* resolve_and_forward_connection, a task per connection.                   *)

Goes(c, at) == conn' = [conn EXCEPT ![c].at = at]

\* Resolving a Service waits for the cluster; resolving a Pod does not.
MarkReconnecting(c) ==
    /\ conn[c].at = "accepted"
    /\ c \notin cut
    /\ mark_status(conn[c].session, "reconnecting")
    /\ \E at \in {"resolving", "resolved"} : Goes(c, at)
    /\ UNCHANGED <<command, open, task, doomed, aborted, cut, ui>>

Resolve(c) ==
    /\ conn[c].at = "resolving"
    /\ c \notin cut
    /\ \E at \in {"resolved", "failed"} : Goes(c, at)
    /\ UNCHANGED <<command, open, entry, task, doomed, aborted, cut, ui>>

\* No await since the target was resolved: an abort has no effect here.
MarkConnected(c) ==
    /\ conn[c].at = "resolved"
    /\ mark_status(conn[c].session, "connected")
    /\ Goes(c, "forwarding")
    /\ UNCHANGED <<command, open, task, doomed, aborted, cut, ui>>

Close(c) ==
    /\ conn[c].at = "forwarding"
    /\ c \notin cut
    /\ \E at \in {"succeeded", "failed"} : Goes(c, at)
    /\ UNCHANGED <<command, open, entry, task, doomed, aborted, cut, ui>>

DropConnection(c) ==
    /\ c \in cut
    /\ conn[c].at \in {"accepted", "resolving", "forwarding"}
    /\ Goes(c, "cut")
    /\ UNCHANGED <<command, open, entry, task, doomed, aborted, cut, ui>>

-----------------------------------------------------------------------------

CommandStep(s) ==
    \/ Invoke(s) \/ CheckPort(s) \/ Bind(s) \/ RecheckPort(s)
    \/ Verify(s) \/ Spawn(s) \/ Insert(s)

TaskStep(s) ==
    \/ \E c \in Conns : Accept(s, c) \/ Join(s, c)
    \/ AcceptFails(s) \/ Retry(s) \/ Wait(s) \/ EndTask(s)

ConnectionStep(c) ==
    MarkReconnecting(c) \/ Resolve(c) \/ MarkConnected(c) \/ Close(c) \/ DropConnection(c)

Next ==
    \/ \E S \in SUBSET Starts : \E port \in [S -> Ports \cup {AnyPort}] :
          \E context \in [S -> Contexts] : StartForwards(S, port, context)
    \/ \E to \in Scopes : SwitchScope(to)
    \/ \E k \in cleanups : CleanUp(k)
    \/ \E s \in Starts : CommandStep(s) \/ TaskStep(s) \/ Stop(s) \/ Abort(s)
    \/ \E c \in Conns : ConnectionStep(c)

Spec == Init /\ [][Next]_vars

\* What runs without waiting for the cluster, the user or a peer: a function
\* between two awaits, and the runtime that drops an aborted task.
Fairness ==
    /\ \A s \in Starts : WF_vars(Abort(s)) /\ WF_vars(Wait(s)) /\ WF_vars(EndTask(s))
    /\ \A c \in Conns : WF_vars(MarkConnected(c)) /\ WF_vars(DropConnection(c))

FairSpec == Spec /\ Fairness

-----------------------------------------------------------------------------

Statuses == {"listening", "reconnecting", "connected", "error"}

\* Every variable keeps its type.
TypeOK ==
    /\ call \in [Starts -> {"idle", "queued", "invoked", "checked", "bound", "rechecked",
                            "verified", "spawned", "done", "failed"}]
    /\ ask \in [Starts -> Asks]
    /\ batch \in [Starts -> SUBSET Starts]
    /\ local \in [Starts -> Ports \cup {None}]
    /\ open \in SUBSET Starts
    /\ entry \in [Starts -> Statuses \cup {"absent"}]
    /\ loop \in [Starts -> {"none", "waiting", "ready", "sleeping", "broken", "ended"}]
    /\ failures \in [Starts -> Nat]
    /\ doomed \in SUBSET Starts
    /\ aborted \in SUBSET Starts
    /\ conn \in [Conns -> [session : Starts \cup {None},
                           at : {"none", "accepted", "resolving", "resolved", "forwarding",
                                 "succeeded", "failed", "joined", "cut"}]]
    /\ cut \in SUBSET Conns
    /\ scope \in Scopes
    /\ switches \in 0 .. MaxSwitches
    /\ cleanups \in SUBSET [n : 1 .. MaxSwitches, scope : Scopes]
    /\ unswept \in SUBSET Starts

Alive(s) == loop[s] \in {"waiting", "ready", "sleeping"}

\* The registry never shows two sessions with one local port, not even when a
\* listener dies between the check of its port and its registration.
PortsAreUnique ==
    \A s, t \in Starts : Registered(s) /\ Registered(t) /\ local[s] = local[t] => s = t

\* No tunnel escapes the user: while a task accepts connections and nobody
\* has aborted it, its session is listed, about to be listed, or about to be
\* aborted.
TunnelsAreStoppable ==
    \A s \in Starts : Alive(s) /\ s \notin aborted =>
        Registered(s) \/ call[s] = "spawned" \/ s \in doomed

\* A session that is shown as connected or reconnecting has a connection, as
\* long as its listener lives.
ConnectedMeansConnections ==
    \A s \in Starts :
        Alive(s) /\ entry[s] \in {"connected", "reconnecting"} => Unjoined(s) # {}

\* The cleanup of the scope the UI shows has run.
Cleaned == \A k \in cleanups : k.n # switches

\* After the cleanup, a session outside the scope comes from a start that was
\* still on its way when the cleanup ran.
OnlyLateStartsSurvive ==
    Cleaned => \A s \in Starts : Registered(s) => Within(s, scope) \/ s \in unswept

\* "Workspace switches cut sessions outside the new workspace context and
\* kubeconfig source scope by default" (ADR 0003).
SessionsStayInScope ==
    Cleaned => \A s \in Starts : Registered(s) => Within(s, scope)

Gone(s) == call[s] = "failed" \/ (call[s] = "done" /\ ~Registered(s))

Carries(c) == conn[c].at \in {"accepted", "resolving", "resolved", "forwarding"}

\* A session that was stopped, cleaned up or refused closes its listener and
\* every connection it carries.
StoppedTunnelsClose ==
    \A s \in Starts :
        Gone(s) ~> (s \notin open /\ \A c \in Conns : conn[c].session = s => ~Carries(c))

\* The registry shows what there is: types hold, ports are unique, and a
\* connected session has connections.
ForwardsAreSound == TypeOK /\ PortsAreUnique /\ ConnectedMeansConnections
=============================================================================
