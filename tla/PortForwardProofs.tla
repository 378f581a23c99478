--------------------------- MODULE PortForwardProofs ---------------------------
(***************************************************************************)
(* Proofs about PortForward: local ports stay unique, no tunnel is lost,   *)
(* only starts in flight outlive a cleanup, and the status of a session    *)
(* follows its connections, for any numbers of starts, connections and     *)
(* ports.                                                                  *)
(***************************************************************************)
EXTENDS PortForward, TLAPS

USE ScopesAssumption, NullsAssumption, BoundsAssumption

\* A session exists from the registration its command ends with, its task from
\* the spawn before it.
Sessions ==
    \A s \in Starts :
        /\ Registered(s) => call[s] = "done"
        /\ loop[s] # "none" => call[s] \in {"spawned", "done", "failed"}

\* Connections are aborted with the task that accepted them, and only then.
Connections ==
    \A c \in Conns :
        /\ conn[c].at = "none" <=> conn[c].session = None
        /\ c \in cut => conn[c].at # "none" /\ loop[conn[c].session] = "ended"

\* The newest cleanup is about the scope the UI shows.
Cleanups ==
    \A k \in cleanups : k.n <= switches /\ (k.n = switches => k.scope = scope)

\* OnlyLateStartsSurvive, for the sessions to come too.
Swept ==
    Cleaned => \A s \in Starts :
                  Pending(s) \/ Registered(s) => Within(s, scope) \/ s \in unswept

IInv ==
    /\ TypeOK
    /\ Sessions
    /\ PortsAreUnique
    /\ TunnelsAreStoppable
    /\ Connections
    /\ ConnectedMeansConnections
    /\ Cleanups
    /\ Swept

-----------------------------------------------------------------------------

\* The initial state satisfies the inductive invariant.
LEMMA InitIInv == Init => IInv
<1> SUFFICES ASSUME Init PROVE IInv
  OBVIOUS
<1>1. TypeOK
  BY DEF Init, TypeOK, Asks
<1>2. Sessions /\ PortsAreUnique
  BY DEF Init, Sessions, PortsAreUnique, Registered
<1>3. TunnelsAreStoppable /\ ConnectedMeansConnections
  BY DEF Init, TunnelsAreStoppable, ConnectedMeansConnections, Alive
<1>4. Connections /\ Cleanups
  BY DEF Init, Connections, Cleanups
<1>5. Swept
  BY DEF Init, Swept, Pending, Going, Registered
<1> QED BY <1>1, <1>2, <1>3, <1>4, <1>5 DEF IInv

-----------------------------------------------------------------------------
(* What the parts of the actions do.                                        *)

\* A status is written to a registered session only.
LEMMA MarkStatus ==
  ASSUME TypeOK, NEW s, NEW status \in Statuses, mark_status(s, status)
  PROVE  /\ entry' \in [Starts -> Statuses \cup {"absent"}]
         /\ \A t \in Starts : Registered(t)' <=> Registered(t)
         /\ \A t \in Starts : t # s => entry'[t] = entry[t]
  BY DEF TypeOK, mark_status, Registered, Statuses

\* Removing sessions unregisters them and leaves their tasks to be aborted.
LEMMA Removal ==
  ASSUME TypeOK, NEW S \in SUBSET Starts, Remove(S)
  PROVE  /\ entry' \in [Starts -> Statuses \cup {"absent"}]
         /\ doomed' \in SUBSET Starts
         /\ \A t \in Starts : Registered(t)' <=> Registered(t) /\ t \notin S
         /\ \A t \in Starts : t \notin S => entry'[t] = entry[t]
  BY DEF TypeOK, Remove, Registered

\* What the steps of a command that fail or only advance leave alone.
Keeps(s) ==
    /\ call' \in [Starts -> {"idle", "queued", "invoked", "checked", "bound", "rechecked",
                             "verified", "spawned", "done", "failed"}]
    /\ \A t \in Starts \ {s} : call'[t] = call[t] /\ local'[t] = local[t]
    /\ local' \in [Starts -> Ports \cup {None}]
    /\ open' \in SUBSET Starts
    /\ call[s] \in {"invoked", "checked", "bound", "rechecked"}
    /\ call'[s] \in {"checked", "bound", "rechecked", "verified", "failed"}
    /\ UNCHANGED <<ask, batch, entry, task, doomed, aborted, conn, cut, ui>>

\* The checks, the bind and the verification of a command are such steps.
LEMMA EarlyStep ==
  ASSUME TypeOK, NEW s \in Starts,
         CheckPort(s) \/ Bind(s) \/ RecheckPort(s) \/ Verify(s)
  PROVE  Keeps(s)
<1>1. CASE CheckPort(s)
  BY <1>1 DEF TypeOK, CheckPort, Fails, Advances, Keeps
<1>2. CASE Bind(s)
  BY <1>2 DEF TypeOK, Bind, Fails, Keeps
<1>3. CASE RecheckPort(s)
  BY <1>3 DEF TypeOK, RecheckPort, Fails, Advances, Keeps
<1>4. CASE Verify(s)
  BY <1>4 DEF TypeOK, Verify, Fails, Advances, Keeps
<1> QED BY <1>1, <1>2, <1>3, <1>4

-----------------------------------------------------------------------------
(* One lemma per part of the invariant.                                     *)

\* Every step keeps the types.
LEMMA TypeStep == IInv /\ [Next]_vars => TypeOK'
<1> DEFINE Goal == TypeOK'
<1> SUFFICES ASSUME IInv, [Next]_vars PROVE Goal
  OBVIOUS
<1>a. TypeOK
  BY DEF IInv
<1> USE DEF task, ui, command
<1>1. ASSUME NEW S \in SUBSET Starts, NEW port \in [S -> Ports \cup {AnyPort}],
             NEW context \in [S -> Contexts], StartForwards(S, port, context)
      PROVE  Goal
  <2>1. scope.source \in Sources
    BY <1>a DEF TypeOK
  <2>2. ask' \in [Starts -> Asks]
    BY <1>1, <1>a, <2>1 DEF StartForwards, TypeOK, Asks
  <2>3. batch' \in [Starts -> SUBSET Starts]
    BY <1>1, <1>a DEF StartForwards, TypeOK
  <2>4. call' \in [Starts -> {"idle", "queued", "invoked", "checked", "bound", "rechecked",
                              "verified", "spawned", "done", "failed"}]
    BY <1>1, <1>a DEF StartForwards, TypeOK
  <2> QED BY <1>1, <1>a, <2>2, <2>3, <2>4 DEF StartForwards, TypeOK
<1>2. ASSUME NEW to \in Scopes, SwitchScope(to) PROVE Goal
  <2>1. switches' \in 0 .. MaxSwitches /\ switches + 1 \in 1 .. MaxSwitches
    BY <1>2, <1>a DEF SwitchScope, TypeOK
  <2> QED BY <1>2, <1>a, <2>1 DEF SwitchScope, TypeOK
<1>3. ASSUME NEW k \in cleanups, CleanUp(k) PROVE Goal
  <2>1. /\ entry' \in [Starts -> Statuses \cup {"absent"}]
        /\ doomed' \in SUBSET Starts
    BY <1>3, <1>a, Removal DEF CleanUp
  <2>2. unswept' \in SUBSET Starts /\ cleanups' \in SUBSET cleanups
    BY <1>3, <1>a DEF CleanUp, TypeOK
  <2> QED BY <1>3, <1>a, <2>1, <2>2 DEF CleanUp, TypeOK
<1>4. ASSUME NEW s \in Starts, CommandStep(s) PROVE Goal
  <2>1. CASE Invoke(s)
    BY <2>1, <1>a DEF Invoke, TypeOK
  <2>2. CASE CheckPort(s) \/ Bind(s) \/ RecheckPort(s) \/ Verify(s)
    BY <2>2, <1>a, EarlyStep DEF Keeps, TypeOK
  <2>3. CASE Spawn(s)
    BY <2>3, <1>a DEF Spawn, Advances, TypeOK
  <2>4. CASE Insert(s)
    BY <2>4, <1>a DEF Insert, TypeOK, Statuses
  <2> QED BY <1>4, <2>1, <2>2, <2>3, <2>4 DEF CommandStep
<1>5. ASSUME NEW s \in Starts, TaskStep(s) PROVE Goal
  <2>1. ASSUME NEW c \in Conns, Accept(s, c) PROVE Goal
    BY <2>1, <1>a DEF Accept, Now, TypeOK
  <2>2. ASSUME NEW c \in Conns, Join(s, c) PROVE Goal
    <3>1. entry' \in [Starts -> Statuses \cup {"absent"}]
      BY <2>2, <1>a, MarkStatus DEF Join, TypeOK, Statuses
    <3>2. conn' \in [Conns -> [session : Starts \cup {None},
                               at : {"none", "accepted", "resolving", "resolved", "forwarding",
                                     "succeeded", "failed", "joined", "cut"}]]
      BY <2>2, <1>a DEF Join, TypeOK
    <3> QED BY <2>2, <1>a, <3>1, <3>2 DEF Join, Now, TypeOK
  <2>3. CASE AcceptFails(s)
    <3>1. entry' \in [Starts -> Statuses \cup {"absent"}]
      BY <2>3, <1>a, MarkStatus DEF AcceptFails, TypeOK, Statuses
    <3>2. failures' \in [Starts -> Nat]
      BY <2>3, <1>a DEF AcceptFails, TypeOK
    <3> QED BY <2>3, <1>a, <3>1, <3>2 DEF AcceptFails, Now, TypeOK
  <2>4. CASE Retry(s) \/ Wait(s)
    BY <2>4, <1>a DEF Retry, Wait, Now, TypeOK
  <2>5. CASE EndTask(s)
    BY <2>5, <1>a DEF EndTask, Now, Unjoined, TypeOK
  <2> QED BY <1>5, <2>1, <2>2, <2>3, <2>4, <2>5 DEF TaskStep
<1>6. ASSUME NEW s \in Starts, Stop(s) PROVE Goal
  <2>1. /\ entry' \in [Starts -> Statuses \cup {"absent"}]
        /\ doomed' \in SUBSET Starts
    BY <1>6, <1>a, Removal DEF Stop
  <2> QED BY <1>6, <1>a, <2>1 DEF Stop, TypeOK
<1>7. ASSUME NEW s \in Starts, Abort(s) PROVE Goal
  BY <1>7, <1>a DEF Abort, TypeOK
<1>8. ASSUME NEW c \in Conns, ConnectionStep(c) PROVE Goal
  <2>1. conn' \in [Conns -> [session : Starts \cup {None},
                             at : {"none", "accepted", "resolving", "resolved", "forwarding",
                                   "succeeded", "failed", "joined", "cut"}]]
    BY SMTT(30), <1>8, <1>a DEF ConnectionStep, MarkReconnecting, Resolve, MarkConnected, Close,
                      DropConnection, Goes, TypeOK
  <2>2. entry' \in [Starts -> Statuses \cup {"absent"}]
    <3>1. CASE MarkReconnecting(c) \/ MarkConnected(c)
      BY <3>1, <1>a, MarkStatus DEF MarkReconnecting, MarkConnected, Statuses
    <3>2. CASE Resolve(c) \/ Close(c) \/ DropConnection(c)
      BY <3>2, <1>a DEF Resolve, Close, DropConnection, TypeOK
    <3> QED BY <1>8, <3>1, <3>2 DEF ConnectionStep
  <2> QED BY <1>8, <1>a, <2>1, <2>2
          DEF ConnectionStep, MarkReconnecting, Resolve, MarkConnected, Close,
              DropConnection, TypeOK
<1>9. ASSUME UNCHANGED vars PROVE Goal
  BY <1>9, <1>a DEF vars, TypeOK
<1> HIDE DEF Goal, task, ui, command
<1> QED
  BY <1>1, <1>2, <1>3, <1>4, <1>5, <1>6, <1>7, <1>8, <1>9 DEF Next

\* What tasks and connections do to the sessions: they neither register nor
\* unregister any, and start no accept loop.
LEMMA TaskFrame ==
  ASSUME IInv,
         (\E s \in Starts : TaskStep(s)) \/ (\E c \in Conns : ConnectionStep(c))
  PROVE  /\ \A t \in Starts : Registered(t)' <=> Registered(t)
         /\ \A t \in Starts : loop'[t] = "none" <=> loop[t] = "none"
         /\ \A t \in Starts : Alive(t)' => Alive(t)
         /\ UNCHANGED <<call, ask, batch, local, doomed, aborted, scope, switches,
                        cleanups, unswept>>
<1> DEFINE Goal ==
      /\ \A t \in Starts : Registered(t)' <=> Registered(t)
      /\ \A t \in Starts : loop'[t] = "none" <=> loop[t] = "none"
      /\ \A t \in Starts : Alive(t)' => Alive(t)
      /\ UNCHANGED <<call, ask, batch, local, doomed, aborted, scope, switches,
                     cleanups, unswept>>
<1>a. TypeOK
  BY DEF IInv
<1> USE DEF command, ui, task
<1>1. ASSUME NEW s \in Starts, TaskStep(s) PROVE Goal
  <2>1. ASSUME NEW c \in Conns, Accept(s, c) PROVE Goal
    BY <2>1, <1>a DEF Accept, Polled, Now, Alive, Registered, TypeOK
  <2>2. ASSUME NEW c \in Conns, Join(s, c) PROVE Goal
    <3>1. \A t \in Starts : Registered(t)' <=> Registered(t)
      BY <2>2, <1>a, MarkStatus DEF Join, Registered, Statuses
    <3> QED BY <2>2, <1>a, <3>1 DEF Join, Polled, Now, Alive, TypeOK
  <2>3. CASE AcceptFails(s)
    <3>1. \A t \in Starts : Registered(t)' <=> Registered(t)
      BY <2>3, <1>a, MarkStatus DEF AcceptFails, Statuses
    <3> QED BY <2>3, <1>a, <3>1 DEF AcceptFails, Polled, Now, Alive, TypeOK
  <2>4. CASE Retry(s) \/ Wait(s)
    BY <2>4, <1>a DEF Retry, Wait, Now, Alive, Registered, TypeOK
  <2>5. CASE EndTask(s)
    BY <2>5, <1>a DEF EndTask, Now, Alive, Registered, TypeOK
  <2> QED BY <1>1, <2>1, <2>2, <2>3, <2>4, <2>5 DEF TaskStep
<1>2. ASSUME NEW c \in Conns, ConnectionStep(c) PROVE Goal
  <2>1. CASE MarkReconnecting(c) \/ MarkConnected(c)
    <3>1. \A t \in Starts : Registered(t)' <=> Registered(t)
      BY <2>1, <1>a, MarkStatus DEF MarkReconnecting, MarkConnected, Statuses
    <3> QED BY <2>1, <3>1 DEF MarkReconnecting, MarkConnected, Alive
  <2>2. CASE Resolve(c) \/ Close(c) \/ DropConnection(c)
    BY <2>2 DEF Resolve, Close, DropConnection, Alive, Registered
  <2> QED BY <1>2, <2>1, <2>2 DEF ConnectionStep
<1> QED BY <1>1, <1>2

\* What stopping and cleaning up do: they unregister sessions whose tasks are
\* then to be aborted.
LEMMA RemovalFrame ==
  ASSUME IInv, (\E s \in Starts : Stop(s)) \/ (\E k \in cleanups : CleanUp(k))
  PROVE  /\ \A t \in Starts : Registered(t)' => Registered(t) /\ entry'[t] = entry[t]
         /\ \A t \in Starts : Registered(t) => Registered(t)' \/ t \in doomed'
         /\ doomed \subseteq doomed'
         /\ UNCHANGED <<call, ask, batch, local, loop, aborted, conn, cut, scope, switches>>
<1>a. TypeOK
  BY DEF IInv
<1>1. PICK S \in SUBSET Starts : Remove(S)
  BY DEF Stop, CleanUp
<1>2. doomed \subseteq doomed' /\ S \subseteq doomed'
  BY <1>1 DEF Remove
<1>3. UNCHANGED <<call, ask, batch, local, loop, aborted, conn, cut, scope, switches>>
  BY DEF Stop, CleanUp, command, task, ui
<1> QED BY <1>1, <1>2, <1>3, <1>a, Removal

\* Sessions are registered by their command, after their task was spawned.
LEMMA SessionsStep == IInv /\ [Next]_vars => Sessions'
<1> DEFINE Goal == Sessions'
<1> SUFFICES ASSUME IInv, [Next]_vars PROVE Goal
  OBVIOUS
<1>a. TypeOK /\ Sessions
  BY DEF IInv
<1> USE DEF task, ui, command
<1>1. ASSUME NEW S \in SUBSET Starts, NEW port \in [S -> Ports \cup {AnyPort}],
             NEW context \in [S -> Contexts], StartForwards(S, port, context)
      PROVE  Goal
  BY <1>1, <1>a DEF StartForwards, Sessions, Registered, TypeOK
<1>2. ASSUME NEW to \in Scopes, SwitchScope(to) PROVE Goal
  BY <1>2, <1>a DEF SwitchScope, Sessions, Registered
<1>3. CASE (\E s \in Starts : Stop(s)) \/ (\E k \in cleanups : CleanUp(k))
  BY <1>3, <1>a, RemovalFrame DEF Sessions
<1>4. ASSUME NEW s \in Starts, CommandStep(s) PROVE Goal
  <2>1. CASE Invoke(s)
    BY <2>1, <1>a DEF Invoke, Sessions, Registered, TypeOK
  <2>2. CASE CheckPort(s) \/ Bind(s) \/ RecheckPort(s) \/ Verify(s)
    <3>1. Keeps(s)
      BY <2>2, <1>a, EarlyStep
    <3>2. ~Registered(s) /\ loop[s] = "none"
      BY <3>1, <1>a DEF Keeps, Sessions
    <3> QED BY <3>1, <3>2, <1>a DEF Keeps, Sessions, Registered
  <2>3. CASE Spawn(s)
    BY <2>3, <1>a DEF Spawn, Advances, Sessions, Registered, TypeOK
  <2>4. CASE Insert(s)
    BY <2>4, <1>a DEF Insert, Sessions, Registered, TypeOK
  <2> QED BY <1>4, <2>1, <2>2, <2>3, <2>4 DEF CommandStep
<1>5. CASE (\E s \in Starts : TaskStep(s)) \/ (\E c \in Conns : ConnectionStep(c))
  BY <1>5, <1>a, TaskFrame DEF Sessions
<1>6. ASSUME NEW s \in Starts, Abort(s) PROVE Goal
  BY <1>6, <1>a DEF Abort, Sessions, Registered
<1>7. ASSUME UNCHANGED vars PROVE Goal
  BY <1>7, <1>a DEF vars, Sessions, Registered
<1> HIDE DEF Goal, task, ui, command
<1> QED
  BY <1>1, <1>2, <1>3, <1>4, <1>5, <1>6, <1>7 DEF Next

\* A port is compared with those of all sessions when its own is registered.
LEMMA PortsStep == IInv /\ [Next]_vars => PortsAreUnique'
<1> DEFINE Goal == PortsAreUnique'
<1> SUFFICES ASSUME IInv, [Next]_vars PROVE Goal
  OBVIOUS
<1>a. TypeOK /\ Sessions /\ PortsAreUnique
  BY DEF IInv
<1> USE DEF task, ui, command
<1>1. ASSUME NEW S \in SUBSET Starts, NEW port \in [S -> Ports \cup {AnyPort}],
             NEW context \in [S -> Contexts], StartForwards(S, port, context)
      PROVE  Goal
  BY <1>1, <1>a DEF StartForwards, PortsAreUnique, Registered
<1>2. ASSUME NEW to \in Scopes, SwitchScope(to) PROVE Goal
  BY <1>2, <1>a DEF SwitchScope, PortsAreUnique, Registered
<1>3. CASE (\E s \in Starts : Stop(s)) \/ (\E k \in cleanups : CleanUp(k))
  BY <1>3, <1>a, RemovalFrame DEF PortsAreUnique
<1>4. ASSUME NEW s \in Starts, CommandStep(s) PROVE Goal
  <2>1. CASE Invoke(s)
    BY <2>1, <1>a DEF Invoke, PortsAreUnique, Registered
  <2>2. CASE CheckPort(s) \/ Bind(s) \/ RecheckPort(s) \/ Verify(s)
    <3>1. Keeps(s)
      BY <2>2, <1>a, EarlyStep
    <3>2. ~Registered(s)
      BY <3>1, <1>a DEF Keeps, Sessions
    <3> QED BY <3>1, <3>2, <1>a DEF Keeps, PortsAreUnique, Registered
  <2>3. CASE Spawn(s)
    BY <2>3, <1>a DEF Spawn, Advances, PortsAreUnique, Registered
  <2>4. CASE Insert(s)
    <3>1. \A t \in Starts \ {s} : Registered(t)' <=> Registered(t)
      BY <2>4, <1>a DEF Insert, Registered, TypeOK
    <3>2. Registered(s)' => ~HasLocalPort(local[s])
      BY <2>4, <1>a DEF Insert, Registered, Sessions
    <3>3. local' = local
      BY <2>4 DEF Insert
    <3> QED BY <3>1, <3>2, <3>3, <1>a DEF HasLocalPort, PortsAreUnique
  <2> QED BY <1>4, <2>1, <2>2, <2>3, <2>4 DEF CommandStep
<1>5. CASE (\E s \in Starts : TaskStep(s)) \/ (\E c \in Conns : ConnectionStep(c))
  BY <1>5, <1>a, TaskFrame DEF PortsAreUnique
<1>6. ASSUME NEW s \in Starts, Abort(s) PROVE Goal
  BY <1>6, <1>a DEF Abort, PortsAreUnique, Registered
<1>7. ASSUME UNCHANGED vars PROVE Goal
  BY <1>7, <1>a DEF vars, PortsAreUnique, Registered
<1> HIDE DEF Goal, task, ui, command
<1> QED
  BY <1>1, <1>2, <1>3, <1>4, <1>5, <1>6, <1>7 DEF Next

\* A tunnel is listed, about to be listed, or about to be aborted.
LEMMA TunnelsStep == IInv /\ [Next]_vars => TunnelsAreStoppable'
<1> DEFINE Goal == TunnelsAreStoppable'
<1> SUFFICES ASSUME IInv, [Next]_vars PROVE Goal
  OBVIOUS
<1>a. TypeOK /\ Sessions /\ TunnelsAreStoppable
  BY DEF IInv
<1> USE DEF task, ui, command
<1>1. ASSUME NEW S \in SUBSET Starts, NEW port \in [S -> Ports \cup {AnyPort}],
             NEW context \in [S -> Contexts], StartForwards(S, port, context)
      PROVE  Goal
  BY <1>1, <1>a DEF StartForwards, TunnelsAreStoppable, Alive, Registered, TypeOK
<1>2. ASSUME NEW to \in Scopes, SwitchScope(to) PROVE Goal
  BY <1>2, <1>a DEF SwitchScope, TunnelsAreStoppable, Alive, Registered
<1>3. CASE (\E s \in Starts : Stop(s)) \/ (\E k \in cleanups : CleanUp(k))
  BY <1>3, <1>a, RemovalFrame DEF TunnelsAreStoppable, Alive
<1>4. ASSUME NEW s \in Starts, CommandStep(s) PROVE Goal
  <2>1. CASE Invoke(s)
    BY <2>1, <1>a DEF Invoke, TunnelsAreStoppable, Alive, Registered, TypeOK
  <2>2. CASE CheckPort(s) \/ Bind(s) \/ RecheckPort(s) \/ Verify(s)
    <3>1. Keeps(s)
      BY <2>2, <1>a, EarlyStep
    <3>2. ~Alive(s)
      BY <3>1, <1>a DEF Keeps, Sessions, Alive
    <3> QED BY <3>1, <3>2, <1>a DEF Keeps, TunnelsAreStoppable, Alive, Registered
  <2>3. CASE Spawn(s)
    BY <2>3, <1>a DEF Spawn, Advances, TunnelsAreStoppable, Alive, Registered, TypeOK
  <2>4. CASE Insert(s)
    <3>1. \A t \in Starts \ {s} : (Registered(t)' <=> Registered(t)) /\ call'[t] = call[t]
      BY <2>4, <1>a DEF Insert, Registered, TypeOK
    <3>2. Registered(s)' \/ s \in aborted'
      BY <2>4, <1>a DEF Insert, Registered, TypeOK
    <3>3. aborted \subseteq aborted' /\ UNCHANGED <<loop, doomed>>
      BY <2>4 DEF Insert
    <3> QED BY <3>1, <3>2, <3>3, <1>a DEF TunnelsAreStoppable, Alive
  <2> QED BY <1>4, <2>1, <2>2, <2>3, <2>4 DEF CommandStep
<1>5. CASE (\E s \in Starts : TaskStep(s)) \/ (\E c \in Conns : ConnectionStep(c))
  BY <1>5, <1>a, TaskFrame DEF TunnelsAreStoppable
<1>6. ASSUME NEW s \in Starts, Abort(s) PROVE Goal
  BY <1>6, <1>a DEF Abort, TunnelsAreStoppable, Alive, Registered
<1>7. ASSUME UNCHANGED vars PROVE Goal
  BY <1>7, <1>a DEF vars, TunnelsAreStoppable, Alive, Registered
<1> HIDE DEF Goal, task, ui, command
<1> QED
  BY <1>1, <1>2, <1>3, <1>4, <1>5, <1>6, <1>7 DEF Next

\* An accept loop starts once, and aborts its connections when it ends.
LEMMA ConnectionsStep == IInv /\ [Next]_vars => Connections'
<1> DEFINE Goal == Connections'
<1> SUFFICES ASSUME IInv, [Next]_vars PROVE Goal
  OBVIOUS
<1>a. TypeOK /\ Sessions /\ Connections
  BY DEF IInv
<1> USE DEF task, ui, command
<1>1. ASSUME UNCHANGED <<loop, conn, cut>> PROVE Goal
  BY <1>1, <1>a DEF Connections
<1>2. ASSUME NEW S \in SUBSET Starts, NEW port \in [S -> Ports \cup {AnyPort}],
             NEW context \in [S -> Contexts], StartForwards(S, port, context)
      PROVE  Goal
  BY <1>2, <1>1 DEF StartForwards
<1>3. ASSUME NEW to \in Scopes, SwitchScope(to) PROVE Goal
  BY <1>3, <1>1 DEF SwitchScope
<1>4. CASE (\E s \in Starts : Stop(s)) \/ (\E k \in cleanups : CleanUp(k))
  BY <1>4, <1>1, RemovalFrame
<1>5. ASSUME NEW s \in Starts, CommandStep(s) PROVE Goal
  <2>1. CASE Spawn(s)
    <3>1. loop[s] = "none"
      BY <2>1, <1>a DEF Spawn, Sessions
    <3>2. \A c \in cut : conn[c].session # s
      BY <3>1, <1>a DEF Connections, TypeOK
    <3>3. UNCHANGED <<conn, cut>> /\ \A t : t # s => loop'[t] = loop[t]
      BY <2>1, <1>a DEF Spawn, TypeOK
    <3> QED BY <3>2, <3>3, <1>a DEF Connections
  <2>2. CASE CheckPort(s) \/ Bind(s) \/ RecheckPort(s) \/ Verify(s)
    BY <2>2, <1>1, <1>a, EarlyStep DEF Keeps
  <2>3. CASE Invoke(s) \/ Insert(s)
    BY <2>3, <1>1 DEF Invoke, Insert
  <2> QED BY <1>5, <2>1, <2>2, <2>3 DEF CommandStep
<1>6. ASSUME NEW s \in Starts, TaskStep(s) PROVE Goal
  <2>1. ASSUME NEW c \in Conns, Accept(s, c) PROVE Goal
    <3>1. c \notin cut /\ cut' = cut /\ loop[s] # "ended"
      BY <2>1, <1>a DEF Accept, Polled, Connections
    <3>2. \A t : t # s => loop'[t] = loop[t]
      BY <2>1, <1>a DEF Accept, Now, TypeOK
    <3>3. \A d \in Conns \ {c} : conn'[d] = conn[d]
      BY <2>1, <1>a DEF Accept, TypeOK
    <3>4. conn'[c].at # "none" /\ conn'[c].session # None
      BY <2>1, <1>a DEF Accept, TypeOK
    <3> QED BY <3>1, <3>2, <3>3, <3>4, <1>a DEF Connections
  <2>2. ASSUME NEW c \in Conns, Join(s, c) PROVE Goal
    <3>1. conn[c].session = s /\ cut' = cut /\ loop[s] # "ended"
      BY <2>2 DEF Join, Polled
    <3>2. \A t : t # s => loop'[t] = loop[t]
      BY <2>2, <1>a DEF Join, Now, TypeOK
    <3>3. \A d \in Conns \ {c} : conn'[d] = conn[d]
      BY <2>2, <1>a DEF Join, TypeOK
    <3>4. conn'[c].at # "none" /\ conn'[c].session = conn[c].session
      BY <2>2, <1>a DEF Join, TypeOK
    <3> QED BY <3>1, <3>2, <3>3, <3>4, <1>a DEF Connections
  <2>3. CASE AcceptFails(s)
    <3>1. UNCHANGED <<conn, cut>> /\ loop[s] # "ended"
      BY <2>3 DEF AcceptFails, Polled
    <3>2. \A t \in Starts \ {s} : loop'[t] = loop[t]
      BY <2>3, <1>a DEF AcceptFails, Now, TypeOK
    <3> QED BY <3>1, <3>2, <1>a DEF Connections, TypeOK
  <2>4. CASE Retry(s) \/ Wait(s)
    <3>1. UNCHANGED <<conn, cut>> /\ loop[s] # "ended"
      BY <2>4 DEF Retry, Wait
    <3>2. \A t \in Starts \ {s} : loop'[t] = loop[t]
      BY <2>4, <1>a DEF Retry, Wait, Now, TypeOK
    <3> QED BY <3>1, <3>2, <1>a DEF Connections, TypeOK
  <2>5. CASE EndTask(s)
    <3>1. conn' = conn /\ cut' = cut \cup Unjoined(s)
      BY <2>5 DEF EndTask
    <3>2. loop'[s] = "ended" /\ \A t : t # s => loop'[t] = loop[t]
      BY <2>5, <1>a DEF EndTask, Now, TypeOK
    <3>3. \A c \in Unjoined(s) : conn[c].session = s /\ conn[c].at # "none"
      BY <1>a DEF Unjoined, Connections
    <3> QED BY <3>1, <3>2, <3>3, <1>a DEF Connections
  <2> QED BY <1>6, <2>1, <2>2, <2>3, <2>4, <2>5 DEF TaskStep
<1>7. ASSUME NEW s \in Starts, Abort(s) PROVE Goal
  BY <1>7, <1>1 DEF Abort
<1>8. ASSUME NEW c \in Conns, ConnectionStep(c) PROVE Goal
  <2>1. UNCHANGED <<loop, cut>>
    BY <1>8 DEF ConnectionStep, MarkReconnecting, Resolve, MarkConnected, Close, DropConnection
  <2>2. conn[c].at # "none" /\ conn'[c].at # "none" /\ conn'[c].session = conn[c].session
    BY <1>8, <1>a DEF ConnectionStep, MarkReconnecting, Resolve, MarkConnected, Close,
                      DropConnection, Goes, TypeOK
  <2>3. \A d \in Conns \ {c} : conn'[d] = conn[d]
    BY <1>8, <1>a DEF ConnectionStep, MarkReconnecting, Resolve, MarkConnected, Close,
                      DropConnection, Goes, TypeOK
  <2> QED BY <2>1, <2>2, <2>3, <1>a DEF Connections
<1>9. ASSUME UNCHANGED vars PROVE Goal
  BY <1>9, <1>1 DEF vars
<1> HIDE DEF Goal, task, ui, command
<1> QED
  BY <1>2, <1>3, <1>4, <1>5, <1>6, <1>7, <1>8, <1>9 DEF Next

\* A connection that stays unjoined keeps the status of its session right.
LEMMA StatusFrame ==
  ASSUME ConnectedMeansConnections,
         \A s \in Starts : Alive(s)' => Alive(s),
         \A s \in Starts :
            Alive(s)' => \/ entry'[s] = entry[s] /\ Unjoined(s) \subseteq Unjoined(s)'
                         \/ entry'[s] \notin {"connected", "reconnecting"}
                         \/ Unjoined(s)' # {}
  PROVE  ConnectedMeansConnections'
  BY DEF ConnectedMeansConnections

\* The status is reset when the last connection is joined.
LEMMA StatusStep == IInv /\ [Next]_vars => ConnectedMeansConnections'
<1> DEFINE Goal == ConnectedMeansConnections'
<1> SUFFICES ASSUME IInv, [Next]_vars PROVE Goal
  OBVIOUS
<1>a. TypeOK /\ Sessions /\ Connections /\ ConnectedMeansConnections
  BY DEF IInv
<1> USE DEF task, ui, command
<1>1. ASSUME UNCHANGED <<loop, conn, entry>> PROVE Goal
  BY <1>1, <1>a DEF ConnectedMeansConnections, Alive, Unjoined
<1>2. ASSUME NEW S \in SUBSET Starts, NEW port \in [S -> Ports \cup {AnyPort}],
             NEW context \in [S -> Contexts], StartForwards(S, port, context)
      PROVE  Goal
  BY <1>2, <1>1 DEF StartForwards
<1>3. ASSUME NEW to \in Scopes, SwitchScope(to) PROVE Goal
  BY <1>3, <1>1 DEF SwitchScope
<1>4. CASE (\E s \in Starts : Stop(s)) \/ (\E k \in cleanups : CleanUp(k))
  <2>1. \A s \in Starts : entry'[s] \in {entry[s], "absent"}
    BY <1>4, RemovalFrame DEF Registered
  <2>2. UNCHANGED <<loop, conn>>
    BY <1>4, RemovalFrame
  <2> QED BY <2>1, <2>2, <1>a DEF ConnectedMeansConnections, Alive, Unjoined
<1>5. ASSUME NEW s \in Starts, CommandStep(s) PROVE Goal
  <2>1. CASE Spawn(s)
    <3>1. entry[s] = "absent"
      BY <2>1, <1>a DEF Spawn, Sessions, Registered
    <3>2. UNCHANGED <<conn, entry>> /\ \A t \in Starts \ {s} : loop'[t] = loop[t]
      BY <2>1, <1>a DEF Spawn, TypeOK
    <3> QED BY <3>1, <3>2, <1>a DEF ConnectedMeansConnections, Alive, Unjoined
  <2>2. CASE CheckPort(s) \/ Bind(s) \/ RecheckPort(s) \/ Verify(s)
    BY <2>2, <1>1, <1>a, EarlyStep DEF Keeps
  <2>3. CASE Invoke(s)
    BY <2>3, <1>1 DEF Invoke
  <2>4. CASE Insert(s)
    <3>1. UNCHANGED <<loop, conn>> /\ \A t \in Starts : entry'[t] \in {entry[t], "listening"}
      BY <2>4, <1>a DEF Insert, TypeOK
    <3> QED BY <3>1, <1>a DEF ConnectedMeansConnections, Alive, Unjoined
  <2> QED BY <1>5, <2>1, <2>2, <2>3, <2>4 DEF CommandStep
<1>6. ASSUME NEW s \in Starts, TaskStep(s) PROVE Goal
  <2>a. \A t \in Starts : Alive(t)' => Alive(t)
    BY <1>6, TaskFrame
  <2>1. ASSUME NEW c \in Conns, Accept(s, c) PROVE Goal
    <3>1. entry' = entry
      BY <2>1 DEF Accept
    <3>2. \A t \in Starts : c \notin Unjoined(t)
      BY <2>1, <1>a DEF Accept, Connections, Unjoined
    <3>3. \A d \in Conns \ {c} : conn'[d] = conn[d]
      BY <2>1, <1>a DEF Accept, TypeOK
    <3>4. \A t \in Starts : Unjoined(t) \subseteq Unjoined(t)'
      BY <3>2, <3>3 DEF Unjoined
    <3> QED BY <2>a, <3>1, <3>4, <1>a, StatusFrame
  <2>2. ASSUME NEW c \in Conns, Join(s, c) PROVE Goal
    <3>1. \A d \in Conns \ {c} : conn'[d] = conn[d]
      BY <2>2, <1>a DEF Join, TypeOK
    <3>2. \A t \in Starts : Unjoined(t) \ {c} \subseteq Unjoined(t)'
      BY <3>1 DEF Unjoined
    <3>3. \A t \in Starts \ {s} : c \notin Unjoined(t)
      BY <2>2 DEF Join, Unjoined
    <3>4. \A t \in Starts \ {s} : entry'[t] = entry[t]
      BY <2>2, <1>a, MarkStatus DEF Join, Statuses
    <3>5. /\ entry'[s] \in {entry[s], "absent", "listening", "error"}
          /\ entry'[s] = entry[s] =>
                entry[s] \in {"absent", "error", "listening"} \/ Unjoined(s) # {c}
      BY <2>2, <1>a DEF Join, mark_status, Registered, TypeOK
    <3>6. c \in Unjoined(s)
      BY <2>2 DEF Join, Unjoined
    <3>7. entry'[s] \notin {"connected", "reconnecting"} \/ Unjoined(s)' # {}
      BY <3>2, <3>5, <3>6
    <3> QED BY <2>a, <3>2, <3>3, <3>4, <3>7, <1>a, StatusFrame
  <2>3. CASE AcceptFails(s)
    <3>1. conn' = conn
      BY <2>3 DEF AcceptFails
    <3>2. \A t \in Starts \ {s} : entry'[t] = entry[t]
      BY <2>3, <1>a, MarkStatus DEF AcceptFails, Statuses
    <3>3. entry'[s] \notin {"connected", "reconnecting"}
      BY <2>3, <1>a DEF AcceptFails, mark_status, Registered, TypeOK
    <3>4. \A t \in Starts : Unjoined(t)' = Unjoined(t)
      BY <3>1 DEF Unjoined
    <3> QED BY <2>a, <3>2, <3>3, <3>4, <1>a, StatusFrame
  <2>4. CASE Retry(s) \/ Wait(s) \/ EndTask(s)
    <3>1. UNCHANGED <<conn, entry>>
      BY <2>4 DEF Retry, Wait, EndTask
    <3>2. \A t \in Starts : Unjoined(t)' = Unjoined(t)
      BY <3>1 DEF Unjoined
    <3> QED BY <2>a, <3>1, <3>2, <1>a, StatusFrame
  <2> QED BY <1>6, <2>1, <2>2, <2>3, <2>4 DEF TaskStep
<1>7. ASSUME NEW s \in Starts, Abort(s) PROVE Goal
  BY <1>7, <1>1 DEF Abort
<1>8. ASSUME NEW c \in Conns, ConnectionStep(c) PROVE Goal
  <2>a. \A t \in Starts : Alive(t)' => Alive(t)
    BY <1>8, TaskFrame
  <2>b. /\ \A d \in Conns \ {c} : conn'[d] = conn[d]
        /\ conn'[c].session = conn[c].session
    BY <1>8, <1>a DEF ConnectionStep, MarkReconnecting, Resolve, MarkConnected, Close,
                      DropConnection, Goes, TypeOK
  <2>1. CASE DropConnection(c)
    <3>1. loop' = loop /\ entry' = entry /\ c \in cut
      BY <2>1 DEF DropConnection
    <3>2. \A t \in Starts : Alive(t) => c \notin Unjoined(t)
      BY <3>1, <1>a DEF Connections, Unjoined, Alive
    <3>3. \A t \in Starts : Alive(t) => Unjoined(t) \subseteq Unjoined(t)'
      BY <3>2, <2>b DEF Unjoined
    <3> QED BY <2>a, <3>1, <3>3, <1>a, StatusFrame
  <2>2. CASE Resolve(c) \/ Close(c)
    <3>1. entry' = entry /\ conn'[c].at \notin {"joined", "cut"}
      BY <2>2, <1>a DEF Resolve, Close, Goes, TypeOK
    <3>2. \A t \in Starts : Unjoined(t) \subseteq Unjoined(t)'
      BY <3>1, <2>b DEF Unjoined
    <3> QED BY <2>a, <3>1, <3>2, <1>a, StatusFrame
  <2>3. CASE MarkReconnecting(c) \/ MarkConnected(c)
    <3>1. conn'[c].at \notin {"joined", "cut"}
      BY <2>3, <1>a DEF MarkReconnecting, MarkConnected, Goes, TypeOK
    <3>2. \A t \in Starts : Unjoined(t) \subseteq Unjoined(t)'
      BY <3>1, <2>b DEF Unjoined
    <3>3. \A t \in Starts : t # conn[c].session => entry'[t] = entry[t]
      BY <2>3, <1>a, MarkStatus DEF MarkReconnecting, MarkConnected, Statuses
    <3>4. \A t \in Starts : t = conn[c].session => Unjoined(t)' # {}
      BY <3>1, <2>b DEF Unjoined
    <3> QED BY <2>a, <3>2, <3>3, <3>4, <1>a, StatusFrame
  <2> QED BY <1>8, <2>1, <2>2, <2>3 DEF ConnectionStep
<1>9. ASSUME UNCHANGED vars PROVE Goal
  BY <1>9, <1>1 DEF vars
<1> HIDE DEF Goal, task, ui, command
<1> QED
  BY <1>2, <1>3, <1>4, <1>5, <1>6, <1>7, <1>8, <1>9 DEF Next

-----------------------------------------------------------------------------

\* Cleanups are numbered like the changes of scope that request them.
LEMMA CleanupsStep == IInv /\ [Next]_vars => Cleanups'
<1> DEFINE Goal == Cleanups'
<1> SUFFICES ASSUME IInv, [Next]_vars PROVE Goal
  OBVIOUS
<1>a. TypeOK /\ Cleanups
  BY DEF IInv
<1> USE DEF task, ui, command
<1>1. ASSUME UNCHANGED <<scope, switches>>, cleanups' \subseteq cleanups PROVE Goal
  BY <1>1, <1>a DEF Cleanups
<1>2. ASSUME NEW S \in SUBSET Starts, NEW port \in [S -> Ports \cup {AnyPort}],
             NEW context \in [S -> Contexts], StartForwards(S, port, context)
      PROVE  Goal
  BY <1>2, <1>1 DEF StartForwards
<1>3. ASSUME NEW to \in Scopes, SwitchScope(to) PROVE Goal
  <2>1. cleanups \subseteq [n : 1 .. MaxSwitches, scope : Scopes] /\ switches \in Nat
    BY <1>a DEF TypeOK
  <2> QED BY <1>3, <2>1, <1>a DEF SwitchScope, Cleanups
<1>4. ASSUME NEW k \in cleanups, CleanUp(k) PROVE Goal
  BY <1>4, <1>1 DEF CleanUp
<1>5. ASSUME NEW s \in Starts, CommandStep(s) PROVE Goal
  <2>1. CASE CheckPort(s) \/ Bind(s) \/ RecheckPort(s) \/ Verify(s)
    BY <2>1, <1>1, <1>a, EarlyStep DEF Keeps
  <2>2. CASE Invoke(s) \/ Spawn(s) \/ Insert(s)
    BY <2>2, <1>1 DEF Invoke, Spawn, Insert
  <2> QED BY <1>5, <2>1, <2>2 DEF CommandStep
<1>6. CASE (\E s \in Starts : TaskStep(s)) \/ (\E c \in Conns : ConnectionStep(c))
  BY <1>6, <1>1, TaskFrame
<1>7. ASSUME NEW s \in Starts, Stop(s) \/ Abort(s) PROVE Goal
  BY <1>7, <1>1 DEF Stop, Abort
<1>8. ASSUME UNCHANGED vars PROVE Goal
  BY <1>8, <1>1 DEF vars
<1> HIDE DEF Goal, task, ui, command
<1> QED
  BY <1>2, <1>3, <1>4, <1>5, <1>6, <1>7, <1>8 DEF Next

\* After the newest cleanup, new starts are in scope and old ones unswept.
LEMMA SweptStep == IInv /\ [Next]_vars => Swept'
<1> DEFINE Goal == Swept'
<1> SUFFICES ASSUME IInv, [Next]_vars PROVE Goal
  OBVIOUS
<1>a. TypeOK /\ Sessions /\ Cleanups /\ Swept
  BY DEF IInv
<1> USE DEF task, ui, command
<1>1. ASSUME UNCHANGED <<ask, scope, switches, cleanups, unswept>>,
             \A s \in Starts : Pending(s)' => Pending(s),
             \A s \in Starts : Registered(s)' => Registered(s) \/ Pending(s)
      PROVE  Goal
  BY <1>1, <1>a DEF Swept, Cleaned, Within
<1>2. ASSUME NEW S \in SUBSET Starts, NEW port \in [S -> Ports \cup {AnyPort}],
             NEW context \in [S -> Contexts], StartForwards(S, port, context)
      PROVE  Goal
  <2>1. UNCHANGED <<entry, scope, switches, cleanups, unswept>>
    BY <1>2 DEF StartForwards
  <2>2. \A s \in S : Within(s, scope)'
    BY <1>2, <1>a DEF StartForwards, Within, TypeOK, Asks
  <2>3. \A s \in Starts \ S : ask'[s] = ask[s] /\ call'[s] = call[s]
    BY <1>2 DEF StartForwards
  <2>4. \A s \in Starts \ S : (Pending(s)' => Pending(s)) /\ (Registered(s)' => Registered(s))
    BY <2>1, <2>3 DEF Pending, Going, Registered
  <2>5. Cleaned' => Cleaned
    BY <2>1 DEF Cleaned
  <2> QED BY <2>1, <2>2, <2>3, <2>4, <2>5, <1>a DEF Swept, Within
<1>3. ASSUME NEW to \in Scopes, SwitchScope(to) PROVE Goal
  <2>1. \E k \in cleanups' : k.n = switches'
    <3> DEFINE k == [n |-> switches + 1, scope |-> to]
    <3>1. k \in cleanups' /\ k.n = switches'
      BY <1>3 DEF SwitchScope
    <3> QED BY <3>1
  <2>2. ~Cleaned'
    BY <2>1 DEF Cleaned
  <2> QED BY <2>2 DEF Swept
<1>4. ASSUME NEW k \in cleanups, CleanUp(k) PROVE Goal
  <2>1. UNCHANGED <<call, ask, scope, switches>> /\ cleanups' = cleanups \ {k}
    BY <1>4 DEF CleanUp
  <2>2. \A s \in Starts : Registered(s)' => Registered(s) /\ ~Outside(s, k.scope)
    <3> DEFINE S == {s \in Starts : Registered(s) /\ Outside(s, k.scope)}
    <3>1. S \in SUBSET Starts /\ Remove(S)
      BY <1>4 DEF CleanUp
    <3> HIDE DEF S
    <3>2. \A t \in Starts : Registered(t)' <=> Registered(t) /\ t \notin S
      BY <3>1, <1>a, Removal
    <3> QED BY <3>2 DEF S
  <2>3. \A s \in Starts : Pending(s)' <=> Pending(s)
    BY <2>1 DEF Pending, Going
  <2>4. CASE k.n = switches
    <3>1. k.scope = scope /\ unswept' = {s \in Starts : Pending(s)}
      BY <1>4, <2>4, <1>a DEF CleanUp, Cleanups
    <3> QED BY <2>1, <2>2, <2>3, <3>1 DEF Swept, Outside, Within
  <2>5. CASE k.n # switches
    <3>1. unswept' = unswept /\ (Cleaned' => Cleaned)
      BY <1>4, <2>1, <2>5 DEF CleanUp, Cleaned
    <3> QED BY <2>1, <2>2, <2>3, <3>1, <1>a DEF Swept, Within
  <2> QED BY <2>4, <2>5
<1>5. ASSUME NEW s \in Starts, CommandStep(s) PROVE Goal
  <2>1. CASE Invoke(s)
    BY <2>1, <1>1, <1>a DEF Invoke, Pending, Going, Registered, TypeOK
  <2>2. CASE CheckPort(s) \/ Bind(s) \/ RecheckPort(s) \/ Verify(s)
    <3>1. Keeps(s)
      BY <2>2, <1>a, EarlyStep
    <3>2. \A t \in Starts : Pending(t)' => Pending(t)
      BY <3>1 DEF Keeps, Pending, Going
    <3> QED BY <3>1, <3>2, <1>1 DEF Keeps, Registered
  <2>3. CASE Spawn(s)
    BY <2>3, <1>1, <1>a DEF Spawn, Advances, Pending, Going, Registered, TypeOK
  <2>4. CASE Insert(s)
    <3>1. UNCHANGED <<ask, scope, switches, cleanups, unswept>> /\ Pending(s)
      BY <2>4 DEF Insert, Pending, Going
    <3>2. \A t \in Starts : Pending(t)' => Pending(t)
      BY <2>4, <1>a DEF Insert, Pending, Going, TypeOK
    <3>3. \A t \in Starts \ {s} : Registered(t)' => Registered(t)
      BY <2>4, <1>a DEF Insert, Registered, TypeOK
    <3> QED BY <3>1, <3>2, <3>3, <1>1
  <2> QED BY <1>5, <2>1, <2>2, <2>3, <2>4 DEF CommandStep
<1>6. CASE (\E s \in Starts : TaskStep(s)) \/ (\E c \in Conns : ConnectionStep(c))
  <2>1. call' = call
    BY <1>6, TaskFrame
  <2>2. \A s \in Starts : Pending(s)' <=> Pending(s)
    BY <2>1 DEF Pending, Going
  <2> QED BY <1>6, <1>1, <2>2, TaskFrame
<1>7. ASSUME NEW s \in Starts, Stop(s) PROVE Goal
  <2>1. call' = call /\ UNCHANGED <<ask, scope, switches, cleanups, unswept>>
    BY <1>7 DEF Stop
  <2>2. \A t \in Starts : (Pending(t)' <=> Pending(t)) /\ (Registered(t)' => Registered(t))
    BY <1>7, <2>1, RemovalFrame DEF Pending, Going
  <2> QED BY <2>1, <2>2, <1>1
<1>8. ASSUME NEW s \in Starts, Abort(s) PROVE Goal
  BY <1>8, <1>1 DEF Abort, Pending, Going, Registered
<1>9. ASSUME UNCHANGED vars PROVE Goal
  BY <1>9, <1>1 DEF vars, Pending, Going, Registered
<1> HIDE DEF Goal, task, ui, command
<1> QED
  BY <1>2, <1>3, <1>4, <1>5, <1>6, <1>7, <1>8, <1>9 DEF Next

-----------------------------------------------------------------------------

\* The inductive invariant holds in every reachable state.
LEMMA Invariance == Spec => []IInv
<1>1. IInv /\ [Next]_vars => IInv'
  BY TypeStep, SessionsStep, PortsStep, TunnelsStep, ConnectionsStep, StatusStep,
     CleanupsStep, SweptStep DEF IInv
<1> QED
  BY InitIInv, <1>1, PTL DEF Spec

\* Every variable keeps its type, whatever commands, tasks and connections do.
THEOREM TypeCorrect == Spec => []TypeOK
<1>1. IInv => TypeOK
  BY DEF IInv
<1> QED
  BY Invariance, <1>1, PTL

\* No two registered sessions have one local port, although the port of a start
\* is checked several steps before its session is registered.
THEOREM PortsNeverClash == Spec => []PortsAreUnique
<1>1. IInv => PortsAreUnique
  BY DEF IInv
<1> QED
  BY Invariance, <1>1, PTL

\* A task that accepts connections can always be stopped: the registry holds
\* its handle, or somebody is about to put it there or to abort it.
THEOREM TunnelsStayStoppable == Spec => []TunnelsAreStoppable
<1>1. IInv => TunnelsAreStoppable
  BY DEF IInv
<1> QED
  BY Invariance, <1>1, PTL

\* A session that is shown as connected has a connection, in whatever order its
\* connections resolve, close and fail.
THEOREM StatusFollowsConnections == Spec => []ConnectedMeansConnections
<1>1. IInv => ConnectedMeansConnections
  BY DEF IInv
<1> QED
  BY Invariance, <1>1, PTL

\* Once the cleanup of the newest scope has run, whatever other cleanups are
\* still to come, only starts that were in flight then can be out of scope.
THEOREM CleanupLeavesLateStarts == Spec => []OnlyLateStartsSurvive
<1>1. IInv => OnlyLateStartsSurvive
  BY DEF IInv, Swept, OnlyLateStartsSurvive
<1> QED
  BY Invariance, <1>1, PTL

\* The registry is sound, for any starts, connections and ports.
THEOREM ForwardsStaySound == Spec => []ForwardsAreSound
BY TypeCorrect, PortsNeverClash, StatusFollowsConnections, PTL DEF ForwardsAreSound
=============================================================================
