---------------------------- MODULE StreamRegistry ----------------------------
(***************************************************************************)
(* The registry of live streams (commands/streams/registry.rs), the        *)
(* commands that use it (commands/streams.rs) and the sending side of the  *)
(* watch tasks (commands/streams/watch.rs).                                *)
(*                                                                         *)
(* A view starts a stream over one or more watch keys.  Streams over the   *)
(* same key share one watch: a broadcaster with the subscribers' channels, *)
(* and a task that sends to it.  Every broadcaster gets at most one task,  *)
(* so a task, and the JoinHandle that aborts it, is named by its           *)
(* broadcaster.  The registry's maps are under one mutex and a             *)
(* broadcaster's subscribers under another: subscribing holds the first    *)
(* and takes the second twice, sending takes only the second, four times.  *)
(*                                                                         *)
(* Bounds: every stream is started at most once (ids are never reused) and *)
(* there are at most as many watches, over time, as Broadcasters.          *)
(***************************************************************************)
EXTENDS Naturals

CONSTANTS
    Streams,        \* stream ids, one for each start command
    ResourceKeys,   \* keys of resource_watches
    EventKeys,      \* keys of event_watches
    Broadcasters,   \* identities of the StreamBroadcasters
    None

Keys == ResourceKeys \cup EventKeys

ASSUME KeysAssumption == ResourceKeys \cap EventKeys = {}
ASSUME NoneAssumption == None \notin Keys \cup Broadcasters \cup Streams

VARIABLES
    watches,    \* key -> the broadcaster of its SharedWatch, or None
    handles,    \* key -> the task whose handle its SharedWatch keeps, or None
    streams,    \* stream -> the keys of its subscription ({}: no entry)
    logHandles, \* the streams whose entry holds the handles of log tasks
    subs,       \* broadcaster -> the streams subscribed to it
    task,       \* broadcaster -> what its watch task is doing
    batch,      \* broadcaster -> the streams the send in progress deals with
    aborted,    \* the tasks whose handle has been aborted
    logs,       \* stream -> its log task
    call,       \* stream -> its start command
    stateLock,  \* the stream whose subscription holds the registry mutex
    closed      \* the streams whose channel refuses messages

registry == <<watches, handles, streams, logHandles>>
tasks == <<task, batch>>
vars == <<watches, handles, streams, logHandles, subs, task, batch, aborted, logs,
          call, stateLock, closed>>

\* Where a start command is: the keys it still has to subscribe to, and the
\* key and broadcaster it is dealing with.
Call(at, todo, key, bc) == [at |-> at, todo |-> todo, key |-> key, bc |-> bc]

Goto(s, at, todo, key, bc) == call' = [call EXCEPT ![s] = Call(at, todo, key, bc)]

Init ==
    /\ watches = [k \in Keys |-> None]
    /\ handles = [k \in Keys |-> None]
    /\ streams = [s \in Streams |-> {}]
    /\ logHandles = {}
    /\ subs = [b \in Broadcasters |-> {}]
    /\ task = [b \in Broadcasters |-> "none"]
    /\ batch = [b \in Broadcasters |-> {}]
    /\ aborted = {}
    /\ logs = [s \in Streams |-> "none"]
    /\ call = [s \in Streams |-> Call("idle", {}, None, None)]
    /\ stateLock = None
    /\ closed = {}

-----------------------------------------------------------------------------
(* start_resource_watch and start_resource_event_watch.                    *)

Loop(s, todo) == Goto(s, "loop", todo, None, None)

\* A validated request names at least one key.
StartWatch(s, keys) ==
    /\ call[s].at = "idle"
    /\ Loop(s, keys)
    /\ UNCHANGED <<registry, subs, tasks, aborted, logs, stateLock, closed>>

\* Take a set of watches out of the registry and abort the tasks they own.
DropWatches(gone) ==
    /\ watches' = [k \in Keys |-> IF k \in gone THEN None ELSE watches[k]]
    /\ handles' = [k \in Keys |-> IF k \in gone THEN None ELSE handles[k]]
    /\ aborted' = aborted \cup ({handles[k] : k \in gone} \ {None})

Unwatched(k) == watches[k] # None /\ subs[watches[k]] = {}

\* subscribe_*: take the registry mutex and clear away a watch nobody is
\* subscribed to any more.
RemoveEmptyWatch(s, k) ==
    /\ call[s].at = "loop"
    /\ k \in call[s].todo
    /\ stateLock = None
    /\ stateLock' = s
    /\ DropWatches(IF Unwatched(k) THEN {k} ELSE {})
    /\ Goto(s, "cleared", call[s].todo, k, None)
    /\ UNCHANGED <<streams, logHandles, subs, tasks, logs, closed>>

Fresh(b) == task[b] = "none" /\ \A s \in Streams : call[s].bc # b

\* ...join the registered watch, or register a new one whose task this
\* command then starts; add the stream's entry; release the mutex.
Subscribe(s, b) ==
    LET k == call[s].key IN
    /\ call[s].at = "cleared"
    /\ \/ /\ watches[k] = b
          /\ Loop(s, call[s].todo \ {k})
          /\ UNCHANGED watches
       \/ /\ watches[k] = None
          /\ Fresh(b)
          /\ watches' = [watches EXCEPT ![k] = b]
          /\ Goto(s, "spawn", call[s].todo \ {k}, k, b)
    /\ subs' = [subs EXCEPT ![b] = @ \cup {s}]
    /\ streams' = [streams EXCEPT ![s] = @ \cup {k}]
    /\ stateLock' = None
    /\ UNCHANGED <<handles, logHandles, tasks, aborted, logs, closed>>

SpawnWatch(s) ==
    /\ call[s].at = "spawn"
    /\ task' = [task EXCEPT ![call[s].bc] = "waiting"]
    /\ Goto(s, "register", call[s].todo, call[s].key, call[s].bc)
    /\ UNCHANGED <<registry, subs, batch, aborted, logs, stateLock, closed>>

\* Mutant: a handle that finds no place is dropped, which detaches its task.
SetHandle_detaches(s) ==
    LET k == call[s].key
        b == call[s].bc
    IN
    /\ call[s].at = "register"
    /\ stateLock = None
    /\ handles' = IF watches[k] = b /\ handles[k] = None
                  THEN [handles EXCEPT ![k] = b] ELSE handles
    /\ Loop(s, call[s].todo)
    /\ UNCHANGED <<watches, streams, logHandles, subs, tasks, aborted, logs, stateLock, closed>>

\* set_resource_handle, set_event_handle: the watch may have been replaced
\* since this command subscribed; then the task has no owner and is aborted.
SetHandle(s) ==
    LET k == call[s].key
        b == call[s].bc
    IN
    /\ call[s].at = "register"
    /\ stateLock = None
    /\ \/ /\ watches[k] = b /\ handles[k] = None
          /\ handles' = [handles EXCEPT ![k] = b]
          /\ UNCHANGED aborted
       \/ /\ ~(watches[k] = b /\ handles[k] = None)
          /\ aborted' = aborted \cup {b}
          /\ UNCHANGED handles
    /\ Loop(s, call[s].todo)
    /\ UNCHANGED <<watches, streams, logHandles, subs, tasks, logs, stateLock, closed>>

ReturnStarted(s) ==
    /\ call[s].at = "loop"
    /\ call[s].todo = {}
    /\ Goto(s, "returned", {}, None, None)
    /\ UNCHANGED <<registry, subs, tasks, aborted, logs, stateLock, closed>>

-----------------------------------------------------------------------------
(* start_pod_log_stream and start_aggregated_log_stream.                   *)

SpawnLogs(s) ==
    /\ call[s].at = "idle"
    /\ logs' = [logs EXCEPT ![s] = "running"]
    /\ Goto(s, "insert", {}, None, None)
    /\ UNCHANGED <<registry, subs, tasks, aborted, stateLock, closed>>

InsertHandles(s) ==
    /\ call[s].at = "insert"
    /\ stateLock = None
    /\ logHandles' = logHandles \cup {s}
    /\ Goto(s, "returned", {}, None, None)
    /\ UNCHANGED <<watches, handles, streams, subs, tasks, aborted, logs, stateLock, closed>>

\* The log ends, or its channel refuses a line.
LogsEnd(s) ==
    /\ logs[s] = "running"
    /\ logs' = [logs EXCEPT ![s] = "ended"]
    /\ UNCHANGED <<registry, subs, tasks, aborted, call, stateLock, closed>>

-----------------------------------------------------------------------------
(* stop_stream: the view learns the id when the start command returns.     *)

Joined(s) == {watches[k] : k \in streams[s]} \ {None}

\* Mutant: the watches of a stopped stream go, whoever else is subscribed.
Stop_shared(s) ==
    /\ call[s].at = "returned"
    /\ stateLock = None
    /\ streams' = [streams EXCEPT ![s] = {}]
    /\ logHandles' = logHandles \ {s}
    /\ logs' = [logs EXCEPT ![s] = IF s \in logHandles THEN "ended" ELSE @]
    /\ subs' = [b \in Broadcasters |-> IF b \in Joined(s) THEN subs[b] \ {s} ELSE subs[b]]
    /\ DropWatches({k \in streams[s] : watches[k] # None})
    /\ Goto(s, "stopped", {}, None, None)
    /\ UNCHANGED <<tasks, stateLock, closed>>

Stop(s) ==
    /\ call[s].at = "returned"
    /\ stateLock = None
    /\ streams' = [streams EXCEPT ![s] = {}]
    /\ logHandles' = logHandles \ {s}
    /\ logs' = [logs EXCEPT ![s] = IF s \in logHandles THEN "ended" ELSE @]
    /\ subs' = [b \in Broadcasters |-> IF b \in Joined(s) THEN subs[b] \ {s} ELSE subs[b]]
    /\ DropWatches({k \in streams[s] : watches[k] # None /\ subs[watches[k]] \subseteq {s}})
    /\ Goto(s, "stopped", {}, None, None)
    /\ UNCHANGED <<tasks, stateLock, closed>>

-----------------------------------------------------------------------------
(* The watch task.  It waits (for a client, the cluster, a timer); abort   *)
(* takes effect where it waits, not between two messages it sends without  *)
(* waiting ("ready").                                                      *)

Sends(b) == task[b] = "ready" \/ (task[b] = "waiting" /\ b \notin aborted)

\* Mutant: the result of send is ignored.
GoOn_regardless(b, next) == task' = [task EXCEPT ![b] = next]

\* The task returns when send reports that nobody is left.
GoOn(b, next) ==
    task' = [task EXCEPT ![b] = IF subs[b] = {} THEN "ended" ELSE next]

\* send: copy the subscribers...
CloneSubscribers(b) ==
    /\ Sends(b)
    /\ GoOn(b, "sending")
    /\ batch' = [batch EXCEPT ![b] = subs[b]]
    /\ UNCHANGED <<registry, subs, aborted, logs, call, stateLock, closed>>

\* ...deliver to each channel and note the ones that refuse...
Deliver(b) ==
    /\ task[b] = "sending"
    /\ batch' = [batch EXCEPT ![b] = @ \cap closed]
    /\ task' = [task EXCEPT ![b] = IF batch[b] \cap closed = {} THEN "checking" ELSE "removing"]
    /\ UNCHANGED <<registry, subs, aborted, logs, call, stateLock, closed>>

\* ...unsubscribe those...
RemoveFailed(b) ==
    /\ task[b] = "removing"
    /\ subs' = [subs EXCEPT ![b] = @ \ batch[b]]
    /\ task' = [task EXCEPT ![b] = "checking"]
    /\ UNCHANGED <<registry, batch, aborted, logs, call, stateLock, closed>>

\* ...and report whether anybody is left.
CheckLeft(b) ==
    /\ task[b] = "checking"
    /\ \E next \in {"waiting", "ready"} : GoOn(b, next)
    /\ batch' = [batch EXCEPT ![b] = {}]
    /\ UNCHANGED <<registry, subs, aborted, logs, call, stateLock, closed>>

\* The webview is gone: the stream's channel refuses every later message.
CloseChannel(s) ==
    /\ call[s].at # "idle"
    /\ closed' = closed \cup {s}
    /\ UNCHANGED <<registry, subs, tasks, aborted, logs, call, stateLock>>

-----------------------------------------------------------------------------

TaskStep(b) == CloneSubscribers(b) \/ Deliver(b) \/ RemoveFailed(b) \/ CheckLeft(b)

CommandStep(s) ==
    \/ \E k \in Keys : RemoveEmptyWatch(s, k)
    \/ \E b \in Broadcasters : Subscribe(s, b)
    \/ SpawnWatch(s)
    \/ SetHandle(s)
    \/ ReturnStarted(s)
    \/ InsertHandles(s)

Next ==
    \/ \E s \in Streams :
          \/ \E keys \in (SUBSET ResourceKeys) \ {{}} : StartWatch(s, keys)
          \/ \E k \in EventKeys : StartWatch(s, {k})
          \/ SpawnLogs(s)
          \/ CommandStep(s)
          \/ LogsEnd(s)
          \/ Stop(s)
          \/ CloseChannel(s)
    \/ \E b \in Broadcasters : TaskStep(b)

Spec == Init /\ [][Next]_vars

\* A watch task always comes to its next message: a watch is opened with a
\* 30 s timeout, reconnecting and errors are reported, and it sleeps 2 or 5 s.
\* Commands run to their end without waiting for anything but the mutexes.
Fairness ==
    /\ \A b \in Broadcasters : WF_vars(TaskStep(b))
    /\ \A s \in Streams : WF_vars(CommandStep(s))

FairSpec == Spec /\ Fairness

-----------------------------------------------------------------------------

CallTypes ==
    [at : {"idle", "loop", "cleared", "spawn", "register", "insert", "returned", "stopped"},
     todo : SUBSET Keys, key : Keys \cup {None}, bc : Broadcasters \cup {None}]

\* Every variable keeps its type.
TypeOK ==
    /\ watches \in [Keys -> Broadcasters \cup {None}]
    /\ handles \in [Keys -> Broadcasters \cup {None}]
    /\ streams \in [Streams -> SUBSET Keys]
    /\ logHandles \in SUBSET Streams
    /\ subs \in [Broadcasters -> SUBSET Streams]
    /\ task \in [Broadcasters ->
                   {"none", "waiting", "ready", "sending", "removing", "checking", "ended"}]
    /\ batch \in [Broadcasters -> SUBSET Streams]
    /\ aborted \in SUBSET Broadcasters
    /\ logs \in [Streams -> {"none", "running", "ended"}]
    /\ call \in [Streams -> CallTypes]
    /\ stateLock \in Streams \cup {None}
    /\ closed \in SUBSET Streams

Running(b) == task[b] \notin {"none", "ended"} /\ b \notin aborted

Registering(b) == \E s \in Streams : call[s].at = "register" /\ call[s].bc = b

\* No watch task is detached: one that still runs can be aborted through the
\* registry, or through the command that is about to register it.
TasksAreOwned ==
    \A b \in Broadcasters :
        Running(b) => Registering(b) \/ \E k \in Keys : watches[k] = b /\ handles[k] = b

\* The handle a watch keeps is its own task's: removing one watch never
\* aborts the task of another.
HandlesMatchWatches ==
    \A k \in Keys : handles[k] # None => handles[k] = watches[k]

\* After stop_stream no registered watch sends to the stream, and its log
\* task is over.
StoppedStreamsAreSilent ==
    \A s \in Streams : call[s].at = "stopped" =>
        /\ \A k \in Keys : watches[k] # None => s \notin subs[watches[k]]
        /\ logs[s] # "running"

\* A broadcaster's subscribers can all be reached by stop_stream: each has an
\* entry that names the watch's key.
SubscribersHaveEntries ==
    \A k \in Keys : watches[k] # None => \A s \in subs[watches[k]] : k \in streams[s]

Served(s, k) ==
    /\ watches[k] # None
    /\ s \in subs[watches[k]]
    /\ \/ Running(watches[k])
       \/ \E t \in Streams : call[t].at = "spawn" /\ call[t].bc = watches[k]

\* A started stream stays subscribed to a watch whose task runs, unless a
\* channel has failed: a peer that is unsubscribed while the stream joins can
\* end the task behind the stream's back.
StartedStreamsAreServed ==
    \A s \in Streams : \A k \in streams[s] :
        call[s].at = "returned" => Served(s, k) \/ closed # {}

\* The registry is sound: types hold, tasks are owned, handles are those of
\* their watches, and stop_stream finds every subscriber.
RegistryIsSound == TypeOK /\ TasksAreOwned /\ HandlesMatchWatches /\ SubscribersHaveEntries

\* A stream is served from its start to its stop and no longer.
StreamsAreServedUntilStopped == StartedStreamsAreServed /\ StoppedStreamsAreSilent

\* A task with nobody left to send to ends, or somebody subscribes.
UnheardTasksEnd ==
    \A b \in Broadcasters :
        (Running(b) /\ subs[b] \subseteq closed)
            ~> (~Running(b) \/ ~(subs[b] \subseteq closed))
=============================================================================
