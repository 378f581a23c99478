# Formal models of KubeCove

KubeCove is a desktop manager for Kubernetes clusters: a Tauri backend in Rust
(`src-tauri/src`) and a Svelte frontend (`src`).  Paths below are relative to the
repository; backend files are under `src-tauri/src/commands` unless they say
otherwise.

Its hard part is not what one command does but what commands, shared tasks,
watches and the user's switching between workspaces do to each other: tasks are
spawned before they are registered and aborted at any await, tokens are cancelled
under one lock and observed under another, values are loaded once for many
readers, answers are put together from several reads of a cluster that changes in
between, and the frontend starts and stops all of it without waiting.  The models
are about that.

## 1. Inventory

| Part | State it keeps | Operations | Hard because | Model |
|---|---|---|---|---|
| Read cache, `live_store.rs`, marks from `streams/watch.rs` | one table of `CacheEntry` (Ready/Loading, dirty, load id) per kind of read | `get_or_load`, dirty marks, `cancel_loading`, trimming | one future shared by many readers who may be dropped; marks and cancellation while a load is in flight | `LiveStore`, `CacheContract` |
| Request cancellation, `cancellation.rs`, `helpers/client_cache.rs`, `kubeconfig_clients.rs` | named requests with their tokens; cached clients and the client generation | register, guard drop, cancel by scope, `cancel_workspace_requests`, client lookup and storage | four tables behind four locks are cut over one after the other | `RequestCancellation` |
| Workspace transition, `src/app/svelte/workspaceTransition.ts`, `App.svelte` | the loop, the newest destination, the mounted views | `request`, suspend, cancel, apply | destinations asked for in the middle of a switch | `WorkspaceSwitch` |
| Streams, `streams/registry.rs`, `streams.rs`, `streams/watch.rs`, `streams/logs.rs` | watches by key with their task handle, streams by id, subscribers | start, stop, broadcast, log tasks | a watch is subscribed to, cleared, spawned and registered under separate locks | `StreamRegistry` |
| Watch restart and live view, `streams/watch.rs`, `ResourceBrowser.svelte`, `ResourceDetailPanel.svelte` | position of the watch, cache entry, query of the view | list, watch, restart, mark, debounce, refetch | compacted history; the view may join a load that is older than the event | `ResourceWatch` |
| Aggregate logs, `streams/aggregate_logs.rs` | sources listed and attached, their tasks and positions | list, reconcile, open, follow | a source ends, breaks or restarts between two passes | `AggregateLogs` |
| Port forwards, `sessions/*`, `live_sessions.rs`, `src/features/live-sessions/portForwardLifecycle.ts` | sessions by id, their task, their status | start, start saved forwards, stop, scope cleanup, accept loop, connections | a start takes seconds and is overtaken by stops and changes of scope | `PortForward` |
| Service targets, `sessions/target.rs`, `sessions/service.rs`, discovery of Argo CD servers | none | Service, then Pods, then port | two reads of a cluster that changes; named ports, readiness, deletion | `ServiceTargets` |
| Pod exec, `pod_exec/*` | sessions, their task, a queue of commands, a byte budget | start, write, resize, stop, the task | writers wait for a task that may end in a dozen ways | `PodExec` |
| Argo CD connections, `argo/connected.rs`, `tunnel.rs`, `scope.rs` | connections by id with a lease, an epoch, credentials with a generation | connect, replace, disconnect, `close_all`, migrate | replacement and removal wait for the same lease | `ArgoConnections` |
| Argo CD operations, `argo/operations.rs`, `session.rs` | single-use sessions in memory and in native storage | preflight, confirm, restart | races of two confirmations, restarts, and a storage that refuses writes | `ArgoOperations` |
| Argo CD inspection, `argo/*` | none | inspect, compare, fall back to the cluster | two reads of one application, and secrets in both | `ArgoInspection` |
| Guarded operations, `operations.rs`, `OperationsTab.svelte` | the form, its print, calls in flight | preview, confirm, execute | the form changes while the answer is on its way | `GuardedOperations` |
| YAML apply, `resources/apply/*`, `ResourceYamlPane.svelte` | draft, preview, calls in flight | edit, dry run, apply, force | the draft changes while the dry run is on its way | `YamlApply` |
| Kubeconfig sources, `kubeconfig.rs` | settings on disk and in memory | add, remove, select, load | loads race with the save; a crash tears the file | `KubeconfigSources` |
| Resource maps, `resources/topology*`, `discovery.rs`, network map, Flux ownership | the custom kinds that were found, in the read cache | discover, list, build | dozens of lists of a changing cluster, some denied; the kinds listed are those an earlier discovery found | `Topology` |
| Helm, `helm/storage.rs`, `helm/reconciliation.rs` | none | list with fallbacks, compare a manifest with the cluster | two kinds of storage, namespaces that cannot be listed, objects that come and go | `HelmReleases` |
| Incidents and health, `incidents*`, `models/health.rs` | none | rows, restarts, events, assessment | three reads, each of which may be denied or overtaken | `Incidents`, `Health` |
| RBAC review, `rbac.rs`, `rbac_inventory.rs`, `rbac_risk.rs` | none | paged inventory, inherited risks, access | a page may fail or be overtaken by a deletion | `Rbac` |
| Metrics, `metrics.rs` | none | discover, list samples, Pods, ReplicaSets, add up | lists of different moments, each of which may fail for one namespace; sums that overflow | `Metrics` |
| Exec tab, `ExecTab.svelte`, `execInput.ts`; stream subscriptions of the frontend; finite reads, `src/lib/finite-read-lifecycle.ts` | a session id, an input splitter, pending cleanups | start, stop, restart, schedule | one actor each around calls that are modelled | not modelled |
| Linting and formatting, details and summaries, Flux patches, usage of the application itself, diagnostics, workspace tree, rendering, benchmarks, build tools | none, or preferences | translation and input/output | not concurrent | not modelled |

How they interact:

- A screen reads through `get_or_load` (**LiveStore**).  The load obtains a client
  and registers its request (**RequestCancellation**); a watch task (**StreamRegistry**,
  **ResourceWatch**) marks entries dirty before it broadcasts an event, on which the
  screen reads again.
- A workspace switch (**WorkspaceSwitch**) unmounts the views, calls
  `cancel_workspace_requests`, which cancels the registered requests, rotates the
  client generation, empties the loading entries (`CancelLoading` of LiveStore) and
  closes the Argo CD connections (a cleanup of **ArgoConnections**), and only then
  mounts the next workspace.
- The change of workspace also triggers `stop_live_sessions_outside_scope`, which cuts
  port forwards (**PortForward**) and exec sessions (**PodExec**).
- A reviewed Argo CD operation (**ArgoOperations**) leases a connection of
  **ArgoConnections**, which a replacement, a disconnect or a cleanup has to wait for;
  the two are composed.  Its private tunnel and a port forward to a Service resolve
  their Pod the same way (**ServiceTargets**).
- Contexts and the key that caches and sessions are scoped by come from
  **KubeconfigSources**; a rewritten file is the `RewriteFiles` of RequestCancellation.

What makes each part correct is stated below, as the properties of its module.
`PROJECT.json` lists the hazards behind them, each at its line, including those
no property covers and why.

## 2. The modules

### LiveStore and CacheContract

One action per critical section of `get_or_load`: `PeekCovering` (a namespace is
served from the all-namespaces entry), `Hit`, `Join`, `Miss`; `DropReader` drops a
caller's future at its await; `SettleOk` and `SettleErr` are the section after the
await, with `trim_to_budget`, and `ReturnOnly` the case that the table moved on.
A loader reads its objects one at a time (`LoaderReads`) and ends in
`LoaderSucceeds`, `LoaderFails` or `LoaderCancelled`.  `WatchEvent`, `MarkOne` and
`Broadcast` are the watch task: entries are marked one lock at a time, the event is
broadcast afterwards.  `CancelLoading` is `cancel_loading` of one table.

A cached value is identified with the load that made it, and its content is the
version of each object that load read.  An entry is spread over `kept` (the ready or
previous value), `loading` (the load id) and `dirtyLoading`.

`CacheContract` says what the cache promises without loads, locks or flags: it shows
what was read from the cluster, never older than what the UI was told, and may hide
an entry at any time.  `KeepsContract` is the refinement, with `shown` mapped to the
content of ready, clean entries.

### RequestCancellation and WorkspaceSwitch

`RequestCancellation` is a component without a specification of its own: a read goes
through `Register`, `Fingerprint`, `Capture`, `Lookup`, `ResolveClient`, `Store` and its
call, each a separate critical section or await; tokens are named by what owns
them.  `SwitchCancelsAll`, `SwitchRotates`, `SwitchSignals` and `SwitchReturns` are the steps of
`cancel_workspace_requests`.  `WorkspaceSwitch` extends it with the coordinator's
loop (`RequestDestination`, `Suspended`, `Apply`, `Drained`) and lets views read only
while they are mounted.

### StreamRegistry

A start command subscribes to its keys one by one: it holds the registry mutex and
takes the subscribers' mutex twice (`RemoveEmptyWatch`, `Subscribe`), then spawns
the task (`SpawnWatch`) and registers its handle (`SetHandle`), or aborts it when the
watch is gone.  A task sends in four sections (`CloneSubscribers`, `Deliver`,
`RemoveFailed`, `CheckLeft`).  `stateLock` is the mutex that is held over two steps.

### ResourceWatch

One watch and one view of what it watches.  The cluster is its history: `changes` with a
prefix that is no longer served (`compacted`).  The watch lists, opens at its resource
version, delivers, and restarts after a `410`, an error or the end of a stream, each as the
code chooses the next version; an event marks the cache entry, tells the view, and the view
reads again through the entry.  `joinedOld` records the one case in which the answer may be
older than what was heard: the view has joined a load that was already marked.

### AggregateLogs

One pass of the loop is `ListPods`, `Reconcile` (abort what is no longer wanted, forget
what finished, start what is wanted within `MaxSources`); each source opens its log with a
tail or from its last line, follows it, breaks or ends.  Pods start, exit, restart, leave and
come back meanwhile, and the watch that triggers a pass may end.

### PortForward

A start command is `CheckPort`, `Bind`, `RecheckPort`, `Verify` (target and trial
tunnel), `Spawn`, `Insert`; every one may fail and drops the listener.  The accept loop
has its failures and its back-off, each connection resolves its target again, and the
status of the session is written by all of them.  `StartForwards` covers a single
start and the loop over saved forwards, which goes on whatever the user does.
`SwitchScope` and `CleanUp` are the effect of `App.svelte` and the command it calls.

### ServiceTargets

From a Service port to a Pod port, in the reads of the code: the Service, then the Pods
its selector names, in the order of their names; numbered, named and defaulted target
ports, readiness and deletion; and `discover_argo_servers`, which resolves every port it
offers.  The cluster may change between any two reads.

### PodExec

`Insert`, `Spawn` and `SetHandle` are the start command.  The task connects, attaches,
sends the first size and then selects among commands, the exit status and the
readers (`TakeWrite`, `FinishWrite`, `FailWrite`, `TakeResize`, `InputClosed`,
`StatusArrives`, `NoStatus`, `ReaderError`, `Drained`); `AbortTakesEffect` may strike at any await.  A
write is `BeginWrite` (checks and byte permits), `CloneSender`, `TrySend`, and then waits for
its answer.  `DropCommands` is what the end of a task does to those who wait: their
answers go with the commands.

### ArgoConnections and ArgoOperations

A connection is named by the `connect_argo_server` command that made it.  Connects are
prepared, validated by the server, and stored by `Swap`, under the epoch they began in; a
replacement, a `disconnect` and `close_all` each remove a connection and then wait for its
gate, which an operation holds while it is leased (`TakeGate`, `EndLease`).  Credentials are
remembered, migrated from older versions and forgotten, with a generation each.

`ArgoOperations` extends it: a review reads the server once or twice and issues a session,
kept in memory and in native storage; a confirmation revalidates, leases, consumes the
session and sends.  `Restart` loses the memory; native storage may refuse a write or a
deletion.

### ArgoInspection

The reads of an inspection over a connection, one after the other, and the application in
the cluster as the fallback; what an answer shows of a secret; the application changes in
between.  A state is an object, JSON text, or text that is not JSON, which is shown as it is.

### GuardedOperations and YamlApply

Both are a form of the frontend with calls of the backend in flight: the answers arrive in
any order or not at all, while the user types, ticks, cancels or opens another resource.
`previewed` and `dryRuns` record what the cluster accepted as a dry run, `changes` and
`applied` what was done to it.  In `YamlApply` another field manager may take a field over
between a dry run and its apply.

### KubeconfigSources

The settings file, its copy in memory and the commands on the main thread that save it,
beside loaders on threads of their own, with a crash at any step.  The effective paths,
the merge of contexts and the source key are operators over the settings and the
environment.

### Topology, HelmReleases, Incidents, Health, Rbac and Metrics

Each is a collection of several reads, in any order the code allows, while the cluster
changes, followed by the pure part as operators.  `Topology` has the discovery of the custom
kinds that have objects (`Probe`, `ProbeRefused`), any time before a map is made from it
(`CataloguedMap`) or without it (`NativeMap`); the lists with their permissions and scopes,
ownership edges, Flux ownership with its two limits, and the network map.  `HelmReleases` has the listing with its fallbacks and the
reconciliation of a manifest.  `Incidents` has rows, restarts and warning events and ends in
an assessment of `Health`.  `Rbac` pages through five families and rates bindings by what
their roles grant.  `Metrics` reads samples, Pods and ReplicaSets, one list for each
namespace, and adds the usage of containers up into Pods and of Pods into workloads, with
sums that may not fit.  History variables (`remained`, `stayed`, `refused`,
`been`, `early`, `unchanged`, `moved`, `lasting`, `ever`) record
what the cluster had while the reads went on: the properties compare answers with them.

### The MC modules

`MCLiveStore`, `MCWorkspaceSwitch`, `MCPortForward`, `MCArgoOperations` and `MCYamlApply` give
one component its constants.  `MCTasks`, `MCSessions` and `MCParts` put several components side by
side that share no state: the constant variable `scene` picks the one that moves, and the
others rest in one state, in which none of the actions they are fair to is possible.

## 3. Runs

Distinct states are those of the named configuration; each run ends by itself.

| Run | States | What it asks |
|---|---:|---|
| `livestore_loads` | 530k | two readers share, abandon, cancel and replace three loads of one key while its object changes: `CacheIsSound` (types, one live load per key, no cancelled load cached), `CleanReflectsEvents`, `ReadsNeverGoBack`, `CancelledWaitersReturn` |
| `livestore_tables` | 904k | an all-namespaces entry that serves a namespace, a table with room for one, entries expiring; `KeepsContract`, the refinement of `CacheContract`, and `LoadsAreSettled` |
| `livestore_overbudget` | violated | finding 1 |
| `tasks` | 99k | up to three switches among workspaces asked for at any moment while a kubeconfig is rewritten (`RestsOnWhatIsThere`, `RotatesOnlySuspended`, `SwitchesEnd`); watches that lose their channels (`UnheardTasksEnd`); a watch that is compacted away and restarted while its view reads (`QuietViewsShowWhatTheyHeard`, `ChangesAreReached`) |
| `switch_late` | violated | finding 2 |
| `forward` | 959k | two forwards, alone or saved, and a connection, around a change of the kubeconfig source, with accepts that fail and stops at any moment: `ForwardsAreSound`, `TunnelsAreStoppable`, `OnlyLateStartsSurvive`, `StoppedTunnelsClose` |
| `forward_saved` | violated | finding 3 |
| `sessions` | 37k | writers of a shell that is stopped, fails or exits (`ShellsAreSound`, `PendingWithinBudget`, `ShellsEnd`); connects, a disconnect and a cleanup of one Argo CD profile (`CleanupsEnd`); an aggregated log over Pods that come, go and restart (`LinesAreShownOnce`, `WantedSourcesAreFollowed`) |
| `argo_operations` | 1.1M | reviews and two confirmations over connections that are replaced and closed with a workspace, across a restart, with a storage that refuses writes: `ConnectionsAreKept`, `SessionsAreSingleUse` |
| `argo_restart` | violated | finding 4 |
| `parts` | 1.7M | fourteen scenes whose properties are safety, see below |
| `yaml_edit` | violated | finding 5 |

The scenes of `parts` and what they ask:

| Scene | Properties |
|---|---|
| requests cancelled by scope and rotated away, a named read with its retry in another context | `RequestsAreAccountedFor`: running reads can be cancelled, cached clients are of the generation that is handed out, only late arrivals survive a switch |
| streams over shared keys, with failing channels | `RegistryIsSound`, `StreamsAreServedUntilStopped` |
| Argo CD credentials, remembered, migrated, replaced, forgotten | `GenerationNamesToken`: what was reviewed against a generation runs with the credential it was reviewed with |
| inspections | `InspectionsAreHonest`: no secret shown that was sent as an object or as JSON text, a fallback named, resources no older than the application they are shown with |
| Helm listing, Helm comparison | `HelmAnswersAreHonest`: the newest of what could be read, and rows that were true during the comparison |
| kubeconfig settings across crashes | `KeysNameSources`: settings with the same key read the same files; a context comes from the earliest file that has it |
| resource map | `MapsExplainThemselves`: of the kinds that the map lists, what stayed is shown or its list is named as skipped; in a map made of a discovery, a custom kind whose definition was known is among them if an object of it was there from before the discovery to the map and no probe was refused or missed; `OwnersAreHonest` |
| incidents | `IncidentsAreHonest`: nothing clean is built on a read that failed, history is not active, health is not overstated |
| RBAC | `BindingsAreClassified`: a binding whose role was there all along is not reported as dangling and has the flags of its role, or the family of its roles is not complete; one without flags names a role that was read and has none; `AccessReachesNamespaces` |
| usage of Pods and workloads | `UsageIsHonest`: a Pod is charged to its owner and the owner of its ReplicaSet and to nobody else, what lasted is counted or a warning names the list that failed; a sum of a Pod is of all its containers, and a sum of a workload of all its Pods whose own sums fit |
| YAML editor | `ReviewsAreApplied`: what is applied was dry-run and names what it is applied to |
| guarded operations | `ChangesWerePreviewed` |
| Service targets | `TargetsAreHonest`: what is resolved can serve, what is refused cannot |

The scene of the YAML editor stops once a preview was taken by another draft than its own,
which is finding 5: the property says that this is the only way.

Why the bounds are enough.  The races modelled are between two actors, and a third
where one is replaced while two others still hold it: two readers with three loads
(a load can be cancelled, superseded, and joined by a reader that was answered from
the one before), a named read and its replacement, three watches over time for two
streams (the watch a command subscribed to can be cleared and replaced twice), two writers
and a resize of which not all fit, two connects, a disconnect and a cleanup of one
profile, two confirmations of one session.  The collections take one change of the cluster at
any point between their reads: their properties speak of one object or of a pair, and one
change is enough to be between two reads, and the inputs are all combinations of what the
code tells apart.  Capacities are as small as they can be while still being exceeded and met
exactly: a table and a client cache of one entry, a queue of two, one source of logs where two
are wanted, one Flux entry, two failing accepts.  Sessions of `PodExec` share nothing, so
one is enough; the theorems are about any number.  The constants named `Max...` cap
counters the code lets grow; what they count happens at least once beyond the case
each property is about.  `CHECK_DEADLOCK FALSE` is set everywhere: all users may be idle
and all counters used up.

Every property has a mutant in its module: a plausible mistake in the code, named
after the definition it replaces, under which TLC finds the property violated.

### Fairness

Only what the runtime owes is assumed, action by action: a future that was woken is
polled, a task or command runs on to its next await, an abort takes effect, a reader
of a pipe reads what is there, the streams of a process that is over end, and the
coordinator's promises settle.  In `StreamRegistry` a watch task always comes to a
next message because a watch is opened with a 30 s timeout and its errors and
reconnections are reported.  Nothing is assumed of the user, the process in a Pod, the
peer of a connection or, in those modules, of an API server (a load, a resolve or a call
may hang for ever).

Three modules assume more, and say what:

- `ResourceWatch`: a watch that is opened answers or is refused, its deliveries get through if
  they are tried again and again (strong fairness: between two tries the stream may break), and a
  load or refetch of the view comes back.
- `AggregateLogs`: lists and passes go on, and a log that is opened again and again is opened
  (strong fairness).
- `ArgoConnections`: commands go on at their awaits, and the gate of a connection is a fair lock:
  `Swap`, `Superseded` and `RemoveConnection`, which wait for it, get it if it is free again and again
  (strong fairness; a Tokio mutex is first come, first served).  A lease ends because its
  request has a timeout (`argo/transport.rs:164`).

So `CancelledWaitersReturn` and `SwitchesEnd` hold although no API server ever answers;
`StoppedTunnelsClose` and `ShellsEnd` although no process or peer cooperates.

## 4. Findings

1. **A table can exceed its budget** (`livestore_overbudget`, `ReadyWithinBudget`).
   `cancel_loading` puts the previous value of every loading entry back without
   trimming (`live_store.rs:240`); other keys may have filled the table meanwhile.
   The test `ready_cache_entries_are_bounded` (`live_store_tests.rs:327`) states
   the bound.  `SettlesWithinBudget`, part of `LoadsAreSettled` and true, is the bound after a load.
2. **A read of the old workspace can outlive the switch** (`switch_late`,
   `OldWorkIsCancelled`).  A command invoked before the switch whose task is first
   polled after `cancel_all` and the rotation registers as if it belonged to the new
   workspace (`cancellation.rs:191`; `CHANGELOG.md:148`).  `OnlyLateArrivalsSurvive`, which holds,
   says that this is the only way.
3. **A session of the old scope can outlive the cleanup** (`forward_saved`,
   `SessionsStayInScope`).  A start in flight, or the rest of a loop over saved forwards,
   registers after `stop_live_sessions_outside_scope` has run, and nothing looks at the
   scope again (`sessions/runner.rs:265`, `portForwardLifecycle.ts:342`; ADR 0003:23,
   `docs/wiki/Port-Forwarding.md:53`).  `OnlyLateStartsSurvive`, which holds, says that this
   is the only way.
4. **A review does not survive a restart** (`argo_restart`, `ReviewsSurviveRestarts`).  A
   session is bound to the instance of its connection, which every connect makes anew
   (`argo/operations.rs:358`), so after a restart it is refused, and used up, even when the
   profile has reconnected with the remembered credential it was reviewed with.
   `CHANGELOG.md:56` speaks of sessions "that survive an app restart during their lifetime".
5. **A draft that was never dry-run can be applied** (`yaml_edit`, `AppliedWasDryRun`).  A
   preview that arrives after the draft was edited is taken as the preview of the new draft
   (`src/features/resource-detail/ResourceYamlPane.svelte:338`); `docs/wiki/Edit-and-Apply-YAML.md:40` says
   that changing the draft requires another dry run.

## 5. Proofs

Every invariant and every action property that a passing run checks is also a theorem, for
every value of the constants under the assumptions that the modules name.  Each proof builds
one inductive invariant for its component, as a conjunction of named parts, shows that it
holds initially and is kept by every action, and reads the theorems off it.

**LiveStoreProofs**: `CacheStaysSound` (from `TypeCorrect`, `OneLoadPerKey`,
`CancelledLoadsStayOut`), `CleanEntriesReflectEvents`, `ReadsAdvance`, `CacheKeepsContract`,
`LoadsAlwaysSettled`.
`CleanReflectsEvents` is not inductive: a clean entry is up to date
because the load that produced it was not marked while it ran.  `CleanCaught` says so
of ready values and of loads in flight, object by object, counting the event a watch is
still marking (`Caught`); `OkLoadsComplete` carries it over when the load succeeds.
`ReadsNeverGoBack` needs `NewestWins`: a clean value is newer than any load of its key that
succeeded or still may.  The refinement of `CacheContract` (`CacheKeepsContract`) goes action by
action: each step of the cache is a step of the contract or leaves what it shows alone.  It
needs one more invariant, `SeenIsReal`: no load has read a version that the cluster has not had.
`LoadsAlwaysSettled` is about `trim_to_budget`: a table that is settled has finitely
many values (`ValuesAreFinite`), so there are evictions of clean ones that bring it back to its
budget, and the dirty ones go last.

**StreamRegistryProofs**: `RegistryStaysSound` (from `TypeCorrect`, `NoTaskIsDetached`,
`HandlesAreTheWatches`, `SubscribersAreListed`) and `ServedUntilStopped` (from `StoppedMeansSilent`,
`StartedMeansServed`).  The core is identity: a broadcaster
belongs to one watch and one command (`Identities`), and a command finds its own watch
or none when it registers its task (`Registrations`).  `WatchesLive` and `AllSubscribed`
hold while no channel has failed, which is exactly how far `StartedStreamsAreServed` goes.

**PortForwardProofs**: `ForwardsStaySound` (from `TypeCorrect`, `PortsNeverClash`,
`StatusFollowsConnections`), `TunnelsStayStoppable`, `CleanupLeavesLateStarts`.
`Swept` strengthens the scope property to the
sessions that are still to be registered; `Cleanups` says that the newest cleanup is
about the scope on the screen, so older ones may run last.

**PodExecProofs**: `ShellsStaySound` (from `TypeCorrect`, `TasksStayOwned`, `TheListIsTrue`,
`OutputComesFirst`, `CallersAreToldTheTruth`, `InputStaysWhole`), `PendingStaysWithinBudget`.
`Life` relates the start command, the handle,
the entry and the task.  `InputInv` is about order: writes share the queue with resizes, so the
queue is not a suffix of what was accepted.  `Follows` compares positions instead: what was
accepted is what was written, then the write at hand, then the writes of the queue in
its order.  Pure lemmas about sequences (`TakeFollows`, `SkipFollows`, `FinishFollows`,
`PutFollows`, `ResizeFollows`) say what each queue operation does to it.  It is dropped
while a session drains: then nothing is written any more.  The budget is about bytes, which
`ReservedWithinBudget` counts as the cardinality of a set of them, one set for each write that
holds permits: these sets are disjoint, and a write that begins adds its own only if it fits.

**WorkspaceSwitchProofs**: `RequestsAlwaysAccountedFor`, `AlwaysRestsOnWhatIsThere`,
`AlwaysRotatesSuspended`.  `SwitchInv` follows a read through the four tables: its registration
is its own (`RegistrationsAreOwn`), what was there when the switch cancelled or rotated is
dead (`CancelledBefore`, `OldGenerationsAreDead`), and a client that is built remembers which
files it has read (`ConfigsAreRead`).  `LoopIsWhereItIs` says, for each point of the coordinator's
loop, which views are mounted and what is still asked for.

**ArgoOperationsProofs**, about `ArgoConnections` and its composition `ArgoOperations`:
`GenerationsAlwaysNameTokens`, `CleanupsAlwaysFinal`, `ConnectionsAlwaysKept`,
`SessionsAlwaysSingleUse`, `GenerationsOutliveRestarts`.  `StoreInv`: a connection in the store
was installed by a command that is over, and nobody has closed its tunnel (`StoreHoldsConnected`);
what a command has at each of its awaits (`CommandsAreAsked`, `RemovalsAreOfIds`); and a cleanup
has on its list every connection older than itself that is still in the store
(`CleanupsKnowTheirs`).  `CredentialInv`: whoever shares a generation shares its
token (`BindingsAgree`), and a generation is drawn once (`GenerationsAreDrawn`).
`OperationInv`: a session that is being sent, or was, has its tombstone in native
storage, which no restart takes away, and no two confirmations are sending it (`SentIsEntombed`);
a connection that is leased stays (`LeasedConnectionsStay`).  The theorems of `ArgoConnections` are carried over to the composed
specification: every step of the composition is one of its steps or leaves it alone.

**PartsProofs**: five components that share nothing.

- `ChangesAlwaysPreviewed`: what the form shows as a preview was accepted by the cluster
  (`FormShowsPreviewed`), so that a command on its way executes what was (`CallsArePreviewed`), since
  the print of a command is the change it makes (`PrintsAreOfChanges`).
- `ReviewsAlwaysApplied`: the same for the YAML editor, where a preview stands for the draft next
  to it (`PreviewStands`, `CallsStand`); a crossed preview, finding 5, is the only exception.
- `TargetsAlwaysHonest`: `TargetsInv` says what each of the two reads knew (`ReadIsOfService`,
  `LookupIsOfItsOffer`) and that an offer stands for the Pods it was resolved with (`OffersStand`).
- `KeysAlwaysNameSources`: the invariant is small, the settings everywhere are well-formed; the
  theorem is about the operators.  Paths keep being paths under each of the four settings
  commands (`PathsAtArePaths`, `EffectiveAreKeyed`), and a context comes from a file whose path is
  effective (`ContextsAreWatched`).
- `UsageAlwaysHonest`: `LastingIsRead` says of each list that was answered that it has brought what
  lasted, or that there is a failure to blame for it; `DiscoveryIsFirst` and `HistoryIsKept` do the
  rest of `NothingIsLost` and `NobodyElseIsCharged`.  `SumsAreWhole` is about adding up,
  first the containers of a Pod (`PodsUseWholeSums`), then the Pods of a workload
  (`WorkloadsUseWholeSums`): quantities are drawn as boxes of units, disjoint since each part has
  a place of its own (`SetIsListed` for the Pods, which `SetToSeq` lists), and by `NextBox` the
  running sum is their number, or too much, after each part.

**ReadsProofs**: the reads of a changing cluster.

- `InspectionsAlwaysHonest`: what is known at each point of an inspection (`InspectionKnows`),
  and redaction hides a secret that is an object or JSON text (`ShownIsRedacted`).
- `QuietViewsAlwaysCurrent`: an unmarked entry, an unmarked load that has read, and a fetch that will
  not be repeated, have every change that the view has heard of (`CleanIsCurrent`, `FetchIsCurrent`).
  The key that a view reads by is among those that an event marks (`EventsMarkTheEntry`), for every
  kind and scope.
- `LinesAlwaysShownOnce`: a tail is only asked for of a source of which nothing has been shown
  (`TailsAreUnseen`), and the tasks are those of the sources attached, which are no more than the
  limit (`TasksAreAttached`).
- `AccessAlwaysReachesNamespaces`, `BindingsAlwaysClassified`: a complete family has brought
  everything that stayed unchanged; the rest is about the operators.
- `MapsAlwaysExplain`, `OwnersAlwaysHonest`: a custom kind of which an object remained is found,
  refused, or still probed for in the scope of that object (`DiscoveryKnows`); what stayed is
  shown, or its list is named as skipped or still to come, or it is of a kind that is not listed,
  or the selection leaves it out (`CollectionKnows`; both are `CollectionInv`); the ownership index is that of the Flux
  objects that were listed (`OwnersInv`), whose first claim of a resource stays.
- `HelmAnswersAlwaysHonest`: a release that could be read has a newest revision (`OneIsLatest`); what
  a row says was so at the look-up or the scan that it comes from (`ComparisonKnows`, `RowsAreTrue`).
- `IncidentsAlwaysHonest`, `HealthNeverOverstated`: a warning that was there from before any read
  until now is among the events that were read, unless they were denied, and only a row with
  restarts is active because of one (`IncidentInv`).

### What the proofs assume

`MarksAssumption` (a watch event marks every entry that shows the object, as
`mark_watch_resource_dirty` does) is the one assumption about the behaviour of other code.
The others say of constants what the code or the cluster gives:

- names, ids and absent values are distinct (`NilAssumption`, `NullsAssumption`, `UnsetAssumption`
  and the like), bounds and limits are numbers, and inputs have the fields the code reads;
- what one cluster holds at a time is finite (`PodsAssumption`, `ReleasesAssumption`,
  `ManifestsAssumption`, `IncidentsAssumption`), and so are the writes that a shell is asked for
  (`CallsAssumption`);
- objects are as the API server admits them: no namespace on objects that have none
  (`ObjectsAssumption`, `AccessAssumption`), a uid of their own (`TopologyAssumption`), ports of a
  Service in 1..65535 and number, name or default as its target (`TargetsAssumption`), one record of
  a kind for each revision of a release (`ReleasesAssumption`), status text on a Pod that has
  restarted (`IncidentsAssumption`);
- the kinds that a typed view reads are those `streams/kinds.rs` knows (`KindsAssumption`), variables
  hold lists of paths (`VariablesAssumption`), edits are those of the settings commands
  (`EditsAssumption`), and a quantity that cannot be represented is none (`UsageAssumption`).

TLC evaluates each of them on the instances of the runs.

### How data is reasoned about

The library's induction theorems cannot be instantiated by the installed provers, so induction
is by the least counterexample: a nonempty set of natural numbers has a least element
(`OneIsLeast`), and `CountingUp` follows.  A recursive function, as in `Sum` and
`PathsAt`, is known to exist by `StepsLeadSomewhere`.  A sum over a set is written as
the number of elements of a union of disjoint sets, for which the facts about finite sets suffice.

### Only model-checked

- Liveness, which is beyond the prover: `CancelledWaitersReturn`, `SwitchesEnd`,
  `UnheardTasksEnd`, `ChangesAreReached`, `StoppedTunnelsClose`, `ShellsEnd`, `CleanupsEnd`,
  `WantedSourcesAreFollowed`.
- The five properties that are violated (section 4), which TLC refutes; the theorems say how far
  each is from true.
- That the assumptions on the constants fit the inputs of the runs.

## 6. What is abstracted or left out

- Values, names, bytes, messages: model values or small sets.  Time: LiveStore has a clock
  for freshness windows; all other timeouts are steps that may come at any moment.
- LiveStore: the 30 s timeout of a load and a deletion in a gap of a watch (an object has
  versions, not an end); `ResourceWatch` has both ends of an object, for one view.
- StreamRegistry: how a watch goes on after an error is `ResourceWatch`; how a log line is read
  is `AggregateLogs`, for the aggregated ones.
- AggregateLogs: `since_seconds`, which can only cut a tail shorter.
- PortForward: what the target resolves to (`ServiceTargets`; here it succeeds or fails at
  any step) and which saved forwards are skipped, stopped or restarted first.
- PodExec: validation of the request, decoding of output, and the frontend's half.
- Argo CD: HTTP, URLs and certificates; the payloads of the five kinds of operation; the
  lists of applications, sets and projects, which are translations (`Health` has their
  assessment).
- YamlApply: the text of a document; parsing decides only how many documents there are and
  what the first one names.
- ArgoInspection: a state that is text and not JSON.  `state` returns it as it is
  (`connected.rs:752`) and `redact_secret_fields` does not see into it, so it is shown
  unredacted, in the model as in the code; the property speaks of objects and of JSON text.
- Topology: the volumes of workloads (claims, config maps, secrets as nodes), and layout.
  A map made without a discovery in the cache lists no custom kind, and one made of a discovery
  lists none that was refused, or whose first object came later; neither is told by a warning
  (`topology.rs:381`), though docs/product-and-architecture.md:39 asks in general that "Empty and
  partial states must remain explicit".  The property says what a map does explain, and what a
  discovery does not miss.  `dynamic_topology_kind_present` (`topology_dynamic.rs:204`), a probe
  within a map, is not modelled: the one caller of the map passes either kinds that are known to
  be present or none.
- HelmReleases: decoding of a stored release and the comparison of revisions.
- Rbac: the access review of one subject (`rbac_review.rs`), one API call.  `rule_risks` compares
  resources literally, so that a rule on `*/exec` has no flag for exec; the model has its rules
  as they are, and no property says that a rule which grants more has more flags.
- Metrics: the parsing of quantities, and the times of samples; memory and processor time
  are added up alike, so one quantity stands for both.  A Pod whose own containers overflow has
  no usage (`metrics.rs:158`) and is left out of the sum of its workload without a word
  (`metrics.rs:334`), as a Pod without a sample is: the sum of a workload is whole with respect to
  the Pods that have a usage.
- Incidents: wording, grouping and the order of items.
- The Exec tab, the frontend's stream subscriptions and its finite reads: one actor around
  calls that are modelled; a start of the tab that is still in flight when it is unmounted is
  part of the hazard of late starts, without a property of its own.
- Pure translation of API objects to views, linting and formatting, Flux patches,
  operating-system counters, rendering, benchmarks and build tools: one actor and no state.

## 7. Plan

The model is as wide as planned, and its safety properties are proved.  What is left:

1. Invariants of the composed specifications that no run states yet and that the proofs would
   give cheaply: type correctness of `WorkspaceSwitch`, `ArgoOperations`, `ResourceWatch` and
   `AggregateLogs` as theorems of their own, for readers who look for them there.
2. A contract of the stream registry (what a screen sees of a stream: subscribed, served, silent),
   with the registry shown to implement it as `LiveStore` implements `CacheContract`.
3. The wellfounded part of the liveness arguments: what decreases along the four steps of
   `cancel_workspace_requests` and along the end of a shell, as action properties.
