---------------------------- MODULE ResourceWatch ----------------------------
(* One Kubernetes watch (run_resource_watch and run_event_watch of          *)
(* commands/streams/watch.rs), the cache entry it marks, and the view that   *)
(* is refreshed by what the watch tells it (the realtime effect of           *)
(* ResourceBrowser.svelte, the events of ResourceDetailPanel.svelte).        *)
(*                                                                          *)
(* A resource version is the number of changes that the cluster has seen;    *)
(* version 0 asks for the objects as they are.  The watch always has its     *)
(* view: that it ends with its last one is StreamRegistry's subject.  The    *)
(* entry is reduced to what one reader can meet: LiveStore has the rest.     *)
EXTENDS Naturals, Sequences

CONSTANTS
    Names,       \* objects in the watched scope
    Subjects,    \* what may be watched, and how the view reads it
    MaxRevision  \* bound on the changes

ASSUME SubjectsAssumption ==
    Subjects \subseteq [kind : STRING, complete : BOOLEAN, namespaced : BOOLEAN,
                        namespace : STRING, read : {"typed", "dynamic", "events"}]
ASSUME MaxRevisionAssumption == MaxRevision \in Nat \ {0}

VARIABLES
    subject,    \* the watched kind and scope
    objects,    \* name -> revision of its last change, 0 when there is no such object
    changes,    \* sequence of all changes; its length is the current revision
    compacted,  \* changes up to this one are no longer served
    watch,      \* where the watch is, its resource version, and what it still delivers
    entry,      \* the cache entry of the view's read: revision it shows, dirty
    loading,    \* the load of the entry: revision it has read, dirty
    view        \* the view: its rows' revision, and what it waits for

cacheVars == <<entry, loading>>
clusterVars == <<objects, changes, compacted>>
watchedVars == <<subject, objects, changes, compacted, watch, entry, loading, view>>

Revision == Len(changes)
NoLoad == [at |-> "none", revision |-> 0, dirty |-> FALSE]

-----------------------------------------------------------------------------
(* The kind of a watch, and the cache keys that it marks.                   *)

\* known_resource_kind, by the kinds that are not namespaced.
KnownKinds == {"Pod", "Service", "ConfigMap", "Secret", "PersistentVolumeClaim", "Namespace",
    "Node", "PersistentVolume", "Deployment", "ReplicaSet", "StatefulSet", "DaemonSet",
    "Ingress", "EndpointSlice", "Job", "CronJob", "StorageClass"}
ClusterScoped == {"Namespace", "Node", "PersistentVolume", "StorageClass"}

\* is_known_typed_kind and is_cluster_scoped_kind of the live store.
TypedKinds == KnownKinds \ {"Namespace", "EndpointSlice"}
ClusterScopedTyped == ClusterScoped \ {"Namespace"}

\* normalize_resource_kind: full metadata is kept, else the kind must be known.
Watchable(s) == s.complete \/ s.kind \in KnownKinds
Namespaced(s) == IF s.complete THEN s.namespaced ELSE s.kind \notin ClusterScoped

\* The view asks a typed read for the kinds that have one, and the cluster has the
\* known kinds in the scope that the code knows.
ASSUME KindsAssumption ==
    \A s \in Subjects :
        /\ s.read = "typed" => s.kind \in TypedKinds
        /\ s.read = "typed" \/ (~s.complete /\ s.kind \in KnownKinds) =>
              s.namespaced = (s.kind \notin ClusterScoped)

ScopeKey(namespaced, namespace) ==
    IF ~namespaced THEN "<cluster>" ELSE IF namespace = "" THEN "<all>" ELSE namespace

\* typed_resources and dynamic_resources: the entry that the view reads.
ReadKey(s) ==
    [read |-> s.read, kind |-> s.kind,
     namespace |-> ScopeKey(IF s.read = "typed" THEN s.kind \notin ClusterScopedTyped
                            ELSE s.namespaced, s.namespace)]

\* Mutant: only the entries of dynamic reads are marked.
MarkedKeys_dynamic(s, namespace) ==
    [read : {"dynamic"}, kind : {s.kind},
     namespace : {ScopeKey(Namespaced(s), namespace), "<all>"}]

\* mark_watch_resource_dirty, for an event of an object in this namespace.
MarkedKeys(s, namespace) ==
    [read : {"dynamic"} \cup (IF s.kind \in TypedKinds THEN {"typed"} ELSE {}), kind : {s.kind},
     namespace : {ScopeKey(Namespaced(s), namespace), "<all>"}]

\* The namespace of the events: every watched object is in the same one.
EventNamespace == IF subject.namespace = "" THEN "ns" ELSE subject.namespace

-----------------------------------------------------------------------------
\* The view has read its rows, and starts its watch.
WatchInit ==
    /\ subject \in Subjects
    /\ objects \in [Names -> {0, 1}]
    /\ changes = <<[name |-> "-", action |-> "-"]>>
    /\ compacted = 0
    /\ watch = [at |-> IF Watchable(subject) THEN "closed" ELSE "rejected",
                version |-> 0, replay |-> {}, position |-> 0]
    /\ entry = [revision |-> 1, dirty |-> FALSE]
    /\ loading = NoLoad
    /\ view = [rows |-> 1, due |-> FALSE, fetching |-> FALSE, failed |-> FALSE,
               joinedOld |-> FALSE, warm |-> TRUE, heard |-> 0]

Change(n) ==
    /\ Revision < MaxRevision
    /\ \E action \in IF objects[n] = 0 THEN {"added"} ELSE {"modified", "deleted"} :
         /\ changes' = Append(changes, [name |-> n, action |-> action])
         /\ objects' = [objects EXCEPT ![n] = IF action = "deleted" THEN 0 ELSE Revision + 1]
    /\ UNCHANGED <<subject, compacted, watch, cacheVars, view>>

Compact ==
    /\ compacted < Revision
    /\ compacted' = Revision
    /\ UNCHANGED <<subject, objects, changes, watch, cacheVars, view>>

-----------------------------------------------------------------------------
(* The watch.                                                               *)

\* A watch from version 0 sends what exists, and then the changes since.
OpenWatch ==
    /\ watch.at = "closed"
    /\ watch.version = 0 \/ watch.version >= compacted
    /\ watch' = IF watch.version = 0
                THEN [watch EXCEPT !.at = "open", !.position = Revision,
                        !.replay = {<<n, objects[n]>> : n \in {m \in Names : objects[m] > 0}}]
                ELSE [watch EXCEPT !.at = "open", !.position = watch.version, !.replay = {}]
    /\ UNCHANGED <<subject, clusterVars, cacheVars, view>>

\* Mutant: the version that the server has forgotten is asked for again.
Gone_keeps_version ==
    /\ watch.at = "open" /\ watch.position < compacted
    /\ watch' = [watch EXCEPT !.at = "closed"]
    /\ UNCHANGED <<subject, clusterVars, cacheVars, view>>

\* 410 Gone, as the answer or as an event of the stream: start from what exists.
Gone ==
    /\ \/ watch.at = "closed" /\ watch.version > 0 /\ watch.version < compacted
       \/ watch.at = "open" /\ watch.position < compacted
    /\ watch' = [watch EXCEPT !.at = "closed", !.version = 0]
    /\ UNCHANGED <<subject, clusterVars, cacheVars, view>>

\* The 30 s are over, the connection breaks, or there is no client: the watch is
\* opened again after a pause, from the version it has.
Disconnected ==
    /\ watch.at = "open"
    /\ watch' = [watch EXCEPT !.at = "closed"]
    /\ UNCHANGED <<subject, clusterVars, cacheVars, view>>

\* An event marks the entry, or its load, before the views hear of it.
Mark(marked) ==
    /\ entry' = IF marked /\ loading.at = "none" THEN [entry EXCEPT !.dirty = TRUE] ELSE entry
    /\ loading' = IF marked /\ loading.at # "none" THEN [loading EXCEPT !.dirty = TRUE]
                  ELSE loading

\* shouldDropWarmupWatchEvent: the list of a new watch is not a change.
Heard(action, revision) ==
    view' = IF action = "added" /\ view.warm /\ subject.read # "events" THEN view
            ELSE [view EXCEPT !.due = TRUE,
                              !.heard = IF revision > @ THEN revision ELSE @]

Hand(action, revision) ==
    /\ Mark(subject.read # "events" /\ ReadKey(subject) \in MarkedKeys(subject, EventNamespace))
    /\ Heard(action, revision)
    /\ UNCHANGED <<subject, clusterVars>>

DeliverReplay ==
    /\ watch.at = "open"
    /\ \E e \in watch.replay :
         /\ watch' = [watch EXCEPT !.replay = @ \ {e}, !.version = e[2]]
         /\ Hand("added", e[2])

DeliverChange ==
    /\ watch.at = "open" /\ watch.replay = {} /\ watch.position < Revision
    /\ LET next == watch.position + 1
       IN  /\ watch' = [watch EXCEPT !.position = next, !.version = next]
           /\ Hand(changes[next].action, next)

\* A bookmark moves the version alone.
Bookmark ==
    /\ watch.at = "open" /\ watch.replay = {} /\ watch.version < watch.position
    /\ watch' = [watch EXCEPT !.version = watch.position]
    /\ UNCHANGED <<subject, clusterVars, cacheVars, view>>

-----------------------------------------------------------------------------
(* The cache entry and the view.                                            *)

StartLoad == [NoLoad EXCEPT !.at = "reading"]

\* Another reader, or the view's own reload, finds the entry dirty or too old.
OtherReader ==
    /\ loading.at = "none" /\ subject.read # "events"
    /\ loading' = StartLoad
    /\ UNCHANGED <<subject, clusterVars, watch, entry, view>>

LoaderReads ==
    /\ loading.at = "reading"
    /\ loading' = [loading EXCEPT !.at = "read", !.revision = Revision]
    /\ UNCHANGED <<subject, clusterVars, watch, entry, view>>

LoadReturns ==
    /\ loading.at = "read"
    /\ entry' = [revision |-> loading.revision, dirty |-> loading.dirty]
    /\ loading' = NoLoad
    /\ view' = IF view.fetching THEN [view EXCEPT !.fetching = FALSE, !.rows = loading.revision]
               ELSE view
    /\ UNCHANGED <<subject, clusterVars, watch>>

\* The previous value is kept, dirty if an event came meanwhile.
LoadFails ==
    /\ loading.at = "reading"
    /\ entry' = [entry EXCEPT !.dirty = @ \/ loading.dirty]
    /\ loading' = NoLoad
    /\ view' = IF view.fetching THEN [view EXCEPT !.fetching = FALSE, !.failed = TRUE] ELSE view
    /\ UNCHANGED <<subject, clusterVars, watch>>

\* The debounced invalidation: the query is fetched again, from the entry if it
\* is clean, from a load that already runs, or from a new one.  Events are read
\* past the live store.
Refresh ==
    /\ view.due
    /\ LET asked == [view EXCEPT !.due = FALSE, !.failed = FALSE, !.joinedOld = FALSE]
           load == /\ view' = [asked EXCEPT !.fetching = TRUE]
                   /\ loading' = StartLoad
       IN  IF subject.read = "events" THEN load
           ELSE IF loading.at # "none"
           THEN /\ view' = [asked EXCEPT !.fetching = TRUE, !.joinedOld = loading.dirty]
                /\ UNCHANGED loading
           ELSE \/ entry.dirty /\ load
                \/ ~entry.dirty /\ view' = [asked EXCEPT !.fetching = FALSE, !.rows = entry.revision]
                   /\ UNCHANGED loading
    /\ UNCHANGED <<subject, clusterVars, watch, entry>>

WarmedUp ==
    /\ view.warm
    /\ view' = [view EXCEPT !.warm = FALSE]
    /\ UNCHANGED <<subject, clusterVars, watch, cacheVars>>

WatchStep == OpenWatch \/ Gone \/ DeliverReplay \/ DeliverChange
ReadStep == LoaderReads \/ LoadReturns \/ LoadFails \/ Refresh

WatchNext ==
    \/ WatchStep \/ Disconnected \/ Bookmark
    \/ ReadStep \/ OtherReader \/ WarmedUp
    \/ Compact \/ \E n \in Names : Change(n)

\* The loop always goes on; a watch that is opened again and again delivers; every
\* load ends, and the timer of the view fires.
WatchFairness ==
    /\ WF_watchedVars(OpenWatch \/ Gone)
    /\ SF_watchedVars(DeliverReplay) /\ SF_watchedVars(DeliverChange)
    /\ WF_watchedVars(LoaderReads) /\ WF_watchedVars(LoadReturns) /\ WF_watchedVars(Refresh)

WatchSpec == WatchInit /\ [][WatchNext]_watchedVars /\ WatchFairness

-----------------------------------------------------------------------------
(* Properties.                                                              *)

WatchTypeOK ==
    /\ subject \in Subjects
    /\ objects \in [Names -> 0..MaxRevision] /\ compacted \in 0..MaxRevision
    /\ watch \in [at : {"closed", "open", "rejected"}, version : 0..MaxRevision,
                  replay : SUBSET (Names \X (1..MaxRevision)), position : 0..MaxRevision]
    /\ entry \in [revision : 0..MaxRevision, dirty : BOOLEAN]
    /\ loading \in [at : {"none", "reading", "read"}, revision : 0..MaxRevision, dirty : BOOLEAN]
    /\ view \in [rows : 0..MaxRevision, due : BOOLEAN, fetching : BOOLEAN, failed : BOOLEAN,
                 joinedOld : BOOLEAN, warm : BOOLEAN, heard : 0..MaxRevision]

\* A view that waits for nothing shows at least every change it has heard of,
\* whichever key it reads by and whatever loads other readers have begun; the one
\* exception is an answer shared with a load that the change had already marked.
QuietViewsShowWhatTheyHeard ==
    /\ WatchTypeOK
    /\ ~view.due /\ ~view.fetching /\ ~view.failed /\ ~view.joinedOld => view.rows >= view.heard

\* Every change is behind the position of the watch sooner or later: sent as a
\* change, or part of the state a restarted watch began from.
ChangesAreReached ==
    \A r \in 1..MaxRevision :
        (Revision >= r /\ watch.at # "rejected") ~> watch.position >= r
=============================================================================
