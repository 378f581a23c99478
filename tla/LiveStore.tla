------------------------------ MODULE LiveStore ------------------------------
(***************************************************************************)
(* The backend's shared read cache: the SharedCache tables of              *)
(* commands/live_store.rs, the readers that go through get_or_load, the    *)
(* loads they share, the watch tasks that mark entries dirty, and          *)
(* cancel_loading.                                                         *)
(*                                                                         *)
(* A cached value is identified with the load that produced it, so its     *)
(* content is loads[l].seen: the version of each object the loader read.   *)
(* A CacheEntry is spread over three functions of the key:                 *)
(*    kept[k]          the ReadyValue of Ready, or `previous` of Loading;  *)
(*    loading[k]       the load_id of Loading, 0 for a Ready or no entry;  *)
(*    dirtyLoading[k]  the dirty flag of Loading.                          *)
(***************************************************************************)
EXTENDS Naturals, FiniteSets

CONSTANTS
    Keys,        \* cache keys in use
    Objects,     \* cluster objects the cached values are built from
    Readers,     \* callers of get_or_load
    Areas,       \* the SharedCache tables (resources, topologies, ...)
    AreaOf,      \* [Keys -> Areas]
    Covers,      \* [Keys -> SUBSET Objects]: what the value of a key shows
    CoveredBy,   \* [Keys -> SUBSET Keys]: the all-namespaces key peeked first
    Marks,       \* [Objects -> SUBSET Keys]: keys a watch event marks dirty
    Freshness,   \* [Keys -> Nat]: the CacheMode window, in clock ticks
    MaxEntries,  \* MAX_CACHE_ENTRIES
    MaxLoads,    \* bound: loads started
    MaxVersion,  \* bound: changes of one object
    MaxTime      \* bound: clock ticks

ASSUME KeysAssumption ==
    /\ AreaOf \in [Keys -> Areas]
    /\ Covers \in [Keys -> SUBSET Objects]
    /\ CoveredBy \in [Keys -> SUBSET Keys]
    /\ Marks \in [Objects -> SUBSET Keys]
    /\ Freshness \in [Keys -> Nat]
    /\ Keys # {}

ASSUME BoundsAssumption ==
    /\ MaxEntries \in Nat
    /\ MaxLoads \in Nat
    /\ MaxVersion \in Nat
    /\ MaxTime \in Nat

\* mark_watch_resource_dirty reaches every entry that shows the object: the
\* exact key, the all-namespaces key and every topology of the context.
ASSUME MarksAssumption == \A k \in Keys : \A o \in Covers[k] : k \in Marks[o]

VARIABLES
    cluster,      \* [Objects -> version]: the cluster's own state
    notice,       \* [Objects -> [ver, todo]]: event a watch task is marking
    delivered,    \* [Objects -> version]: last version broadcast to the UI
    kept,         \* [Keys -> ReadyValue \cup {NoValue}]
    loading,      \* [Keys -> load id, 0 when not Loading]
    dirtyLoading, \* [Keys -> BOOLEAN]
    nextLoad,     \* next_load_id
    loads,        \* [1..nextLoad -> Load]: the shared loader futures
    readers,      \* [Readers -> [pc, key, load]]
    last,         \* [Readers -> [key, load]]: entry and load last answered from
    now           \* the clock behind completed_at.elapsed()

vars == <<cluster, notice, delivered, kept, loading, dirtyLoading, nextLoad,
          loads, readers, last, now>>

watchVars == <<cluster, notice, delivered>>
tableVars == <<kept, loading, dirtyLoading>>

Unread == MaxVersion + 1   \* marks an object the loader has not read yet
NoValue == [load |-> 0, at |-> 0, dirty |-> TRUE]   \* no entry, no previous
Idle == [pc |-> "idle", key |-> CHOOSE k \in Keys : TRUE, load |-> 0]
NothingRead == [o \in Objects |-> Unread]
Versions == 0..MaxVersion
LoadIds == 1..MaxLoads
ReadyValue == [load : LoadIds, at : 0..MaxTime, dirty : BOOLEAN]
Load == [key : Keys, seen : [Objects -> 0..Unread],
         status : {"running", "ok", "err"}, cancelled : BOOLEAN]
Reader == [pc : {"idle", "peeked", "await", "install"},
           key : Keys, load : 0..MaxLoads]

Init ==
    /\ cluster = [o \in Objects |-> 0]
    /\ notice = [o \in Objects |-> [ver |-> 0, todo |-> {}]]
    /\ delivered = [o \in Objects |-> 0]
    /\ kept = [k \in Keys |-> NoValue]
    /\ loading = [k \in Keys |-> 0]
    /\ dirtyLoading = [k \in Keys |-> FALSE]
    /\ nextLoad = 0
    /\ loads = [l \in 1..0 |-> 0]
    /\ readers = [r \in Readers |-> Idle]
    /\ last = [r \in Readers |-> [key |-> Idle.key, load |-> 0]]
    /\ now = 0

-----------------------------------------------------------------------------
(* The cluster and the clock (external). *)

ClusterChange(o) ==
    /\ cluster[o] < MaxVersion
    /\ cluster' = [cluster EXCEPT ![o] = @ + 1]
    /\ UNCHANGED <<notice, delivered, tableVars, nextLoad, loads, readers, last, now>>

Tick ==
    /\ now < MaxTime
    /\ now' = now + 1
    /\ UNCHANGED <<watchVars, tableVars, nextLoad, loads, readers, last>>

-----------------------------------------------------------------------------
(* A watch task: each event is first marked, entry by entry, under one lock *)
(* per entry, and broadcast to the UI when every mark is done.  An event    *)
(* may repeat the version delivered last: a watch restarted from resource   *)
(* version "0" replays the objects it finds.                                *)

WatchEvent(o) ==
    /\ notice[o].todo = {}
    /\ notice[o].ver = delivered[o]
    /\ \E v \in delivered[o]..cluster[o] :
          notice' = [notice EXCEPT ![o] = [ver |-> v, todo |-> Marks[o]]]
    /\ UNCHANGED <<cluster, delivered, tableVars, nextLoad, loads, readers, last, now>>

\* The value with its dirty flag raised when d holds; NoValue stays NoValue.
Dirtied(v, d) == [load |-> v.load, at |-> v.at, dirty |-> v.dirty \/ d]

\* Mutant: the mark misses an entry that is Loading.
mark_dirty_ready_only(k) ==
    /\ kept' = [kept EXCEPT ![k] = Dirtied(@, TRUE)]
    /\ UNCHANGED dirtyLoading

mark_dirty(k) ==
    IF loading[k] # 0
    THEN /\ dirtyLoading' = [dirtyLoading EXCEPT ![k] = TRUE]
         /\ UNCHANGED kept
    ELSE /\ kept' = [kept EXCEPT ![k] = Dirtied(@, TRUE)]
         /\ UNCHANGED dirtyLoading

MarkOne(o, k) ==
    /\ k \in notice[o].todo
    /\ notice' = [notice EXCEPT ![o].todo = @ \ {k}]
    /\ mark_dirty(k)
    /\ UNCHANGED <<cluster, delivered, loading, nextLoad, loads, readers, last, now>>

\* Mutant: the UI is told before the entries are marked.
Broadcast_first(o) ==
    /\ notice[o].ver # delivered[o]
    /\ delivered' = [delivered EXCEPT ![o] = notice[o].ver]
    /\ UNCHANGED <<cluster, notice, tableVars, nextLoad, loads, readers, last, now>>

Broadcast(o) ==
    /\ notice[o].todo = {}
    /\ notice[o].ver # delivered[o]
    /\ delivered' = [delivered EXCEPT ![o] = notice[o].ver]
    /\ UNCHANGED <<cluster, notice, tableVars, nextLoad, loads, readers, last, now>>

-----------------------------------------------------------------------------
(* Readers. *)

\* Only a Ready entry is ever reused: clean, and inside its window.
CanReuse(k) ==
    /\ loading[k] = 0
    /\ kept[k] # NoValue
    /\ ~kept[k].dirty
    /\ now - kept[k].at <= Freshness[k]

Answer(r, k, l) ==
    /\ readers' = [readers EXCEPT ![r] = Idle]
    /\ last' = [last EXCEPT ![r] = [key |-> k, load |-> l]]

\* resources_for_scope: a named-namespace read is served from a reusable
\* all-namespaces entry; otherwise it goes on to get_or_load on its own key.
PeekCovering(r, k) ==
    /\ readers[r].pc = "idle"
    /\ \/ \E c \in CoveredBy[k] : CanReuse(c) /\ Answer(r, c, kept[c].load)
       \/ /\ \A c \in CoveredBy[k] : ~CanReuse(c)
          /\ readers' = [readers EXCEPT ![r].pc = "peeked", ![r].key = k]
          /\ UNCHANGED last
    /\ UNCHANGED <<watchVars, tableVars, nextLoad, loads, now>>

Hit(r) ==
    /\ readers[r].pc = "peeked"
    /\ CanReuse(readers[r].key)
    /\ Answer(r, readers[r].key, kept[readers[r].key].load)
    /\ UNCHANGED <<watchVars, tableVars, nextLoad, loads, now>>

Waiting(k, l) == [pc |-> "await", key |-> k, load |-> l]

Join(r) ==
    /\ readers[r].pc = "peeked"
    /\ loading[readers[r].key] # 0
    /\ readers' = [readers EXCEPT ![r] = Waiting(readers[r].key, loading[readers[r].key])]
    /\ UNCHANGED <<watchVars, tableVars, nextLoad, loads, last, now>>

\* Mutant: a Loading entry is treated like an absent one.
Miss_without_join(r) ==
    LET k == readers[r].key
        l == nextLoad + 1 IN
    /\ readers[r].pc = "peeked"
    /\ ~CanReuse(k)
    /\ nextLoad < MaxLoads
    /\ nextLoad' = l
    /\ loads' = [i \in 1..l |-> IF i = l
                  THEN [key |-> k, seen |-> NothingRead,
                        status |-> "running", cancelled |-> FALSE]
                  ELSE loads[i]]
    /\ loading' = [loading EXCEPT ![k] = l]
    /\ dirtyLoading' = [dirtyLoading EXCEPT ![k] = FALSE]
    /\ readers' = [readers EXCEPT ![r] = Waiting(k, l)]
    /\ UNCHANGED <<watchVars, kept, last, now>>

\* A Ready entry that cannot be reused stays behind as `previous`.
Miss(r) ==
    LET k == readers[r].key
        l == nextLoad + 1 IN
    /\ readers[r].pc = "peeked"
    /\ loading[k] = 0
    /\ ~CanReuse(k)
    /\ nextLoad < MaxLoads
    /\ nextLoad' = l
    /\ loads' = [i \in 1..l |-> IF i = l
                  THEN [key |-> k, seen |-> NothingRead,
                        status |-> "running", cancelled |-> FALSE]
                  ELSE loads[i]]
    /\ loading' = [loading EXCEPT ![k] = l]
    /\ dirtyLoading' = [dirtyLoading EXCEPT ![k] = FALSE]
    /\ readers' = [readers EXCEPT ![r] = Waiting(k, l)]
    /\ UNCHANGED <<watchVars, kept, last, now>>

\* The caller's command is cancelled: its future is dropped while it waits.
\* The Loading entry stays.
DropReader(r) ==
    /\ readers[r].pc = "await"
    /\ readers' = [readers EXCEPT ![r] = Idle]
    /\ UNCHANGED <<watchVars, tableVars, nextLoad, loads, last, now>>

-----------------------------------------------------------------------------
(* Loads.  The API server answers whether or not somebody polls; the        *)
(* future itself only advances in the poll of one of its waiters, which     *)
(* then runs on, with no await in between, to take the lock again.          *)

\* One list call of the loader is answered (a topology makes several).
LoaderReads(l, o) ==
    /\ loads[l].status = "running"
    /\ o \in Covers[loads[l].key]
    /\ loads[l].seen[o] = Unread
    /\ loads' = [loads EXCEPT ![l].seen[o] = cluster[o]]
    /\ UNCHANGED <<watchVars, tableVars, nextLoad, readers, last, now>>

\* Mutant: the loader completes on a task of its own, so its waiters can all
\* be dropped between its completion and their next poll.
LoadDone_spawned(r, status) ==
    /\ readers[r].pc = "await"
    /\ loads[readers[r].load].status = "running"
    /\ loads' = [loads EXCEPT ![readers[r].load].status = status]
    /\ UNCHANGED <<watchVars, tableVars, nextLoad, readers, last, now>>

LoadDone(r, status) ==
    /\ readers[r].pc = "await"
    /\ loads[readers[r].load].status = "running"
    /\ loads' = [loads EXCEPT ![readers[r].load].status = status,
                              ![readers[r].load].seen = IF status = "ok" THEN @ ELSE NothingRead]
    /\ readers' = [readers EXCEPT ![r].pc = "install"]
    /\ UNCHANGED <<watchVars, tableVars, nextLoad, last, now>>

LoaderSucceeds(r) ==
    /\ readers[r].pc = "await"
    /\ \A o \in Covers[readers[r].key] : loads[readers[r].load].seen[o] # Unread
    /\ LoadDone(r, "ok")

LoaderFails(r) == LoadDone(r, "err")

\* The cancelled branch of the loader's select!.
LoaderCancelled(r) ==
    /\ readers[r].pc = "await"
    /\ loads[readers[r].load].cancelled
    /\ LoadDone(r, "err")

\* Every other waiter of the shared future is woken with a clone.
Wake(r) ==
    /\ readers[r].pc = "await"
    /\ loads[readers[r].load].status # "running"
    /\ readers' = [readers EXCEPT ![r].pc = "install"]
    /\ UNCHANGED <<watchVars, tableVars, nextLoad, loads, last, now>>

-----------------------------------------------------------------------------
(* After the await: settle the entry. *)

ReadyKeys(a, table, busy) ==
    {k \in Keys : AreaOf[k] = a /\ table[k] # NoValue /\ busy[k] = 0}

\* sort_by_key(dirty, completed_at): clean before dirty, then oldest first.
EvictsBefore(x, y) ==
    \/ ~x.dirty /\ y.dirty
    \/ x.dirty = y.dirty /\ x.at < y.at

Excess(n) == IF n > MaxEntries THEN n - MaxEntries ELSE 0

\* The tables trim_to_budget may leave: entries that tie (same flag, same
\* Instant) go in the map's iteration order, which is arbitrary.
trim_to_budget(a, table, busy) ==
    LET ready == ReadyKeys(a, table, busy) IN
    {[k \in Keys |-> IF k \in out THEN NoValue ELSE table[k]] :
        out \in {s \in SUBSET ready :
                    /\ Cardinality(s) = Excess(Cardinality(ready))
                    /\ \A x \in s, y \in ready \ s :
                          ~EvictsBefore(table[y], table[x])}}

\* Mutant: get_or_load does not compare load ids after its await.
Settles_any_load(r) ==
    /\ readers[r].pc = "install"
    /\ loading[readers[r].key] # 0

Settles(r) ==
    /\ readers[r].pc = "install"
    /\ loading[readers[r].key] = readers[r].load

SettleOk(r) ==
    LET k == readers[r].key IN
    /\ Settles(r)
    /\ loads[readers[r].load].status = "ok"
    /\ loading' = [loading EXCEPT ![k] = 0]
    /\ dirtyLoading' = [dirtyLoading EXCEPT ![k] = FALSE]
    /\ kept' \in trim_to_budget(AreaOf[k],
                   [kept EXCEPT ![k] = [load |-> readers[r].load, at |-> now,
                                        dirty |-> dirtyLoading[k]]],
                   [loading EXCEPT ![k] = 0])
    /\ Answer(r, k, readers[r].load)
    /\ UNCHANGED <<watchVars, nextLoad, loads, now>>

SettleErr(r) ==
    LET k == readers[r].key IN
    /\ Settles(r)
    /\ loads[readers[r].load].status = "err"
    /\ loading' = [loading EXCEPT ![k] = 0]
    /\ dirtyLoading' = [dirtyLoading EXCEPT ![k] = FALSE]
    /\ IF kept[k] = NoValue
       THEN UNCHANGED kept
       ELSE kept' \in trim_to_budget(AreaOf[k],
                        [kept EXCEPT ![k] = Dirtied(@, dirtyLoading[k])],
                        [loading EXCEPT ![k] = 0])
    /\ readers' = [readers EXCEPT ![r] = Idle]
    /\ UNCHANGED <<watchVars, nextLoad, loads, last, now>>

\* The entry is no longer this load's: it was settled by another waiter, or
\* cancelled, or a newer load replaced it.  Only the result is returned.
ReturnOnly(r) ==
    /\ readers[r].pc = "install"
    /\ loading[readers[r].key] # readers[r].load
    /\ IF loads[readers[r].load].status = "ok"
       THEN Answer(r, readers[r].key, readers[r].load)
       ELSE /\ readers' = [readers EXCEPT ![r] = Idle]
            /\ UNCHANGED last
    /\ UNCHANGED <<watchVars, tableVars, nextLoad, loads, now>>

\* Mutant: the entries are removed but the loaders are not signalled.
CancelLoading_without_signal(a) ==
    LET busy == {k \in Keys : AreaOf[k] = a /\ loading[k] # 0} IN
    /\ busy # {}
    /\ loading' = [k \in Keys |-> IF k \in busy THEN 0 ELSE loading[k]]
    /\ dirtyLoading' = [k \in Keys |-> IF k \in busy THEN FALSE ELSE dirtyLoading[k]]
    /\ kept' = [k \in Keys |-> IF k \in busy THEN Dirtied(kept[k], TRUE) ELSE kept[k]]
    /\ UNCHANGED <<watchVars, nextLoad, loads, readers, last, now>>

\* cancel_loading of one table, under its lock.
CancelLoading(a) ==
    LET busy == {k \in Keys : AreaOf[k] = a /\ loading[k] # 0} IN
    /\ busy # {}
    /\ loads' = [l \in 1..nextLoad |->
                   [loads[l] EXCEPT !.cancelled = @ \/ \E k \in busy : loading[k] = l]]
    /\ loading' = [k \in Keys |-> IF k \in busy THEN 0 ELSE loading[k]]
    /\ dirtyLoading' = [k \in Keys |-> IF k \in busy THEN FALSE ELSE dirtyLoading[k]]
    /\ kept' = [k \in Keys |-> IF k \in busy THEN Dirtied(kept[k], TRUE) ELSE kept[k]]
    /\ UNCHANGED <<watchVars, nextLoad, readers, last, now>>

-----------------------------------------------------------------------------

WatchStep(o) == WatchEvent(o) \/ Broadcast(o) \/ \E k \in Keys : MarkOne(o, k)

ReadStep(r) ==
    \/ \E k \in Keys : PeekCovering(r, k)
    \/ Hit(r) \/ Join(r) \/ Miss(r) \/ DropReader(r)

LoadStep(r) ==
    \/ LoaderSucceeds(r) \/ LoaderFails(r) \/ LoaderCancelled(r) \/ Wake(r)

SettleStep(r) == SettleOk(r) \/ SettleErr(r) \/ ReturnOnly(r)

Next ==
    \/ Tick
    \/ \E o \in Objects : ClusterChange(o) \/ WatchStep(o)
    \/ \E r \in Readers : ReadStep(r) \/ LoadStep(r) \/ SettleStep(r)
    \/ \E l \in 1..nextLoad, o \in Objects : LoaderReads(l, o)
    \/ \E a \in Areas : CancelLoading(a)

Spec == Init /\ [][Next]_vars

\* The runtime polls a woken task and a task runs on after its await.  The
\* API server owes no answer: nothing is assumed of the loader itself.
PollFairness(r) == WF_vars(LoaderCancelled(r) \/ Wake(r) \/ SettleStep(r))

FairSpec == Spec /\ \A r \in Readers : PollFairness(r)

-----------------------------------------------------------------------------
(* Properties. *)

Content(k) == loads[kept[k].load].seen

WatchType ==
    /\ cluster \in [Objects -> Versions]
    /\ notice \in [Objects -> [ver : Versions, todo : SUBSET Keys]]
    /\ delivered \in [Objects -> Versions]

TableType ==
    /\ kept \in [Keys -> ReadyValue \cup {NoValue}]
    /\ loading \in [Keys -> 0..nextLoad]
    /\ dirtyLoading \in [Keys -> BOOLEAN]
    /\ \A k \in Keys : dirtyLoading[k] => loading[k] # 0
    /\ \A k \in Keys : kept[k].load \in 0..nextLoad

LoadType ==
    /\ nextLoad \in 0..MaxLoads
    /\ loads \in [1..nextLoad -> Load]

ReaderType ==
    /\ readers \in [Readers -> Reader]
    /\ \A r \in Readers : readers[r].load \in 0..nextLoad
    /\ \A r \in Readers :
          readers[r].pc \in {"await", "install"} => readers[r].load # 0
    /\ last \in [Readers -> [key : Keys, load : 0..nextLoad]]

\* Types, and the shape of a CacheEntry: no dirty flag without a load, and
\* nothing refers to a load that was not started.
TypeOK ==
    /\ WatchType
    /\ TableType
    /\ LoadType
    /\ ReaderType
    /\ now \in 0..MaxTime

\* A value a reader may be served without a reload (Ready and clean) shows
\* every change that has been broadcast to the UI: the reload the UI asks for
\* after an event is never answered from an entry older than the event.
\* (mark_watch_resource_dirty runs before the broadcast; get_or_load carries
\* the mark over from Loading to the value it installs or restores.)
CleanReflectsEvents ==
    \A k \in Keys :
        (kept[k] # NoValue /\ ~kept[k].dirty /\ loading[k] = 0) =>
            \A o \in Covers[k] : Content(k)[o] >= delivered[o]

\* "Old shared loaders cannot repopulate the active cache": nothing that a
\* cancelled load fetched is ever in a table (live_store.rs, cancel_loading
\* and the load_id test of get_or_load).
CancelledNeverCached ==
    \A k \in Keys : kept[k] # NoValue => ~loads[kept[k].load].cancelled

\* Single flight: a load that runs and is not cancelled is the one its key
\* joins, so no key ever has two live loads.
SingleFlight ==
    \A l \in 1..nextLoad :
        (loads[l].status = "running" /\ ~loads[l].cancelled) =>
            loading[loads[l].key] = l

\* A load that has completed does not stay in the table as Loading: while it
\* does, a waiter is past its await and about to settle it.  Otherwise every
\* later reader of the key would join a finished load for ever.
FinishedLoadGetsSettled ==
    \A k \in Keys :
        (loading[k] # 0 /\ loads[loading[k]].status # "running") =>
            \E r \in Readers : /\ readers[r].pc = "install"
                               /\ readers[r].key = k
                               /\ readers[r].load = loading[k]

\* The cache is sound: no key has two live loads, nothing a cancelled load
\* fetched is in a table, and every value has its type and refers to a load
\* that was started.
CacheIsSound == TypeOK /\ SingleFlight /\ CancelledNeverCached

AnswersOnlyAdvance ==
    \A r \in Readers : last'[r].key = last[r].key => last'[r].load >= last[r].load

\* A caller that reads the same entry again is never answered from an older
\* load than before, whatever was cancelled, evicted or reloaded in between.
ReadsNeverGoBack == [][AnswersOnlyAdvance]_vars

\* Settling a load leaves its table within MAX_CACHE_ENTRIES, takes entries
\* away only when it was over, and never drops a dirty value (the one a
\* failed reload falls back on) while a clean one stays.
SettlesWithinBudget ==
    \A k \in Keys :
       (loading[k] # 0 /\ loading'[k] = 0 /\ kept'[k] # kept[k]
          /\ ~loads'[loading[k]].cancelled) =>
       LET a == AreaOf[k]
           ready == ReadyKeys(a, kept', loading')
           gone == {x \in Keys : AreaOf[x] = a /\ x # k /\ loading[x] = 0
                                   /\ kept[x] # NoValue /\ kept'[x] = NoValue}
       IN  /\ Cardinality(ready) <= MaxEntries
           /\ gone # {} => Cardinality(ready) = MaxEntries
           /\ \A x \in gone : kept[x].dirty => \A y \in ready : kept'[y].dirty

\* Every load is settled, and settled well: none that has completed stays
\* Loading with nobody about to settle it, and settling keeps to the budget.
LoadsAreSettled == [][FinishedLoadGetsSettled' /\ SettlesWithinBudget]_vars

\* live_store_tests.rs, ready_cache_entries_are_bounded: the table holds at
\* most MAX_CACHE_ENTRIES ready values.
ReadyWithinBudget ==
    \A a \in Areas : Cardinality(ReadyKeys(a, kept, loading)) <= MaxEntries

\* cancel_loading ends the wait of everybody who shared a cancelled load, even
\* when the API server never answers.
CancelledWaitersReturn ==
    \A r \in Readers :
        (readers[r].pc = "await" /\ loading[readers[r].key] # readers[r].load)
            ~> (readers[r].pc = "idle")

\* What a read of each key would be answered with at once, as CacheContract has it.
ServedAtOnce ==
    [k \in Keys |-> IF kept[k] # NoValue /\ ~kept[k].dirty /\ loading[k] = 0
                    THEN [o \in Covers[k] |-> Content(k)[o]]
                    ELSE [o \in {} |-> 0]]

\* The cache keeps the promise of CacheContract: every step is a change of
\* the cluster, an announcement no entry lags behind, or a refresh.
Contract == INSTANCE CacheContract WITH shown <- ServedAtOnce
KeepsContract == Contract!Spec
=============================================================================
