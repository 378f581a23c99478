------------------------- MODULE StreamRegistryProofs -------------------------
(***************************************************************************)
(* Proofs about StreamRegistry: which task a handle belongs to, that no    *)
(* watch task is ever detached, and that stopped streams are silent and    *)
(* started ones served, for any numbers of streams, keys and watches.      *)
(***************************************************************************)
EXTENDS StreamRegistry, TLAPS

USE KeysAssumption, NoneAssumption

\* A broadcaster that exists: its task was spawned or is about to be.
Used(b) == task[b] # "none" \/ \E s \in Streams : call[s].bc = b

CallsWellFormed ==
    \A s \in Streams :
        /\ call[s].bc # None <=> call[s].at \in {"spawn", "register"}
        /\ call[s].at = "spawn" => task[call[s].bc] = "none"
        /\ call[s].at = "register" => task[call[s].bc] # "none"
        /\ call[s].at \in {"cleared", "spawn", "register"} => call[s].key \in Keys

OneCallPerTask ==
    \A s, t \in Streams : call[s].bc # None /\ call[s].bc = call[t].bc => s = t

WatchesDistinct ==
    \A k, j \in Keys : watches[k] # None /\ watches[k] = watches[j] => k = j

WatchesUsed == \A k \in Keys : watches[k] # None => Used(watches[k])

SubsUsed == \A b \in Broadcasters : subs[b] # {} => Used(b)

Identities ==
    /\ CallsWellFormed
    /\ OneCallPerTask
    /\ WatchesDistinct
    /\ WatchesUsed
    /\ SubsUsed

\* A command registers its task where it subscribed, and only once.
Registrations ==
    /\ \A s \in Streams, k \in Keys :
          call[s].bc # None => /\ watches[k] = call[s].bc => k = call[s].key
                               /\ handles[k] # call[s].bc

Entries ==
    \A s \in Streams :
        /\ call[s].at = "stopped" =>
              streams[s] = {} /\ s \notin logHandles /\ logs[s] # "running"
        /\ logs[s] = "running" => call[s].at = "insert" \/ s \in logHandles

\* A handle belongs to a task that was spawned.
Spawned ==
    /\ \A k \in Keys : handles[k] # None => task[handles[k]] # "none"
    /\ \A b \in aborted : task[b] # "none"

\* Only streams whose channel has failed are unsubscribed by a send.
FailedOnly ==
    \A b \in Broadcasters :
        task[b] = "removing" => batch[b] # {} /\ batch[b] \subseteq closed

Live(b) == Running(b) \/ \E t \in Streams : call[t].at = "spawn" /\ call[t].bc = b

\* As long as no channel has failed, a registered watch has subscribers and a
\* task...
WatchesLive ==
    closed = {} =>
        \A k \in Keys : watches[k] # None => subs[watches[k]] # {} /\ Live(watches[k])

\* ...and streams are subscribed to all the keys of their entry.
AllSubscribed ==
    closed = {} =>
        \A s \in Streams : \A k \in streams[s] : watches[k] # None /\ s \in subs[watches[k]]

IInv ==
    /\ TypeOK
    /\ HandlesMatchWatches
    /\ TasksAreOwned
    /\ Identities
    /\ Registrations
    /\ SubscribersHaveEntries
    /\ Entries
    /\ Spawned
    /\ FailedOnly
    /\ WatchesLive
    /\ AllSubscribed

-----------------------------------------------------------------------------

\* The initial state satisfies the inductive invariant.
LEMMA InitIInv == Init => IInv
  BY DEF Init, IInv, TypeOK, CallTypes, Call, HandlesMatchWatches, TasksAreOwned, Running,
         Identities, CallsWellFormed, OneCallPerTask, WatchesDistinct, WatchesUsed, SubsUsed,
         Registrations, SubscribersHaveEntries, Entries, Spawned,
         FailedOnly, WatchesLive, AllSubscribed

\* What dropping watches does to the types.
LEMMA DropWatchesTypes ==
  ASSUME TypeOK, NEW gone \in SUBSET Keys, DropWatches(gone)
  PROVE  /\ watches' \in [Keys -> Broadcasters \cup {None}]
         /\ handles' \in [Keys -> Broadcasters \cup {None}]
         /\ aborted' \in SUBSET Broadcasters
  BY DEF TypeOK, DropWatches

\* Every step keeps the types (a call deals with a key when it has one).
LEMMA TypeStep == TypeOK /\ CallsWellFormed /\ [Next]_vars => TypeOK'
<1> SUFFICES ASSUME TypeOK, CallsWellFormed, [Next]_vars PROVE TypeOK'
  OBVIOUS
<1> USE DEF TypeOK, CallTypes, Loop, Goto, Call
<1>1. ASSUME NEW s \in Streams, NEW keys \in SUBSET Keys, StartWatch(s, keys) PROVE TypeOK'
  BY <1>1 DEF StartWatch, registry, tasks
<1>2. ASSUME NEW s \in Streams, SpawnLogs(s) PROVE TypeOK'
  BY <1>2 DEF SpawnLogs, registry, tasks
<1>3. ASSUME NEW s \in Streams, NEW k \in Keys, RemoveEmptyWatch(s, k) PROVE TypeOK'
  <2> DEFINE gone == IF Unwatched(k) THEN {k} ELSE {}
  <2>1. gone \in SUBSET Keys /\ DropWatches(gone)
    BY <1>3 DEF RemoveEmptyWatch
  <2>2. /\ watches' \in [Keys -> Broadcasters \cup {None}]
        /\ handles' \in [Keys -> Broadcasters \cup {None}]
        /\ aborted' \in SUBSET Broadcasters
    BY <2>1, DropWatchesTypes
  <2> QED BY <1>3, <2>2 DEF RemoveEmptyWatch, registry, tasks
<1>4. ASSUME NEW s \in Streams, NEW b \in Broadcasters, Subscribe(s, b) PROVE TypeOK'
  <2> DEFINE k == call[s].key
  <2>1. watches' \in [Keys -> Broadcasters \cup {None}]
    BY <1>4 DEF Subscribe
  <2>2. call' \in [Streams -> CallTypes]
    BY <1>4 DEF Subscribe
  <2>4. k \in Keys
    BY <1>4 DEF Subscribe, CallsWellFormed
  <2>5. streams' \in [Streams -> SUBSET Keys] /\ subs' \in [Broadcasters -> SUBSET Streams]
    BY <1>4, <2>4 DEF Subscribe
  <2> QED BY <1>4, <2>1, <2>2, <2>5 DEF Subscribe, registry, tasks
<1>5. ASSUME NEW s \in Streams, SpawnWatch(s) PROVE TypeOK'
  BY <1>5 DEF SpawnWatch, registry, tasks
<1>6. ASSUME NEW s \in Streams, SetHandle(s) PROVE TypeOK'
  <2>1. call[s].bc \in Broadcasters /\ call[s].key \in Keys
    BY <1>6 DEF SetHandle, CallsWellFormed
  <2>2. handles' \in [Keys -> Broadcasters \cup {None}] /\ aborted' \in SUBSET Broadcasters
    BY <1>6, <2>1 DEF SetHandle
  <2> QED BY <1>6, <2>2 DEF SetHandle, registry, tasks
<1>7. ASSUME NEW s \in Streams, ReturnStarted(s) PROVE TypeOK'
  BY <1>7 DEF ReturnStarted, registry, tasks
<1>8. ASSUME NEW s \in Streams, InsertHandles(s) PROVE TypeOK'
  BY <1>8 DEF InsertHandles, registry, tasks
<1>9. ASSUME NEW s \in Streams, LogsEnd(s) \/ CloseChannel(s) PROVE TypeOK'
  BY <1>9 DEF LogsEnd, CloseChannel, registry, tasks
<1>10. ASSUME NEW s \in Streams, Stop(s) PROVE TypeOK'
  <2> DEFINE gone == {k \in streams[s] : watches[k] # None /\ subs[watches[k]] \subseteq {s}}
  <2>1. gone \in SUBSET Keys /\ DropWatches(gone)
    BY <1>10 DEF Stop
  <2>2. /\ watches' \in [Keys -> Broadcasters \cup {None}]
        /\ handles' \in [Keys -> Broadcasters \cup {None}]
        /\ aborted' \in SUBSET Broadcasters
    BY <2>1, DropWatchesTypes
  <2> QED BY <1>10, <2>2 DEF Stop, registry, tasks
<1>11. ASSUME NEW b \in Broadcasters, TaskStep(b) PROVE TypeOK'
  <2>1. CASE CloneSubscribers(b)
    BY <2>1 DEF CloneSubscribers, GoOn, registry, tasks
  <2>2. CASE Deliver(b)
    BY <2>2 DEF Deliver, registry, tasks
  <2>3. CASE RemoveFailed(b)
    BY <2>3 DEF RemoveFailed, registry, tasks
  <2>4. CASE CheckLeft(b)
    BY <2>4 DEF CheckLeft, GoOn, registry, tasks
  <2> QED BY <1>11, <2>1, <2>2, <2>3, <2>4 DEF TaskStep
<1>12. ASSUME UNCHANGED vars PROVE TypeOK'
  BY <1>12 DEF vars
<1> QED
  BY <1>1, <1>2, <1>3, <1>4, <1>5, <1>6, <1>7, <1>8, <1>9, <1>10, <1>11, <1>12
     DEF Next, CommandStep, Keys

\* No step takes a handle other than by aborting its task.
LEMMA OwnersStep ==
  IInv /\ [Next]_vars => HandlesMatchWatches' /\ TasksAreOwned'
<1> DEFINE Goal == HandlesMatchWatches' /\ TasksAreOwned'
<1> SUFFICES ASSUME TypeOK, CallsWellFormed, HandlesMatchWatches, TasksAreOwned, [Next]_vars
             PROVE Goal
  BY DEF IInv, Identities
<1> USE DEF HandlesMatchWatches, TasksAreOwned, Running, Registering, TypeOK, CallTypes,
            Loop, Goto, Call, registry, tasks, DropWatches
<1>1. ASSUME NEW s \in Streams, NEW keys \in SUBSET Keys, StartWatch(s, keys) PROVE Goal
  BY <1>1 DEF StartWatch
<1>2. ASSUME NEW s \in Streams, SpawnLogs(s) PROVE Goal
  BY <1>2 DEF SpawnLogs
<1>3. ASSUME NEW s \in Streams, NEW k \in Keys, RemoveEmptyWatch(s, k) PROVE Goal
  BY <1>3 DEF RemoveEmptyWatch
<1>4. ASSUME NEW s \in Streams, NEW b \in Broadcasters, Subscribe(s, b) PROVE Goal
  <2> DEFINE k == call[s].key
  <2>1. k \in Keys
    BY <1>4 DEF Subscribe, CallsWellFormed
  <2>2. UNCHANGED <<handles, task, aborted>>
    BY <1>4 DEF Subscribe
  <2>3. \A j \in Keys : watches'[j] = watches[j] \/ (watches[j] = None /\ handles[j] = None)
    BY <1>4, <2>1 DEF Subscribe
  <2>4. \A t \in Streams : call[t].at = "register" =>
            call'[t].at = "register" /\ call'[t].bc = call[t].bc
    BY SMTT(30), <1>4 DEF Subscribe
  <2>5. HandlesMatchWatches'
    BY <2>2, <2>3
  <2>6. ASSUME NEW x \in Broadcasters, Running(x)' 
        PROVE  Registering(x)' \/ \E j \in Keys : watches'[j] = x /\ handles'[j] = x
    <3>1. Running(x)
      BY <2>2, <2>6
    <3>2. CASE Registering(x)
      BY <2>4, <3>2
    <3>3. CASE \E j \in Keys : watches[j] = x /\ handles[j] = x
      BY <2>2, <2>3, <3>3
    <3> QED BY <3>1, <3>2, <3>3
  <2>7. TasksAreOwned'
    BY <2>6 DEF TasksAreOwned
  <2> QED BY <2>5, <2>7
<1>5. ASSUME NEW s \in Streams, SpawnWatch(s) PROVE Goal
  BY <1>5 DEF SpawnWatch
<1>6. ASSUME NEW s \in Streams, SetHandle(s) PROVE Goal
  <2>1. call[s].bc \in Broadcasters /\ call[s].key \in Keys
    BY <1>6 DEF SetHandle, CallsWellFormed
  <2> QED BY <1>6, <2>1 DEF SetHandle
<1>7. ASSUME NEW s \in Streams, ReturnStarted(s) PROVE Goal
  BY <1>7 DEF ReturnStarted
<1>8. ASSUME NEW s \in Streams, InsertHandles(s) PROVE Goal
  BY <1>8 DEF InsertHandles
<1>9. ASSUME NEW s \in Streams, LogsEnd(s) \/ CloseChannel(s) PROVE Goal
  BY <1>9 DEF LogsEnd, CloseChannel
<1>10. ASSUME NEW s \in Streams, Stop(s) PROVE Goal
  BY <1>10 DEF Stop
<1>11. ASSUME NEW b \in Broadcasters, TaskStep(b) PROVE Goal
  <2>1. CASE CloneSubscribers(b)
    BY <2>1 DEF CloneSubscribers, GoOn, Sends
  <2>2. CASE Deliver(b)
    BY <2>2 DEF Deliver
  <2>3. CASE RemoveFailed(b)
    BY <2>3 DEF RemoveFailed
  <2>4. CASE CheckLeft(b)
    BY <2>4 DEF CheckLeft, GoOn
  <2> QED BY <1>11, <2>1, <2>2, <2>3, <2>4 DEF TaskStep
<1>12. ASSUME UNCHANGED vars PROVE Goal
  BY <1>12 DEF vars
<1> HIDE DEF Goal, HandlesMatchWatches, TasksAreOwned, Running, Registering, TypeOK,
            CallTypes,
            Loop, Goto, Call, registry, tasks, DropWatches
<1> QED
  BY <1>1, <1>2, <1>3, <1>4, <1>5, <1>6, <1>7, <1>8, <1>9, <1>10, <1>11, <1>12
     DEF Next, CommandStep, Keys

\* Broadcasters in use stay in use.
LEMMA UsedStays ==
  IInv /\ [Next]_vars => \A x \in Broadcasters : Used(x) => Used(x)'
<1> DEFINE Goal == \A x \in Broadcasters : Used(x) => Used(x)'
<1> SUFFICES ASSUME TypeOK, CallsWellFormed, [Next]_vars PROVE Goal
  BY DEF IInv, Identities
<1> USE DEF Used, CallsWellFormed, TypeOK, CallTypes, Loop, Goto, Call, registry, tasks
<1>1. ASSUME NEW s \in Streams, NEW keys \in SUBSET Keys, StartWatch(s, keys) PROVE Goal
  BY <1>1 DEF StartWatch
<1>2. ASSUME NEW s \in Streams, SpawnLogs(s) PROVE Goal
  BY <1>2 DEF SpawnLogs
<1>3. ASSUME NEW s \in Streams, NEW k \in Keys, RemoveEmptyWatch(s, k) PROVE Goal
  BY <1>3 DEF RemoveEmptyWatch
<1>4. ASSUME NEW s \in Streams, NEW b \in Broadcasters, Subscribe(s, b) PROVE Goal
  BY SMTT(30), <1>4 DEF Subscribe
<1>5. ASSUME NEW s \in Streams, SpawnWatch(s) PROVE Goal
  BY <1>5 DEF SpawnWatch
<1>6. ASSUME NEW s \in Streams, SetHandle(s) PROVE Goal
  BY <1>6 DEF SetHandle
<1>7. ASSUME NEW s \in Streams, ReturnStarted(s) PROVE Goal
  BY <1>7 DEF ReturnStarted
<1>8. ASSUME NEW s \in Streams, InsertHandles(s) PROVE Goal
  BY <1>8 DEF InsertHandles
<1>9. ASSUME NEW s \in Streams, LogsEnd(s) \/ CloseChannel(s) PROVE Goal
  BY <1>9 DEF LogsEnd, CloseChannel
<1>10. ASSUME NEW s \in Streams, Stop(s) PROVE Goal
  BY <1>10 DEF Stop
<1>11. ASSUME NEW b \in Broadcasters, TaskStep(b) PROVE Goal
  BY <1>11 DEF TaskStep, CloneSubscribers, Deliver, RemoveFailed, CheckLeft, GoOn, Sends
<1>12. ASSUME UNCHANGED vars PROVE Goal
  BY <1>12 DEF vars
<1> HIDE DEF Goal, Used, CallsWellFormed, TypeOK, CallTypes, Loop, Goto, Call, registry, tasks
<1> QED
  BY <1>1, <1>2, <1>3, <1>4, <1>5, <1>6, <1>7, <1>8, <1>9, <1>10, <1>11, <1>12
     DEF Next, CommandStep, Keys

\* Calls stay well formed, one for each task.
LEMMA CallsStep ==
  IInv /\ [Next]_vars => CallsWellFormed' /\ OneCallPerTask'
<1> DEFINE Goal == CallsWellFormed' /\ OneCallPerTask'
<1> SUFFICES ASSUME TypeOK, CallsWellFormed, OneCallPerTask, [Next]_vars PROVE Goal
  BY DEF IInv, Identities
<1> USE DEF CallsWellFormed, OneCallPerTask, TypeOK, CallTypes, Loop, Goto, Call, registry,
            tasks
<1>1. ASSUME NEW s \in Streams, NEW keys \in SUBSET Keys, StartWatch(s, keys) PROVE Goal
  BY <1>1 DEF StartWatch
<1>2. ASSUME NEW s \in Streams, SpawnLogs(s) PROVE Goal
  BY <1>2 DEF SpawnLogs
<1>3. ASSUME NEW s \in Streams, NEW k \in Keys, RemoveEmptyWatch(s, k) PROVE Goal
  BY <1>3 DEF RemoveEmptyWatch
<1>4. ASSUME NEW s \in Streams, NEW b \in Broadcasters, Subscribe(s, b) PROVE Goal
  <2>1. /\ task' = task
        /\ \A t \in Streams \ {s} :
              call'[t] = call[t] /\ call[t].bc \in Broadcasters \cup {None}
    BY <1>4 DEF Subscribe
  <2>2. call[s].key \in Keys
    BY <1>4 DEF Subscribe
  <2>3. \/ call'[s] = Call("loop", call[s].todo \ {call[s].key}, None, None)
        \/ /\ call'[s] = Call("spawn", call[s].todo \ {call[s].key}, call[s].key, b)
           /\ Fresh(b)
    BY <1>4 DEF Subscribe
  <2>4. CallsWellFormed'
    BY SMTT(30), <2>1, <2>2, <2>3 DEF Fresh
  <2>5. OneCallPerTask'
    BY <2>1, <2>2, <2>3 DEF Fresh
  <2> QED BY <2>4, <2>5
<1>5. ASSUME NEW s \in Streams, SpawnWatch(s) PROVE Goal
  BY <1>5 DEF SpawnWatch
<1>6. ASSUME NEW s \in Streams, SetHandle(s) PROVE Goal
  BY <1>6 DEF SetHandle
<1>7. ASSUME NEW s \in Streams, ReturnStarted(s) PROVE Goal
  BY <1>7 DEF ReturnStarted
<1>8. ASSUME NEW s \in Streams, InsertHandles(s) PROVE Goal
  BY <1>8 DEF InsertHandles
<1>9. ASSUME NEW s \in Streams, LogsEnd(s) \/ CloseChannel(s) PROVE Goal
  BY <1>9 DEF LogsEnd, CloseChannel
<1>10. ASSUME NEW s \in Streams, Stop(s) PROVE Goal
  BY <1>10 DEF Stop
<1>11. ASSUME NEW b \in Broadcasters, TaskStep(b) PROVE Goal
  BY <1>11 DEF TaskStep, CloneSubscribers, Deliver, RemoveFailed, CheckLeft, GoOn, Sends
<1>12. ASSUME UNCHANGED vars PROVE Goal
  BY <1>12 DEF vars
<1> HIDE DEF Goal, CallsWellFormed, OneCallPerTask, TypeOK, CallTypes, Loop, Goto, Call,
            registry, tasks
<1> QED
  BY <1>1, <1>2, <1>3, <1>4, <1>5, <1>6, <1>7, <1>8, <1>9, <1>10, <1>11, <1>12
     DEF Next, CommandStep, Keys

\* Two keys never share a broadcaster.
LEMMA DistinctStep ==
  IInv /\ [Next]_vars => WatchesDistinct'
<1> DEFINE Goal == WatchesDistinct'
<1> SUFFICES ASSUME TypeOK, CallsWellFormed, WatchesDistinct, WatchesUsed, [Next]_vars
             PROVE Goal
  BY DEF IInv, Identities
<1> USE DEF WatchesDistinct, TypeOK, CallTypes, registry, tasks, DropWatches
<1>1. ASSUME NEW s \in Streams, NEW keys \in SUBSET Keys, StartWatch(s, keys) PROVE Goal
  BY <1>1 DEF StartWatch
<1>2. ASSUME NEW s \in Streams, SpawnLogs(s) PROVE Goal
  BY <1>2 DEF SpawnLogs
<1>3. ASSUME NEW s \in Streams, NEW k \in Keys, RemoveEmptyWatch(s, k) PROVE Goal
  BY <1>3 DEF RemoveEmptyWatch
<1>4. ASSUME NEW s \in Streams, NEW b \in Broadcasters, Subscribe(s, b) PROVE Goal
  <2>a. \/ watches' = watches
        \/ /\ watches[call[s].key] = None
           /\ watches' = [watches EXCEPT ![call[s].key] = b]
           /\ Fresh(b)
    BY <1>4 DEF Subscribe
  <2>b. Fresh(b) => ~Used(b)
    BY DEF Fresh, Used
  <2>1. \A j \in Keys : watches'[j] = watches[j]
            \/ (j = call[s].key /\ watches[j] = None /\ watches'[j] = b /\ ~Used(b))
    BY <2>a, <2>b
  <2> QED BY <2>1 DEF WatchesUsed
<1>5. ASSUME NEW s \in Streams, SpawnWatch(s) PROVE Goal
  BY <1>5 DEF SpawnWatch
<1>6. ASSUME NEW s \in Streams, SetHandle(s) PROVE Goal
  BY <1>6 DEF SetHandle
<1>7. ASSUME NEW s \in Streams, ReturnStarted(s) PROVE Goal
  BY <1>7 DEF ReturnStarted
<1>8. ASSUME NEW s \in Streams, InsertHandles(s) PROVE Goal
  BY <1>8 DEF InsertHandles
<1>9. ASSUME NEW s \in Streams, LogsEnd(s) \/ CloseChannel(s) PROVE Goal
  BY <1>9 DEF LogsEnd, CloseChannel
<1>10. ASSUME NEW s \in Streams, Stop(s) PROVE Goal
  BY <1>10 DEF Stop
<1>11. ASSUME NEW b \in Broadcasters, TaskStep(b) PROVE Goal
  BY <1>11 DEF TaskStep, CloneSubscribers, Deliver, RemoveFailed, CheckLeft, GoOn, Sends
<1>12. ASSUME UNCHANGED vars PROVE Goal
  BY <1>12 DEF vars
<1> HIDE DEF Goal, WatchesDistinct, TypeOK, CallTypes, registry, tasks, DropWatches
<1> QED
  BY <1>1, <1>2, <1>3, <1>4, <1>5, <1>6, <1>7, <1>8, <1>9, <1>10, <1>11, <1>12
     DEF Next, CommandStep, Keys

\* A broadcaster that is registered or subscribed to is in use.
LEMMA InUseStep ==
  IInv /\ [Next]_vars => WatchesUsed' /\ SubsUsed'
<1> DEFINE Goal == WatchesUsed' /\ SubsUsed'
<1> SUFFICES ASSUME IInv, TypeOK, CallsWellFormed, WatchesUsed, SubsUsed, [Next]_vars
             PROVE Goal
  BY DEF IInv, Identities
<1>u. \A x \in Broadcasters : Used(x) => Used(x)'
  BY UsedStays
<1> USE DEF WatchesUsed, SubsUsed, TypeOK, CallTypes, registry, tasks, DropWatches
<1>1. ASSUME NEW s \in Streams, NEW keys \in SUBSET Keys, StartWatch(s, keys) PROVE Goal
  BY <1>1, <1>u DEF StartWatch
<1>2. ASSUME NEW s \in Streams, SpawnLogs(s) PROVE Goal
  BY <1>2, <1>u DEF SpawnLogs
<1>3. ASSUME NEW s \in Streams, NEW k \in Keys, RemoveEmptyWatch(s, k) PROVE Goal
  BY <1>3, <1>u DEF RemoveEmptyWatch
<1>4. ASSUME NEW s \in Streams, NEW b \in Broadcasters, Subscribe(s, b) PROVE Goal
  <2>1. \A j \in Keys : watches'[j] = watches[j] \/ watches'[j] = b
    BY <1>4 DEF Subscribe
  <2>2. \A x \in Broadcasters : subs'[x] = subs[x] \/ x = b
    BY <1>4 DEF Subscribe
  <2>3. Used(b)'
    <3>1. CASE watches[call[s].key] = b
      <4>1. Used(b)
        BY <1>4, <3>1 DEF Subscribe, CallsWellFormed
      <4> QED BY <4>1, <1>u
    <3>2. CASE watches[call[s].key] # b
      <4>1. call'[s].bc = b
        BY <1>4, <3>2 DEF Subscribe, Goto, Call
      <4> QED BY <4>1 DEF Used
    <3> QED BY <3>1, <3>2
  <2> QED BY <2>1, <2>2, <2>3, <1>u
<1>5. ASSUME NEW s \in Streams, SpawnWatch(s) PROVE Goal
  BY <1>5, <1>u DEF SpawnWatch
<1>6. ASSUME NEW s \in Streams, SetHandle(s) PROVE Goal
  BY <1>6, <1>u DEF SetHandle
<1>7. ASSUME NEW s \in Streams, ReturnStarted(s) PROVE Goal
  BY <1>7, <1>u DEF ReturnStarted
<1>8. ASSUME NEW s \in Streams, InsertHandles(s) PROVE Goal
  BY <1>8, <1>u DEF InsertHandles
<1>9. ASSUME NEW s \in Streams, LogsEnd(s) \/ CloseChannel(s) PROVE Goal
  BY <1>9, <1>u DEF LogsEnd, CloseChannel
<1>10. ASSUME NEW s \in Streams, Stop(s) PROVE Goal
  BY <1>10, <1>u DEF Stop
<1>11. ASSUME NEW b \in Broadcasters, TaskStep(b) PROVE Goal
  BY <1>11, <1>u DEF TaskStep, CloneSubscribers, Deliver, RemoveFailed, CheckLeft, GoOn, Sends
<1>12. ASSUME UNCHANGED vars PROVE Goal
  BY <1>12, <1>u DEF vars
<1> HIDE DEF Goal, WatchesUsed, SubsUsed, TypeOK, CallTypes, registry, tasks, DropWatches
<1> QED
  BY <1>1, <1>2, <1>3, <1>4, <1>5, <1>6, <1>7, <1>8, <1>9, <1>10, <1>11, <1>12
     DEF Next, CommandStep, Keys

\* A task is registered under the key it was started for.
LEMMA RegistrationsStep ==
  IInv /\ [Next]_vars => Registrations'
<1> DEFINE Goal == Registrations'
<1> SUFFICES ASSUME TypeOK, CallsWellFormed, OneCallPerTask, WatchesUsed,
                    HandlesMatchWatches, Registrations, [Next]_vars
             PROVE Goal
  BY DEF IInv, Identities
<1> USE DEF Registrations, TypeOK, CallTypes, Loop, Goto, Call, registry, tasks, DropWatches
<1>1. ASSUME NEW s \in Streams, NEW keys \in SUBSET Keys, StartWatch(s, keys) PROVE Goal
  BY <1>1 DEF StartWatch
<1>2. ASSUME NEW s \in Streams, SpawnLogs(s) PROVE Goal
  BY <1>2 DEF SpawnLogs
<1>3. ASSUME NEW s \in Streams, NEW k \in Keys, RemoveEmptyWatch(s, k) PROVE Goal
  BY <1>3 DEF RemoveEmptyWatch
<1>4. ASSUME NEW s \in Streams, NEW b \in Broadcasters, Subscribe(s, b) PROVE Goal
  <2>a. \/ watches' = watches
        \/ /\ watches[call[s].key] = None
           /\ watches' = [watches EXCEPT ![call[s].key] = b]
           /\ Fresh(b)
    BY <1>4 DEF Subscribe
  <2>b. Fresh(b) => ~Used(b)
    BY DEF Fresh, Used
  <2>1. \A j \in Keys : watches'[j] = watches[j]
            \/ (j = call[s].key /\ watches[j] = None /\ watches'[j] = b /\ ~Used(b))
    BY <2>a, <2>b
  <2>2. handles' = handles /\ \A t \in Streams \ {s} : call'[t] = call[t]
    BY <1>4 DEF Subscribe
  <2>3. \/ call'[s].bc = None
        \/ call'[s].bc = b /\ call'[s].key = call[s].key /\ ~Used(b)
    BY <1>4 DEF Subscribe, Fresh, Used
  <2>4. \A j \in Keys : handles[j] = b => Used(b)
    BY DEF HandlesMatchWatches, WatchesUsed
  <2> QED BY <2>1, <2>2, <2>3, <2>4 DEF WatchesUsed, Used
<1>5. ASSUME NEW s \in Streams, SpawnWatch(s) PROVE Goal
  BY <1>5 DEF SpawnWatch
<1>6. ASSUME NEW s \in Streams, SetHandle(s) PROVE Goal
  <2>1. call[s].bc \in Broadcasters /\ call[s].key \in Keys
    BY <1>6 DEF SetHandle, CallsWellFormed
  <2>2. \A t \in Streams : t # s => call'[t] = call[t] /\ call[t].bc # call[s].bc
    BY <1>6, <2>1 DEF SetHandle, OneCallPerTask
  <2>3. call'[s].bc = None /\ watches' = watches
    BY <1>6 DEF SetHandle
  <2>4. \A j \in Keys : handles'[j] = handles[j] \/ handles'[j] = call[s].bc
    BY <1>6 DEF SetHandle
  <2> QED BY <2>2, <2>3, <2>4
<1>7. ASSUME NEW s \in Streams, ReturnStarted(s) PROVE Goal
  BY <1>7 DEF ReturnStarted
<1>8. ASSUME NEW s \in Streams, InsertHandles(s) PROVE Goal
  BY <1>8 DEF InsertHandles
<1>9. ASSUME NEW s \in Streams, LogsEnd(s) \/ CloseChannel(s) PROVE Goal
  BY <1>9 DEF LogsEnd, CloseChannel
<1>10. ASSUME NEW s \in Streams, Stop(s) PROVE Goal
  BY <1>10 DEF Stop
<1>11. ASSUME NEW b \in Broadcasters, TaskStep(b) PROVE Goal
  BY <1>11 DEF TaskStep, CloneSubscribers, Deliver, RemoveFailed, CheckLeft, GoOn, Sends
<1>12. ASSUME UNCHANGED vars PROVE Goal
  BY <1>12 DEF vars
<1> HIDE DEF Goal, Registrations, TypeOK, CallTypes, Loop, Goto, Call, registry, tasks,
            DropWatches
<1> QED
  BY <1>1, <1>2, <1>3, <1>4, <1>5, <1>6, <1>7, <1>8, <1>9, <1>10, <1>11, <1>12
     DEF Next, CommandStep, Keys

\* Subscribers keep entries, stopped streams have none, and running log
\* tasks can be found.
LEMMA EntriesStep ==
  IInv /\ [Next]_vars => SubscribersHaveEntries' /\ Entries'
<1> DEFINE Goal == SubscribersHaveEntries' /\ Entries'
<1> SUFFICES ASSUME TypeOK, CallsWellFormed, WatchesDistinct, WatchesUsed, SubsUsed,
                    SubscribersHaveEntries, Entries, [Next]_vars
             PROVE Goal
  BY DEF IInv, Identities
<1> USE DEF SubscribersHaveEntries, Entries, TypeOK, CallTypes, Loop, Goto, Call, registry,
            tasks, DropWatches
<1>1. ASSUME NEW s \in Streams, NEW keys \in SUBSET Keys, StartWatch(s, keys) PROVE Goal
  BY <1>1 DEF StartWatch
<1>2. ASSUME NEW s \in Streams, SpawnLogs(s) PROVE Goal
  BY <1>2 DEF SpawnLogs
<1>3. ASSUME NEW s \in Streams, NEW k \in Keys, RemoveEmptyWatch(s, k) PROVE Goal
  BY <1>3 DEF RemoveEmptyWatch
<1>4. ASSUME NEW s \in Streams, NEW b \in Broadcasters, Subscribe(s, b) PROVE Goal
  <2>a. \/ watches' = watches
        \/ /\ watches[call[s].key] = None
           /\ watches' = [watches EXCEPT ![call[s].key] = b]
           /\ Fresh(b)
    BY <1>4 DEF Subscribe
  <2>b. Fresh(b) => ~Used(b)
    BY DEF Fresh, Used
  <2>1. \A j \in Keys : watches'[j] = watches[j]
            \/ (j = call[s].key /\ watches[j] = None /\ watches'[j] = b /\ ~Used(b))
    BY <2>a, <2>b
  <2>2. \A x \in Broadcasters : subs'[x] = IF x = b THEN subs[b] \cup {s} ELSE subs[x]
    BY <1>4 DEF Subscribe
  <2>3. /\ \A t \in Streams : streams'[t] =
              IF t = s THEN streams[s] \cup {call[s].key} ELSE streams[t]
        /\ \A t \in Streams : t # s => call'[t] = call[t]
        /\ UNCHANGED <<logHandles, logs>>
    BY <1>4 DEF Subscribe
  <2>4. watches'[call[s].key] = b /\ call[s].key \in Keys
    BY <1>4 DEF Subscribe, CallsWellFormed
  <2>5. SubscribersHaveEntries'
    <3> SUFFICES ASSUME NEW j \in Keys, watches'[j] # None, NEW t \in subs'[watches'[j]]
                 PROVE  j \in streams'[t]
      OBVIOUS
    <3>1. CASE j = call[s].key
      <4>1. t = s \/ (watches[j] = b /\ t \in subs[b])
        BY <2>1, <2>2, <2>4, <3>1 DEF SubsUsed
      <4> QED BY <2>3, <3>1, <4>1
    <3>2. CASE j # call[s].key
      <4>1. watches'[j] = watches[j]
        BY <2>1, <3>2
      <4>2. watches[j] # b
        BY <2>a, <2>b, <2>4, <3>2, <4>1 DEF WatchesDistinct, WatchesUsed
      <4> QED BY <2>2, <2>3, <4>1, <4>2
    <3> QED BY <3>1, <3>2
  <2>6. call[s].at = "cleared" /\ call'[s].at \in {"loop", "spawn"}
    BY <1>4 DEF Subscribe
  <2>7. Entries'
    BY <2>3, <2>6
  <2> QED BY <2>5, <2>7
<1>5. ASSUME NEW s \in Streams, SpawnWatch(s) PROVE Goal
  BY <1>5 DEF SpawnWatch
<1>6. ASSUME NEW s \in Streams, SetHandle(s) PROVE Goal
  BY <1>6 DEF SetHandle
<1>7. ASSUME NEW s \in Streams, ReturnStarted(s) PROVE Goal
  BY <1>7 DEF ReturnStarted
<1>8. ASSUME NEW s \in Streams, InsertHandles(s) PROVE Goal
  BY <1>8 DEF InsertHandles
<1>9. ASSUME NEW s \in Streams, LogsEnd(s) \/ CloseChannel(s) PROVE Goal
  BY <1>9 DEF LogsEnd, CloseChannel
<1>10. ASSUME NEW s \in Streams, Stop(s) PROVE Goal
  <2>1. /\ \A t \in Streams : streams'[t] = IF t = s THEN {} ELSE streams[t]
        /\ \A t \in Streams : t # s => call'[t] = call[t]
        /\ \A t \in Streams : t # s => logs'[t] = logs[t]
        /\ \A t \in Streams : t \in logHandles' <=> t # s /\ t \in logHandles
    BY <1>10 DEF Stop
  <2>2. /\ \A j \in Keys : watches'[j] = None \/ watches'[j] = watches[j]
        /\ \A x \in Broadcasters :
              subs'[x] = IF x \in Joined(s) THEN subs[x] \ {s} ELSE subs[x]
    BY <1>10 DEF Stop
  <2>3. SubscribersHaveEntries'
    <3>1. ASSUME NEW x \in Broadcasters
          PROVE  /\ subs'[x] \subseteq subs[x] /\ subs[x] \subseteq Streams
                 /\ x \in Joined(s) => s \notin subs'[x]
      <4>1. subs[x] \subseteq Streams
        OBVIOUS
      <4>2. CASE x \in Joined(s)
        <5>1. subs'[x] = subs[x] \ {s}
          BY <2>2, <4>2
        <5> QED BY <4>1, <5>1
      <4>3. CASE x \notin Joined(s)
        <5>1. subs'[x] = subs[x]
          BY <2>2, <4>3
        <5> QED BY <4>1, <4>3, <5>1
      <4> QED BY <4>2, <4>3
    <3>2. ASSUME NEW j \in Keys, watches'[j] # None
          PROVE  watches'[j] = watches[j] /\ watches[j] \in Broadcasters
      BY <2>2, <3>2
    <3>3. ASSUME NEW j \in Keys, watches'[j] # None,
                 NEW t \in Streams, t \in subs'[watches[j]]
          PROVE  j \in streams'[t]
      <4>1. watches[j] \in Broadcasters /\ t \in subs[watches[j]]
        BY <3>1, <3>2, <3>3
      <4>2. j \in streams[t]
        BY <4>1, NoneAssumption
      <4>3. CASE t = s
        <5>1. watches[j] \in Joined(s)
          BY <4>1, <4>2, <4>3, NoneAssumption DEF Joined
        <5> QED BY <3>1, <3>3, <4>1, <4>3, <5>1
      <4>4. CASE t # s
        BY <2>1, <4>2, <4>4
      <4> QED BY <4>3, <4>4
    <3> QED BY <3>1, <3>2, <3>3
  <2>4. logs'[s] # "running"
    BY <1>10 DEF Stop
  <2>5. Entries'
    BY <2>1, <2>4
  <2> QED BY <2>3, <2>5
<1>11. ASSUME NEW b \in Broadcasters, TaskStep(b) PROVE Goal
  BY <1>11 DEF TaskStep, CloneSubscribers, Deliver, RemoveFailed, CheckLeft, GoOn, Sends
<1>12. ASSUME UNCHANGED vars PROVE Goal
  BY <1>12 DEF vars
<1> HIDE DEF Goal, SubscribersHaveEntries, Entries, TypeOK, CallTypes, Loop, Goto, Call,
            registry, tasks, DropWatches
<1> QED
  BY <1>1, <1>2, <1>3, <1>4, <1>5, <1>6, <1>7, <1>8, <1>9, <1>10, <1>11, <1>12
     DEF Next, CommandStep, Keys

\* Handles and aborts are only ever of spawned tasks.
LEMMA SpawnedStep ==
  IInv /\ [Next]_vars => Spawned'
<1> DEFINE Goal == Spawned'
<1> SUFFICES ASSUME TypeOK, CallsWellFormed, Spawned, [Next]_vars PROVE Goal
  BY DEF IInv, Identities
<1> USE DEF Spawned, TypeOK, CallTypes, registry, tasks, DropWatches
<1>1. ASSUME NEW s \in Streams, NEW keys \in SUBSET Keys, StartWatch(s, keys) PROVE Goal
  BY <1>1 DEF StartWatch
<1>2. ASSUME NEW s \in Streams, SpawnLogs(s) PROVE Goal
  BY <1>2 DEF SpawnLogs
<1>3. ASSUME NEW s \in Streams, NEW k \in Keys, RemoveEmptyWatch(s, k) PROVE Goal
  BY <1>3 DEF RemoveEmptyWatch
<1>4. ASSUME NEW s \in Streams, NEW b \in Broadcasters, Subscribe(s, b) PROVE Goal
  BY <1>4 DEF Subscribe
<1>5. ASSUME NEW s \in Streams, SpawnWatch(s) PROVE Goal
  BY <1>5 DEF SpawnWatch
<1>6. ASSUME NEW s \in Streams, SetHandle(s) PROVE Goal
  <2>1. call[s].bc \in Broadcasters /\ call[s].key \in Keys
    BY <1>6 DEF SetHandle, CallsWellFormed
  <2>2. task[call[s].bc] # "none"
    BY <1>6 DEF SetHandle, CallsWellFormed
  <2> QED BY <1>6, <2>1, <2>2 DEF SetHandle
<1>7. ASSUME NEW s \in Streams, ReturnStarted(s) PROVE Goal
  BY <1>7 DEF ReturnStarted
<1>8. ASSUME NEW s \in Streams, InsertHandles(s) PROVE Goal
  BY <1>8 DEF InsertHandles
<1>9. ASSUME NEW s \in Streams, LogsEnd(s) \/ CloseChannel(s) PROVE Goal
  BY <1>9 DEF LogsEnd, CloseChannel
<1>10. ASSUME NEW s \in Streams, Stop(s) PROVE Goal
  BY <1>10 DEF Stop
<1>11. ASSUME NEW b \in Broadcasters, TaskStep(b) PROVE Goal
  BY <1>11 DEF TaskStep, CloneSubscribers, Deliver, RemoveFailed, CheckLeft, GoOn, Sends
<1>12. ASSUME UNCHANGED vars PROVE Goal
  BY <1>12 DEF vars
<1> HIDE DEF Goal, Spawned, TypeOK, CallTypes, registry, tasks, DropWatches
<1> QED
  BY <1>1, <1>2, <1>3, <1>4, <1>5, <1>6, <1>7, <1>8, <1>9, <1>10, <1>11, <1>12
     DEF Next, CommandStep, Keys

\* A send unsubscribes nobody but streams whose channel has failed.
LEMMA FailedOnlyStep ==
  IInv /\ [Next]_vars => FailedOnly'
<1> DEFINE Goal == FailedOnly'
<1> SUFFICES ASSUME TypeOK, FailedOnly, [Next]_vars PROVE Goal
  BY DEF IInv
<1> USE DEF FailedOnly, TypeOK, registry, tasks
<1>1. ASSUME NEW s \in Streams, NEW keys \in SUBSET Keys, StartWatch(s, keys) PROVE Goal
  BY <1>1 DEF StartWatch
<1>2. ASSUME NEW s \in Streams, SpawnLogs(s) PROVE Goal
  BY <1>2 DEF SpawnLogs
<1>3. ASSUME NEW s \in Streams, NEW k \in Keys, RemoveEmptyWatch(s, k) PROVE Goal
  BY <1>3 DEF RemoveEmptyWatch
<1>4. ASSUME NEW s \in Streams, NEW b \in Broadcasters, Subscribe(s, b) PROVE Goal
  BY <1>4 DEF Subscribe
<1>5. ASSUME NEW s \in Streams, SpawnWatch(s) PROVE Goal
  BY <1>5 DEF SpawnWatch
<1>6. ASSUME NEW s \in Streams, SetHandle(s) PROVE Goal
  BY <1>6 DEF SetHandle
<1>7. ASSUME NEW s \in Streams, ReturnStarted(s) PROVE Goal
  BY <1>7 DEF ReturnStarted
<1>8. ASSUME NEW s \in Streams, InsertHandles(s) PROVE Goal
  BY <1>8 DEF InsertHandles
<1>9. ASSUME NEW s \in Streams, LogsEnd(s) \/ CloseChannel(s) PROVE Goal
  BY <1>9 DEF LogsEnd, CloseChannel
<1>10. ASSUME NEW s \in Streams, Stop(s) PROVE Goal
  BY <1>10 DEF Stop
<1>11. ASSUME NEW b \in Broadcasters, TaskStep(b) PROVE Goal
  BY <1>11 DEF TaskStep, CloneSubscribers, Deliver, RemoveFailed, CheckLeft, GoOn, Sends
<1>12. ASSUME UNCHANGED vars PROVE Goal
  BY <1>12 DEF vars
<1> HIDE DEF Goal, FailedOnly, TypeOK, registry, tasks
<1> QED
  BY <1>1, <1>2, <1>3, <1>4, <1>5, <1>6, <1>7, <1>8, <1>9, <1>10, <1>11, <1>12
     DEF Next, CommandStep, Keys

\* Until a channel fails, registered watches stay live.
LEMMA WatchesLiveStep ==
  IInv /\ [Next]_vars => WatchesLive'
<1> DEFINE Goal == WatchesLive'
<1> SUFFICES ASSUME TypeOK, CallsWellFormed, OneCallPerTask, WatchesDistinct, HandlesMatchWatches,
                    Registrations, Spawned, FailedOnly, WatchesLive, [Next]_vars PROVE Goal
  BY DEF IInv, Identities
<1> USE DEF WatchesLive, Live, Running, TypeOK, CallTypes, Loop, Goto, Call, registry,
            tasks, DropWatches
<1>1. ASSUME NEW s \in Streams, NEW keys \in SUBSET Keys, StartWatch(s, keys) PROVE Goal
  BY <1>1 DEF StartWatch
<1>2. ASSUME NEW s \in Streams, SpawnLogs(s) PROVE Goal
  BY <1>2 DEF SpawnLogs
<1>3. ASSUME NEW s \in Streams, NEW k \in Keys, RemoveEmptyWatch(s, k) PROVE Goal
  <2>1. closed = {} => ~Unwatched(k)
    BY DEF Unwatched, WatchesLive
  <2>2. closed = {} => UNCHANGED <<watches, handles, aborted>>
    BY <1>3, <2>1 DEF RemoveEmptyWatch
  <2> QED BY <1>3, <2>2 DEF RemoveEmptyWatch
<1>4. ASSUME NEW s \in Streams, NEW b \in Broadcasters, Subscribe(s, b) PROVE Goal
  <2>1. call[s].at = "cleared" /\ UNCHANGED <<task, aborted, closed>>
    BY <1>4 DEF Subscribe
  <2>2. ASSUME NEW x \in Broadcasters, Live(x) PROVE Live(x)'
    BY <1>4, <2>1, <2>2 DEF Subscribe
  <2>3. \A x \in Broadcasters : subs[x] \subseteq subs'[x] /\ s \in subs'[b]
    BY <1>4 DEF Subscribe
  <2>4. \A j \in Keys : watches'[j] # watches[j] => watches'[j] = b /\ Live(b)'
    BY <1>4 DEF Subscribe
  <2> SUFFICES ASSUME closed = {}, NEW j \in Keys, watches'[j] # None
               PROVE  (subs[watches[j]] # {} /\ Live(watches[j]))'
    BY <2>1
  <2>5. CASE watches'[j] = watches[j]
    <3>1. watches[j] \in Broadcasters /\ subs[watches[j]] # {} /\ Live(watches[j])
      BY <2>5
    <3>2. subs'[watches[j]] # {} /\ Live(watches[j])'
      BY <2>2, <2>3, <2>5, <3>1
    <3> QED BY <2>5, <3>2
  <2>6. CASE watches'[j] # watches[j]
    BY <2>3, <2>4, <2>6
  <2> QED BY <2>5, <2>6
<1>5. ASSUME NEW s \in Streams, SpawnWatch(s) PROVE Goal
  <2>1. call[s].bc \in Broadcasters /\ call[s].bc \notin aborted
    BY <1>5 DEF SpawnWatch, CallsWellFormed, Spawned
  <2>2. ASSUME NEW x \in Broadcasters, Live(x) PROVE Live(x)'
    BY <1>5, <2>1, <2>2 DEF SpawnWatch
  <2> QED BY <1>5, <2>2 DEF SpawnWatch
<1>6. ASSUME NEW s \in Streams, SetHandle(s) PROVE Goal
  <2>1. call[s].bc \in Broadcasters /\ call[s].key \in Keys
    BY <1>6 DEF SetHandle, CallsWellFormed
  <2>2. \/ UNCHANGED aborted
        \/ /\ aborted' = aborted \cup {call[s].bc}
           /\ \A j \in Keys : watches[j] # call[s].bc
    BY <1>6, <2>1 DEF SetHandle, Registrations, HandlesMatchWatches
  <2>3. ASSUME NEW x \in Broadcasters, Live(x), \E j \in Keys : watches[j] = x PROVE Live(x)'
    BY <1>6, <2>2, <2>3 DEF SetHandle
  <2> QED BY SMTT(30), <1>6, <2>3 DEF SetHandle
<1>7. ASSUME NEW s \in Streams, ReturnStarted(s) PROVE Goal
  BY <1>7 DEF ReturnStarted
<1>8. ASSUME NEW s \in Streams, InsertHandles(s) PROVE Goal
  BY <1>8 DEF InsertHandles
<1>9. ASSUME NEW s \in Streams, LogsEnd(s) \/ CloseChannel(s) PROVE Goal
  BY <1>9 DEF LogsEnd, CloseChannel
<1>10. ASSUME NEW s \in Streams, Stop(s) PROVE Goal
  <2> DEFINE gone == {k \in streams[s] : watches[k] # None /\ subs[watches[k]] \subseteq {s}}
  <2>1. /\ DropWatches(gone)
        /\ gone \in SUBSET Keys
        /\ \A x \in Broadcasters :
              subs'[x] = IF x \in Joined(s) THEN subs[x] \ {s} ELSE subs[x]
        /\ UNCHANGED <<task, closed>>
        /\ call[s].at = "returned" /\ \A t \in Streams : t # s => call'[t] = call[t]
    BY <1>10 DEF Stop
  <2> SUFFICES ASSUME closed = {}, NEW j \in Keys, watches'[j] # None
               PROVE  (subs[watches[j]] # {} /\ Live(watches[j]))'
    BY <2>1
  <2>2. j \notin gone /\ watches'[j] = watches[j] /\ watches[j] \in Broadcasters
    BY <2>1
  <2>3. subs[watches[j]] # {} /\ Live(watches[j])
    BY <2>2
  <2>4. subs'[watches[j]] # {}
    <3>1. CASE watches[j] \in Joined(s)
      <4>1. PICK i \in streams[s] : watches[i] = watches[j]
        BY <3>1 DEF Joined
      <4>2. i = j
        BY <2>2, <4>1 DEF WatchesDistinct
      <4>3. ~(subs[watches[j]] \subseteq {s})
        BY <2>2, <4>1, <4>2
      <4>4. PICK t \in subs[watches[j]] : t # s
        BY <4>3
      <4>5. subs'[watches[j]] = subs[watches[j]] \ {s}
        BY <2>1, <2>2, <3>1
      <4> QED BY <4>4, <4>5
    <3>2. CASE watches[j] \notin Joined(s)
      BY <2>1, <2>2, <2>3, <3>2
    <3> QED BY <3>1, <3>2
  <2>5. watches[j] \in aborted' => watches[j] \in aborted
    BY <2>1, <2>2 DEF HandlesMatchWatches, WatchesDistinct
  <2>6. CASE Running(watches[j])
    BY <2>1, <2>2, <2>4, <2>5, <2>6
  <2>7. CASE \E t \in Streams : call[t].at = "spawn" /\ call[t].bc = watches[j]
    <3>1. PICK t \in Streams : call[t].at = "spawn" /\ call[t].bc = watches[j]
      BY <2>7
    <3>2. call'[t] = call[t]
      BY <2>1, <3>1
    <3> QED BY <2>2, <2>4, <3>1, <3>2
  <2> QED BY <2>2, <2>3, <2>4, <2>6, <2>7
<1>11. ASSUME NEW b \in Broadcasters, TaskStep(b) PROVE Goal
  <2>1. closed = {} => task[b] # "removing"
    BY DEF FailedOnly
  <2>2. CASE CloneSubscribers(b)
    BY <2>2 DEF CloneSubscribers, GoOn, Sends
  <2>3. CASE Deliver(b)
    BY <2>3 DEF Deliver
  <2>4. CASE RemoveFailed(b)
    BY <2>1, <2>4 DEF RemoveFailed
  <2>5. CASE CheckLeft(b)
    BY <2>5 DEF CheckLeft, GoOn
  <2> QED BY <1>11, <2>2, <2>3, <2>4, <2>5 DEF TaskStep
<1>12. ASSUME UNCHANGED vars PROVE Goal
  BY <1>12 DEF vars
<1> HIDE DEF Goal, WatchesLive, Live, Running, TypeOK, CallTypes, Loop, Goto, Call,
            registry, tasks, DropWatches
<1> QED
  BY <1>1, <1>2, <1>3, <1>4, <1>5, <1>6, <1>7, <1>8, <1>9, <1>10, <1>11, <1>12
     DEF Next, CommandStep, Keys

\* Until a channel fails, streams stay subscribed to their keys.
LEMMA AllSubscribedStep ==
  IInv /\ [Next]_vars => AllSubscribed'
<1> DEFINE Goal == AllSubscribed'
<1> SUFFICES ASSUME TypeOK, CallsWellFormed, WatchesLive, FailedOnly, AllSubscribed,
                    [Next]_vars
             PROVE Goal
  BY DEF IInv, Identities
<1> USE DEF AllSubscribed, TypeOK, CallTypes, registry, tasks, DropWatches
<1>1. ASSUME NEW s \in Streams, NEW keys \in SUBSET Keys, StartWatch(s, keys) PROVE Goal
  BY <1>1 DEF StartWatch
<1>2. ASSUME NEW s \in Streams, SpawnLogs(s) PROVE Goal
  BY <1>2 DEF SpawnLogs
<1>3. ASSUME NEW s \in Streams, NEW k \in Keys, RemoveEmptyWatch(s, k) PROVE Goal
  <2>1. closed = {} => ~Unwatched(k)
    BY DEF Unwatched, WatchesLive
  <2>2. closed = {} => UNCHANGED <<watches, handles, aborted>>
    BY <1>3, <2>1 DEF RemoveEmptyWatch
  <2> QED BY <1>3, <2>2 DEF RemoveEmptyWatch
<1>4. ASSUME NEW s \in Streams, NEW b \in Broadcasters, Subscribe(s, b) PROVE Goal
  <2>1. /\ \A t \in Streams : streams'[t] =
              IF t = s THEN streams[s] \cup {call[s].key} ELSE streams[t]
        /\ \A x \in Broadcasters : subs'[x] = IF x = b THEN subs[b] \cup {s} ELSE subs[x]
        /\ \/ UNCHANGED watches
           \/ watches[call[s].key] = None /\ watches' = [watches EXCEPT ![call[s].key] = b]
        /\ watches'[call[s].key] = b /\ call[s].key \in Keys /\ UNCHANGED closed
    BY <1>4 DEF Subscribe, CallsWellFormed
  <2> SUFFICES ASSUME closed = {}, NEW t \in Streams, NEW j \in Keys, j \in streams'[t]
               PROVE  watches'[j] # None /\ t \in subs'[watches'[j]]
    BY <2>1
  <2>2. CASE j \in streams[t]
    <3>1. watches[j] \in Broadcasters /\ t \in subs[watches[j]]
      BY <2>2
    <3>2. watches'[j] = watches[j]
      BY <2>1, <3>1
    <3> QED BY <2>1, <3>1, <3>2
  <2>3. CASE j \notin streams[t]
    <3>1. t = s /\ j = call[s].key
      BY <2>1, <2>3
    <3> QED BY <2>1, <3>1
  <2> QED BY <2>2, <2>3
<1>5. ASSUME NEW s \in Streams, SpawnWatch(s) PROVE Goal
  BY <1>5 DEF SpawnWatch
<1>6. ASSUME NEW s \in Streams, SetHandle(s) PROVE Goal
  BY <1>6 DEF SetHandle
<1>7. ASSUME NEW s \in Streams, ReturnStarted(s) PROVE Goal
  BY <1>7 DEF ReturnStarted
<1>8. ASSUME NEW s \in Streams, InsertHandles(s) PROVE Goal
  BY <1>8 DEF InsertHandles
<1>9. ASSUME NEW s \in Streams, LogsEnd(s) \/ CloseChannel(s) PROVE Goal
  BY <1>9 DEF LogsEnd, CloseChannel
<1>10. ASSUME NEW s \in Streams, Stop(s) PROVE Goal
  <2> DEFINE gone == {k \in streams[s] : watches[k] # None /\ subs[watches[k]] \subseteq {s}}
  <2>1. /\ \A t \in Streams : streams'[t] = IF t = s THEN {} ELSE streams[t]
        /\ DropWatches(gone)
        /\ \A x \in Broadcasters :
              subs'[x] = IF x \in Joined(s) THEN subs[x] \ {s} ELSE subs[x]
        /\ UNCHANGED closed
    BY <1>10 DEF Stop
  <2> SUFFICES ASSUME closed = {}, NEW t \in Streams, NEW j \in streams'[t]
               PROVE  watches'[j] # None /\ t \in subs'[watches'[j]]
    BY <2>1
  <2>2. t # s /\ j \in streams[t] /\ j \in Keys
    BY <2>1
  <2>3. watches[j] \in Broadcasters /\ t \in subs[watches[j]]
    BY <2>2
  <2>4. watches'[j] = watches[j]
    BY <2>1, <2>2, <2>3
  <2> QED BY ZenonT(60), <2>1, <2>2, <2>3, <2>4
<1>11. ASSUME NEW b \in Broadcasters, TaskStep(b) PROVE Goal
  <2>1. closed = {} => task[b] # "removing"
    BY DEF FailedOnly
  <2>2. UNCHANGED <<streams, watches, closed>>
    BY <1>11 DEF TaskStep, CloneSubscribers, Deliver, RemoveFailed, CheckLeft
  <2>3. closed = {} => subs' = subs
    BY <1>11, <2>1 DEF TaskStep, CloneSubscribers, Deliver, RemoveFailed, CheckLeft
  <2> QED BY <2>2, <2>3
<1>12. ASSUME UNCHANGED vars PROVE Goal
  BY <1>12 DEF vars
<1> HIDE DEF Goal, AllSubscribed, TypeOK, CallTypes, registry, tasks, DropWatches
<1> QED
  BY <1>1, <1>2, <1>3, <1>4, <1>5, <1>6, <1>7, <1>8, <1>9, <1>10, <1>11, <1>12
     DEF Next, CommandStep, Keys

\* The inductive invariant holds in every reachable state.
LEMMA Invariance == Spec => []IInv
<1>1. IInv /\ [Next]_vars => IInv'
  <2> SUFFICES ASSUME IInv, [Next]_vars PROVE IInv'
    OBVIOUS
  <2>1. TypeOK'
    BY TypeStep DEF IInv, Identities
  <2>2. HandlesMatchWatches' /\ TasksAreOwned'
    BY OwnersStep
  <2>3. Identities'
    BY CallsStep, DistinctStep, InUseStep DEF Identities
  <2>4. Registrations' /\ SubscribersHaveEntries' /\ Entries'
    BY RegistrationsStep, EntriesStep
  <2>5. Spawned' /\ FailedOnly' /\ WatchesLive' /\ AllSubscribed'
    BY SpawnedStep, FailedOnlyStep, WatchesLiveStep, AllSubscribedStep
  <2> QED BY <2>1, <2>2, <2>3, <2>4, <2>5 DEF IInv
<1> QED
  BY InitIInv, <1>1, PTL DEF Spec

\* Every variable keeps its type, whatever the commands and tasks do.
THEOREM TypeCorrect == Spec => []TypeOK
<1>1. IInv => TypeOK
  BY DEF IInv
<1> QED
  BY Invariance, <1>1, PTL

\* No watch task is ever detached from the registry: neither registering late
\* nor clearing away or stopping a watch loses the handle of a running task.
THEOREM NoTaskIsDetached == Spec => []TasksAreOwned
<1>1. IInv => TasksAreOwned
  BY DEF IInv
<1> QED
  BY Invariance, <1>1, PTL

\* The handle kept with a watch always is the handle of its own task.
THEOREM HandlesAreTheWatches == Spec => []HandlesMatchWatches
<1>1. IInv => HandlesMatchWatches
  BY DEF IInv
<1> QED
  BY Invariance, <1>1, PTL

\* Every subscriber of a registered watch can be found by stop_stream.
THEOREM SubscribersAreListed == Spec => []SubscribersHaveEntries
<1>1. IInv => SubscribersHaveEntries
  BY DEF IInv
<1> QED
  BY Invariance, <1>1, PTL

\* Once stop_stream has returned, no registered watch sends to the stream and
\* its log task is over.
THEOREM StoppedMeansSilent == Spec => []StoppedStreamsAreSilent
<1>1. IInv => StoppedStreamsAreSilent
  BY DEF IInv, SubscribersHaveEntries, Entries, StoppedStreamsAreSilent
<1> QED
  BY Invariance, <1>1, PTL

\* Until some channel fails, every started stream is subscribed, for each of
\* its keys, to a watch whose task runs or is about to be spawned.
THEOREM StartedMeansServed == Spec => []StartedStreamsAreServed
<1>1. IInv => StartedStreamsAreServed
  <2> SUFFICES ASSUME IInv, closed = {}, NEW s \in Streams, NEW k \in streams[s]
               PROVE  Served(s, k)
    BY DEF StartedStreamsAreServed
  <2>1. k \in Keys /\ watches[k] # None /\ s \in subs[watches[k]]
    BY DEF IInv, TypeOK, AllSubscribed
  <2>2. Live(watches[k])
    BY <2>1 DEF IInv, WatchesLive
  <2> QED BY <2>1, <2>2 DEF Served, Live
<1> QED
  BY Invariance, <1>1, PTL

\* The registry is sound, for any streams, keys and broadcasters.
THEOREM RegistryStaysSound == Spec => []RegistryIsSound
BY TypeCorrect, NoTaskIsDetached, HandlesAreTheWatches, SubscribersAreListed, PTL
   DEF RegistryIsSound

\* A stream is served from its start to its stop and no longer.
THEOREM ServedUntilStopped == Spec => []StreamsAreServedUntilStopped
BY StartedMeansServed, StoppedMeansSilent, PTL DEF StreamsAreServedUntilStopped
=============================================================================
