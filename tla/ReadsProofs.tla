------------------------------ MODULE ReadsProofs ------------------------------
(***************************************************************************)
(* Proofs about the parts that read a cluster while it changes: inspections *)
(* of Argo CD applications, the watched view, aggregated logs, the access   *)
(* inventory, resource maps, Helm releases and incidents.  What they say or *)
(* show is true, for any numbers of objects, changes and reads.             *)
(***************************************************************************)
EXTENDS ArgoInspection, ResourceWatch, AggregateLogs, Rbac, Topology, HelmReleases, Incidents,
        FiniteSetTheorems, TLAPS

-----------------------------------------------------------------------------
(* Inspections                                                              *)

\* A state that has no contents of a Secret, or is a text that nothing could see into.
HiddenState(s) == s.kind = "Secret" => s.secret = "redacted" \/ s.encoding = "text"
Hidden(comparisons) ==
    \A comparison \in comparisons : \A s \in comparison.states : HiddenState(s)

\* An answer over the connection: exact, and with nothing to explain.
ConnectedAnswer ==
    /\ inspected.transport = "connected" /\ inspected.fallback = Whole
    /\ ask.transport = "connected" /\ Hidden(inspected.comparisons)
    /\ \A comparison \in inspected.comparisons : comparison.exact = TRUE

\* What is known where.  Only an inspection of a whole application falls back, with
\* the error of its connection.
InspectionKnows ==
    /\ inspecting \in {"start", "managed", "actions", "kubernetes", "done"}
    /\ application.revision \in Nat
    /\ \A n \in DOMAIN application.live : application.live[n] \in ManagedStates
    /\ inspecting \in {"start", "managed", "actions"} => failure = Whole
    /\ inspecting \in {"managed", "actions"} => ask.transport = "connected"
    /\ inspecting = "managed" /\ ask.of = Whole =>
          status \in Nat /\ status <= application.revision
    /\ inspecting = "actions" => ask.of # Whole /\ ConnectedAnswer
    /\ inspecting = "kubernetes" =>
          IF failure = Whole THEN ask.transport = "kubernetes"
          ELSE ask.transport = "connected" /\ ask.of = Whole

InspectionInv == InspectionKnows /\ InspectionsAreHonest

\* A state that is shown has been redacted after it has been decoded, if it could be.
LEMMA ShownIsRedacted ==
    ASSUME NEW s \in ManagedStates
    PROVE  HiddenState(ShownState(s))
  <1> DEFINE States == [kind : STRING, encoding : {"object", "json", "text"},
                        secret : {"plain", "redacted"}]
             r == Redacted(s)
             d == ParsedState(r)
  <1>1. s \in States
    BY InspectionAssumption
  <1>2. r \in States
    BY <1>1 DEF Redacted
  <1> HIDE DEF r
  <1>3. d \in States /\ d.encoding \in {"object", "text"}
    BY <1>2 DEF ParsedState
  <1> HIDE DEF d
  <1>4. HiddenState(Redacted(d))
    BY <1>3 DEF HiddenState, Redacted
  <1>5. ShownState(s) = Redacted(d)
    BY DEF ShownState, r, d
  <1>6. QED
    BY <1>4, <1>5

\* Comparisons with live states hide their Secrets.
LEMMA ExactIsHidden ==
    ASSUME NEW there, NEW n \in DOMAIN there, there[n] \in ManagedStates
    PROVE  /\ Exact(there, n).exact = TRUE
           /\ \A s \in Exact(there, n).states : HiddenState(s)
  BY ShownIsRedacted DEF Exact

\* Nothing has been asked.
LEMMA InspectionInit_Inv == InspectionInit => InspectionInv
  BY DEF InspectionInit, InspectionInv, InspectionKnows, InspectionsAreHonest,
     SecretsStayHidden, HiddenState, FallbacksAreNamed, ResourcesAreNoOlder, IsAnswered

\* A failure of the connection is the answer of a comparison, and the reason why an
\* inspection turns to the cluster.
LEMMA ConnectionFails_Inv ==
    ASSUME InspectionInv, inspecting \in {"start", "managed", "actions"},
           ask.transport = "connected", NEW e, e # Whole, ConnectionFails(e),
           UNCHANGED <<ask, connectedScope, application, appChanges>>
    PROVE  InspectionInv'
  <1>1. CASE ask.of = Whole
    BY <1>1 DEF InspectionInv, InspectionKnows, ConnectionFails, InspectionsAreHonest,
       SecretsStayHidden, HiddenState, FallbacksAreNamed, ResourcesAreNoOlder, IsAnswered
  <1>2. CASE ask.of # Whole
    <2>1. /\ inspecting' = "done" /\ failure' = e /\ inspected'.transport = "none"
          /\ inspected'.errors = {e}
      BY <1>2 DEF ConnectionFails, Fails
    <2>2. QED
      BY <1>2, <2>1 DEF InspectionInv, InspectionKnows, InspectionsAreHonest,
         SecretsStayHidden, HiddenState, FallbacksAreNamed, ResourcesAreNoOlder, IsAnswered
  <1>3. QED
    BY <1>1, <1>2

\* Every step of an inspection, and of the application meanwhile.
LEMMA InspectionNext_Inv ==
    InspectionInv /\ [InspectionNext]_inspectionVars => InspectionInv'
  <1> SUFFICES ASSUME InspectionInv, [InspectionNext]_inspectionVars PROVE InspectionInv'
    OBVIOUS
  <1> USE DEF InspectionInv, InspectionKnows
  <1>1. CASE ReadApplication
    <2>1. ASSUME NEW e, e # Whole, ConnectionFails(e) PROVE InspectionInv'
      BY <1>1, <2>1, ConnectionFails_Inv DEF ReadApplication
    <2>2. CASE /\ status' = IF ask.of = Whole THEN application.revision ELSE status
               /\ inspecting' = "managed" /\ UNCHANGED <<failure, inspected>>
      BY <1>1, <2>2 DEF ReadApplication, InspectionsAreHonest,
         SecretsStayHidden, HiddenState, FallbacksAreNamed, ResourcesAreNoOlder, IsAnswered
    <2>3. QED
      BY <1>1, <2>1, <2>2, InspectionAssumption DEF ReadApplication
  <1>2. CASE ReadManaged
    <2>1. ASSUME NEW e, e # Whole, ConnectionFails(e) PROVE InspectionInv'
      BY <1>2, <2>1, ConnectionFails_Inv DEF ReadManaged
    <2>2. ASSUME NEW all, all \subseteq DOMAIN application.live,
                 Answer("connected", {Exact(application.live, n) : n \in all}, Whole)
          PROVE  /\ inspected'.transport = "connected" /\ inspected'.fallback = Whole
                 /\ inspected'.application = status'
                 /\ inspected'.resources = application.revision
                 /\ Hidden(inspected'.comparisons)
                 /\ \A comparison \in inspected'.comparisons : comparison.exact = TRUE
      BY ZenonT(60), <2>2, ExactIsHidden DEF Answer, Hidden
    <2>3. CASE /\ ask.of = Whole /\ inspecting' = "done" /\ UNCHANGED <<status, failure>>
               /\ Answer("connected",
                         {Exact(application.live, n) : n \in DOMAIN application.live}, Whole)
      BY <1>2, <2>2, <2>3 DEF ReadManaged, InspectionsAreHonest, Hidden,
         SecretsStayHidden, HiddenState, FallbacksAreNamed, ResourcesAreNoOlder, IsAnswered
    <2>4. CASE /\ ask.of # Whole /\ ask.of \in DOMAIN application.live
               /\ inspecting' = "actions" /\ UNCHANGED <<status, failure>>
               /\ Answer("connected", {Exact(application.live, ask.of)}, Whole)
      <3>1. {Exact(application.live, n) : n \in {ask.of}} = {Exact(application.live, ask.of)}
        OBVIOUS
      <3>2. ConnectedAnswer'
        BY <1>2, <2>2, <2>4, <3>1 DEF ReadManaged, ConnectedAnswer
      <3>3. QED
        BY <1>2, <2>4, <3>2 DEF ReadManaged, InspectionsAreHonest,
           SecretsStayHidden, HiddenState, FallbacksAreNamed, ResourcesAreNoOlder, IsAnswered
    <2>5. QED
      BY <1>2, <2>1, <2>3, <2>4, InspectionAssumption DEF ReadManaged
  <1>3. CASE ReadActions
    <2>1. CASE inspecting' = "done" /\ UNCHANGED <<status, failure, inspected>>
      BY <1>3, <2>1 DEF ReadActions, ConnectedAnswer, Hidden, InspectionsAreHonest,
         SecretsStayHidden, HiddenState, FallbacksAreNamed, ResourcesAreNoOlder, IsAnswered
    <2>2. ASSUME NEW e \in ReadErrors, ConnectionFails(e) PROVE InspectionInv'
      BY <1>3, <2>2, ConnectionFails_Inv, InspectionAssumption DEF ReadActions
    <2>3. QED
      BY <1>3, <2>1, <2>2 DEF ReadActions
  <1>4. CASE StartKubernetes
    BY <1>4 DEF StartKubernetes, InspectionsAreHonest,
       SecretsStayHidden, HiddenState, FallbacksAreNamed, ResourcesAreNoOlder, IsAnswered
  <1>5. ASSUME NEW e, e # Whole, Fails(e), UNCHANGED failure, inspecting' = "done",
               UNCHANGED <<ask, connectedScope, application, appChanges>>
        PROVE  InspectionInv'
    <2>1. inspected'.transport = "none" /\ inspected'.errors = {failure, e} \ {Whole}
      BY <1>5 DEF Fails
    <2>2. QED
      BY <1>5, <2>1 DEF InspectionsAreHonest,
         SecretsStayHidden, HiddenState, FallbacksAreNamed, ResourcesAreNoOlder, IsAnswered
  <1>6. CASE RefuseTransport
    BY <1>5, <1>6, InspectionAssumption DEF RefuseTransport
  <1>7. CASE ReadKubernetes
    <2>1. ASSUME NEW all, NEW why, Answer("kubernetes", {FromStatus(n) : n \in all}, why),
                 status' = application.revision, why = failure
          PROVE  InspectionInv'
      <3>1. /\ inspected'.transport = "kubernetes" /\ inspected'.fallback = failure
            /\ inspected'.application = inspected'.resources
            /\ inspected'.resources = application.revision
            /\ \A comparison \in inspected'.comparisons :
                 comparison.exact = FALSE /\ comparison.states = {}
        BY <2>1 DEF Answer, FromStatus
      <3>2. /\ ask' = ask /\ failure' = failure /\ inspecting' = "done"
            /\ application' = application
        BY <1>7 DEF ReadKubernetes
      <3>3. (ask.transport # "kubernetes") = (failure # Whole)
        <4>1. CASE failure = Whole
          BY <1>7, <4>1 DEF ReadKubernetes
        <4>2. CASE failure # Whole
          BY <1>7, <4>2 DEF ReadKubernetes
        <4>3. QED
          BY <4>1, <4>2
      <3>4. FallbacksAreNamed'
        BY <3>1, <3>2, <3>3 DEF FallbacksAreNamed
      <3>5. SecretsStayHidden' /\ ResourcesAreNoOlder'
        BY <3>1, <3>2 DEF SecretsStayHidden, ResourcesAreNoOlder
      <3>6. QED
        BY <3>2, <3>4, <3>5 DEF InspectionsAreHonest
    <2>2. CASE ask.of = Whole
               /\ Answer("kubernetes", {FromStatus(n) : n \in DOMAIN application.live}, failure)
               /\ status' = application.revision
      BY <2>1, <2>2
    <2>3. CASE ask.of # Whole /\ Answer("kubernetes", {FromStatus(ask.of)}, Whole)
               /\ status' = application.revision
      <3>1. {FromStatus(n) : n \in {ask.of}} = {FromStatus(ask.of)}
        OBVIOUS
      <3>2. failure = Whole
        BY <1>7, <2>3 DEF ReadKubernetes
      <3>3. QED
        BY <2>1, <2>3, <3>1, <3>2
    <2>4. QED
      BY <1>5, <1>7, <2>2, <2>3, InspectionAssumption DEF ReadKubernetes
  <1>8. CASE AppChange
    <2>1. PICK names \in SUBSET ManagedNames : \E held \in [names -> ManagedStates] :
            application' = [revision |-> application.revision + 1, live |-> held]
      BY <1>8 DEF AppChange
    <2>2. /\ application'.revision = application.revision + 1
          /\ \A n \in DOMAIN application'.live : application'.live[n] \in ManagedStates
      BY <2>1
    <2>3. QED
      BY <1>8, <2>2 DEF AppChange, ConnectedAnswer, InspectionsAreHonest,
         SecretsStayHidden, HiddenState, FallbacksAreNamed, ResourcesAreNoOlder, IsAnswered
  <1>9. CASE UNCHANGED inspectionVars
    BY <1>9 DEF inspectionVars, ConnectedAnswer, InspectionsAreHonest,
       SecretsStayHidden, HiddenState, FallbacksAreNamed, ResourcesAreNoOlder, IsAnswered
  <1>10. QED
    BY <1>1, <1>2, <1>3, <1>4, <1>6, <1>7, <1>8, <1>9 DEF InspectionNext

\* An inspection shows no contents of a Secret that was sent as an object or as JSON, names
\* the error behind a fallback and never shows resources older than their application,
\* whatever is synced between its reads (get_argo_application_inspector and get_argo_resource_comparison).
THEOREM InspectionsAlwaysHonest == InspectionSpec => []InspectionsAreHonest
  <1>1. InspectionInv => InspectionsAreHonest
    BY DEF InspectionInv
  <1>2. QED
    BY <1>1, InspectionInit_Inv, InspectionNext_Inv, PTL DEF InspectionSpec

-----------------------------------------------------------------------------
(* The watched view                                                         *)

Changes == [name : Names \cup {"-"}, action : {"-", "added", "modified", "deleted"}]

\* Nothing has a revision that the cluster has not seen.
RevisionsAreSeen ==
    /\ subject \in Subjects
    /\ changes \in Seq(Changes) /\ Revision \in 1..MaxRevision
    /\ objects \in [Names -> 0..Revision] /\ compacted \in 0..Revision
    /\ watch \in [at : {"closed", "open", "rejected"}, version : 0..Revision,
                  replay : SUBSET (Names \X (1..Revision)), position : 0..Revision]
    /\ entry \in [revision : 0..Revision, dirty : BOOLEAN]
    /\ loading \in [at : {"none", "reading", "read"}, revision : 0..Revision, dirty : BOOLEAN]
    /\ view \in [rows : 0..Revision, due : BOOLEAN, fetching : BOOLEAN, failed : BOOLEAN,
                 joinedOld : BOOLEAN, warm : BOOLEAN, heard : 0..Revision]

\* A clean entry, and a clean load that has read, have every change that the view has
\* heard of.  Until a load returns its marks stand for those of the entry.
CleanIsCurrent ==
    /\ watch.at # "rejected" => Watchable(subject)
    /\ loading.at = "none" => ~loading.dirty
    /\ subject.read # "events" =>
          /\ ~entry.dirty /\ ~loading.dirty => entry.revision >= view.heard
          /\ loading.at = "read" /\ ~loading.dirty => loading.revision >= view.heard

\* What a view waits for will do, unless it shares an answer that was marked before.
FetchIsCurrent ==
    view.fetching /\ ~view.due /\ ~view.joinedOld /\ loading.at = "read" =>
        loading.revision >= view.heard

QuietIsCurrent ==
    ~view.due /\ ~view.fetching /\ ~view.failed /\ ~view.joinedOld => view.rows >= view.heard

WatchInv == RevisionsAreSeen /\ CleanIsCurrent /\ FetchIsCurrent /\ QuietIsCurrent

\* Every event marks the entry that the view reads by.
LEMMA EventsMarkTheEntry ==
    ASSUME subject \in Subjects, Watchable(subject), subject.read # "events"
    PROVE  ReadKey(subject) \in MarkedKeys(subject, EventNamespace)
  <1> DEFINE home == IF subject.namespace = "" THEN "ns" ELSE subject.namespace
  <1>1. subject.read \in {"typed", "dynamic"}
    BY SubjectsAssumption
  <1>2. CASE subject.read = "typed"
    <2>1. subject.kind \in TypedKinds /\ subject.namespaced = (subject.kind \notin ClusterScoped)
      BY <1>2, KindsAssumption
    <2>2. Namespaced(subject) = (subject.kind \notin ClusterScopedTyped)
      BY <2>1 DEF Namespaced, TypedKinds, ClusterScoped, ClusterScopedTyped, KnownKinds
    <2>3. ScopeKey(subject.kind \notin ClusterScopedTyped, subject.namespace)
            \in {ScopeKey(Namespaced(subject), home), "<all>"}
      BY <2>2 DEF ScopeKey
    <2>4. QED
      BY <1>2, <2>1, <2>3 DEF ReadKey, MarkedKeys, EventNamespace
  <1>3. CASE subject.read = "dynamic"
    <2>1. Namespaced(subject) = subject.namespaced
      BY <1>3, SubjectsAssumption, KindsAssumption DEF Namespaced, Watchable
    <2>2. ScopeKey(subject.namespaced, subject.namespace)
            \in {ScopeKey(Namespaced(subject), home), "<all>"}
      BY <2>1 DEF ScopeKey
    <2>3. QED
      BY <1>3, <2>2 DEF ReadKey, MarkedKeys, EventNamespace
  <1>4. QED
    BY <1>1, <1>2, <1>3

\* The view begins with rows that are current.
LEMMA WatchInit_Inv == WatchInit => WatchInv
  <1> SUFFICES ASSUME WatchInit PROVE WatchInv
    OBVIOUS
  <1>1. changes \in Seq(Changes) /\ Revision = 1
    BY DEF WatchInit, Revision, Changes
  <1>2. objects \in [Names -> 0..1] /\ Revision \in 1..MaxRevision /\ 1 \in 0..1 /\ 0 \in 0..1
    BY <1>1, MaxRevisionAssumption DEF WatchInit
  <1>3. RevisionsAreSeen
    BY <1>1, <1>2 DEF WatchInit, RevisionsAreSeen, NoLoad
  <1>4. QED
    BY <1>1, <1>3 DEF WatchInit, WatchInv, CleanIsCurrent, FetchIsCurrent, QuietIsCurrent, NoLoad

\* A change of the cluster makes room for revisions, and touches nothing that is read.
LEMMA Change_Inv ==
    ASSUME WatchInv, NEW n \in Names, Change(n)
    PROVE  WatchInv'
  <1> USE DEF WatchInv, RevisionsAreSeen
  <1>1. PICK action \in {"added", "modified", "deleted"} :
          /\ changes' = Append(changes, [name |-> n, action |-> action])
          /\ objects' = [objects EXCEPT ![n] = IF action = "deleted" THEN 0 ELSE Revision + 1]
    BY DEF Change
  <1>2. [name |-> n, action |-> action] \in Changes
    BY DEF Changes
  <1>3. changes' \in Seq(Changes) /\ Revision' = Revision + 1
    BY <1>1, <1>2 DEF Revision
  <1>4. /\ Revision \in Nat /\ MaxRevision \in Nat /\ Revision < MaxRevision
    BY MaxRevisionAssumption DEF Change
  <1>5. /\ Revision' \in 1..MaxRevision
        /\ 0..Revision \subseteq 0..Revision' /\ 1..Revision \subseteq 1..Revision'
        /\ Revision + 1 \in 0..Revision' /\ 0 \in 0..Revision'
    BY <1>3, <1>4
  <1>6. objects' \in [Names -> 0..Revision'] /\ compacted' \in 0..Revision'
    BY <1>1, <1>5 DEF Change
  <1> DEFINE Watches(r) == [at : {"closed", "open", "rejected"}, version : 0..r,
                            replay : SUBSET (Names \X (1..r)), position : 0..r]
             Views(r) == [rows : 0..r, due : BOOLEAN, fetching : BOOLEAN, failed : BOOLEAN,
                          joinedOld : BOOLEAN, warm : BOOLEAN, heard : 0..r]
             Loads(r) == [at : {"none", "reading", "read"}, revision : 0..r, dirty : BOOLEAN]
             EntryRecords(r) == [revision : 0..r, dirty : BOOLEAN]
  <1>7. /\ watch' = watch /\ view' = view /\ loading' = loading /\ entry' = entry
        /\ subject' = subject
    BY DEF Change, cacheVars
  <1>8. watch' \in Watches(Revision')
    <2>1. SUBSET (Names \X (1..Revision)) \subseteq SUBSET (Names \X (1..Revision'))
      BY <1>5
    <2>2. QED
      BY <1>5, <1>7, <2>1
  <1>9. view' \in Views(Revision') /\ loading' \in Loads(Revision') /\ entry' \in EntryRecords(Revision')
    BY <1>5, <1>7
  <1>10. QED
    BY <1>3, <1>5, <1>6, <1>7, <1>8, <1>9
       DEF CleanIsCurrent, FetchIsCurrent, QuietIsCurrent, Watchable

\* An event that is handed on marks what the view reads before the view hears of it.
LEMMA Hand_Inv ==
    ASSUME WatchInv, watch.at = "open",
           NEW action, NEW revision \in 0..Revision, Hand(action, revision),
           watch' \in [at : {"open"}, version : 0..Revision,
                       replay : SUBSET (Names \X (1..Revision)), position : 0..Revision]
    PROVE  WatchInv'
  <1> USE DEF WatchInv, RevisionsAreSeen
  <1>1. /\ subject' = subject /\ objects' = objects /\ changes' = changes
        /\ compacted' = compacted /\ Revision' = Revision
    BY DEF Hand, clusterVars, Revision
  <1>2. subject.read # "events" => Mark(TRUE)
    BY EventsMarkTheEntry DEF Hand, CleanIsCurrent
  <1>3. subject.read = "events" => entry' = entry /\ loading' = loading
    BY DEF Hand, Mark
  <1>4. \/ view' = view
        \/ view' = [view EXCEPT !.due = TRUE,
                                !.heard = IF revision > @ THEN revision ELSE @]
    BY DEF Hand, Heard
  <1>5. /\ view' \in [rows : 0..Revision, due : BOOLEAN, fetching : BOOLEAN, failed : BOOLEAN,
                      joinedOld : BOOLEAN, warm : BOOLEAN, heard : 0..Revision]
        /\ view' = view \/ view'.due
    BY <1>4
  <1>6. /\ entry' \in [revision : 0..Revision, dirty : BOOLEAN]
        /\ loading' \in [at : {"none", "reading", "read"}, revision : 0..Revision, dirty : BOOLEAN]
        /\ loading'.at = loading.at /\ loading'.revision = loading.revision
        /\ entry'.revision = entry.revision
        /\ subject.read # "events" => IF loading.at = "none" THEN entry'.dirty /\ loading' = loading
                                      ELSE loading'.dirty /\ entry' = entry
    BY ZenonT(60), <1>2, <1>3 DEF Mark
  <1>7. RevisionsAreSeen'
    BY <1>1, <1>5, <1>6
  <1>8. CleanIsCurrent'
    BY <1>1, <1>3, <1>6 DEF CleanIsCurrent, Watchable
  <1>9. FetchIsCurrent' /\ QuietIsCurrent'
    BY <1>5, <1>6 DEF FetchIsCurrent, QuietIsCurrent
  <1>10. QED
    BY <1>7, <1>8, <1>9

\* The steps of the watch itself.
LEMMA WatchSteps_Inv ==
    ASSUME WatchInv,
           OpenWatch \/ Gone \/ Disconnected \/ Bookmark \/ DeliverReplay \/ DeliverChange
    PROVE  WatchInv'
  <1> USE DEF WatchInv, RevisionsAreSeen
  <1> DEFINE Watches == [at : {"closed", "open", "rejected"}, version : 0..Revision,
                         replay : SUBSET (Names \X (1..Revision)), position : 0..Revision]
  <1>1. Revision \in Nat /\ 0 \in 0..Revision
    OBVIOUS
  <1>2. ASSUME UNCHANGED <<subject, clusterVars, cacheVars, view>>, watch.at # "rejected",
               watch' \in Watches
        PROVE  WatchInv'
    BY <1>2 DEF clusterVars, cacheVars, Revision, CleanIsCurrent, FetchIsCurrent,
       QuietIsCurrent, Watchable
  <1>3. CASE OpenWatch
    <2>1. {<<n, objects[n]>> : n \in {m \in Names : objects[m] > 0}} \in
            SUBSET (Names \X (1..Revision))
      OBVIOUS
    <2> DEFINE present == {<<n, objects[n]>> : n \in {m \in Names : objects[m] > 0}}
    <2> HIDE DEF present
    <2>2. present \in SUBSET (Names \X (1..Revision)) /\ Revision \in 0..Revision
      BY <2>1 DEF present
    <2>3. \/ watch' = [watch EXCEPT !.at = "open", !.position = Revision, !.replay = present]
          \/ watch' = [watch EXCEPT !.at = "open", !.position = watch.version, !.replay = {}]
      BY <1>3 DEF OpenWatch, present
    <2>4. watch' \in Watches
      BY <2>2, <2>3
    <2>5. QED
      BY <1>2, <1>3, <2>4 DEF OpenWatch
  <1>4. CASE Gone
    BY <1>1, <1>2, <1>4 DEF Gone
  <1>5. CASE Disconnected
    BY <1>2, <1>5 DEF Disconnected
  <1>6. CASE Bookmark
    BY <1>2, <1>6 DEF Bookmark
  <1>7. CASE DeliverReplay
    <2>1. PICK e \in watch.replay : /\ watch' = [watch EXCEPT !.replay = @ \ {e}, !.version = e[2]]
                                    /\ Hand("added", e[2])
      BY <1>7 DEF DeliverReplay
    <2>2. e \in Names \X (1..Revision)
      OBVIOUS
    <2>3. e[2] \in 0..Revision
      BY <2>2
    <2>4. watch.at = "open" /\ watch.replay \ {e} \in SUBSET (Names \X (1..Revision))
      BY <1>7 DEF DeliverReplay
    <2>5. watch' \in [at : {"open"}, version : 0..Revision,
                      replay : SUBSET (Names \X (1..Revision)), position : 0..Revision]
      BY <2>1, <2>3, <2>4
    <2>6. QED
      BY <2>1, <2>3, <2>4, <2>5, Hand_Inv
  <1>8. CASE DeliverChange
    <2> DEFINE next == watch.position + 1
    <2>1. next \in 0..Revision /\ watch.at = "open"
      BY <1>8 DEF DeliverChange
    <2>2. /\ watch' = [watch EXCEPT !.position = next, !.version = next]
          /\ Hand(changes[next].action, next)
      BY <1>8 DEF DeliverChange
    <2> HIDE DEF next
    <2>3. watch' \in [at : {"open"}, version : 0..Revision,
                      replay : SUBSET (Names \X (1..Revision)), position : 0..Revision]
      BY <2>1, <2>2
    <2>4. QED
      BY <2>1, <2>2, <2>3, Hand_Inv
  <1>9. QED
    BY <1>3, <1>4, <1>5, <1>6, <1>7, <1>8

\* The steps of the loads and of the view: a load that reads has everything, and what
\* it was marked with stays with the entry.
LEMMA Reads_Inv ==
    ASSUME WatchInv,
           LoaderReads \/ LoadReturns \/ LoadFails \/ Refresh \/ OtherReader \/ WarmedUp
    PROVE  WatchInv'
  <1> USE DEF WatchInv, RevisionsAreSeen
  <1> DEFINE EntryRecords == [revision : 0..Revision, dirty : BOOLEAN]
             Loads == [at : {"none", "reading", "read"}, revision : 0..Revision, dirty : BOOLEAN]
             Views == [rows : 0..Revision, due : BOOLEAN, fetching : BOOLEAN, failed : BOOLEAN,
                       joinedOld : BOOLEAN, warm : BOOLEAN, heard : 0..Revision]
  <1>1. Revision \in Nat /\ Revision \in 0..Revision /\ NoLoad \in Loads
    BY DEF NoLoad
  <1>2. NoLoad.at = "none" /\ ~NoLoad.dirty
    BY DEF NoLoad
  <1>3. StartLoad \in Loads /\ StartLoad.at = "reading" /\ ~StartLoad.dirty
    BY <1>1, <1>2 DEF StartLoad
  <1>4. /\ subject' = subject /\ objects' = objects /\ changes' = changes
        /\ compacted' = compacted /\ watch' = watch /\ Revision' = Revision
    BY DEF LoaderReads, LoadReturns, LoadFails, Refresh, OtherReader, WarmedUp, clusterVars,
       Revision
  <1>5. ASSUME entry' \in EntryRecords, loading' \in Loads, view' \in Views,
               loading'.at = "none" => ~loading'.dirty,
               subject.read # "events" =>
                 /\ ~entry'.dirty /\ ~loading'.dirty => entry'.revision >= view'.heard
                 /\ loading'.at = "read" /\ ~loading'.dirty => loading'.revision >= view'.heard,
               view'.fetching /\ ~view'.due /\ ~view'.joinedOld /\ loading'.at = "read" =>
                 loading'.revision >= view'.heard,
               ~view'.due /\ ~view'.fetching /\ ~view'.failed /\ ~view'.joinedOld =>
                 view'.rows >= view'.heard
        PROVE  WatchInv'
    BY <1>4, <1>5 DEF CleanIsCurrent, FetchIsCurrent, QuietIsCurrent, Watchable
  <1> USE DEF CleanIsCurrent, FetchIsCurrent, QuietIsCurrent
  <1>6. CASE LoaderReads
    <2>1. /\ loading' = [loading EXCEPT !.at = "read", !.revision = Revision]
          /\ entry' = entry /\ view' = view
      BY <1>6 DEF LoaderReads
    <2>2. loading' \in Loads /\ loading'.revision = Revision /\ loading'.dirty = loading.dirty
          /\ loading'.at = "read"
      BY <1>1, <2>1
    <2>3. QED
      BY SMTT(30), <1>5, <2>1, <2>2, <1>1
  <1>7. CASE LoadReturns
    <2>1. /\ loading.at = "read"
          /\ entry' = [revision |-> loading.revision, dirty |-> loading.dirty]
          /\ loading' = NoLoad
          /\ view' = IF view.fetching
                     THEN [view EXCEPT !.fetching = FALSE, !.rows = loading.revision] ELSE view
      BY <1>7 DEF LoadReturns
    <2>2. entry' \in EntryRecords /\ view' \in Views
      BY <2>1
    <2>3. /\ view'.heard = view.heard /\ view'.due = view.due /\ ~view'.fetching
          /\ view'.joinedOld = view.joinedOld /\ view'.failed = view.failed
          /\ IF view.fetching THEN view'.rows = loading.revision ELSE view'.rows = view.rows
      BY <2>1
    <2>4. entry'.dirty = loading.dirty /\ entry'.revision = loading.revision
      BY <2>1
    <2>5. QED
      BY <1>1, <1>2, <1>5, <2>1, <2>2, <2>3, <2>4
  <1>8. CASE LoadFails
    <2>1. /\ entry' = [entry EXCEPT !.dirty = @ \/ loading.dirty]
          /\ loading' = NoLoad
          /\ view' = IF view.fetching THEN [view EXCEPT !.fetching = FALSE, !.failed = TRUE]
                     ELSE view
      BY <1>8 DEF LoadFails
    <2>2. /\ entry' \in EntryRecords /\ view' \in Views
          /\ entry'.revision = entry.revision /\ entry'.dirty = (entry.dirty \/ loading.dirty)
      BY <2>1
    <2>3. /\ view'.heard = view.heard /\ view'.due = view.due /\ ~view'.fetching
          /\ view'.joinedOld = view.joinedOld /\ view'.rows = view.rows
          /\ IF view.fetching THEN view'.failed ELSE view'.failed = view.failed
      BY <2>1
    <2>4. QED
      BY <1>1, <1>2, <1>5, <2>1, <2>2, <2>3
  <1>9. CASE Refresh
    <2> DEFINE asked == [view EXCEPT !.due = FALSE, !.failed = FALSE, !.joinedOld = FALSE]
    <2>1. asked \in Views /\ asked.heard = view.heard
      OBVIOUS
    <2>2. CASE /\ view' = [asked EXCEPT !.fetching = TRUE] /\ loading' = StartLoad
               /\ subject.read = "events" \/ (loading.at = "none" /\ entry.dirty)
      <3>1. view' \in Views /\ view'.fetching /\ view'.heard = view.heard /\ entry' = entry
        BY <1>9, <2>1, <2>2 DEF Refresh
      <3>2. QED
        BY <1>3, <1>5, <2>2, <3>1
    <2>3. CASE /\ view' = [asked EXCEPT !.fetching = TRUE, !.joinedOld = loading.dirty]
               /\ loading' = loading /\ subject.read # "events"
      <3>1. /\ view' \in Views /\ view'.fetching /\ view'.heard = view.heard /\ entry' = entry
            /\ view'.joinedOld = loading.dirty
        BY <1>9, <2>1, <2>3 DEF Refresh
      <3>2. QED
        BY <1>5, <2>3, <3>1
    <2>4. CASE /\ ~entry.dirty /\ view' = [asked EXCEPT !.fetching = FALSE, !.rows = entry.revision]
               /\ loading' = loading /\ subject.read # "events" /\ loading.at = "none"
      <3>1. /\ view' \in Views /\ ~view'.fetching /\ view'.heard = view.heard /\ entry' = entry
            /\ view'.rows = entry.revision
        BY <1>9, <2>1, <2>4 DEF Refresh
      <3>2. QED
        BY <1>5, <2>4, <3>1
    <2>5. QED
      BY <1>9, <2>2, <2>3, <2>4 DEF Refresh
  <1>10. CASE OtherReader
    <2>1. loading' = StartLoad /\ entry' = entry /\ view' = view /\ loading.at = "none"
      BY <1>10 DEF OtherReader
    <2>2. QED
      BY <1>3, <1>5, <2>1
  <1>11. CASE WarmedUp
    <2>1. view' = [view EXCEPT !.warm = FALSE] /\ entry' = entry /\ loading' = loading
      BY <1>11 DEF WarmedUp, cacheVars
    <2>2. /\ view' \in Views /\ view'.heard = view.heard /\ view'.due = view.due
          /\ view'.fetching = view.fetching /\ view'.failed = view.failed
          /\ view'.joinedOld = view.joinedOld /\ view'.rows = view.rows
      BY <2>1
    <2>3. QED
      BY <1>5, <2>1, <2>2
  <1>12. QED
    BY <1>6, <1>7, <1>8, <1>9, <1>10, <1>11

\* Every step keeps what the view relies on.
LEMMA WatchNext_Inv == WatchInv /\ [WatchNext]_watchedVars => WatchInv'
  <1> SUFFICES ASSUME WatchInv, [WatchNext]_watchedVars PROVE WatchInv'
    OBVIOUS
  <1>1. CASE OpenWatch \/ Gone \/ Disconnected \/ Bookmark \/ DeliverReplay \/ DeliverChange
    BY <1>1, WatchSteps_Inv
  <1>2. CASE LoaderReads \/ LoadReturns \/ LoadFails \/ Refresh \/ OtherReader \/ WarmedUp
    BY <1>2, Reads_Inv
  <1>3. CASE \E n \in Names : Change(n)
    BY <1>3, Change_Inv
  <1>4. CASE Compact
    <2>1. Revision' = Revision
      BY <1>4 DEF Compact, Revision
    <2>2. compacted' \in 0..Revision'
      BY <1>4, <2>1 DEF Compact, WatchInv, RevisionsAreSeen
    <2>3. QED
      BY <1>4, <2>1, <2>2 DEF Compact, WatchInv, RevisionsAreSeen, CleanIsCurrent,
         FetchIsCurrent, QuietIsCurrent, Watchable, cacheVars
  <1>5. CASE UNCHANGED watchedVars
    BY <1>5 DEF watchedVars, WatchInv, RevisionsAreSeen, CleanIsCurrent, FetchIsCurrent,
       QuietIsCurrent, Watchable, Revision
  <1>6. QED
    BY <1>1, <1>2, <1>3, <1>4, <1>5 DEF WatchNext, WatchStep, ReadStep

\* A view that waits for nothing shows every change it has heard of, whichever key it
\* reads by and whatever loads other readers have begun (run_resource_watch marks the
\* entry before it tells the views).
THEOREM QuietViewsAlwaysCurrent == WatchSpec => []QuietViewsShowWhatTheyHeard
  <1>1. WatchInv => QuietViewsShowWhatTheyHeard
    <2> SUFFICES ASSUME WatchInv PROVE QuietViewsShowWhatTheyHeard
      OBVIOUS
    <2> USE DEF WatchInv, RevisionsAreSeen
    <2>1. MaxRevision \in Nat /\ Revision \in 1..MaxRevision
      BY MaxRevisionAssumption
    <2>2. 0..Revision \subseteq 0..MaxRevision /\ 1..Revision \subseteq 1..MaxRevision
      BY <2>1
    <2>3. SUBSET (Names \X (1..Revision)) \subseteq SUBSET (Names \X (1..MaxRevision))
      BY <2>2
    <2>4. objects \in [Names -> 0..MaxRevision] /\ compacted \in 0..MaxRevision
      BY <2>2
    <2>5. watch \in [at : {"closed", "open", "rejected"}, version : 0..MaxRevision,
                     replay : SUBSET (Names \X (1..MaxRevision)), position : 0..MaxRevision]
      BY <2>2, <2>3
    <2>6. /\ entry \in [revision : 0..MaxRevision, dirty : BOOLEAN]
          /\ loading \in [at : {"none", "reading", "read"}, revision : 0..MaxRevision,
                          dirty : BOOLEAN]
      BY <2>2
    <2>7. view \in [rows : 0..MaxRevision, due : BOOLEAN, fetching : BOOLEAN, failed : BOOLEAN,
                    joinedOld : BOOLEAN, warm : BOOLEAN, heard : 0..MaxRevision]
      BY <2>2
    <2>8. QED
      BY <2>4, <2>5, <2>6, <2>7 DEF QuietViewsShowWhatTheyHeard, WatchTypeOK, QuietIsCurrent
  <1>2. QED
    BY <1>1, WatchInit_Inv, WatchNext_Inv, PTL DEF WatchSpec

-----------------------------------------------------------------------------
(* Aggregated logs                                                          *)

\* log_sources_from_pods cuts the list: a source is kept by how many come before it,
\* which no two have in common.
LEMMA AtMostMaxSources ==
    ASSUME NEW S \in SUBSET Nat
    PROVE  IsFiniteSet(LogSources(S)) /\ Cardinality(LogSources(S)) <= MaxSources
  <1> DEFINE below(s) == {t \in S : t < s}
             kept == LogSources(S)
             place == [s \in kept |-> Cardinality(below(s))]
  <1>1. ASSUME NEW s \in S
        PROVE  IsFiniteSet(below(s)) /\ Cardinality(below(s)) \in Nat
    <2>1. s \in Int /\ below(s) \in SUBSET (0..s)
      <3>1. s \in Nat /\ \A t \in S : t \in Nat
        OBVIOUS
      <3>2. \A t \in below(s) : t \in 0..s
        BY <3>1
      <3> HIDE DEF below
      <3>3. QED
        BY <3>1, <3>2
    <2>2. IsFiniteSet(0..s)
      BY <2>1, FS_Interval
    <2>3. IsFiniteSet(below(s))
      BY <2>1, <2>2, FS_Subset
    <2>4. QED
      BY <2>3, FS_CardinalityType
  <1>2. ASSUME NEW s \in S, NEW t \in S, s < t
        PROVE  Cardinality(below(s)) < Cardinality(below(t))
    <2>1. below(s) \cup {s} \in SUBSET below(t) /\ s \notin below(s)
      <3>1. s \in Nat /\ t \in Nat /\ \A r \in S : r \in Nat
        OBVIOUS
      <3>2. /\ s \in below(t) /\ s \notin below(s)
            /\ \A r \in below(s) : r \in below(t)
        BY <1>2, <3>1
      <3>3. QED
        BY <3>2
    <2>2. Cardinality(below(s) \cup {s}) = Cardinality(below(s)) + 1
      BY <1>1, <2>1, FS_AddElement
    <2>3. Cardinality(below(s) \cup {s}) <= Cardinality(below(t))
      BY <1>1, <2>1, FS_Subset
    <2>4. QED
      BY <1>1, <2>2, <2>3
  <1>3. kept \subseteq S /\ \A s \in kept : Cardinality(below(s)) < MaxSources
    BY DEF LogSources
  <1>4. MaxSources \in Nat
    BY AggregateNumbersAssumption
  <1> HIDE DEF below, kept
  <1>5. place \in [kept -> 0..(MaxSources - 1)]
    BY <1>1, <1>3, <1>4
  <1>6. ASSUME NEW s \in kept, NEW t \in kept, place[s] = place[t]
        PROVE  s = t
    <2>1. s \in S /\ t \in S /\ s \in Nat /\ t \in Nat
      BY <1>3
    <2>2. Cardinality(below(s)) = Cardinality(below(t)) /\ Cardinality(below(s)) \in Nat
      BY <1>1, <1>6, <2>1
    <2>3. ~(s < t) /\ ~(t < s)
      BY <1>2, <2>1, <2>2
    <2>4. QED
      BY <2>1, <2>3
  <1>7. place \in Injection(kept, 0..(MaxSources - 1))
    BY <1>5, <1>6 DEF Injection, IsInjective
  <1>8. /\ IsFiniteSet(0..(MaxSources - 1))
        /\ Cardinality(0..(MaxSources - 1)) = MaxSources
    BY <1>4, FS_Interval
  <1>9. IsFiniteSet(kept) /\ Cardinality(kept) <= Cardinality(0..(MaxSources - 1))
    BY <1>7, <1>8, FS_Injection
  <1>10. QED
    BY <1>8, <1>9 DEF kept

\* The tasks, and how they are kept to the sources that are wanted.
TasksAreAttached ==
    /\ \A s \in Sources : sourceTasks[s].at # "none" => s \in attached
    /\ IsFiniteSet(attached) /\ Cardinality(attached) <= MaxSources
    /\ IsFiniteSet(listed) /\ Cardinality(listed) <= MaxSources
    /\ step \in {"resolve", "stopped"} => \A s \in Sources : sourceTasks[s].at = "none"
    /\ step \notin {"resolve", "stopped"} => target.selector # {}

\* A task that will replay a tail has a source of which nothing has been shown; one
\* that follows its log is behind nothing that has been.
TailsAreUnseen ==
    \A s \in Sources :
        /\ shown[s] <= log[s]
        /\ sourceTasks[s].at = "opening" /\ sourceTasks[s].tail # 0 => shown[s] = 0
        /\ sourceTasks[s].at = "following" => sourceTasks[s].line >= shown[s]

AggregateInv == AggregateTypeOK /\ TasksAreAttached /\ TailsAreUnseen

\* Nothing runs, and nothing has been shown.
LEMMA AggregateInit_Inv == AggregateInit => AggregateInv
  <1> SUFFICES ASSUME AggregateInit PROVE AggregateInv
    OBVIOUS
  <1>1. MaxLines \in Nat /\ MaxPodChanges \in Nat /\ MaxSources \in Nat /\ 0 \in 0..MaxLines
    BY AggregateNumbersAssumption
  <1>2. AggregateTypeOK
    BY <1>1 DEF AggregateInit, AggregateTypeOK, PodPhases, NoTask
  <1>3. TasksAreAttached /\ TailsAreUnseen
    BY <1>1, FS_EmptySet DEF AggregateInit, TasksAreAttached, TailsAreUnseen, NoTask
  <1>4. QED
    BY <1>2, <1>3 DEF AggregateInv

\* The steps of the loop: a handle that is kept, and one that is spawned anew, both go
\* on behind what has been shown.
LEMMA LogLoop_Inv == ASSUME AggregateInv, LogLoop PROVE AggregateInv'
  <1> USE DEF AggregateInv
  <1> DEFINE Tasks == [at : {"none", "opening", "following", "finished"},
                       tail : {0, TailLines}, line : 0..MaxLines]
             Steps == {"resolve", "list", "reconcile", "watch", "stopped"}
  <1>1. MaxLines \in Nat /\ MaxSources \in Nat /\ TailLines \in Nat /\ 0 \in 0..MaxLines
    BY AggregateNumbersAssumption
  <1>2. NoTask \in Tasks /\ NoTask.at = "none"
    BY <1>1 DEF NoTask
  <1>3. CASE Resolve
    <2>1. step = "resolve" /\ step' \in {"list", "stopped"}
      BY <1>3 DEF Resolve
    <2>2. step' = "list" => target.selector # {}
      BY <1>3 DEF Resolve, Selectable
    <2>3. QED
      BY <1>3, <2>1, <2>2
         DEF Resolve, cluster, AggregateTypeOK, TasksAreAttached, TailsAreUnseen
  <1>4. CASE ListPods
    <2> DEFINE found == {s \in Sources : pods[s] \in {"waiting", "running", "exited"}}
    <2>1. found \in SUBSET Nat
      BY SourcesAssumption
    <2>2. listed' = LogSources(found) /\ found \subseteq Sources
      BY <1>4 DEF ListPods
    <2> HIDE DEF found
    <2>3. listed' \subseteq Sources /\ IsFiniteSet(listed') /\ Cardinality(listed') <= MaxSources
      BY <2>1, <2>2, AtMostMaxSources DEF LogSources
    <2>4. QED
      BY <1>4, <2>3
         DEF ListPods, cluster, AggregateTypeOK, TasksAreAttached, TailsAreUnseen
  <1>5. CASE Reconcile
    <2>1. /\ step = "reconcile" /\ step' = "watch" /\ attached' = listed /\ listed' = listed
          /\ target' = target /\ pods' = pods /\ log' = log /\ podChanges' = podChanges
      BY <1>5 DEF Reconcile, cluster
    <2>2. ASSUME NEW s \in Sources PROVE Respawned(s) \in Tasks /\ Respawned(s).at = "opening"
      BY <1>1 DEF Respawned
    <2>3. ASSUME NEW s \in Sources
          PROVE  /\ sourceTasks'[s] = IF Stays(s) THEN sourceTasks[s]
                                      ELSE IF s \in listed THEN Respawned(s) ELSE NoTask
                 /\ shown'[s] = IF s \in attached \cap listed THEN shown[s] ELSE 0
      BY <1>5 DEF Reconcile
    <2>4. sourceTasks' \in [Sources -> Tasks]
      BY <1>2, <1>5, <2>2 DEF Reconcile, AggregateTypeOK
    <2>5. shown' \in [Sources -> 0..MaxLines]
      BY <1>1, <1>5 DEF Reconcile, AggregateTypeOK
    <2>6. AggregateTypeOK'
      BY <2>1, <2>4, <2>5 DEF AggregateTypeOK
    <2>7. ASSUME NEW s \in Sources, sourceTasks'[s].at # "none" PROVE s \in attached'
      BY <1>2, <2>1, <2>3, <2>7 DEF Stays
    <2>8. TasksAreAttached'
      BY <2>1, <2>7 DEF TasksAreAttached
    <2>9. ASSUME NEW s \in Sources
          PROVE  /\ shown'[s] <= log'[s]
                 /\ sourceTasks'[s].at = "opening" /\ sourceTasks'[s].tail # 0 => shown'[s] = 0
                 /\ sourceTasks'[s].at = "following" => sourceTasks'[s].line >= shown'[s]
      <3>1. /\ shown[s] <= log[s] /\ shown[s] \in Nat /\ log[s] \in Nat
            /\ sourceTasks[s].line \in Nat
        BY <1>1 DEF AggregateTypeOK, TailsAreUnseen
      <3>2. shown'[s] = shown[s] \/ shown'[s] = 0
        BY <2>3
      <3>3. CASE Stays(s)
        BY <2>1, <2>3, <3>1, <3>2, <3>3 DEF TailsAreUnseen
      <3>4. CASE ~Stays(s) /\ s \in listed
        <4>1. sourceTasks'[s].at = "opening"
          BY <2>2, <2>3, <3>4
        <4>2. sourceTasks'[s].tail # 0 => s \notin attached
          <5>1. sourceTasks'[s] = Respawned(s)
            BY <2>3, <3>4
          <5>2. s \in attached => Respawned(s).tail = 0
            BY DEF Respawned
          <5>3. QED
            BY <5>1, <5>2
        <4>3. QED
          BY <2>1, <2>3, <3>1, <3>2, <4>1, <4>2
      <3>5. CASE ~Stays(s) /\ s \notin listed
        BY <1>2, <2>1, <2>3, <3>1, <3>2, <3>5
      <3>6. QED
        BY <3>3, <3>4, <3>5
    <2>10. QED
      BY <2>6, <2>8, <2>9 DEF TailsAreUnseen
  <1>6. CASE WatchEnds
    BY <1>6 DEF WatchEnds, cluster, AggregateTypeOK, TasksAreAttached, TailsAreUnseen
  <1>7. CASE StopStream
    BY <1>2, <1>7
       DEF StopStream, AbortAll, cluster, AggregateTypeOK, TasksAreAttached, TailsAreUnseen
  <1>8. QED
    BY <1>3, <1>4, <1>5, <1>6, <1>7 DEF LogLoop

\* The steps of the task of one source.
LEMMA SourceTask_Inv ==
    ASSUME AggregateInv, NEW s \in Sources, SourceTask(s) PROVE AggregateInv'
  <1> USE DEF AggregateInv
  <1> DEFINE Tasks == [at : {"none", "opening", "following", "finished"},
                       tail : {0, TailLines}, line : 0..MaxLines]
  <1>1. MaxLines \in Nat /\ TailLines \in Nat
    BY AggregateNumbersAssumption
  <1>2. /\ sourceTasks \in [Sources -> Tasks] /\ sourceTasks[s] \in Tasks
        /\ log[s] \in 0..MaxLines /\ shown[s] \in 0..MaxLines /\ shown[s] <= log[s]
    BY DEF AggregateTypeOK, TailsAreUnseen
  <1>3. /\ sourceTasks[s].at # "none"
        /\ UNCHANGED <<cluster, target, step, listed, attached>>
    BY DEF SourceTask, OpenLog, OpenFails, ShowLine, LogEnds
  <1>4. /\ pods' = pods /\ log' = log /\ podChanges' = podChanges /\ target' = target
        /\ step' = step /\ listed' = listed /\ attached' = attached
    BY <1>3 DEF cluster
  <1>5. ASSUME NEW task \in Tasks, sourceTasks' = [sourceTasks EXCEPT ![s] = task],
               NEW last \in 0..MaxLines, shown' = [shown EXCEPT ![s] = last],
               last <= log[s], task.at \in {"following", "finished"},
               task.at = "following" => task.line >= last
        PROVE  AggregateInv'
    <2>1. AggregateTypeOK'
      BY <1>2, <1>4, <1>5 DEF AggregateTypeOK
    <2>2. TasksAreAttached'
      BY <1>2, <1>3, <1>4, <1>5 DEF TasksAreAttached
    <2>3. TailsAreUnseen'
      BY <1>2, <1>4, <1>5 DEF TailsAreUnseen, AggregateTypeOK
    <2>4. QED
      BY <2>1, <2>2, <2>3
  <1>6. shown = [shown EXCEPT ![s] = shown[s]]
    BY DEF AggregateTypeOK
  <1>7. CASE OpenLog(s)
    <2> DEFINE line == Later(log[s], sourceTasks[s].tail)
               task == [sourceTasks[s] EXCEPT !.at = "following", !.line = line]
    <2>1. line \in 0..MaxLines /\ line >= shown[s]
      <3>1. sourceTasks[s].tail \in Nat /\ log[s] \in Nat
        BY <1>1, <1>2
      <3>2. CASE sourceTasks[s].tail = 0
        BY <1>1, <1>2, <3>1, <3>2 DEF Later
      <3>3. CASE sourceTasks[s].tail # 0
        <4>1. shown[s] = 0
          BY <1>7, <3>3 DEF OpenLog, TailsAreUnseen
        <4>2. line \in 0..MaxLines
          BY <1>1, <1>2, <3>1 DEF Later
        <4>3. QED
          BY <1>1, <4>1, <4>2
      <3>4. QED
        BY <3>2, <3>3
    <2>2. sourceTasks' = [sourceTasks EXCEPT ![s] = task] /\ shown' = shown
      BY <1>2, <1>7 DEF OpenLog
    <2> HIDE DEF line
    <2>3. task \in Tasks /\ task.at = "following" /\ task.line = line
      BY <1>2, <2>1
    <2> HIDE DEF task
    <2>4. QED
      BY <1>2, <1>5, <1>6, <2>1, <2>2, <2>3
  <1>8. CASE OpenFails(s) \/ LogEnds(s)
    <2> DEFINE task == [sourceTasks[s] EXCEPT !.at = "finished"]
    <2>1. sourceTasks' = [sourceTasks EXCEPT ![s] = task] /\ shown' = shown
      BY <1>2, <1>8 DEF OpenFails, LogEnds, Finished
    <2>2. task \in Tasks /\ task.at = "finished"
      BY <1>2
    <2> HIDE DEF task
    <2>3. QED
      BY <1>2, <1>5, <1>6, <2>1, <2>2
  <1>9. CASE ShowLine(s)
    <2> DEFINE line == sourceTasks[s].line + 1
               task == [sourceTasks[s] EXCEPT !.line = line]
    <2>1. line \in 0..MaxLines /\ line <= log[s] /\ sourceTasks[s].at = "following"
      BY <1>1, <1>2, <1>9 DEF ShowLine
    <2>2. sourceTasks' = [sourceTasks EXCEPT ![s] = task] /\ shown' = [shown EXCEPT ![s] = line]
      BY <1>2, <1>9 DEF ShowLine
    <2> HIDE DEF line
    <2>3. task \in Tasks /\ task.at = "following" /\ task.line = line
      BY <1>2, <2>1
    <2>4. task.line >= line
      BY <1>1, <2>1, <2>3
    <2> HIDE DEF task
    <2>5. QED
      BY <1>5, <2>1, <2>2, <2>3, <2>4
  <1>10. QED
    BY <1>7, <1>8, <1>9 DEF SourceTask

\* What happens in the cluster: a container that starts again has shown nothing.
LEMMA PodStep_Inv ==
    ASSUME AggregateInv, NEW s \in Sources, PodStep(s) PROVE AggregateInv'
  <1> USE DEF AggregateInv
  <1>1. MaxLines \in Nat /\ MaxPodChanges \in Nat /\ 0 \in 0..MaxLines
    BY AggregateNumbersAssumption
  <1>2. UNCHANGED <<target, step, listed, sourceTasks, attached>>
    BY DEF PodStep, NewPod, Relabel, Terminate, ContainerExit, ContainerStart, Write, PodChange
  <1>3. ASSUME pods' \in [Sources -> PodPhases], podChanges' \in 0..MaxPodChanges,
               NEW lines \in 0..MaxLines, NEW last \in 0..MaxLines, last <= lines,
               log' = [log EXCEPT ![s] = lines], shown' = [shown EXCEPT ![s] = last],
               last = shown[s] \/ last = 0
        PROVE  AggregateInv'
    <2>1. AggregateTypeOK' /\ TasksAreAttached'
      BY <1>2, <1>3 DEF AggregateTypeOK, TasksAreAttached
    <2>2. sourceTasks[s].line \in Nat
      BY <1>1 DEF AggregateTypeOK
    <2>3. TailsAreUnseen'
      BY <1>1, <1>2, <1>3, <2>2 DEF TailsAreUnseen, AggregateTypeOK
    <2>4. QED
      BY <2>1, <2>3
  <1>4. /\ log = [log EXCEPT ![s] = log[s]] /\ shown = [shown EXCEPT ![s] = shown[s]]
        /\ log[s] \in 0..MaxLines /\ shown[s] \in 0..MaxLines /\ shown[s] <= log[s]
    BY DEF AggregateTypeOK, TailsAreUnseen
  <1>5. ASSUME NEW from, NEW to \in PodPhases, PodChange(s, from, to)
        PROVE  pods' \in [Sources -> PodPhases] /\ podChanges' \in 0..MaxPodChanges
    BY <1>1, <1>5 DEF PodChange, AggregateTypeOK
  <1>6. CASE NewPod(s) \/ ContainerStart(s)
    <2>1. /\ pods' \in [Sources -> PodPhases] /\ podChanges' \in 0..MaxPodChanges
          /\ log' = [log EXCEPT ![s] = 0] /\ shown' = [shown EXCEPT ![s] = 0]
      BY <1>5, <1>6 DEF NewPod, ContainerStart, PodPhases
    <2>2. 0 <= 0
      OBVIOUS
    <2>3. QED
      BY <1>1, <1>3, <2>1, <2>2
  <1>7. CASE Relabel(s) \/ Terminate(s) \/ ContainerExit(s)
    <2>1. /\ pods' \in [Sources -> PodPhases] /\ podChanges' \in 0..MaxPodChanges
          /\ log' = log /\ shown' = shown
      BY <1>5, <1>7 DEF Relabel, Terminate, ContainerExit, PodPhases
    <2>2. QED
      BY <1>3, <1>4, <2>1
  <1>8. CASE Write(s)
    <2>1. /\ pods' = pods /\ podChanges' = podChanges /\ shown' = shown
          /\ log' = [log EXCEPT ![s] = log[s] + 1] /\ log[s] < MaxLines
      BY <1>8 DEF Write
    <2>2. log[s] + 1 \in 0..MaxLines /\ shown[s] <= log[s] + 1
      BY <1>1, <1>4, <2>1
    <2>3. pods' \in [Sources -> PodPhases] /\ podChanges' \in 0..MaxPodChanges
      BY <2>1 DEF AggregateTypeOK
    <2>4. QED
      BY <1>3, <1>4, <2>1, <2>2, <2>3
  <1>9. QED
    BY <1>6, <1>7, <1>8 DEF PodStep

\* No line is shown twice while its source stays wanted, however often its stream is
\* opened again, and no more sources are followed than run_aggregated_log_stream allows.
THEOREM LinesAlwaysShownOnce == AggregateSpec => []LinesAreShownOnce
  <1>1. AggregateInv => LinesAreShownOnce
    <2> SUFFICES ASSUME AggregateInv PROVE LinesAreShownOnce
      OBVIOUS
    <2> USE DEF AggregateInv
    <2> DEFINE followed == {s \in Sources : sourceTasks[s].at # "none"}
    <2>1. followed \in SUBSET attached /\ IsFiniteSet(attached) /\ Cardinality(attached) <= MaxSources
      BY DEF TasksAreAttached
    <2> HIDE DEF followed
    <2>2. IsFiniteSet(followed) /\ Cardinality(followed) <= Cardinality(attached)
      BY <2>1, FS_Subset
    <2>3. Cardinality(followed) \in Nat /\ Cardinality(attached) \in Nat /\ MaxSources \in Nat
      BY <2>1, <2>2, FS_CardinalityType, AggregateNumbersAssumption
    <2>4. Cardinality(followed) <= MaxSources
      BY <2>1, <2>2, <2>3
    <2>5. \A s \in attached : sourceTasks[s].at = "following" => sourceTasks[s].line >= shown[s]
      BY DEF AggregateTypeOK, TailsAreUnseen
    <2>6. QED
      BY <2>4, <2>5 DEF followed, LinesAreShownOnce, TasksAreAttached
  <1>2. AggregateInv /\ [AggregateNext]_aggregateVars => AggregateInv'
    <2>1. AggregateInv /\ UNCHANGED aggregateVars => AggregateInv'
      BY DEF aggregateVars, AggregateInv, AggregateTypeOK, TasksAreAttached, TailsAreUnseen
    <2>2. QED
      BY <2>1, LogLoop_Inv, SourceTask_Inv, PodStep_Inv DEF AggregateNext
  <1>3. QED
    BY <1>1, <1>2, AggregateInit_Inv, PTL DEF AggregateSpec

-----------------------------------------------------------------------------
(* The access inspection                                                    *)

\* A family that was read completely has every object that was there all along.
RbacInv ==
    /\ unchanged \subseteq granted /\ granted \subseteq AccessObjects
    /\ loads \in [Families -> [items : SUBSET AccessObjects,
                               status : {"loading", "complete", "partial", "unavailable"}]]
    /\ \A f \in Families :
         /\ \A o \in loads[f].items : o.family = f
         /\ loads[f].status = "complete" =>
               \A o \in unchanged : o.family = f => o \in loads[f].items

\* Nothing has been read.
LEMMA RbacInit_Inv == RbacInit => RbacInv
  BY DEF RbacInit, RbacInv, Unread, Families

\* Pages bring what is there when the first of them is read.
LEMMA RbacNext_Inv == RbacInv /\ [RbacNext]_rbacVars => RbacInv'
  <1> SUFFICES ASSUME RbacInv, [RbacNext]_rbacVars PROVE RbacInv'
    OBVIOUS
  <1> DEFINE Loads == [items : SUBSET AccessObjects,
                       status : {"loading", "complete", "partial", "unavailable"}]
  <1>1. CASE AccessChanges
    <2>1. /\ unchanged' \subseteq granted' /\ granted' \subseteq AccessObjects
          /\ unchanged' \subseteq unchanged /\ loads' = loads
      BY <1>1 DEF AccessChanges, RbacInv
    <2>2. QED
      BY <2>1 DEF RbacInv
  <1>2. ASSUME NEW f \in Families, ListAll(f) \/ ListBreaksOff(f) PROVE RbacInv'
    <2>1. PICK load \in Loads :
            /\ loads' = [loads EXCEPT ![f] = load]
            /\ \A o \in load.items : o.family = f
            /\ load.status = "complete" => \A o \in granted : o.family = f => o \in load.items
      <3>1. CASE ListAll(f)
        <4> DEFINE load == [items |-> Pages(f), status |-> "complete"]
        <4>1. loads' = [loads EXCEPT ![f] = load]
          BY <3>1 DEF ListAll
        <4>2. load \in Loads
          BY DEF Pages, RbacInv
        <4>3. QED
          BY <4>1, <4>2 DEF Pages
      <3>2. CASE ListBreaksOff(f)
        <4>1. PICK kept \in SUBSET Pages(f) :
                loads' = [loads EXCEPT ![f] = [items |-> kept,
                            status |-> IF kept = {} THEN "unavailable" ELSE "partial"]]
          BY <3>2 DEF ListBreaksOff
        <4> DEFINE load == [items |-> kept,
                            status |-> IF kept = {} THEN "unavailable" ELSE "partial"]
        <4>2. load \in Loads
          BY DEF Pages, RbacInv
        <4>3. QED
          BY <4>1, <4>2 DEF Pages
      <3>3. QED
        BY <1>2, <3>1, <3>2
    <2>2. UNCHANGED <<granted, unchanged>>
      BY <1>2 DEF ListAll, ListBreaksOff
    <2>3. QED
      BY <2>1, <2>2 DEF RbacInv
  <1>3. CASE UNCHANGED rbacVars
    BY <1>3 DEF rbacVars, RbacInv
  <1>4. QED
    BY <1>1, <1>2, <1>3 DEF RbacNext

\* Only the objects of a namespace, and the accounts that cluster bindings name, bring
\* a namespace to the summary.
LEMMA NamespacesAreNamed ==
    ASSUME RbacInv, NEW n \in Namespaces
    PROVE  n # Clusterwide
  <1>1. CASE n \in Inventoried
    <2>1. PICK o \in Items("serviceAccounts") \cup Items("roles") \cup Items("roleBindings") :
            n = o.namespace
      BY <1>1 DEF Inventoried
    <2>2. o \in AccessObjects /\ o.family \in {"serviceAccounts", "roles", "roleBindings"}
      BY <2>1 DEF RbacInv, Items, Families
    <2>3. QED
      BY <2>1, <2>2, AccessAssumption
  <1>2. CASE \E b \in Items("clusterRoleBindings") : n \in AccountHomes(b)
    BY <1>2 DEF AccountHomes
  <1>3. QED
    BY <1>1, <1>2 DEF Namespaces

\* What holds of a role binding holds of the namespace that it is in.
LEMMA RoleBindingsReach ==
    ASSUME NEW b \in Items("roleBindings"), NEW s \in SubjectsOf(b)
    PROVE  /\ s \in Access(b.namespace).subjects
           /\ BindingFlags(b) \subseteq Access(b.namespace).flags
  BY DEF Access, SubjectsIn, OfNamespace

\* A cluster binding reaches the namespaces of its accounts and, if it has users or
\* groups, those that are known.
LEMMA ClusterBindingsReach ==
    ASSUME RbacInv, NEW g \in Items("clusterRoleBindings"), NEW s \in SubjectsOf(g),
           NEW n \in Namespaces,
           n = s.namespace \/ (s.kind # "ServiceAccount" /\ n \in Inventoried)
    PROVE  /\ s \in Access(n).subjects
           /\ BindingFlags(g) \subseteq Access(n).flags
  <1>1. PICK t \in g.subjects :
          s = [kind |-> t.kind, name |-> t.name, namespace |-> Home(g, t)]
    BY DEF SubjectsOf
  <1>2. s.kind = t.kind /\ s.namespace = Home(g, t)
    BY <1>1
  <1>3. n # Clusterwide
    BY NamespacesAreNamed
  <1>4. g \in AccessObjects /\ g.family = "clusterRoleBindings"
    BY DEF RbacInv, Items, Families
  <1>5. ASSUME g \in Reaching(n), s \in SubjectsReaching(g, n)
        PROVE  s \in Access(n).subjects /\ BindingFlags(g) \subseteq Access(n).flags
    <2>1. s \in Access(n).subjects
      <3>1. s \in SubjectsIn(n)
        BY <1>5 DEF SubjectsIn
      <3>2. QED
        BY <3>1 DEF Access
    <2>2. BindingFlags(g) \subseteq Access(n).flags
      BY <1>5 DEF Access
    <2>3. QED
      BY <2>1, <2>2
  <1>6. CASE t.kind = "ServiceAccount"
    <2>1. n = s.namespace
      BY <1>2, <1>6
    <2>2. n \in AccountHomes(g)
      BY <1>2, <1>3, <1>6, <2>1 DEF AccountHomes
    <2>3. g \in Reaching(n)
      BY <2>2 DEF Reaching, Reached
    <2>4. QED
      BY <1>2, <1>6, <1>5, <2>1, <2>3 DEF SubjectsReaching
  <1>7. CASE t.kind # "ServiceAccount"
    <2>1. Home(g, t) = Clusterwide
      BY <1>4, <1>7, AccessAssumption DEF Home
    <2>2. n \in Inventoried
      BY <1>2, <1>3, <2>1
    <2>3. n \in KnownAt(g) /\ t \in Wide(g)
      BY <1>7, <2>2 DEF KnownAt, Wide
    <2>4. g \in Reaching(n)
      BY <2>3 DEF Reaching, Reached
    <2>5. QED
      BY <1>2, <1>7, <1>5, <2>3, <2>4 DEF SubjectsReaching
  <1>8. QED
    BY <1>6, <1>7

\* Every subject is listed, with the flags of its bindings, in every namespace that it
\* reaches, whatever changed between the lists (namespace_access_summary).
THEOREM AccessAlwaysReachesNamespaces == RbacSpec => []AccessReachesNamespaces
  <1>1. RbacInv => AccessReachesNamespaces
    <2> SUFFICES ASSUME RbacInv, NEW b \in unchanged \cap AccessObjects
                 PROVE  /\ b.family = "roleBindings" /\ loads["roleBindings"].status = "complete" =>
                             \A s \in SubjectsOf(b) :
                               /\ s \in Access(b.namespace).subjects
                               /\ BindingFlags(b) \subseteq Access(b.namespace).flags
                        /\ b.family = "clusterRoleBindings"
                             /\ loads["clusterRoleBindings"].status = "complete" =>
                             \A s \in SubjectsOf(b) : \A n \in Namespaces :
                               n = s.namespace \/ (s.kind # "ServiceAccount" /\ n \in Inventoried) =>
                                 /\ s \in Access(n).subjects
                                 /\ BindingFlags(b) \subseteq Access(n).flags
      BY DEF AccessReachesNamespaces
    <2>1. ASSUME NEW f \in Families, b.family = f, loads[f].status = "complete"
          PROVE  b \in Items(f)
      BY <2>1 DEF RbacInv, Items
    <2>2. b.family = "roleBindings" /\ loads["roleBindings"].status = "complete" =>
            b \in Items("roleBindings")
      BY <2>1 DEF Families
    <2>3. b.family = "clusterRoleBindings" /\ loads["clusterRoleBindings"].status = "complete" =>
            b \in Items("clusterRoleBindings")
      BY <2>1 DEF Families
    <2>4. QED
      BY <2>2, <2>3, RoleBindingsReach, ClusterBindingsReach
  <1>2. QED
    BY <1>1, RbacInit_Inv, RbacNext_Inv, PTL DEF RbacSpec

\* No flag of a rule is an unknown one.
LEMMA FlagsAreGraded ==
    ASSUME NEW verbs, NEW resources, NEW flag \in RuleFlags(verbs, resources)
    PROVE  flag.level \in {1, 2}
  <1> DEFINE on(rs) == resources \cap rs # {}
             may(vs) == "*" \in verbs \/ verbs \cap vs # {}
             writes == {"create", "update", "patch", "delete"}
             escalation == verbs \cap {"impersonate", "escalate", "bind"} # {}
             secrets == ("*" \in resources \/ on({"secrets"})) /\ may(writes \cup {"get", "list", "watch"})
             roles == /\ "*" \in resources
                         \/ on({"roles", "rolebindings", "clusterroles", "clusterrolebindings"})
                      /\ may(writes)
             interactive == /\ on({"pods/exec", "pods/attach", "pods/portforward", "pods/proxy",
                                   "services/proxy"})
                            /\ may({"create", "get"})
             tokens == on({"serviceaccounts", "serviceaccounts/token"}) /\ may({"create"})
  <1>1. RuleFlags(verbs, resources) =
          UNION {If("*" \in verbs, High("wildcard verbs")),
                 If("*" \in resources, High("wildcard resources")),
                 If(escalation, High("escalation")), If(secrets, High("secrets")),
                 If(roles, Medium("rbac write")), If(interactive, High("interactive")),
                 If(tokens, High("tokens"))}
    BY DEF RuleFlags
  <1> HIDE DEF escalation, secrets, roles, interactive, tokens
  <1>2. \/ flag \in If("*" \in verbs, High("wildcard verbs"))
        \/ flag \in If("*" \in resources, High("wildcard resources"))
        \/ flag \in If(escalation, High("escalation")) \/ flag \in If(secrets, High("secrets"))
        \/ flag \in If(roles, Medium("rbac write"))
        \/ flag \in If(interactive, High("interactive")) \/ flag \in If(tokens, High("tokens"))
    BY <1>1
  <1>3. flag \in {High("wildcard verbs"), High("wildcard resources"), High("escalation"),
                  High("secrets"), Medium("rbac write"), High("interactive"), High("tokens")}
    BY <1>2 DEF If
  <1>4. \A label : High(label).level = 2 /\ Medium(label).level = 1
    BY DEF High, Medium
  <1>5. QED
    BY <1>3, <1>4

\* A binding without a role is told from one whose role could not be read.
LEMMA BindingsAreAlwaysClassified == RbacInv => BindingsAreClassified
  <1> SUFFICES ASSUME RbacInv, NEW c \in Bindings
               PROVE  LET roles == {r \in unchanged : r.family = RoleFamily(c) /\ r.name = c.roleName
                                      /\ (c.roleKind = "Role" => r.namespace = c.namespace)}
                      IN  /\ roles # {} => UnknownFlag("dangling") \notin BindingFlags(c)
                          /\ \A r \in roles : RoleFlags(r) \subseteq BindingFlags(c)
                                              \/ loads[RoleFamily(c)].status # "complete"
                          /\ BindingFlags(c) = {} => \E r \in Referenced(c) : RoleFlags(r) = {}
    BY DEF BindingsAreClassified
  <1> DEFINE roles == {r \in unchanged : r.family = RoleFamily(c) /\ r.name = c.roleName
                                         /\ (c.roleKind = "Role" => r.namespace = c.namespace)}
             complete == loads[RoleFamily(c)].status = "complete"
             given == UNION {RoleFlags(r) : r \in Referenced(c)}
  <1>1. RoleFamily(c) \in Families
    BY DEF RoleFamily, Families
  <1>2. complete => roles \subseteq Referenced(c)
    BY <1>1 DEF RbacInv, Referenced
  <1>3. BindingFlags(c) = If(c.roleKind = "ClusterRole" /\ c.roleName = "cluster-admin",
                             High("cluster admin"))
                          \cup If(\E s \in c.subjects : s.kind = "Group"
                                                        /\ s.name = "system:masters", High("masters"))
                          \cup (IF Referenced(c) = {} THEN {UnknownFlag(MissingRole(c))} ELSE given)
    BY DEF BindingFlags
  <1>4. \A g \in given : g.level \in {1, 2}
    BY FlagsAreGraded DEF RoleFlags
  <1>5. /\ UnknownFlag("dangling").label = "dangling"
        /\ UnknownFlag("unavailable").label = "unavailable"
        /\ UnknownFlag("dangling") # High("cluster admin")
        /\ UnknownFlag("dangling") # High("masters")
    BY DEF UnknownFlag, High
  <1> HIDE DEF given
  <1>6. roles # {} => UnknownFlag("dangling") \notin BindingFlags(c)
    <2> SUFFICES ASSUME roles # {} PROVE UnknownFlag("dangling") \notin BindingFlags(c)
      OBVIOUS
    <2>1. UnknownFlag("dangling") \notin given
      <3> SUFFICES ASSUME UnknownFlag("dangling") \in given PROVE FALSE
        OBVIOUS
      <3>1. UnknownFlag("dangling").level \in {1, 2}
        BY <1>4
      <3>2. UnknownFlag("dangling").level = 3
        BY DEF UnknownFlag
      <3>3. QED
        BY <3>1, <3>2
    <2>2. ~complete \/ Referenced(c) # {}
      BY <1>2
    <2>3. ~complete => UnknownFlag(MissingRole(c)) # UnknownFlag("dangling")
      BY <1>5 DEF MissingRole
    <2>4. QED
      BY <1>3, <1>5, <2>1, <2>2, <2>3 DEF If
  <1>7. \A r \in roles : RoleFlags(r) \subseteq BindingFlags(c) \/ ~complete
    <2> SUFFICES ASSUME NEW r \in roles, complete PROVE RoleFlags(r) \subseteq BindingFlags(c)
      OBVIOUS
    <2>1. r \in Referenced(c)
      BY <1>2
    <2>2. RoleFlags(r) \subseteq given
      BY <2>1 DEF given
    <2>3. QED
      BY <1>3, <2>1, <2>2
  <1>8. BindingFlags(c) = {} => \E r \in Referenced(c) : RoleFlags(r) = {}
    <2> SUFFICES ASSUME BindingFlags(c) = {} PROVE \E r \in Referenced(c) : RoleFlags(r) = {}
      OBVIOUS
    <2>1. Referenced(c) # {} /\ given = {}
      BY <1>3
    <2>2. QED
      BY <2>1 DEF given
  <1>9. QED
    BY <1>6, <1>7, <1>8

\* A binding has the flags of the roles that were there all along, and is told from one
\* whose role could not be read, whatever objects there are, however they change between
\* the reads and wherever a page fails (list_paged and inherit_binding_risks).
THEOREM BindingsAlwaysClassified == RbacSpec => []BindingsAreClassified
  <1>1. RbacInv => BindingsAreClassified
    BY BindingsAreAlwaysClassified
  <1>2. QED
    BY <1>1, RbacInit_Inv, RbacNext_Inv, PTL DEF RbacSpec

-----------------------------------------------------------------------------
(* The resource maps                                                        *)

Shown(o) == o \in collected \/ \E l \in skipped : Covers(l, o)

\* A list is still to come that has the object.
Expected(o) == \E l \in askedLists : Covers(l, o)

\* What a selection of namespaces leaves out before the owners are known.
LeftOut(o) ==
    /\ scope # {}
    /\ IF o.kind \notin ClusterKinds THEN o.namespace \notin scope
       ELSE \/ o.kind \in CustomKinds
            \/ o.kind = "CustomResourceDefinition" /\ o.managed = NoOwner /\ o.owner = NoOwner

\* What no list is asked for.
Unlisted(o) == o.kind \in CustomKinds \ discovered

\* What the discovery has found, was refused or has nothing to do with; and what it has
\* still to ask for.
Settled(o) ==
    \/ o.kind \in NativeKinds \cup discovered \/ o.kind \notin DOMAIN probing
    \/ \E l \in refused : Covers(l, o)
    \/ scope # {} /\ (o.kind \in ClusterKinds \/ o.namespace \notin scope)
Probing(o) == o.kind \in DOMAIN probing /\ \E n \in probing[o.kind] : Covers(<<o.kind, n>>, o)

\* What was there all along is found or still asked for, until the discovery ends; and
\* shown, expected, left out or not listed, until the map is built.
DiscoveryKnows ==
    /\ remained \subseteq live
    /\ stage = "discover" => ~catalogued /\ \A o \in remained : Settled(o) \/ Probing(o)
    /\ catalogued => \A o \in remained : Settled(o)
CollectionKnows ==
    /\ stayed \subseteq live /\ live \subseteq Cluster /\ collected \subseteq Cluster
    /\ stage = "collect" => \A o \in stayed : Shown(o) \/ Expected(o) \/ LeftOut(o) \/ Unlisted(o)
    /\ stage = "owners" => \A o \in stayed : Shown(o) \/ LeftOut(o) \/ Unlisted(o)
    /\ network \in NetworkInputs \cup {NoNetwork}
CollectionInv == DiscoveryKnows /\ CollectionKnows

\* The lists of a kind have each of its objects that a selection does not leave out.
LEMMA ListsCover ==
    ASSUME NEW o
    PROVE  LeftOut(o) \/ \E n \in ScopesOf(o.kind, scope) : Covers(<<o.kind, n>>, o)
  <1>1. CASE o.kind \in ClusterKinds
    BY <1>1 DEF LeftOut, ScopesOf, Covers
  <1>2. CASE o.kind \notin ClusterKinds
    BY <1>2 DEF LeftOut, ScopesOf, Covers
  <1>3. QED
    BY <1>1, <1>2

\* At first every known kind is still to be asked for.
LEMMA TopologyInit_Inv == TopologyInit => CollectionInv /\ MapsAreHonest
  <1> SUFFICES ASSUME TopologyInit PROVE CollectionInv /\ MapsAreHonest
    OBVIOUS
  <1>1. /\ live \subseteq Cluster /\ stayed = live /\ remained = live /\ collected = {}
        /\ stage \in {"discover", "network"} /\ network = NoNetwork /\ ~catalogued
    BY DEF TopologyInit
  <1>2. PICK known \in SUBSET CustomKinds : probing = [k \in known |-> ScopesOf(k, scope)]
    BY DEF TopologyInit
  <1>3. ASSUME NEW o \in remained, ~Settled(o) PROVE Probing(o)
    <2>1. o.kind \in known /\ probing[o.kind] = ScopesOf(o.kind, scope)
      BY <1>2, <1>3 DEF Settled
    <2>2. ~LeftOut(o)
      BY <1>3 DEF Settled, LeftOut
    <2>3. QED
      BY <1>2, <2>1, <2>2, ListsCover DEF Probing
  <1>4. QED
    BY <1>1, <1>3 DEF CollectionInv, DiscoveryKnows, CollectionKnows, MapsAreHonest

\* Probes: a kind that has not been found where it was asked for has nothing there that
\* will have remained.
LEMMA Probes_Inv ==
    ASSUME CollectionInv, NEW k \in DOMAIN probing, Probe(k) \/ ProbeRefused(k)
    PROVE  CollectionInv' /\ MapsAreHonest'
  <1>1. PICK n \in probing[k], rest \in SUBSET probing[k] :
          /\ probing' = [probing EXCEPT ![k] = rest]
          /\ \/ discovered' = discovered \cup {k} /\ refused' = refused
             \/ /\ rest = probing[k] \ {n} /\ discovered' = discovered /\ refused' = refused
                /\ ~\E o \in live : Covers(<<k, n>>, o)
             \/ /\ rest = probing[k] \ {n} /\ discovered' = discovered
                /\ refused' = refused \cup {<<k, n>>}
    <2>1. CASE Probe(k)
      <3>1. PICK n \in probing[k] :
              /\ refused' = refused
              /\ IF \E o \in live : Covers(<<k, n>>, o)
                 THEN Probed(k, {}) /\ discovered' = discovered \cup {k}
                 ELSE Probed(k, probing[k] \ {n}) /\ discovered' = discovered
        BY <2>1 DEF Probe
      <3>2. CASE \E o \in live : Covers(<<k, n>>, o)
        BY <3>1, <3>2 DEF Probed
      <3>3. CASE ~\E o \in live : Covers(<<k, n>>, o)
        BY <3>1, <3>3 DEF Probed
      <3>4. QED
        BY <3>2, <3>3
    <2>2. CASE ProbeRefused(k)
      BY <2>2 DEF ProbeRefused, Probed
    <2>3. QED
      BY <2>1, <2>2
  <1>2. /\ stage = "discover" /\ stage' = stage
        /\ live' = live /\ remained' = remained /\ stayed' = stayed /\ scope' = scope
        /\ network' = network /\ catalogued' = catalogued /\ collected' = collected
    BY DEF Probe, ProbeRefused, Probed, mapCluster, inputs
  <1>3. /\ DOMAIN probing' = DOMAIN probing /\ probing'[k] = rest
        /\ \A j \in DOMAIN probing : j # k => probing'[j] = probing[j]
    BY <1>1
  <1>4. ASSUME NEW o, Settled(o) PROVE Settled(o)'
    BY <1>1, <1>2, <1>3, <1>4 DEF Settled, NativeKinds, Covers
  <1>5. ASSUME NEW o \in remained, Probing(o) PROVE Settled(o)' \/ Probing(o)'
    <2>1. CASE o.kind # k
      BY <1>3, <1>5, <2>1 DEF Probing, Covers
    <2>2. CASE o.kind = k
      <3>1. PICK m \in probing[k] : Covers(<<k, m>>, o)
        BY <1>5, <2>2 DEF Probing
      <3>2. CASE discovered' = discovered \cup {k}
        BY <2>2, <3>2 DEF Settled
      <3>3. CASE rest = probing[k] \ {n} /\ m # n
        BY <1>3, <2>2, <3>1, <3>3 DEF Probing, Covers
      <3>4. CASE m = n /\ ~\E p \in live : Covers(<<k, n>>, p)
        BY <3>1, <3>4 DEF CollectionInv, DiscoveryKnows
      <3>5. CASE m = n /\ refused' = refused \cup {<<k, n>>}
        BY <3>1, <3>5 DEF Settled, Covers
      <3>6. QED
        BY <1>1, <3>2, <3>3, <3>4, <3>5
    <2>3. QED
      BY <2>1, <2>2
  <1>6. DiscoveryKnows'
    BY <1>2, <1>4, <1>5 DEF CollectionInv, DiscoveryKnows
  <1>7. CollectionKnows' /\ MapsAreHonest'
    BY <1>2 DEF CollectionInv, CollectionKnows, MapsAreHonest
  <1>8. QED
    BY <1>6, <1>7 DEF CollectionInv

\* A collection begins: what is of a kind that it lists is expected.
LEMMA Collects_Inv ==
    ASSUME CollectionInv, NEW kinds, Collects(kinds), discovered' = kinds
    PROVE  CollectionKnows' /\ MapsAreHonest'
  <1>1. /\ stage' = "collect" /\ stayed' = live /\ live' = live /\ collected' = collected
        /\ scope' = scope /\ network' = network
        /\ askedLists' = UNION {ListsOf(k, scope) : k \in NativeKinds \cup kinds}
    BY DEF Collects, inputs
  <1>2. ASSUME NEW o \in live, ~LeftOut(o), ~(o.kind \in CustomKinds \ kinds)
        PROVE  \E l \in askedLists' : Covers(l, o)
    <2>1. PICK n \in ScopesOf(o.kind, scope) : Covers(<<o.kind, n>>, o)
      BY <1>2, ListsCover
    <2>2. o.kind \in NativeKinds \cup kinds
      BY <1>2 DEF NativeKinds, CollectionInv, CollectionKnows
    <2>3. <<o.kind, n>> \in ListsOf(o.kind, scope)
      BY DEF ListsOf
    <2>4. <<o.kind, n>> \in askedLists'
      BY <1>1, <2>2, <2>3
    <2>5. QED
      BY <2>1, <2>4
  <1>3. ASSUME NEW o \in stayed' PROVE Expected(o)' \/ LeftOut(o)' \/ Unlisted(o)'
    BY <1>1, <1>2 DEF Expected, LeftOut, Unlisted, Covers
  <1>4. QED
    BY <1>1, <1>3 DEF CollectionInv, CollectionKnows, MapsAreHonest

\* The discovery ends when it has nothing left to ask; without one there is nothing that
\* it knows.
LEMMA MapBegins_Inv ==
    ASSUME CollectionInv, CataloguedMap \/ NativeMap
    PROVE  CollectionInv' /\ MapsAreHonest'
  <1>1. PICK kinds : Collects(kinds) /\ discovered' = kinds
    BY DEF CataloguedMap, NativeMap
  <1>2. CollectionKnows' /\ MapsAreHonest'
    BY <1>1, Collects_Inv
  <1>3. live' = live /\ scope' = scope /\ stage = "discover" /\ stage' = "collect"
    BY <1>1 DEF Collects, inputs
  <1>4. CASE CataloguedMap
    <2>1. ASSUME NEW o \in remained PROVE Settled(o)
      BY <1>3, <1>4 DEF CataloguedMap, CollectionInv, DiscoveryKnows, Probing
    <2>2. /\ remained' = remained /\ probing' = probing /\ discovered' = discovered
          /\ refused' = refused
      BY <1>4 DEF CataloguedMap
    <2>3. ASSUME NEW o \in remained' PROVE Settled(o)'
      BY <1>3, <2>1, <2>2 DEF Settled, NativeKinds, Covers
    <2>4. QED
      BY <1>2, <1>3, <2>2, <2>3 DEF CollectionInv, DiscoveryKnows
  <1>5. CASE NativeMap
    BY <1>2, <1>3, <1>5 DEF NativeMap, CollectionInv, DiscoveryKnows
  <1>6. QED
    BY <1>4, <1>5

\* Nothing but the end of the collection builds a map.
LEMMA Collect_Inv ==
    ASSUME CollectionInv, stage = "collect",
           UNCHANGED <<scope, network, discovery>>, stage' \in {"collect", "owners", "failed"},
           remained' \subseteq remained, remained' \subseteq live',
           stayed' \subseteq stayed, stayed' \subseteq live', live' \subseteq Cluster,
           collected \subseteq collected', collected' \subseteq Cluster, skipped \subseteq skipped',
           stage' = "collect" =>
             \A o \in stayed' : Expected(o) => Shown(o)' \/ Expected(o)' \/ LeftOut(o),
           stage' = "owners" => \A o \in stayed' : ~Expected(o)
    PROVE  CollectionInv' /\ MapsAreHonest'
  <1>1. ASSUME NEW o PROVE (LeftOut(o)' <=> LeftOut(o)) /\ (Unlisted(o)' <=> Unlisted(o))
    BY DEF LeftOut, Unlisted, discovery
  <1>2. ASSUME NEW o PROVE Shown(o) => Shown(o)'
    BY DEF Shown, Covers
  <1>3. ASSUME NEW o PROVE Settled(o) => Settled(o)'
    BY DEF Settled, NativeKinds, Covers, discovery
  <1>4. DiscoveryKnows'
    BY <1>3 DEF CollectionInv, DiscoveryKnows, discovery
  <1>5. CollectionKnows' /\ MapsAreHonest'
    BY <1>1, <1>2 DEF CollectionInv, CollectionKnows, MapsAreHonest
  <1>6. QED
    BY <1>4, <1>5 DEF CollectionInv

\* Lists: a definition that is not kept has nothing that would have kept it.
LEMMA Lists_Inv ==
    ASSUME CollectionInv, NEW list \in askedLists, ListObjects(list) \/ ListForbidden(list)
    PROVE  CollectionInv' /\ MapsAreHonest'
  <1>1. /\ stage = "collect" /\ askedLists' = askedLists \ {list}
        /\ stayed' = stayed /\ live' = live /\ remained' = remained /\ stage' = stage
        /\ scope' = scope /\ network' = network /\ discovery' = discovery
    BY DEF ListObjects, ListForbidden, mapCluster, inputs
  <1>2. /\ collected \subseteq collected' /\ skipped \subseteq skipped' /\ collected' \subseteq Cluster
        /\ \/ skipped' = skipped \cup {list}
           \/ \A o \in live : Covers(list, o) /\ ListedObjects(o) => o \in collected'
    <2>1. CASE ListObjects(list)
      BY <2>1 DEF ListObjects, CollectionInv, CollectionKnows
    <2>2. CASE ListForbidden(list)
      BY <2>2 DEF ListForbidden, CollectionInv, CollectionKnows
    <2>3. QED
      BY <2>1, <2>2
  <1>3. ASSUME NEW o \in stayed, Expected(o) PROVE Shown(o)' \/ Expected(o)' \/ LeftOut(o)
    <2>1. CASE Covers(list, o)
      <3>1. CASE skipped' = skipped \cup {list}
        BY <2>1, <3>1 DEF Shown, Covers
      <3>2. CASE \A p \in live : Covers(list, p) /\ ListedObjects(p) => p \in collected'
        <4>1. o \in live
          BY DEF CollectionInv, CollectionKnows
        <4>2. ListedObjects(o) \/ LeftOut(o)
          BY TopologyAssumption DEF ListedObjects, LeftOut
        <4>3. QED
          BY <2>1, <3>2, <4>1, <4>2 DEF Shown
      <3>3. QED
        BY <1>2, <3>1, <3>2
    <2>2. CASE ~Covers(list, o)
      BY <1>1, <1>3, <2>2 DEF Expected, Covers
    <2>3. QED
      BY <2>1, <2>2
  <1>4. stayed \subseteq live /\ live \subseteq Cluster /\ remained \subseteq live
    BY DEF CollectionInv, CollectionKnows, DiscoveryKnows
  <1>5. QED
    BY <1>1, <1>2, <1>3, <1>4, Collect_Inv

\* The owners are known: a storage class is kept for them, or has none.
LEMMA ReadOwners_Inv ==
    ASSUME CollectionInv, ReadOwners
    PROVE  CollectionInv' /\ MapsAreHonest'
  <1>1. /\ stage = "owners" /\ stage' = "built" /\ stayed' = stayed /\ live' = live
        /\ scope' = scope /\ network' = network /\ skipped' = skipped
        /\ remained' = remained /\ probing' = probing /\ discovered' = discovered
        /\ refused' = refused /\ catalogued' = catalogued
        /\ collected' = {o \in collected : o.kind = "StorageClass" /\ scope # {}
                           => GitOpsOwner(owners', o) # NoOwner \/ o.owner # NoOwner}
    BY DEF ReadOwners, mapCluster, inputs, discovery
  <1>2. ASSUME NEW o PROVE GitOpsOwner(owners, o)' = GitOpsOwner(owners', o)
    OBVIOUS
  <1>3. ASSUME NEW o PROVE GitOpsOwner(owners', o) = NoOwner => o.managed = NoOwner
    BY DEF GitOpsOwner
  <1>4. ASSUME NEW o \in stayed'
        PROVE  /\ \/ o \in collected'
                  \/ \E l \in skipped' : Covers(l, o)
                  \/ o.kind \in CustomKinds \ discovered'
                  \/ /\ scope' # {}
                     /\ IF o.kind \notin ClusterKinds THEN o.namespace \notin scope'
                        ELSE o.kind \in CustomKinds \/ (o.managed = NoOwner /\ o.owner = NoOwner)
               /\ o.kind = "StorageClass" /\ GitOpsOwner(owners', o) # NoOwner =>
                    o \in collected' \/ \E l \in skipped' : Covers(l, o)
    <2>1. Shown(o) \/ LeftOut(o) \/ Unlisted(o)
      BY <1>1 DEF CollectionInv, CollectionKnows
    <2>2. CASE o \in collected
      BY <1>1, <1>3, <2>2, TopologyAssumption
    <2>3. CASE \E l \in skipped : Covers(l, o)
      BY <1>1, <2>3
    <2>4. CASE LeftOut(o)
      BY <1>1, <2>4, TopologyAssumption DEF LeftOut
    <2>5. CASE Unlisted(o)
      BY <1>1, <2>5, TopologyAssumption DEF Unlisted
    <2>6. QED
      BY <2>1, <2>2, <2>3, <2>4, <2>5 DEF Shown
  <1>5. collected' \subseteq Cluster /\ stayed' \subseteq Cluster
    BY <1>1 DEF CollectionInv, CollectionKnows
  <1>6. ASSUME NEW o \in Nodes' \cap stayed', NEW p \in stayed', p.uid = o.owner
        PROVE  <<p, o>> \in Owns' \/ o \in MissingOwner'
    <2>1. o.owner # NoOwner
      BY <1>5, <1>6, TopologyAssumption
    <2>2. ASSUME NEW e \in Owns', e[2] = o PROVE <<p, o>> \in Owns'
      <3>1. e \in Nodes' \X Nodes' /\ e[1].uid = o.owner
        BY <2>2 DEF Owns
      <3>2. e[1] \in Cluster /\ p \in Cluster /\ e[1] \in Nodes' /\ o \in Nodes'
        BY <1>5, <3>1 DEF Nodes
      <3>3. e[1] = p
        BY <1>6, <3>1, <3>2, TopologyAssumption
      <3>4. e = <<p, o>>
        BY <2>2, <3>1, <3>3
      <3>5. QED
        BY <2>2, <3>4
    <2>3. QED
      BY <2>1, <2>2 DEF MissingOwner
  <1>7. ASSUME NEW o, Settled(o) PROVE Settled(o)'
    BY <1>1, <1>7 DEF Settled, NativeKinds, Covers
  <1>8. DiscoveryKnows'
    BY <1>1, <1>7 DEF CollectionInv, DiscoveryKnows
  <1>9. catalogued' => \A o \in remained' : Settled(o)'
    BY <1>8 DEF DiscoveryKnows
  <1>10. MapsAreHonest'
    BY <1>2, <1>4, <1>6, <1>9 DEF MapsAreHonest, Settled, NativeKinds, Covers
  <1>11. CollectionKnows'
    BY <1>1, <1>5 DEF CollectionInv, CollectionKnows
  <1>12. QED
    BY <1>8, <1>10, <1>11 DEF CollectionInv

\* The cluster changes: what has remained or stayed is only ever less.
LEMMA ClusterChanges_Inv ==
    ASSUME CollectionInv, ClusterChanges
    PROVE  CollectionInv' /\ MapsAreHonest'
  <1>1. /\ stage \in {"discover", "collect"} /\ stage' = stage
        /\ scope' = scope /\ network' = network /\ askedLists' = askedLists
        /\ discovery' = discovery /\ collected' = collected /\ skipped' = skipped
    BY DEF ClusterChanges, inputs
  <1>2. /\ stayed' \subseteq stayed /\ stayed' \subseteq live' /\ live' \subseteq Cluster
        /\ remained' \subseteq remained /\ remained' \subseteq live'
        /\ collected \subseteq Cluster
    BY DEF ClusterChanges, CollectionInv, CollectionKnows, DiscoveryKnows
  <1>3. CASE stage = "collect"
    <2>1. ASSUME NEW o, Expected(o) PROVE Expected(o)'
      BY <1>1, <2>1 DEF Expected, Covers
    <2>2. QED
      BY <1>1, <1>2, <1>3, <2>1, Collect_Inv
  <1>4. CASE stage = "discover"
    <2>1. ASSUME NEW o PROVE (Settled(o) => Settled(o)') /\ (Probing(o) => Probing(o)')
      BY <1>1 DEF Settled, Probing, NativeKinds, Covers, discovery
    <2>2. DiscoveryKnows'
      BY <1>1, <1>2, <1>4, <2>1 DEF CollectionInv, DiscoveryKnows, discovery
    <2>3. CollectionKnows' /\ MapsAreHonest'
      BY <1>1, <1>2, <1>4 DEF CollectionInv, CollectionKnows, MapsAreHonest
    <2>4. QED
      BY <2>2, <2>3 DEF CollectionInv
  <1>5. QED
    BY <1>1, <1>3, <1>4

\* Every step of the two maps.
LEMMA TopologyNext_Inv ==
    CollectionInv /\ MapsAreHonest /\ [TopologyNext]_topologyVars =>
        CollectionInv' /\ MapsAreHonest'
  <1> SUFFICES ASSUME CollectionInv, MapsAreHonest, [TopologyNext]_topologyVars
               PROVE  CollectionInv' /\ MapsAreHonest'
    OBVIOUS
  <1>1. CASE ListFails
    <2>1. /\ stage = "collect" /\ stage' = "failed"
          /\ UNCHANGED <<mapCluster, inputs, discovery, askedLists, collected, skipped>>
      BY <1>1 DEF ListFails
    <2>2. QED
      BY <2>1, Collect_Inv DEF CollectionInv, CollectionKnows, DiscoveryKnows, inputs, mapCluster
  <1>2. CASE CollectionEnds
    <2>1. /\ stage = "collect" /\ stage' = "owners"
          /\ UNCHANGED <<mapCluster, inputs, discovery, askedLists, collected, skipped>>
          /\ \A o : ~Expected(o)
      BY <1>2 DEF CollectionEnds, Expected
    <2>2. QED
      BY <2>1, Collect_Inv DEF CollectionInv, CollectionKnows, DiscoveryKnows, inputs, mapCluster
  <1>3. ASSUME UNCHANGED <<mapCluster, discovery, scope>>, stage' # "built",
               stage' \in {"discover", "collect", "owners"} => stage' = stage
        PROVE  DiscoveryKnows'
    <2>1. ASSUME NEW o PROVE (Settled(o) => Settled(o)') /\ (Probing(o) => Probing(o)')
      BY <1>3 DEF Settled, Probing, NativeKinds, Covers, discovery
    <2>2. QED
      BY <1>3, <2>1 DEF CollectionInv, DiscoveryKnows, discovery, mapCluster
  <1>4. CASE ReadNetwork
    <2>1. /\ stage = "network" /\ stage' = "drawn" /\ network' \in NetworkInputs
          /\ UNCHANGED <<mapCluster, discovery, scope, collected>>
      BY <1>4 DEF ReadNetwork
    <2>2. DiscoveryKnows'
      BY <1>3, <2>1
    <2>3. QED
      BY <2>1, <2>2 DEF CollectionInv, CollectionKnows, MapsAreHonest, mapCluster
  <1>5. CASE UNCHANGED topologyVars
    <2>1. CollectionInv'
      BY <1>5 DEF topologyVars, mapCluster, discovery, inputs, CollectionInv, DiscoveryKnows,
         CollectionKnows, Shown, Expected, LeftOut, Unlisted, Settled, Probing, NativeKinds,
         Covers
    <2>2. Nodes' = Nodes /\ Owns' = Owns /\ MissingOwner' = MissingOwner
      BY <1>5 DEF topologyVars, Nodes, Owns, MissingOwner, Noise
    <2>3. ASSUME NEW o PROVE GitOpsOwner(owners, o)' = GitOpsOwner(owners, o)
      BY <1>5 DEF topologyVars
    <2>4. MapsAreHonest'
      BY <1>5, <2>2, <2>3 DEF topologyVars, mapCluster, discovery, inputs, MapsAreHonest,
         NativeKinds, Covers
    <2>5. QED
      BY <2>1, <2>4
  <1>6. QED
    BY <1>1, <1>2, <1>4, <1>5, ClusterChanges_Inv, Probes_Inv, MapBegins_Inv, Lists_Inv,
       ReadOwners_Inv DEF TopologyNext

\* The edges of a service.
LEMMA EdgesOfServices ==
    ASSUME NEW in, NEW s, NEW e
    PROVE  e \in ServiceEdges(in, s) <=>
             \/ /\ SlicesOf(in, s) = {}
                /\ \E p \in in.pods : Matches(s, p) /\ e = <<s.name, p.name>>
             \/ \E l \in SlicesOf(in, s) : e = <<s.name, l.name>>
             \/ \E l \in SlicesOf(in, s) : \E p \in TargetsOf(in, l) : e = <<l.name, p.name>>
  <1>1. CASE SlicesOf(in, s) = {}
    <2>1. ServiceEdges(in, s) = {<<s.name, p.name>> : p \in {p \in in.pods : Matches(s, p)}}
      BY <1>1 DEF ServiceEdges
    <2>2. QED
      BY <1>1, <2>1
  <1>2. CASE SlicesOf(in, s) # {}
    <2> DEFINE direct == {<<s.name, l.name>> : l \in SlicesOf(in, s)}
               onward(l) == {<<l.name, p.name>> : p \in TargetsOf(in, l)}
               indirect == UNION {onward(l) : l \in SlicesOf(in, s)}
    <2>1. ServiceEdges(in, s) = direct \cup indirect
      BY <1>2 DEF ServiceEdges
    <2>2. e \in direct <=> \E l \in SlicesOf(in, s) : e = <<s.name, l.name>>
      OBVIOUS
    <2>3. e \in indirect <=>
            \E l \in SlicesOf(in, s) : \E p \in TargetsOf(in, l) : e = <<l.name, p.name>>
      OBVIOUS
    <2> HIDE DEF direct, indirect
    <2>4. QED
      BY <1>2, <2>1, <2>2, <2>3
  <1>3. QED
    BY <1>1, <1>2

\* The network map explains itself whatever it is drawn from.
LEMMA NetworkAlwaysExplained ==
    ASSUME NEW in \in NetworkInputs
    PROVE  /\ \A s \in in.services :
                \/ s.external \/ s.name \in NetworkWarnings(in)
                \/ \E p \in in.pods : <<s.name, p.name>> \in NetworkEdges(in)
                \/ \E p \in in.pods, l \in in.slices :
                      {<<s.name, l.name>>, <<l.name, p.name>>} \subseteq NetworkEdges(in)
                \/ SlicesOf(in, s) # {} /\ \A l \in SlicesOf(in, s) : l.targets = {}
           /\ \A r \in in.routes :
                <<"ingress", r>> \in NetworkEdges(in) \/ r.to \in NetworkWarnings(in)
           /\ \A s \in in.services, p \in in.pods : <<s.name, p.name>> \in NetworkEdges(in)
                => SlicesOf(in, s) = {} /\ s.selector # {}
  <1> DEFINE routed == {<<"ingress", r>> :
                          r \in {r \in in.routes : \E s \in in.services : s.name = r.to}}
             served == UNION {ServiceEdges(in, s) : s \in in.services}
  <1>1. NetworkEdges(in) = routed \cup served
    BY DEF NetworkEdges
  <1>2. \A s \in in.services : ServiceEdges(in, s) \subseteq served
    OBVIOUS
  <1>3. \A e \in served : \E s \in in.services : e \in ServiceEdges(in, s)
    OBVIOUS
  <1>4. \A e \in routed : e[1] = "ingress"
    OBVIOUS
  <1>5. \A r \in in.routes : (\E s \in in.services : s.name = r.to) => <<"ingress", r>> \in routed
    OBVIOUS
  <1> HIDE DEF routed, served
  <1>6. ASSUME NEW s \in in.services, ~s.external, s.name \notin NetworkWarnings(in),
               ~(SlicesOf(in, s) # {} /\ \A l \in SlicesOf(in, s) : l.targets = {})
        PROVE  \/ \E p \in in.pods : <<s.name, p.name>> \in NetworkEdges(in)
               \/ \E p \in in.pods, l \in in.slices :
                     {<<s.name, l.name>>, <<l.name, p.name>>} \subseteq NetworkEdges(in)
    <2>1. Linked(in, s) # {}
      BY <1>6 DEF NetworkWarnings
    <2>2. CASE SlicesOf(in, s) = {}
      <3>1. PICK p \in in.pods : Matches(s, p)
        BY <2>1, <2>2 DEF Linked
      <3>2. <<s.name, p.name>> \in ServiceEdges(in, s)
        BY <2>2, <3>1, EdgesOfServices
      <3>3. QED
        BY <1>1, <1>2, <3>2
    <2>3. CASE SlicesOf(in, s) # {}
      <3>1. PICK l \in SlicesOf(in, s) : TargetsOf(in, l) # {}
        BY <2>1, <2>3 DEF Linked
      <3>2. PICK p \in TargetsOf(in, l) : TRUE
        BY <3>1
      <3>3. p \in in.pods /\ l \in in.slices
        BY DEF TargetsOf, SlicesOf
      <3>4. <<s.name, l.name>> \in ServiceEdges(in, s) /\ <<l.name, p.name>> \in ServiceEdges(in, s)
        BY EdgesOfServices
      <3>5. QED
        BY <1>1, <1>2, <3>3, <3>4
    <2>4. QED
      BY <2>2, <2>3
  <1>7. ASSUME NEW r \in in.routes, r.to \notin NetworkWarnings(in)
        PROVE  <<"ingress", r>> \in NetworkEdges(in)
    <2>1. \E s \in in.services : s.name = r.to
      BY <1>7 DEF NetworkWarnings
    <2>2. QED
      BY <1>1, <1>5, <2>1
  <1>8. ASSUME NEW s \in in.services, NEW p \in in.pods, <<s.name, p.name>> \in NetworkEdges(in)
        PROVE  SlicesOf(in, s) = {} /\ s.selector # {}
    <2>1. s.name # "ingress"
      BY TopologyAssumption
    <2>2. <<s.name, p.name>> \in served
      BY <1>1, <1>4, <1>8, <2>1
    <2>3. PICK t \in in.services : <<s.name, p.name>> \in ServiceEdges(in, t)
      BY <1>3, <2>2
    <2>4. ASSUME NEW l \in SlicesOf(in, t)
          PROVE  l.name # p.name /\ l.name # s.name
      <3>1. l \in in.slices
        BY DEF SlicesOf
      <3>2. QED
        BY <3>1, TopologyAssumption
    <2>5. /\ SlicesOf(in, t) = {}
          /\ \E q \in in.pods : Matches(t, q) /\ <<s.name, p.name>> = <<t.name, q.name>>
      BY <2>3, <2>4, EdgesOfServices
    <2>6. t = s
      BY <2>5, TopologyAssumption
    <2>7. QED
      BY <2>5, <2>6 DEF Matches
  <1>9. QED
    BY <1>6, <1>7, <1>8

\* Both maps explain what they do not show of the kinds that they list, whatever the
\* cluster does between the lists and whatever lists are forbidden; and of the custom
\* kinds that it knew a discovery misses none that has an object all along, where it may
\* look (list_present_custom_resource_kinds, list_resource_topology,
\* build_resource_topology and build_network_flow_topology).
THEOREM MapsAlwaysExplain == TopologySpec => []MapsExplainThemselves
  <1>1. CollectionInv /\ MapsAreHonest => MapsExplainThemselves
    <2>1. ASSUME network = NoNetwork PROVE NetworkIsExplained
      BY <2>1 DEF NetworkIsExplained, NoNetwork
    <2>2. ASSUME network \in NetworkInputs PROVE NetworkIsExplained
      BY <2>2, NetworkAlwaysExplained DEF NetworkIsExplained
    <2>3. QED
      BY <2>1, <2>2 DEF CollectionInv, CollectionKnows, MapsExplainThemselves
  <1>2. QED
    BY <1>1, TopologyInit_Inv, TopologyNext_Inv, PTL DEF TopologySpec

\* Of finitely many things one is ranked highest: the set of those above it is minimal.
LEMMA OneIsHighest ==
    ASSUME NEW S, IsFiniteSet(S), S # {}, NEW rank \in [S -> Nat]
    PROVE  \E s \in S : \A t \in S : rank[t] <= rank[s]
  <1> DEFINE above(s) == {t \in S : rank[t] > rank[s]}
             aboves == {above(s) : s \in S}
  <1>1. aboves \subseteq FiniteSubsetsOf(S) /\ aboves # {}
    <2>1. ASSUME NEW s \in S PROVE above(s) \in FiniteSubsetsOf(S)
      BY FS_FiniteSubsetsOfFinite
    <2>2. ASSUME NEW s \in S PROVE above(s) \in aboves
      OBVIOUS
    <2>3. ASSUME NEW a \in aboves PROVE \E s \in S : a = above(s)
      OBVIOUS
    <2> HIDE DEF above, aboves
    <2>4. QED
      BY <2>1, <2>2, <2>3
  <1>2. IsWellFoundedOn(StrictSubsetOrdering(S), FiniteSubsetsOf(S))
    BY FS_StrictSubsetOrderingWellFounded
  <1> HIDE DEF aboves
  <1>3. PICK least \in aboves : \A other \in aboves : ~ (<<other, least>> \in StrictSubsetOrdering(S))
    BY <1>1, <1>2, WFMin
  <1>4. PICK s \in S : least = above(s)
    BY DEF aboves
  <1>5. ASSUME NEW t \in S, rank[t] > rank[s] PROVE FALSE
    <2>1. above(t) \subseteq above(s) /\ t \in above(s) /\ t \notin above(t)
      <3>1. \A r \in S : rank[r] \in Nat
        OBVIOUS
      <3>2. QED
        BY <1>5, <3>1
    <2>2. <<above(t), above(s)>> \in StrictSubsetOrdering(S)
      BY <2>1 DEF StrictSubsetOrdering
    <2>3. above(t) \in aboves
      BY DEF aboves
    <2>4. QED
      BY <1>3, <1>4, <2>2, <2>3
  <1>6. ASSUME NEW t \in S PROVE rank[t] <= rank[s]
    <2>1. rank[t] \in Nat /\ rank[s] \in Nat /\ ~ (rank[t] > rank[s])
      BY <1>5
    <2>2. QED
      BY <2>1
  <1>7. QED
    BY <1>6

\* The least of some positions is one of them.
LEMMA EarliestIsOneOf ==
    ASSUME NEW n \in Nat, NEW places, places \subseteq 1..n, places # {}
    PROVE  Earliest(places) \in places
  <1> DEFINE rank == [p \in places |-> n - p]
  <1>1. IsFiniteSet(places)
    <2>1. 1 \in Int /\ n \in Int
      OBVIOUS
    <2>2. IsFiniteSet(1..n)
      BY <2>1, FS_Interval
    <2>3. QED
      BY <2>2, FS_Subset
  <1>2. rank \in [places -> Nat]
    OBVIOUS
  <1>3. PICK p \in places : \A q \in places : rank[q] <= rank[p]
    <2> HIDE DEF rank
    <2>1. QED
      BY <1>1, <1>2, OneIsHighest
  <1>4. ASSUME NEW q \in places PROVE p <= q
    <2>1. rank[q] <= rank[p] /\ rank[q] = n - q /\ rank[p] = n - p /\ p \in Nat /\ q \in Nat
      BY <1>3
    <2>2. QED
      BY <2>1
  <1>5. QED
    BY <1>4 DEF Earliest

\* What a Flux object claims is what its inventory lists first, and if the inventory is
\* not too long, all that it lists.
LEMMA ClaimIsOfInventory ==
    ASSUME NEW object, object.entries \in Seq(ToSet(object.entries)), NEW id
    PROVE  /\ id \in ClaimOf(object).targets => Contains(object.entries, id)
           /\ Contains(object.entries, id) /\ Len(object.entries) <= MaxFluxEntries
                => id \in ClaimOf(object).targets
  <1> DEFINE all == object.entries
             kept == Entries(object)
  <1>1. MaxFluxEntries \in Nat /\ Len(all) \in Nat
    BY TopologyAssumption
  <1>2. PICK n \in 0..Len(all) :
            /\ kept = SubSeq(all, 1, n)
            /\ Len(all) <= MaxFluxEntries => n = Len(all)
    BY <1>1 DEF Entries, Firsts
  <1>3. /\ Len(kept) = n /\ DOMAIN kept = 1..n /\ DOMAIN all = 1..Len(all)
        /\ \A i \in 1..n : kept[i] = all[i]
    BY <1>1, <1>2
  <1>4. ClaimOf(object).targets = {kept[i] : i \in DOMAIN kept}
    BY DEF ClaimOf, ToSet
  <1> HIDE DEF kept, all
  <1>5. Contains(all, id) <=> \E i \in 1..Len(all) : all[i] = id
    BY DEF Contains
  <1>6. QED
    BY <1>1, <1>2, <1>3, <1>4, <1>5 DEF all

\* The claims of a kind are those of its objects, and unless something was cut off, of all.
LEMMA ClaimsAreOfObjects ==
    ASSUME NEW kind \in FluxClusters, NEW id
    PROVE  /\ Claims(kind) \in Seq(Range(Claims(kind)))
           /\ \A n \in 1..Len(Claims(kind)) : id \in Claims(kind)[n].targets =>
                \E object \in ToSet(kind.objects) :
                    Contains(object.entries, id) /\ Claims(kind)[n].owner = object.name
           /\ ~PartialKind(kind) =>
                /\ ~kind.fails
                /\ \A object \in ToSet(kind.objects) : Contains(object.entries, id) =>
                     \E n \in 1..Len(Claims(kind)) : id \in Claims(kind)[n].targets
  <1> DEFINE all == kind.objects
             page == Page(all)
  <1>1. /\ all \in Seq(ToSet(all)) /\ MaxFluxOwners \in Nat /\ Len(all) \in Nat
        /\ \A object \in ToSet(all) : object.entries \in Seq(ToSet(object.entries))
    BY TopologyAssumption
  <1>2. PICK n \in 0..Len(all) :
            page = SubSeq(all, 1, n) /\ (Len(all) < MaxFluxOwners => n = Len(all))
    BY <1>1 DEF Page, Firsts
  <1>3. /\ Len(page) = n /\ DOMAIN all = 1..Len(all)
        /\ \A i \in 1..n : page[i] = all[i] /\ all[i] \in ToSet(all)
    <2>1. Len(page) = n /\ DOMAIN all = 1..Len(all) /\ \A i \in 1..n : page[i] = all[i]
      BY <1>1, <1>2
    <2>2. \A i \in 1..n : all[i] \in ToSet(all)
      BY <1>1, <2>1 DEF ToSet
    <2>3. QED
      BY <2>1, <2>2
  <1>4. ASSUME ~kind.fails
        PROVE  /\ Claims(kind) = [i \in 1..n |-> ClaimOf(all[i])]
               /\ Len(Claims(kind)) = n
               /\ \A i \in 1..n : Claims(kind)[i] = ClaimOf(all[i])
    <2>1. Claims(kind) = [i \in 1..n |-> ClaimOf(page[i])]
      BY <1>3, <1>4 DEF Claims
    <2>2. \A i \in 1..n : ClaimOf(page[i]) = ClaimOf(all[i])
      BY <1>3
    <2> HIDE DEF page, all
    <2>3. QED
      BY <2>1, <2>2
  <1>5. kind.fails => Claims(kind) = <<>>
    BY DEF Claims
  <1>6. Claims(kind) \in Seq(Range(Claims(kind)))
    <2>1. CASE kind.fails
      BY <1>5, <2>1
    <2>2. CASE ~kind.fails
      <3>1. Claims(kind) = [i \in 1..n |-> ClaimOf(all[i])]
        BY <1>4, <2>2
      <3> HIDE DEF all
      <3>2. \A i \in 1..n : ClaimOf(all[i]) \in Range(Claims(kind))
        BY <3>1 DEF Range
      <3>3. QED
        BY <3>1, <3>2
    <2>3. QED
      BY <2>1, <2>2
  <1>7. ASSUME NEW i \in 1..Len(Claims(kind)), id \in Claims(kind)[i].targets
        PROVE  \E object \in ToSet(kind.objects) :
                    Contains(object.entries, id) /\ Claims(kind)[i].owner = object.name
    <2>1. ~kind.fails
      BY <1>5, <1>7
    <2>2. i \in 1..n /\ Claims(kind)[i] = ClaimOf(all[i]) /\ all[i] \in ToSet(all)
      BY <1>3, <1>4, <1>7, <2>1
    <2>3. Claims(kind)[i].owner = all[i].name
      BY <2>2 DEF ClaimOf
    <2>4. Contains(all[i].entries, id)
      BY <1>1, <1>7, <2>2, ClaimIsOfInventory
    <2>5. QED
      BY <2>2, <2>3, <2>4
  <1>8. ASSUME ~PartialKind(kind), NEW object \in ToSet(kind.objects),
               Contains(object.entries, id)
        PROVE  \E i \in 1..Len(Claims(kind)) : id \in Claims(kind)[i].targets
    <2>1. ~kind.fails /\ n = Len(all)
      BY <1>1, <1>2, <1>8 DEF PartialKind
    <2>2. PICK i \in 1..n : object = all[i]
      BY <1>3, <2>1 DEF ToSet
    <2>3. Len(object.entries) <= MaxFluxEntries
      <3>1. ~ (Len(page[i].entries) > MaxFluxEntries)
        BY <1>3, <1>8, <2>2 DEF PartialKind
      <3>2. Len(object.entries) \in Nat /\ MaxFluxEntries \in Nat /\ page[i] = object
        BY SMTT(30), <1>1, <1>3, <2>2, TopologyAssumption
      <3>3. QED
        BY <3>1, <3>2
    <2>4. id \in ClaimOf(object).targets
      BY <1>1, <1>8, <2>3, ClaimIsOfInventory
    <2>5. QED
      BY <1>4, <2>1, <2>2, <2>4
  <1>9. ~PartialKind(kind) => ~kind.fails
    BY DEF PartialKind
  <1>10. QED
    BY <1>6, <1>7, <1>8, <1>9

\* The owner of a resource is one that says so or that claims it, and if it has none,
\* none claims it, unless the index is partial.
LEMMA OwnerClaims ==
    ASSUME NEW k \in FluxClusters, NEW r \in FluxClusters, NEW o
    PROVE  LET index == ListOwners(k, r)
               owner == GitOpsOwner(index, o)
               all == ToSet(k.objects) \cup ToSet(r.objects)
           IN  /\ owner # NoOwner => \/ owner = o.managed
                                     \/ \E object \in all : /\ object.name = owner
                                                            /\ Contains(object.entries, ClaimIdentity(o))
               /\ owner = NoOwner /\ ~index.partial =>
                    /\ ~k.fails /\ ~r.fails
                    /\ \A object \in all : ~Contains(object.entries, ClaimIdentity(o))
  <1> DEFINE id == ClaimIdentity(o)
             index == ListOwners(k, r)
             all == ToSet(k.objects) \cup ToSet(r.objects)
             claims == index.claims
             first == Claims(k)
             second == Claims(r)
  <1>1. /\ first \in Seq(Range(first)) /\ second \in Seq(Range(second))
        /\ Len(first) \in Nat /\ Len(second) \in Nat
    BY ClaimsAreOfObjects
  <1>2. claims = first \o second /\ index.partial = (PartialKind(k) \/ PartialKind(r))
    BY DEF ListOwners
  <1>3. /\ Len(claims) = Len(first) + Len(second)
        /\ \A n \in 1..Len(first) : claims[n] = first[n]
        /\ \A n \in 1..Len(second) : claims[Len(first) + n] = second[n]
        /\ \A n \in (1..Len(claims)) \ (1..Len(first)) :
             n - Len(first) \in 1..Len(second) /\ claims[n] = second[n - Len(first)]
    <2> HIDE DEF first, second, claims
    <2>1. QED
      BY <1>1, <1>2
  <1> HIDE DEF first, second, claims, index
  <1>4. ASSUME NEW n \in 1..Len(claims), id \in claims[n].targets
        PROVE  \E object \in all : object.name = claims[n].owner /\ Contains(object.entries, id)
    <2>1. CASE n \in 1..Len(first)
      <3>1. id \in Claims(k)[n].targets /\ n \in 1..Len(Claims(k)) /\ claims[n] = Claims(k)[n]
        BY <1>3, <1>4, <2>1 DEF first
      <3>2. QED
        BY <3>1, ClaimsAreOfObjects
    <2>2. CASE n \notin 1..Len(first)
      <3> DEFINE m == n - Len(first)
      <3>1. id \in Claims(r)[m].targets /\ m \in 1..Len(Claims(r)) /\ claims[n] = Claims(r)[m]
        BY <1>3, <1>4, <2>2 DEF second
      <3> HIDE DEF m
      <3>2. QED
        BY <3>1, ClaimsAreOfObjects
    <2>3. QED
      BY <2>1, <2>2
  <1>5. Claiming(index, o) = {n \in 1..Len(claims) : id \in claims[n].targets}
    BY DEF Claiming, claims
  <1>6. Len(claims) \in Nat
    BY <1>1, <1>3
  <1>7. ASSUME Claiming(index, o) # {}
        PROVE  \E object \in all : /\ object.name = claims[Earliest(Claiming(index, o))].owner
                                   /\ Contains(object.entries, id)
    <2>1. Claiming(index, o) \subseteq 1..Len(claims)
      BY <1>5
    <2>2. Earliest(Claiming(index, o)) \in Claiming(index, o)
      BY <1>6, <1>7, <2>1, EarliestIsOneOf
    <2> HIDE DEF id, all
    <2>3. QED
      BY <1>4, <1>5, <2>2
  <1>8. \A object \in all : object.name # NoOwner
    BY TopologyAssumption
  <1>9. GitOpsOwner(index, o) # NoOwner =>
            \/ GitOpsOwner(index, o) = o.managed
            \/ \E object \in all : /\ object.name = GitOpsOwner(index, o)
                                   /\ Contains(object.entries, id)
    <2> HIDE DEF all, id
    <2>1. QED
      BY <1>7 DEF GitOpsOwner, claims
  <1>10. ASSUME GitOpsOwner(index, o) = NoOwner, ~index.partial
         PROVE  /\ ~k.fails /\ ~r.fails
                /\ \A object \in all : ~Contains(object.entries, id)
    <2>1. Claiming(index, o) = {}
      <3>1. ASSUME Claiming(index, o) # {} PROVE FALSE
        <4>1. GitOpsOwner(index, o) = claims[Earliest(Claiming(index, o))].owner
          BY <1>10, <3>1 DEF GitOpsOwner, claims
        <4> HIDE DEF all, id
        <4>2. QED
          BY <1>7, <1>8, <1>10, <3>1, <4>1
      <3>2. QED
        BY <3>1
    <2>2. ~PartialKind(k) /\ ~PartialKind(r)
      BY <1>2, <1>10
    <2>3. ASSUME NEW object \in ToSet(k.objects), Contains(object.entries, id) PROVE FALSE
      <3>1. PICK n \in 1..Len(Claims(k)) : id \in Claims(k)[n].targets
        BY <2>2, <2>3, ClaimsAreOfObjects
      <3>2. n \in 1..Len(claims) /\ claims[n] = Claims(k)[n]
        BY <1>1, <1>3, <3>1 DEF first
      <3> HIDE DEF id
      <3>3. QED
        BY <1>5, <2>1, <3>1, <3>2
    <2>4. ASSUME NEW object \in ToSet(r.objects), Contains(object.entries, id) PROVE FALSE
      <3>1. PICK n \in 1..Len(Claims(r)) : id \in Claims(r)[n].targets
        BY <2>2, <2>4, ClaimsAreOfObjects
      <3>2. Len(first) + n \in 1..Len(claims) /\ claims[Len(first) + n] = Claims(r)[n]
        BY <1>1, <1>3, <3>1 DEF second
      <3> DEFINE m == Len(first) + n
      <3> HIDE DEF id, m
      <3>3. m \in 1..Len(claims) /\ id \in claims[m].targets
        BY <3>1, <3>2 DEF m
      <3>4. QED
        BY <1>5, <2>1, <3>3
    <2>5. ~k.fails /\ ~r.fails
      BY <2>2, ClaimsAreOfObjects
    <2>6. QED
      BY <2>3, <2>4, <2>5
  <1>11. QED
    BY <1>9, <1>10 DEF index

\* What the owners on the map are taken from.
OwnersInv ==
    stage = "built" =>
        /\ flux \in [kustomizations : FluxClusters, releases : FluxClusters]
        /\ owners = ListOwners(flux.kustomizations, flux.releases)

LEMMA TopologyStep_Owners ==
    ASSUME OwnersInv, [TopologyNext]_topologyVars PROVE OwnersInv'
  <1>1. CASE ReadOwners
    BY <1>1 DEF ReadOwners, OwnersInv
  <1>2. CASE ~ReadOwners
    <2>1. stage' = "built" => stage = "built" /\ flux' = flux /\ owners' = owners
      <3>1. CASE UNCHANGED topologyVars
        BY <3>1 DEF topologyVars
      <3>2. CASE ClusterChanges \/ ListFails \/ CollectionEnds
        BY <3>2 DEF ClusterChanges, ListFails, CollectionEnds
      <3>3. CASE ReadNetwork
        BY <3>3 DEF ReadNetwork
      <3>4. CASE \/ \E c \in DOMAIN probing : Probe(c) \/ ProbeRefused(c)
                 \/ CataloguedMap \/ NativeMap
        BY <3>4 DEF Probe, ProbeRefused, Probed, CataloguedMap, NativeMap, Collects
      <3>5. CASE \E l \in askedLists : ListObjects(l) \/ ListForbidden(l)
        BY <3>5 DEF ListObjects, ListForbidden
      <3>6. QED
        BY <1>2, <3>1, <3>2, <3>3, <3>4, <3>5 DEF TopologyNext
    <2>2. QED
      BY <2>1 DEF OwnersInv
  <1>3. QED
    BY <1>1, <1>2

\* A resource is said to belong to a Flux object only if a label says so or the object
\* claims it, and one without an owner is claimed by none unless the index is partial,
\* for any Flux objects and limits (fetch_flux_ownership_index and its use).
THEOREM OwnersAlwaysHonest == TopologySpec => []OwnersAreHonest
  <1>1. TopologyInit => OwnersInv
    BY DEF TopologyInit, OwnersInv
  <1>2. OwnersInv => OwnersAreHonest
    <2> SUFFICES ASSUME OwnersInv, stage = "built", NEW o \in Nodes
                 PROVE  LET owner == GitOpsOwner(owners, o)
                            claims(object) == Contains(object.entries, ClaimIdentity(o))
                            all == ToSet(flux.kustomizations.objects)
                                   \cup ToSet(flux.releases.objects)
                        IN  /\ owner # NoOwner =>
                                 owner = o.managed
                                 \/ \E object \in all : object.name = owner /\ claims(object)
                            /\ owner = NoOwner /\ ~owners.partial =>
                                 /\ ~flux.kustomizations.fails /\ ~flux.releases.fails
                                 /\ \A object \in all : ~claims(object)
      BY DEF OwnersAreHonest
    <2>1. /\ flux.kustomizations \in FluxClusters /\ flux.releases \in FluxClusters
          /\ owners = ListOwners(flux.kustomizations, flux.releases)
      BY DEF OwnersInv
    <2>2. QED
      BY <2>1, OwnerClaims
  <1>3. QED
    BY <1>1, <1>2, TopologyStep_Owners, PTL DEF TopologySpec

-----------------------------------------------------------------------------
(* Helm releases                                                            *)

\* What is asked for, and what has been answered.
ListingInv ==
    /\ listing \in ReleaseInputs
    /\ releases = [at |-> "asked", found |-> {}] \/ releases = ListReleases(listing)

\* Of each release that could be read one record is latest.
LEMMA OneIsLatest ==
    ASSUME NEW in \in ReleaseInputs, NEW read \in SUBSET in.stored, NEW r \in read
    PROVE  \E s \in Latest(read) : SameRelease(r, s) /\ s.revision >= r.revision
  <1> DEFINE same == {t \in read : SameRelease(r, t)}
             rank == [t \in same |-> 2 * t.revision + (IF t.kind = "Secret" THEN 1 ELSE 0)]
  <1>1. IsFiniteSet(same) /\ same # {}
    <2>1. IsFiniteSet(in.stored) /\ same \in SUBSET in.stored
      BY ReleasesAssumption
    <2>2. r \in same
      BY DEF SameRelease
    <2>3. QED
      BY <2>1, <2>2, FS_Subset
  <1>2. \A t \in same : t.revision \in Nat /\ t.kind \in {"Secret", "ConfigMap"}
    BY ReleasesAssumption
  <1>3. rank \in [same -> Nat]
    BY <1>2
  <1>4. \A t \in same : rank[t] = 2 * t.revision + (IF t.kind = "Secret" THEN 1 ELSE 0)
    OBVIOUS
  <1> HIDE DEF rank
  <1>5. PICK s \in same : \A t \in same : rank[t] <= rank[s]
    BY <1>1, <1>3, OneIsHighest
  <1>6. ASSUME NEW t \in same
        PROVE  t.revision <= s.revision
    BY <1>2, <1>4, <1>5
  <1>7. ASSUME NEW t \in read \ {s}, SameRelease(s, t)
        PROVE  t.revision < s.revision \/ (t.revision = s.revision /\ Precedes(s, t))
    <2>1. t \in same
      BY <1>7 DEF SameRelease
    <2>2. t.revision = s.revision => t.kind # s.kind
      BY <1>7, ReleasesAssumption
    <2>3. t.revision = s.revision => s.kind = "Secret" /\ t.kind = "ConfigMap"
      BY <1>2, <1>4, <1>5, <2>1, <2>2
    <2>4. QED
      BY <1>2, <1>6, <2>1, <2>3 DEF Precedes
  <1>8. s \in Latest(read)
    BY <1>7 DEF Latest
  <1>9. QED
    BY <1>1, <1>2, <1>6, <1>8 DEF SameRelease

\* The list of releases says what could be read.
LEMMA ReleasesAlwaysNewest == ListingInv => ReleasesAreNewest
  <1> SUFFICES ASSUME ListingInv, releases = ListReleases(listing) PROVE ReleasesAreNewest
    BY DEF ListingInv, ReleasesAreNewest
  <1> DEFINE read == ReadableRecords(listing)
             error == \E i \in 1..2 : Failed(listing, StorageKinds[i])
  <1>1. listing \in ReleaseInputs /\ read \in SUBSET listing.stored
    BY DEF ListingInv, ReadableRecords, Records
  <1>2. releases = IF read = {} /\ error THEN [at |-> "error", found |-> {}]
                   ELSE [at |-> "listed", found |-> Latest(read)]
    BY DEF ListReleases
  <1> HIDE DEF read
  <1>3. CASE read = {} /\ error
    BY <1>2, <1>3 DEF ReleasesAreNewest, read
  <1>4. CASE ~(read = {} /\ error)
    <2>1. releases.at = "listed" /\ releases.found = Latest(read)
      BY <1>2, <1>4
    <2>2. \A r \in read : \E s \in Latest(read) : SameRelease(r, s) /\ s.revision >= r.revision
      BY <1>1, OneIsLatest
    <2>3. Latest(read) \subseteq read
      BY DEF Latest
    <2>4. ASSUME NEW r \in Latest(read), NEW s \in Latest(read), SameRelease(r, s)
          PROVE  r = s
      <3>1. r \in read /\ s \in read /\ r.revision \in Nat /\ s.revision \in Nat
        BY <1>1, <2>3, ReleasesAssumption
      <3>2. r # s => s.revision < r.revision \/ (s.revision = r.revision /\ Precedes(r, s))
        BY <2>4, <3>1 DEF Latest
      <3>3. r # s => r.revision < s.revision \/ (r.revision = s.revision /\ Precedes(s, r))
        BY <2>4, <3>1 DEF Latest, SameRelease
      <3>4. ~(Precedes(r, s) /\ Precedes(s, r))
        BY DEF Precedes
      <3>5. QED
        BY <3>1, <3>2, <3>3, <3>4
    <2>5. \/ read # {} \/ FallbackNamespaces(listing) = {}
          \/ \E i \in 1..2 : ReadIn(listing, StorageKinds[i]) # {}
      <3> SUFFICES ASSUME read = {} PROVE FallbackNamespaces(listing) = {}
                                          \/ ReadIn(listing, StorageKinds[1]) # {}
        OBVIOUS
      <3>1. ~Failed(listing, StorageKinds[1])
        BY <1>4
      <3>2. QED
        BY <1>1, <3>1, ReleasesAssumption DEF Failed, ReadIn
    <2>6. QED
      BY <2>1, <2>2, <2>3, <2>4, <2>5 DEF ReleasesAreNewest, read
  <1>5. QED
    BY <1>3, <1>4

\* What is said of an object was true of it, and only what is not of the manifest is
\* said to be.
RowsAreTrue ==
    \A o \in DOMAIN rows :
        /\ o \in release.objects /\ rows[o] \in Statuses
        /\ rows[o] = "missing" => "absent" \in been[o]
        /\ rows[o] \in {"tracked", "label_only"} => "labelled" \in been[o]
        /\ rows[o] = "unlabeled_live" => "plain" \in been[o]
        /\ rows[o] = "label_only" <=> o \notin ManifestObjects(release)

\* Every entry is still to be looked up or has its row; the scan begins with all of them.
ComparisonKnows ==
    /\ release \in ManifestInputs
    /\ here \in [release.objects -> {"absent", "labelled", "plain"}]
    /\ been \in [release.objects -> SUBSET {"absent", "labelled", "plain"}]
    /\ \A o \in release.objects : here[o] \in been[o]
    /\ phase \in {"lookup", "scan", "done"}
    /\ phase = "lookup" =>
         \A ref \in release.manifest :
            Identified(release, ref) => ref \in remaining \/ Identity(release, ref) \in DOMAIN rows
    /\ phase = "lookup" => remaining \subseteq release.manifest
    /\ phase # "lookup" => ManifestObjects(release) \subseteq DOMAIN rows
    /\ unidentified \subseteq release.manifest

HelmInv == ListingInv /\ ComparisonKnows /\ RowsAreTrue

\* Nothing has been listed or looked up.
LEMMA HelmInit_Inv == HelmInit => HelmInv
  <1> SUFFICES ASSUME HelmInit PROVE HelmInv
    OBVIOUS
  <1>1. ListingInv
    BY DEF HelmInit, ListingInv
  <1>2. DOMAIN rows = {}
    BY DEF HelmInit
  <1>3. been \in [release.objects -> SUBSET {"absent", "labelled", "plain"}]
    BY DEF HelmInit
  <1>4. ComparisonKnows /\ RowsAreTrue
    BY <1>2, <1>3 DEF HelmInit, ComparisonKnows, RowsAreTrue
  <1>5. QED
    BY <1>1, <1>4 DEF HelmInv

\* The row of an entry tells what was seen when it was looked up.
LEMMA LookUpObject_Inv == ASSUME HelmInv, LookUpObject PROVE HelmInv'
  <1> USE DEF HelmInv, ComparisonKnows
  <1>1. /\ phase = "lookup" /\ phase' = phase /\ release' = release /\ here' = here
        /\ been' = been /\ UNCHANGED listingVars
    BY DEF LookUpObject
  <1>2. PICK ref \in remaining :
          /\ remaining' = remaining \ {ref}
          /\ IF ~Identified(release, ref)
             THEN unidentified' = unidentified \cup {ref} /\ UNCHANGED rows
             ELSE LET o == Identity(release, ref)
                  IN  /\ AddRow(o, LookedUp(here[o])) \/ AddRow(o, "unavailable")
                      /\ UNCHANGED unidentified
    BY DEF LookUpObject
  <1>3. ref \in release.manifest
    BY <1>1
  <1>4. ListingInv'
    BY <1>1 DEF ListingInv, listingVars
  <1>5. CASE ~Identified(release, ref)
    BY <1>1, <1>2, <1>4, <1>5 DEF RowsAreTrue
  <1>6. CASE Identified(release, ref)
    <2> DEFINE o == Identity(release, ref)
    <2>1. o \in ManifestObjects(release) /\ o \in release.objects
      BY <1>3, <1>6, ManifestsAssumption DEF ManifestObjects
    <2>2. PICK verdict \in {LookedUp(here[o]), "unavailable"} : AddRow(o, verdict)
      BY <1>2, <1>6
    <2> HIDE DEF o
    <2>3. here[o] \in {"absent", "labelled", "plain"} /\ here[o] \in been[o]
      BY <2>1
    <2>4. /\ verdict \in {"tracked", "unlabeled_live", "missing", "unavailable"}
          /\ verdict = "missing" => "absent" \in been[o]
          /\ verdict = "tracked" => "labelled" \in been[o]
          /\ verdict = "unlabeled_live" => "plain" \in been[o]
      <3>1. /\ here[o] = "absent" => LookedUp(here[o]) = "missing"
            /\ here[o] = "labelled" => LookedUp(here[o]) = "tracked"
            /\ here[o] = "plain" => LookedUp(here[o]) = "unlabeled_live"
        BY DEF LookedUp
      <3>2. QED
        BY <2>2, <2>3, <3>1
    <2>5. /\ DOMAIN rows' = DOMAIN rows \cup {o} /\ rows'[o] = verdict
          /\ \A p \in DOMAIN rows : p # o => rows'[p] = rows[p]
      BY <2>2 DEF AddRow
    <2>6. RowsAreTrue'
      BY <1>1, <2>1, <2>4, <2>5 DEF RowsAreTrue, Statuses, ManifestObjects
    <2>7. \A r \in release.manifest :
            Identified(release, r) => r \in remaining' \/ Identity(release, r) \in DOMAIN rows'
      BY <1>1, <1>2, <2>5 DEF o
    <2>8. remaining' \subseteq release.manifest
      BY <1>1, <1>2
    <2>9. QED
      BY <1>1, <1>2, <1>4, <1>6, <2>6, <2>7, <2>8
  <1>7. QED
    BY <1>5, <1>6

\* The scan adds what has the label and no row yet.
LEMMA Scan_Inv == ASSUME HelmInv, Scan PROVE HelmInv'
  <1> USE DEF HelmInv, ComparisonKnows
  <1>1. /\ phase = "scan" /\ phase' = phase /\ release' = release /\ here' = here
        /\ been' = been /\ unidentified' = unidentified /\ UNCHANGED listingVars
    BY DEF Scan
  <1>2. ListingInv'
    BY <1>1 DEF ListingInv, listingVars
  <1>3. PICK kind : \/ rows' = [o \in DOMAIN rows \cup Labelled(kind) |->
                                  IF o \in DOMAIN rows THEN rows[o] ELSE "label_only"]
                    \/ rows' = rows
    BY DEF Scan
  <1>4. \A o \in Labelled(kind) : o \in release.objects /\ "labelled" \in been[o]
    BY DEF Labelled
  <1> DEFINE known == DOMAIN rows
             labelled == Labelled(kind)
  <1>5. CASE rows' = [o \in known \cup labelled |-> IF o \in known THEN rows[o] ELSE "label_only"]
    <2> HIDE DEF labelled
    <2>1. /\ DOMAIN rows' = DOMAIN rows \cup labelled
          /\ \A o \in DOMAIN rows : rows'[o] = rows[o]
          /\ \A o \in labelled : o \notin DOMAIN rows => rows'[o] = "label_only"
      BY <1>5
    <2>2. ManifestObjects(release)' = ManifestObjects(release)
      BY <1>1 DEF ManifestObjects
    <2>3. ASSUME NEW o \in DOMAIN rows'
          PROVE  /\ o \in release.objects /\ rows'[o] \in Statuses
                 /\ rows'[o] = "missing" => "absent" \in been[o]
                 /\ rows'[o] \in {"tracked", "label_only"} => "labelled" \in been[o]
                 /\ rows'[o] = "unlabeled_live" => "plain" \in been[o]
                 /\ rows'[o] = "label_only" <=> o \notin ManifestObjects(release)
      <3>1. CASE o \in DOMAIN rows
        BY <2>1, <3>1 DEF RowsAreTrue
      <3>2. CASE o \in labelled /\ o \notin DOMAIN rows
        <4>1. o \notin ManifestObjects(release)
          BY <1>1, <3>2
        <4>2. QED
          BY <1>4, <2>1, <3>2, <4>1 DEF labelled, Statuses
      <3>3. QED
        BY <2>1, <3>1, <3>2
    <2>4. QED
      BY <1>1, <1>2, <2>1, <2>2, <2>3 DEF RowsAreTrue
  <1>6. CASE rows' = rows
    BY <1>1, <1>2, <1>6 DEF RowsAreTrue
  <1>7. QED
    BY <1>3, <1>5, <1>6

\* Every step of a listing and of a comparison.
LEMMA HelmNext_Inv == HelmInv /\ [HelmNext]_helmVars => HelmInv'
  <1> SUFFICES ASSUME HelmInv, [HelmNext]_helmVars PROVE HelmInv'
    OBVIOUS
  <1> USE DEF HelmInv, ComparisonKnows
  <1>1. CASE List
    BY <1>1 DEF List, ListingInv, RowsAreTrue
  <1>2. CASE StartScan
    <2>1. ManifestObjects(release) \subseteq DOMAIN rows
      BY <1>2 DEF StartScan, ManifestObjects
    <2>2. QED
      BY <1>2, <2>1 DEF StartScan, listingVars, ListingInv, RowsAreTrue
  <1>3. CASE Report
    BY <1>3 DEF Report, listingVars, ListingInv, RowsAreTrue
  <1>4. CASE ObjectChanges
    <2>1. PICK o \in release.objects, state \in {"absent", "labelled", "plain"} :
            /\ here' = [here EXCEPT ![o] = state]
            /\ been' = [been EXCEPT ![o] = @ \cup {state}]
      BY <1>4 DEF ObjectChanges
    <2>2. /\ UNCHANGED <<listing, releases, release, phase, remaining, rows, unidentified>>
      BY <1>4 DEF ObjectChanges, listingVars
    <2>3. been' \in [release.objects -> SUBSET {"absent", "labelled", "plain"}]
      BY <2>1
    <2>4. \A p \in release.objects : here'[p] \in been'[p] /\ been[p] \subseteq been'[p]
      BY <2>1
    <2>5. here' \in [release.objects -> {"absent", "labelled", "plain"}]
      BY <2>1
    <2>6. RowsAreTrue'
      BY <2>2, <2>4 DEF RowsAreTrue
    <2>7. QED
      BY <2>2, <2>3, <2>4, <2>5, <2>6 DEF ListingInv
  <1>5. CASE UNCHANGED helmVars
    BY <1>5 DEF helmVars, listingVars, ListingInv, RowsAreTrue
  <1>6. QED
    BY <1>1, <1>2, <1>3, <1>4, <1>5, LookUpObject_Inv, Scan_Inv DEF HelmNext

\* Two sets without a common element have together as many as both.
LEMMA DisjointSetsAdd ==
    ASSUME NEW S, IsFiniteSet(S), NEW T, IsFiniteSet(T), S \cap T = {}
    PROVE  IsFiniteSet(S \cup T) /\ Cardinality(S \cup T) = Cardinality(S) + Cardinality(T)
  <1>1. Cardinality(S \cap T) = 0
    BY FS_EmptySet
  <1>2. Cardinality(S) \in Nat /\ Cardinality(T) \in Nat
    BY FS_CardinalityType
  <1>3. /\ IsFiniteSet(S \cup T)
        /\ Cardinality(S \cup T) = Cardinality(S) + Cardinality(T) - Cardinality(S \cap T)
    BY FS_Union
  <1>4. QED
    BY <1>1, <1>2, <1>3

\* Every row is counted once, under its status.
LEMMA TotalsAddUp ==
    ASSUME HelmInv
    PROVE  Total("tracked") + Total("unlabeled_live") + Total("missing") + Total("label_only")
             + Total("unavailable") = Cardinality(DOMAIN rows) + Cardinality(unidentified)
  <1> DEFINE Of(verdict) == {o \in DOMAIN rows : rows[o] = verdict}
  <1>1. IsFiniteSet(DOMAIN rows) /\ Cardinality(unidentified) \in Nat
    <2>1. DOMAIN rows \subseteq release.objects /\ unidentified \subseteq release.manifest
      BY DEF HelmInv, ComparisonKnows, RowsAreTrue
    <2>2. IsFiniteSet(release.objects) /\ IsFiniteSet(release.manifest)
      BY ManifestsAssumption DEF HelmInv, ComparisonKnows
    <2>3. IsFiniteSet(DOMAIN rows) /\ IsFiniteSet(unidentified)
      BY <2>1, <2>2, FS_Subset
    <2>4. QED
      BY <2>3, FS_CardinalityType
  <1>2. ASSUME NEW verdict
        PROVE  IsFiniteSet(Of(verdict)) /\ Cardinality(Of(verdict)) \in Nat
    <2>1. Of(verdict) \in SUBSET DOMAIN rows
      OBVIOUS
    <2>2. IsFiniteSet(Of(verdict))
      BY <1>1, <2>1, FS_Subset
    <2>3. QED
      BY <2>2, FS_CardinalityType
  <1>3. ASSUME NEW s, NEW t, s # t PROVE Of(s) \cap Of(t) = {}
    BY <1>3
  <1>4. \A o \in DOMAIN rows : rows[o] \in Statuses
    BY DEF HelmInv, RowsAreTrue
  <1>5. DOMAIN rows = (((Of("tracked") \cup Of("unlabeled_live")) \cup Of("missing"))
                        \cup Of("label_only")) \cup Of("unavailable")
    BY <1>4 DEF Statuses
  <1>6. /\ Total("tracked") = Cardinality(Of("tracked"))
        /\ Total("unlabeled_live") = Cardinality(Of("unlabeled_live"))
        /\ Total("missing") = Cardinality(Of("missing"))
        /\ Total("label_only") = Cardinality(Of("label_only"))
        /\ Total("unavailable") = Cardinality(Of("unavailable")) + Cardinality(unidentified)
    <2>1. ASSUME NEW verdict, verdict # "unavailable"
          PROVE  Total(verdict) = Cardinality(Of(verdict)) + 0
      BY <2>1 DEF Total
    <2>2. Total("unavailable") = Cardinality(Of("unavailable")) + Cardinality(unidentified)
      BY DEF Total
    <2> HIDE DEF Of
    <2>3. QED
      BY <1>2, <2>1, <2>2
  <1> DEFINE two == Of("tracked") \cup Of("unlabeled_live")
             three == two \cup Of("missing")
             four == three \cup Of("label_only")
  <1>7. /\ Of("tracked") \cap Of("unlabeled_live") = {} /\ two \cap Of("missing") = {}
        /\ three \cap Of("label_only") = {} /\ four \cap Of("unavailable") = {}
    OBVIOUS
  <1>8. DOMAIN rows = four \cup Of("unavailable")
    BY <1>5
  <1> HIDE DEF Of
  <1>9. /\ IsFiniteSet(two)
        /\ Cardinality(two) = Cardinality(Of("tracked")) + Cardinality(Of("unlabeled_live"))
    BY <1>2, <1>7, DisjointSetsAdd
  <1> HIDE DEF two
  <1>10. IsFiniteSet(three) /\ Cardinality(three) = Cardinality(two) + Cardinality(Of("missing"))
    BY <1>2, <1>7, <1>9, DisjointSetsAdd
  <1> HIDE DEF three
  <1>11. IsFiniteSet(four) /\ Cardinality(four) = Cardinality(three) + Cardinality(Of("label_only"))
    BY <1>2, <1>7, <1>10, DisjointSetsAdd
  <1> HIDE DEF four
  <1>12. Cardinality(DOMAIN rows) = Cardinality(four) + Cardinality(Of("unavailable"))
    BY <1>2, <1>7, <1>8, <1>11, DisjointSetsAdd
  <1>13. QED
    BY <1>1, <1>2, <1>6, <1>9, <1>10, <1>11, <1>12

\* The answer of a comparison.
LEMMA RowsAlwaysTellTheTruth == HelmInv => RowsTellTheTruth
  <1> SUFFICES ASSUME HelmInv PROVE RowsTellTheTruth
    OBVIOUS
  <1>1. RowsAreTrue /\ ComparisonKnows
    BY DEF HelmInv
  <1>2. ASSUME NEW o \in ManifestObjects(release), phase # "lookup", been[o] = {"absent"}
        PROVE  rows[o] \in {"missing", "unavailable"}
    BY <1>1, <1>2 DEF ComparisonKnows, RowsAreTrue, Statuses
  <1>3. phase # "lookup" => ManifestObjects(release) \subseteq DOMAIN rows
    BY <1>1 DEF ComparisonKnows
  <1>4. QED
    BY <1>1, <1>2, <1>3, TotalsAddUp DEF RowsTellTheTruth, RowsAreTrue

\* The list of releases shows the newest of what could be read, and what a comparison
\* says of an object was true of it, whatever changes meanwhile (list_helm_releases and
\* get_helm_release_reconciliation).
THEOREM HelmAnswersAlwaysHonest == HelmSpec => []HelmAnswersAreHonest
  <1>1. HelmInv => HelmAnswersAreHonest
    BY ReleasesAlwaysNewest, RowsAlwaysTellTheTruth DEF HelmInv, HelmAnswersAreHonest
  <1>2. QED
    BY <1>1, HelmInit_Inv, HelmNext_Inv, PTL DEF HelmSpec

-----------------------------------------------------------------------------
(* Incidents and health                                                     *)

\* Of ranks one is the worst.
LEMMA WorstOfRanks ==
    ASSUME NEW ranks \in SUBSET (0..3), 0 \in ranks
    PROVE  Max(ranks) \in ranks /\ \A rank \in ranks : rank <= Max(ranks)
  <1>1. \E worst \in ranks : \A rank \in ranks : worst >= rank
    <2>1. CASE 3 \in ranks
      BY <2>1
    <2>2. CASE 3 \notin ranks /\ 2 \in ranks
      BY <2>2
    <2>3. CASE 3 \notin ranks /\ 2 \notin ranks /\ 1 \in ranks
      BY <2>3
    <2>4. CASE 3 \notin ranks /\ 2 \notin ranks /\ 1 \notin ranks
      BY <2>4
    <2>5. QED
      BY <2>1, <2>2, <2>3, <2>4
  <1> DEFINE worst == CHOOSE w \in ranks : \A rank \in ranks : w >= rank
  <1>2. worst \in ranks /\ \A rank \in ranks : worst >= rank
    BY <1>1
  <1>3. Max(ranks) = worst
    BY DEF Max
  <1> HIDE DEF worst
  <1>4. QED
    BY <1>2, <1>3

\* The worst rank of what is observed and current.
IsWorst(worst, observed) ==
    /\ worst \in 0..3
    /\ \A e \in observed : e.current => Rank(e.state) <= worst
    /\ worst # 0 => \E e \in observed : e.current /\ Rank(e.state) = worst

LEMMA RankFacts ==
    /\ \A state : Rank(state) \in 0..3
    /\ \A rank \in 0..3 : Rank(Ranked(rank)) = rank /\ Ranked(rank) # "NotEvaluated"
    /\ \A rank \in 0..3 :
         Ranked(rank) = IF rank = 3 THEN "Degraded" ELSE IF rank = 2 THEN "NeedsAttention"
                        ELSE IF rank = 1 THEN "Healthy" ELSE "Unknown"
    /\ \A state : Rank(state) = IF state = "Degraded" THEN 3 ELSE IF state = "NeedsAttention" THEN 2
                                ELSE IF state = "Healthy" THEN 1 ELSE 0
  <1>1. \A state : Rank(state) = IF state = "Degraded" THEN 3 ELSE IF state = "NeedsAttention" THEN 2
                                 ELSE IF state = "Healthy" THEN 1 ELSE 0
    BY DEF Rank
  <1>2. \A rank \in 0..3 :
         Ranked(rank) = IF rank = 3 THEN "Degraded" ELSE IF rank = 2 THEN "NeedsAttention"
                        ELSE IF rank = 1 THEN "Healthy" ELSE "Unknown"
    BY DEF Ranked
  <1>3. QED
    BY <1>1, <1>2

\* What a piece of evidence says.
LEMMA EvidenceFields ==
    \A source, state, current :
        /\ Evidence(source, state, current).source = source
        /\ Evidence(source, state, current).state = state
        /\ Evidence(source, state, current).current = current
  BY DEF Evidence

\* What is recognized is rated by the worst that is observed and current.
LEMMA WorstRates ==
    ASSUME NEW recognized \in BOOLEAN, NEW available \in BOOLEAN, NEW observed
    PROVE  \E worst :
              /\ IsWorst(worst, observed)
              /\ EvaluateHealth(recognized, available, observed).state =
                    IF recognized THEN Ranked(worst) ELSE "NotEvaluated"
  <1> DEFINE provider == Evidence("Provider", "Unknown", TRUE)
             all == IF available THEN observed ELSE observed \cup {provider}
             current == {e \in all : e.current}
             ranks == {Rank(e.state) : e \in current} \cup {0}
             worst == Max(ranks)
  <1>1. EvaluateHealth(recognized, available, observed).state =
           IF recognized THEN Ranked(worst) ELSE "NotEvaluated"
    BY DEF EvaluateHealth
  <1>2. worst \in ranks /\ \A rank \in ranks : rank <= worst
    <2>1. ranks \in SUBSET (0..3) /\ 0 \in ranks
      BY RankFacts
    <2> HIDE DEF ranks
    <2>2. QED
      BY <2>1, WorstOfRanks
  <1>3. Rank(provider.state) = 0
    BY DEF Evidence, Rank
  <1>4. \A e \in all \ observed : e = provider
    OBVIOUS
  <1> HIDE DEF worst, provider
  <1>5. IsWorst(worst, observed)
    <2>1. worst \in 0..3
      BY <1>2, RankFacts
    <2>2. ASSUME NEW e \in observed, e.current PROVE Rank(e.state) <= worst
      BY <1>2, <2>2
    <2>3. ASSUME worst # 0 PROVE \E e \in observed : e.current /\ Rank(e.state) = worst
      <3>1. PICK e \in current : Rank(e.state) = worst
        BY <1>2, <2>3
      <3>2. e # provider
        BY <1>3, <2>3, <3>1
      <3>3. QED
        BY <1>4, <3>1, <3>2
    <2>4. QED
      BY <2>1, <2>2, <2>3 DEF IsWorst
  <1>6. QED
    BY <1>1, <1>5

\* An assessment keeps what was observed, and adds nothing that counts.
LEMMA EvidenceIsKept ==
    ASSUME NEW recognized \in BOOLEAN, NEW available \in BOOLEAN, NEW observed
    PROVE  /\ EvaluateHealth(recognized, available, observed).complete = available
           /\ observed \subseteq EvaluateHealth(recognized, available, observed).evidence
           /\ \A e \in EvaluateHealth(recognized, available, observed).evidence \ observed :
                 e.source \in {"Provider", "HealthContract"} /\ Rank(e.state) = 0
  <1> DEFINE provider == Evidence("Provider", "Unknown", TRUE)
             all == IF available THEN observed ELSE observed \cup {provider}
             current == {e \in all : e.current}
             worst == Max({Rank(e.state) : e \in current} \cup {0})
             winning == {e \in current : IF worst = 0 THEN e.state = "Unknown"
                                         ELSE Rank(e.state) = worst}
             more == IF ~recognized THEN {Evidence("HealthContract", "NotEvaluated", TRUE)}
                     ELSE IF winning = {} THEN {Evidence("HealthContract", "Unknown", TRUE)} ELSE {}
  <1>1. /\ EvaluateHealth(recognized, available, observed).complete = available
        /\ EvaluateHealth(recognized, available, observed).evidence = all \cup more
    BY DEF EvaluateHealth
  <1>2. \A e \in all \ observed : e = provider
    OBVIOUS
  <1>3. /\ provider.source = "Provider" /\ Rank(provider.state) = 0
        /\ \A e \in more : e.source = "HealthContract" /\ Rank(e.state) = 0
    BY DEF Evidence, Rank
  <1>4. observed \subseteq all
    OBVIOUS
  <1> HIDE DEF provider, more, all
  <1>5. QED
    BY <1>1, <1>2, <1>3, <1>4

\* What is not current does not count, what is worse is not hidden.
LEMMA WorstIsOne ==
    ASSUME NEW e, NEW f, NEW both, NEW one, IsWorst(both, {e, f}), IsWorst(one, {e})
    PROVE  /\ ~f.current => both = one
           /\ f.current => both >= Rank(f.state)
           /\ both >= one
  <1>1. Rank(e.state) \in 0..3 /\ Rank(f.state) \in 0..3 /\ both \in 0..3 /\ one \in 0..3
    BY RankFacts DEF IsWorst
  <1>2. QED
    BY <1>1 DEF IsWorst

\* An assessment that is healthy was observed to be, and nothing worse was.
LEMMA HealthyIsObserved ==
    ASSUME NEW recognized \in BOOLEAN, NEW available \in BOOLEAN, NEW observed,
           EvaluateHealth(recognized, available, observed).state = "Healthy"
    PROVE  /\ \E e \in observed : e.current /\ e.state = "Healthy"
           /\ \A e \in observed : e.current => e.state \notin {"Degraded", "NeedsAttention"}
  <1>1. PICK worst : /\ IsWorst(worst, observed)
                     /\ EvaluateHealth(recognized, available, observed).state =
                           IF recognized THEN Ranked(worst) ELSE "NotEvaluated"
    BY WorstRates, Zenon
  <1>2. Ranked(worst) = "Healthy"
    BY <1>1
  <1>3. worst = 1
    BY <1>1, <1>2, RankFacts DEF IsWorst
  <1>4. QED
    BY <1>1, <1>3, RankFacts DEF IsWorst

\* Health is never overstated (models/health.rs).
THEOREM HealthNeverOverstated == HealthIsNotOverstated
  <1>1. ASSUME NEW available \in BOOLEAN, NEW e \in Observable, NEW f \in Observable
        PROVE  LET both == EvaluateHealth(TRUE, available, {e, f})
                   one == EvaluateHealth(TRUE, available, {e})
               IN  /\ ~f.current => both.state = one.state
                   /\ f.current => Rank(both.state) >= Rank(f.state)
                   /\ Rank(both.state) >= Rank(one.state)
    <2> DEFINE both == EvaluateHealth(TRUE, available, {e, f})
               one == EvaluateHealth(TRUE, available, {e})
    <2>1. PICK b : IsWorst(b, {e, f}) /\ both.state = Ranked(b)
      BY WorstRates, TRUE \in BOOLEAN, ZenonT(30)
    <2>2. PICK o : IsWorst(o, {e}) /\ one.state = Ranked(o)
      BY WorstRates, TRUE \in BOOLEAN, ZenonT(30)
    <2>3. Rank(both.state) = b /\ Rank(one.state) = o
      BY <2>1, <2>2, RankFacts DEF IsWorst
    <2> HIDE DEF both, one
    <2>4. /\ ~f.current => b = o
          /\ f.current => b >= Rank(f.state)
          /\ b >= o
      BY <2>1, <2>2, WorstIsOne
    <2>5. QED
      BY <2>1, <2>2, <2>3, <2>4 DEF both, one
  <1>2. ASSUME NEW health \in {"", "Healthy", "Progressing", "Degraded", "Missing"},
               NEW sync \in {"", "Synced", "OutOfSync", "Unknown"},
               ArgoAssessment(health, sync).state = "Healthy"
        PROVE  health = "Healthy" /\ sync = "Synced"
    <2> DEFINE fully == health = "Healthy" /\ sync = "Synced"
               healthState == ArgoHealthState(health, fully)
               syncState == IF sync = "OutOfSync" THEN "NeedsAttention"
                            ELSE IF fully THEN "Healthy" ELSE "Unknown"
               observed ==
                 (IF health = "" THEN {}
                  ELSE {Evidence("ArgoHealth", healthState, TRUE)})
                 \cup (IF sync = "" THEN {} ELSE {Evidence("ArgoSync", syncState, TRUE)})
               available == health # "" /\ sync # ""
    <2>1. EvaluateHealth(TRUE, available, observed).state = "Healthy"
      BY <1>2 DEF ArgoAssessment
    <2>2. available \in BOOLEAN
      OBVIOUS
    <2>3. ASSUME ~fully, NEW e \in observed PROVE e.state # "Healthy"
      <3>1. healthState # "Healthy" /\ syncState # "Healthy"
        BY <2>3 DEF ArgoHealthState
      <3> HIDE DEF healthState, syncState
      <3>2. \/ e = Evidence("ArgoHealth", healthState, TRUE)
            \/ e = Evidence("ArgoSync", syncState, TRUE)
        BY Zenon
      <3>3. /\ Evidence("ArgoHealth", healthState, TRUE).state = healthState
            /\ Evidence("ArgoSync", syncState, TRUE).state = syncState
        BY DEF Evidence
      <3>4. QED
        BY <3>1, <3>2, <3>3, Zenon
    <2> HIDE DEF observed, available
    <2>4. \E e \in observed : e.state = "Healthy"
      BY <2>1, <2>2, HealthyIsObserved
    <2>5. QED
      BY <2>3, <2>4
  <1>3. ASSUME NEW health \in {"", "Healthy", "Progressing", "Degraded", "Missing"},
               NEW conditions \in SUBSET ({"ErrorOccurred", "ResourcesUpToDate", "RolloutProgressing"}
                                          \X {"True", "False"}),
               SetAssessment(health, conditions).state = "Healthy"
        PROVE  /\ health = "Healthy" /\ <<"ResourcesUpToDate", "True">> \in conditions
               /\ <<"ErrorOccurred", "True">> \notin conditions
    <2> DEFINE fully == health = "Healthy" /\ <<"ResourcesUpToDate", "True">> \in conditions
               healthState == ArgoHealthState(health, fully)
               state(c) == CASE c = <<"ErrorOccurred", "True">> -> "Degraded"
                             [] c = <<"RolloutProgressing", "True">> -> "NeedsAttention"
                             [] c = <<"ResourcesUpToDate", "True">> ->
                                  IF fully THEN "Healthy" ELSE "Unknown"
                             [] OTHER -> "none"
               observed ==
                 (IF health = "" THEN {}
                  ELSE {Evidence("ArgoHealth", healthState, TRUE)})
                 \cup {Evidence("ArgoHealth", state(c), TRUE) : c \in conditions}
               available == health # "" /\ conditions # {}
    <2>1. EvaluateHealth(TRUE, available, observed).state = "Healthy"
      BY <1>3 DEF SetAssessment
    <2>2. available \in BOOLEAN
      OBVIOUS
    <2>3. ASSUME ~fully, NEW e \in observed PROVE e.state # "Healthy"
      <3>1. healthState # "Healthy"
        BY <2>3 DEF ArgoHealthState
      <3>2. ASSUME NEW c PROVE state(c) # "Healthy"
        BY <2>3
      <3> HIDE DEF healthState, state
      <3>3. \/ e = Evidence("ArgoHealth", healthState, TRUE)
            \/ \E c \in conditions : e = Evidence("ArgoHealth", state(c), TRUE)
        BY Zenon
      <3>4. /\ Evidence("ArgoHealth", healthState, TRUE).state = healthState
            /\ \A c : Evidence("ArgoHealth", state(c), TRUE).state = state(c)
        BY DEF Evidence
      <3>5. QED
        BY <3>1, <3>2, <3>3, <3>4, Zenon
    <2>4. <<"ErrorOccurred", "True">> \in conditions =>
             \E e \in observed : e.current /\ e.state = "Degraded"
      <3> SUFFICES ASSUME <<"ErrorOccurred", "True">> \in conditions
                   PROVE  \E e \in observed : e.current /\ e.state = "Degraded"
        OBVIOUS
      <3> DEFINE e == Evidence("ArgoHealth", state(<<"ErrorOccurred", "True">>), TRUE)
      <3>1. e \in observed
        OBVIOUS
      <3>2. e.current = TRUE /\ e.state = "Degraded"
        BY DEF Evidence
      <3> HIDE DEF e, observed
      <3>3. QED
        BY <3>1, <3>2
    <2> HIDE DEF observed, available
    <2>5. /\ \E e \in observed : e.state = "Healthy"
          /\ \A e \in observed : e.current => e.state # "Degraded"
      BY <2>1, <2>2, HealthyIsObserved
    <2>6. QED
      BY <2>3, <2>4, <2>5
  <1>4. ASSUME NEW conditions \in SUBSET ({"Ready", "Healthy", "Reconciling", "Stalled"}
                                          \X {"True", "False"}),
               DynamicAssessment(conditions).state = "Healthy",
               NEW c \in {<<"Stalled", "True">>, <<"Ready", "False">>, <<"Reconciling", "True">>}
                         \cap conditions
        PROVE  FALSE
    <2> DEFINE known == {d \in conditions : d[1] \in {"Ready", "Healthy", "Reconciling", "Stalled"}}
               state(d) ==
                 CASE d \in {<<"Stalled", "True">>, <<"Ready", "False">>, <<"Healthy", "False">>}
                        -> "Degraded"
                   [] d = <<"Reconciling", "True">> -> "NeedsAttention"
                   [] d \in {<<"Ready", "True">>, <<"Healthy", "True">>, <<"Reconciling", "False">>}
                        -> "Healthy"
                   [] OTHER -> "Unknown"
               observed == {Evidence("Kubernetes", state(d), TRUE) : d \in known}
               e == Evidence("Kubernetes", state(c), TRUE)
    <2>1. EvaluateHealth(known # {}, TRUE, observed).state = "Healthy"
      BY <1>4 DEF DynamicAssessment
    <2>2. c \in known
      OBVIOUS
    <2>3. state(c) \in {"Degraded", "NeedsAttention"}
      OBVIOUS
    <2>4. e \in observed
      BY <2>2
    <2>5. e.current = TRUE /\ e.state = state(c)
      BY DEF Evidence
    <2>6. (known # {}) \in BOOLEAN
      OBVIOUS
    <2> HIDE DEF known, state, observed, e
    <2>7. \A d \in observed : d.current => d.state \notin {"Degraded", "NeedsAttention"}
      BY <2>1, <2>6, HealthyIsObserved
    <2>8. QED
      BY <2>3, <2>4, <2>5, <2>7
  <1>5. QED
    BY <1>1, <1>2, <1>3, <1>4 DEF HealthIsNotOverstated

\* What was there from before any read until now is among what was read.
IncidentInv ==
    /\ changed \in Nat
    /\ incidentStage \in {"rows", "evidence", "built", "failed"}
    /\ pod \in [IncidentNamespaces -> PodStates]
    /\ row \in [IncidentNamespaces -> PodStates \cup {NoRow}]
    /\ warned \in [IncidentNamespaces -> SUBSET (1..changed + 1)]
    /\ early \in [IncidentNamespaces -> SUBSET Nat]
    /\ restartsRead \in [IncidentNamespaces ->
                            [state : {"todo", "none", "Active", "Resolved", "Historical"}]]
    /\ eventsRead \in [IncidentNamespaces ->
                            [at : {"todo", "read", "denied"}, times : SUBSET (1..changed + 1)]]
    /\ \A n \in IncidentNamespaces :
         /\ early[n] \subseteq warned[n]
         /\ eventsRead[n].at = "read" => early[n] \subseteq eventsRead[n].times
         /\ incidentStage \in {"evidence", "built"} => row[n] # NoRow
         /\ incidentStage = "built" => restartsRead[n] # NotRead /\ eventsRead[n].at # "todo"
         /\ incidentStage = "rows" => restartsRead[n] = NotRead
         /\ restartsRead[n].state = "Active" => HasRestarts(row[n])

\* Nothing has been read.
LEMMA IncidentsInit_Inv == IncidentsInit => IncidentInv
  <1> SUFFICES ASSUME IncidentsInit PROVE IncidentInv
    OBVIOUS
  <1> USE DEF IncidentsInit, NotRead, NoRow
  <1>1. /\ warned \in [IncidentNamespaces -> SUBSET (1..changed + 1)]
        /\ early \in [IncidentNamespaces -> SUBSET Nat] /\ early = warned
    <2>1. {{}, {1}} \subseteq SUBSET (1..changed + 1) /\ {{}, {1}} \subseteq SUBSET Nat
      <3>1. changed = 0
        OBVIOUS
      <3>2. 1 \in 1..changed + 1 /\ 1 \in Nat
        BY ONLY <3>1
      <3>3. QED
        BY ONLY <3>2
    <2>2. warned \in [IncidentNamespaces -> {{}, {1}}] /\ early = warned
      OBVIOUS
    <2>3. QED
      BY <2>1, <2>2
  <1>2. eventsRead \in [IncidentNamespaces ->
                            [at : {"todo", "read", "denied"}, times : SUBSET (1..changed + 1)]]
    OBVIOUS
  <1>3. /\ \A n \in IncidentNamespaces : restartsRead[n] = NotRead
        /\ restartsRead \in [IncidentNamespaces ->
                            [state : {"todo", "none", "Active", "Resolved", "Historical"}]]
        /\ \A n \in IncidentNamespaces : restartsRead[n].state = "todo"
                                         /\ eventsRead[n].at = "todo"
    OBVIOUS
  <1>4. QED
    BY <1>1, <1>2, <1>3 DEF IncidentInv

\* Restart evidence is one of three kinds.
LEMMA RestartEvidenceType ==
    \A p : RestartEvidence(p) \in [state : {"none", "Active", "Resolved", "Historical"}]
  BY DEF RestartEvidence, NoRestart

\* Every read, and every change of the cluster between them.
LEMMA IncidentsNext_Inv == IncidentInv /\ [IncidentsNext]_incidentVars => IncidentInv'
  <1> SUFFICES ASSUME IncidentInv, [IncidentsNext]_incidentVars PROVE IncidentInv'
    OBVIOUS
  <1> USE DEF IncidentInv
  <1>1. ASSUME NEW n \in IncidentNamespaces, ReadRow(n) PROVE IncidentInv'
    <2>1. /\ incidentStage = "rows" /\ row' \in [IncidentNamespaces -> PodStates \cup {NoRow}]
          /\ UNCHANGED <<pod, warned, changed, restartsRead, eventsRead, early, incidentStage>>
      BY <1>1 DEF ReadRow
    <2>2. \A m \in IncidentNamespaces : restartsRead[m].state # "Active"
      BY <2>1 DEF NotRead
    <2>3. QED
      BY <2>1, <2>2
  <1>2. ASSUME NEW n \in IncidentNamespaces, ReadRestarts(n) PROVE IncidentInv'
    <2>1. PICK evidence \in [state : {"none", "Active", "Resolved", "Historical"}] :
             /\ restartsRead' = [restartsRead EXCEPT ![n] = evidence]
             /\ evidence.state = "Active" => HasRestarts(row[n])
      <3>1. NoRestart \in [state : {"none", "Active", "Resolved", "Historical"}]
            /\ NoRestart.state # "Active"
        BY DEF NoRestart
      <3>2. QED
        BY <1>2, <3>1, RestartEvidenceType DEF ReadRestarts
    <2>2. QED
      BY <1>2, <2>1 DEF ReadRestarts
  <1>3. ASSUME NEW n \in IncidentNamespaces, ReadEvents(n) PROVE IncidentInv'
    <2>1. CASE eventsRead' = [eventsRead EXCEPT ![n] = [at |-> "read", times |-> warned[n]]]
      BY <1>3, <2>1 DEF ReadEvents
    <2>2. CASE eventsRead' = [eventsRead EXCEPT ![n].at = "denied"]
      BY <1>3, <2>2 DEF ReadEvents
    <2>3. QED
      BY <1>3, <2>1, <2>2 DEF ReadEvents
  <1>4. CASE PodChanges
    <2>1. /\ changed' = changed + 1 /\ incidentStage \in {"rows", "evidence"}
          /\ UNCHANGED <<row, restartsRead, eventsRead, incidentStage>>
      BY <1>4 DEF PodChanges
    <2>2. changed' \in Nat /\ 1..changed + 1 \subseteq 1..changed' + 1
      BY <2>1
    <2>3. PICK n \in IncidentNamespaces :
             \/ \E p \in PodStates \ {pod[n]} :
                   pod' = [pod EXCEPT ![n] = p] /\ UNCHANGED <<warned, early>>
             \/ /\ warned' = [warned EXCEPT ![n] = @ \cup {changed + 2}]
                /\ UNCHANGED <<pod, early>>
             \/ \E t \in warned[n] : /\ warned' = [warned EXCEPT ![n] = @ \ {t}]
                                     /\ early' = [early EXCEPT ![n] = @ \ {t}]
                                     /\ UNCHANGED pod
      BY <1>4 DEF PodChanges
    <2>4. eventsRead' \in [IncidentNamespaces ->
             [at : {"todo", "read", "denied"}, times : SUBSET (1..changed' + 1)]]
      BY <2>1, <2>2
    <2>5. pod' \in [IncidentNamespaces -> PodStates]
      BY <2>3
    <2>6. /\ warned' \in [IncidentNamespaces -> SUBSET (1..changed' + 1)]
          /\ early' \in [IncidentNamespaces -> SUBSET Nat]
          /\ \A m \in IncidentNamespaces : early'[m] \subseteq warned'[m]
                                           /\ early'[m] \subseteq early[m]
      <3>1. warned \in [IncidentNamespaces -> SUBSET (1..changed' + 1)]
        BY <2>2
      <3>2. changed + 2 \in 1..changed' + 1
        BY <2>1
      <3>3. CASE UNCHANGED <<warned, early>>
        BY <3>1, <3>3
      <3>4. CASE warned' = [warned EXCEPT ![n] = @ \cup {changed + 2}] /\ early' = early
        <4>1. /\ warned' \in [IncidentNamespaces -> SUBSET (1..changed' + 1)]
              /\ \A m \in IncidentNamespaces : warned[m] \subseteq warned'[m]
          BY <3>1, <3>2, <3>4
        <4>2. QED
          BY <3>4, <4>1
      <3>5. ASSUME NEW t \in warned[n], warned' = [warned EXCEPT ![n] = @ \ {t}],
                   early' = [early EXCEPT ![n] = @ \ {t}]
            PROVE  /\ warned' \in [IncidentNamespaces -> SUBSET (1..changed' + 1)]
                   /\ early' \in [IncidentNamespaces -> SUBSET Nat]
                   /\ \A m \in IncidentNamespaces : early'[m] \subseteq warned'[m]
                                                    /\ early'[m] \subseteq early[m]
        <4>1. warned' \in [IncidentNamespaces -> SUBSET (1..changed' + 1)]
          BY <3>1, <3>5
        <4>2. early' \in [IncidentNamespaces -> SUBSET Nat]
          BY <3>5
        <4>3. \A m \in IncidentNamespaces :
                 /\ warned'[m] = IF m = n THEN warned[m] \ {t} ELSE warned[m]
                 /\ early'[m] = IF m = n THEN early[m] \ {t} ELSE early[m]
          BY <3>5
        <4>4. QED
          BY <4>1, <4>2, <4>3
      <3>6. QED
        BY <2>3, <3>3, <3>4, <3>5
    <2>7. QED
      BY <2>1, <2>2, <2>4, <2>5, <2>6
  <1>5. CASE RowsRead \/ CockpitFails \/ BuildItems
    <2>1. /\ UNCHANGED <<pod, warned, changed, row, restartsRead, eventsRead, early>>
          /\ incidentStage' \in {"evidence", "built", "failed"}
      BY <1>5 DEF RowsRead, CockpitFails, BuildItems
    <2>2. \A n \in IncidentNamespaces :
             /\ incidentStage' \in {"evidence", "built"} => row[n] # NoRow
             /\ incidentStage' = "built" => restartsRead[n] # NotRead /\ eventsRead[n].at # "todo"
      BY <1>5 DEF RowsRead, CockpitFails, BuildItems
    <2>3. QED
      BY <2>1, <2>2
  <1>6. CASE UNCHANGED incidentVars
    BY <1>6 DEF incidentVars
  <1>7. QED
    BY <1>1, <1>2, <1>3, <1>4, <1>5, <1>6 DEF IncidentsNext

\* However many are kept, they can be the newest: of the sets of newest events that are
\* small enough take one of the largest.
LEMMA NewestCanBeKept ==
    ASSUME NEW S, IsFiniteSet(S), \A e \in S : e[2] \in Nat, NEW m \in Nat, m <= Cardinality(S)
    PROVE  \E kept \in SUBSET S : /\ Cardinality(kept) = m
                                  /\ \A e \in kept, f \in S \ kept : f[2] <= e[2]
  <1> DEFINE newest(kept) == \A e \in kept, f \in S \ kept : f[2] <= e[2]
             candidates == {kept \in SUBSET S : Cardinality(kept) <= m /\ newest(kept)}
             size == [kept \in candidates |-> Cardinality(kept)]
  <1>1. \A kept \in SUBSET S : IsFiniteSet(kept) /\ Cardinality(kept) \in Nat
    BY FS_Subset, FS_CardinalityType
  <1>2. IsFiniteSet(candidates) /\ candidates # {}
    <2>1. IsFiniteSet(SUBSET S) /\ candidates \in SUBSET (SUBSET S)
      BY FS_SUBSET
    <2>2. {} \in candidates
      BY FS_EmptySet
    <2> HIDE DEF candidates
    <2>3. QED
      BY <2>1, <2>2, FS_Subset
  <1>3. size \in [candidates -> Nat]
    BY <1>1
  <1>4. \A kept \in candidates : size[kept] = Cardinality(kept)
    OBVIOUS
  <1>5. \A kept \in candidates : kept \in SUBSET S /\ Cardinality(kept) <= m /\ newest(kept)
    OBVIOUS
  <1>6. ASSUME NEW kept \in SUBSET S, Cardinality(kept) <= m, newest(kept)
        PROVE  kept \in candidates
    BY <1>6
  <1> HIDE DEF size, candidates
  <1>7. PICK kept \in candidates : \A other \in candidates : size[other] <= size[kept]
    BY <1>2, <1>3, OneIsHighest
  <1>8. ASSUME Cardinality(kept) # m PROVE FALSE
    <2> DEFINE rest == S \ kept
               time == [e \in rest |-> e[2]]
    <2>1. kept \in SUBSET S /\ Cardinality(kept) < m
      BY <1>1, <1>5, <1>8
    <2>2. IsFiniteSet(rest) /\ rest # {}
      <3>1. kept # S
        BY <1>1, <2>1
      <3>2. rest \in SUBSET S
        OBVIOUS
      <3>3. QED
        BY <1>1, <2>1, <3>1, <3>2
    <2>3. time \in [rest -> Nat] /\ \A e \in rest : time[e] = e[2]
      OBVIOUS
    <2> HIDE DEF time
    <2>4. PICK next \in rest : \A f \in rest : time[f] <= time[next]
      BY <2>2, <2>3, OneIsHighest
    <2>5. Cardinality(kept \cup {next}) = Cardinality(kept) + 1
      BY <1>1, <2>1, FS_AddElement
    <2>6. newest(kept \cup {next})
      BY <1>5, <2>3, <2>4
    <2>7. kept \cup {next} \in candidates
      BY <1>1, <1>6, <2>1, <2>5, <2>6
    <2>8. QED
      BY <1>1, <1>4, <1>7, <2>1, <2>5, <2>7
  <1>9. QED
    BY <1>5, <1>7, <1>8

\* There are finitely many events, and those that are kept are the newest.
LEMMA KeptAreNewest ==
    ASSUME IncidentInv
    PROVE  /\ IsFiniteSet(AllEvents) /\ Kept \in SUBSET AllEvents
           /\ Cardinality(Kept) = Cardinality(AllEvents) \/ Cardinality(Kept) = MaxWarningEvents
           /\ \A e \in Kept, f \in AllEvents \ Kept : f[2] <= e[2]
  <1>1. AllEvents \subseteq IncidentNamespaces \X (1..changed + 1)
    BY DEF IncidentInv, AllEvents
  <1>2. IsFiniteSet(AllEvents) /\ \A e \in AllEvents : e[2] \in Nat
    <2>1. IsFiniteSet(IncidentNamespaces \X (1..changed + 1))
      <3>1. changed + 1 \in Int /\ 1 \in Int
        BY DEF IncidentInv
      <3>2. IsFiniteSet(1..changed + 1)
        BY <3>1, FS_Interval
      <3>3. QED
        BY <3>2, FS_Product, IncidentsAssumption
    <2>2. QED
      BY <1>1, <2>1, FS_Subset DEF IncidentInv
  <1> DEFINE size == Cardinality(AllEvents)
             least == Min({size, MaxWarningEvents})
  <1>3. size \in Nat /\ MaxWarningEvents \in Nat
    BY <1>2, FS_CardinalityType, MaxWarningEventsAssumption
  <1> HIDE DEF size
  <1>4. least \in {size, MaxWarningEvents} /\ least <= size
    <2>1. \E x \in {size, MaxWarningEvents} : \A y \in {size, MaxWarningEvents} : x =< y
      BY <1>3
    <2>2. QED
      BY <1>3, <2>1 DEF Min
  <1> HIDE DEF least
  <1>5. \E kept \in SUBSET AllEvents : /\ Cardinality(kept) = least
                                       /\ \A e \in kept, f \in AllEvents \ kept : f[2] <= e[2]
    <2>1. least \in Nat
      BY <1>3, <1>4
    <2>2. least <= Cardinality(AllEvents)
      BY <1>4 DEF size
    <2> HIDE DEF AllEvents
    <2>3. QED
      BY <1>2, <2>1, <2>2, NewestCanBeKept
  <1>6. /\ Kept \in SUBSET AllEvents /\ Cardinality(Kept) = least
        /\ \A e \in Kept, f \in AllEvents \ Kept : f[2] <= e[2]
    <2> HIDE DEF AllEvents
    <2>1. Kept = CHOOSE kept \in SUBSET AllEvents :
                    /\ Cardinality(kept) = least
                    /\ \A e \in kept, f \in AllEvents \ kept : f[2] <= e[2]
      BY DEF Kept, least, size
    <2>2. QED
      BY <1>5, <2>1
  <1>7. QED
    BY <1>2, <1>4, <1>6 DEF size

\* What is wrong with a row by its own status.
RowConcern(said, ready) == ResourceHealthState(said, ready) \in {"NeedsAttention", "Degraded"}
OfRow(said, ready) == Evidence("Kubernetes", ResourceHealthState(said, ready), TRUE)

\* The assessment of a row is about its own status alone.
LEMMA RowAssessed ==
    ASSUME NEW said, NEW ready
    PROVE  /\ ResourceAssessment(said, ready).complete = TRUE
           /\ ResourceAssessment(said, ready).state = "NotEvaluated" <=> said = "" /\ ready = ""
           /\ OfRow(said, ready) \in ResourceAssessment(said, ready).evidence
           /\ RowConcern(said, ready) => said # "" \/ ready # ""
  <1> DEFINE recognized == said # "" \/ ready # ""
             restarted == Evidence("ContainerRestart", "none", FALSE)
             observed == {OfRow(said, ready), restarted}
             assessed == EvaluateHealth(recognized, TRUE, observed)
  <1>1. ResourceAssessment(said, ready) = assessed
    BY DEF ResourceAssessment, OfRow
  <1>2. recognized \in BOOLEAN /\ TRUE \in BOOLEAN
    OBVIOUS
  <1>4. RowConcern(said, ready) => said # "" \/ ready # ""
    BY DEF RowConcern, ResourceHealthState, Failing, Terminal
  <1> HIDE DEF recognized, observed
  <1>5. PICK worst : /\ IsWorst(worst, observed)
                     /\ assessed.state = IF recognized THEN Ranked(worst) ELSE "NotEvaluated"
    BY <1>2, WorstRates, Zenon
  <1>6. assessed.complete = TRUE /\ observed \subseteq assessed.evidence
    BY <1>2, EvidenceIsKept, Zenon
  <1> HIDE DEF assessed
  <1>7. assessed.state = "NotEvaluated" <=> ~recognized
    BY <1>2, <1>5, RankFacts DEF IsWorst
  <1>8. OfRow(said, ready) \in assessed.evidence
    BY <1>6 DEF observed
  <1>9. (assessed.state = "NotEvaluated") <=> (said = "" /\ ready = "")
    BY <1>7 DEF recognized
  <1>10. QED
    BY <1>1, <1>4, <1>6, <1>8, <1>9

\* Besides its own status nothing of it counts.
LEMMA RowEvidence ==
    ASSUME NEW said, NEW ready, NEW e \in ResourceAssessment(said, ready).evidence,
           e # OfRow(said, ready)
    PROVE  e.source # "Kubernetes" /\ Rank(e.state) = 0
  <1> DEFINE recognized == said # "" \/ ready # ""
             restarted == Evidence("ContainerRestart", "none", FALSE)
             observed == {OfRow(said, ready), restarted}
             assessed == EvaluateHealth(recognized, TRUE, observed)
  <1>1. ResourceAssessment(said, ready) = assessed
    BY DEF ResourceAssessment, OfRow
  <1>2. recognized \in BOOLEAN /\ TRUE \in BOOLEAN
    OBVIOUS
  <1>3. restarted.source = "ContainerRestart" /\ Rank(restarted.state) = 0
    BY DEF Evidence, Rank
  <1> HIDE DEF recognized, observed
  <1>4. \A d \in assessed.evidence \ observed :
           d.source \in {"Provider", "HealthContract"} /\ Rank(d.state) = 0
    BY <1>2, EvidenceIsKept, ZenonT(30)
  <1> HIDE DEF assessed, restarted
  <1>5. QED
    BY <1>1, <1>3, <1>4 DEF observed

\* The assessment of an incident is serious for the sake of the row's own status or of a
\* container that is failing, and for nothing else.
LEMMA IncidentAssessed ==
    ASSUME NEW n
    PROVE  LET assessed == IncidentAssessment(n)
               known == row[n].status # "" \/ row[n].ready # ""
               concern == RowConcern(row[n].status, row[n].ready)
           IN  /\ assessed.state \in {"Degraded", "NeedsAttention"} <=>
                     known /\ (concern \/ restartsRead[n].state = "Active")
               /\ Concern(assessed) => concern
  <1> DEFINE said == row[n].status
             ready == row[n].ready
             base == ResourceAssessment(said, ready)
             recognized == base.state # "NotEvaluated"
             available == base.complete
             concern == RowConcern(said, ready)
             restart == restartsRead[n].state
             restarts == IF restart = "none" THEN {}
                         ELSE {Evidence("ContainerRestart",
                                        IF restart = "Active" THEN "NeedsAttention" ELSE "none",
                                        restart = "Active")}
             warnings == {Evidence("WarningEvent",
                                   IF Concern(base) THEN "NeedsAttention" ELSE "none",
                                   Concern(base)) : e \in EventsOf(n)}
             observed == base.evidence \cup restarts \cup warnings
             assessed == EvaluateHealth(recognized, available, observed)
  <1>1. IncidentAssessment(n) = assessed
    BY DEF IncidentAssessment
  <1>2. /\ \A e \in restarts : e.source = "ContainerRestart"
                               /\ (Rank(e.state) > 0 => restart = "Active" /\ Rank(e.state) = 2)
        /\ restart = "Active" => \E e \in restarts : e.current = TRUE /\ Rank(e.state) = 2
    <2>1. CASE restart = "none"
      BY <2>1
    <2>2. CASE restart = "Active"
      <3>1. restarts = {Evidence("ContainerRestart", "NeedsAttention", TRUE)}
        BY <2>2
      <3> DEFINE e == Evidence("ContainerRestart", "NeedsAttention", TRUE)
      <3>2. e.source = "ContainerRestart" /\ e.current = TRUE /\ Rank(e.state) = 2
        BY DEF Evidence, Rank
      <3> HIDE DEF e, restarts
      <3>3. restarts = {e}
        BY <3>1 DEF e
      <3>4. QED
        BY <2>2, <3>2, <3>3
    <2>3. CASE restart \notin {"none", "Active"}
      <3>1. restarts = {Evidence("ContainerRestart", "none", FALSE)}
        BY <2>3
      <3>2. QED
        BY <2>3, <3>1 DEF Evidence, Rank
    <2>4. QED
      BY <2>1, <2>2, <2>3
  <1>3. \A e \in warnings : e.source = "WarningEvent"
                            /\ (Rank(e.state) > 0 => Concern(base) /\ Rank(e.state) = 2)
    <2>1. CASE Concern(base)
      <3>1. \A e \in warnings : e = Evidence("WarningEvent", "NeedsAttention", TRUE)
        BY <2>1
      <3>2. QED
        BY <2>1, <3>1 DEF Evidence, Rank
    <2>2. CASE ~Concern(base)
      <3> DEFINE concerned == Concern(base)
      <3>1. concerned = FALSE
        BY <2>2 DEF Concern
      <3>2. \A e \in warnings : e = Evidence("WarningEvent", IF concerned THEN "NeedsAttention"
                                                             ELSE "none", concerned)
        OBVIOUS
      <3> HIDE DEF concerned, warnings
      <3>3. \A e \in warnings : e = Evidence("WarningEvent", "none", FALSE)
        BY <3>1, <3>2
      <3>4. QED
        BY <3>3 DEF Evidence, Rank
    <2>3. QED
      BY <2>1, <2>2
  <1> HIDE DEF restarts, warnings
  <1>4. /\ available = TRUE
        /\ recognized <=> said # "" \/ ready # ""
        /\ OfRow(said, ready) \in base.evidence
        /\ \A e \in base.evidence :
              e # OfRow(said, ready) => e.source # "Kubernetes" /\ Rank(e.state) = 0
        /\ concern => said # "" \/ ready # ""
    <2>1. available = TRUE /\ OfRow(said, ready) \in base.evidence
      BY RowAssessed
    <2>2. base.state = "NotEvaluated" <=> said = "" /\ ready = ""
      BY RowAssessed
    <2>3. concern => said # "" \/ ready # ""
      BY RowAssessed
    <2>4. ASSUME NEW e \in base.evidence, e # OfRow(said, ready)
          PROVE  e.source # "Kubernetes" /\ Rank(e.state) = 0
      BY <2>4, RowEvidence
    <2>5. QED
      BY <2>1, <2>2, <2>3, <2>4
  <1>5. /\ OfRow(said, ready).source = "Kubernetes" /\ OfRow(said, ready).current = TRUE
        /\ concern <=> OfRow(said, ready).state \in {"NeedsAttention", "Degraded"}
    BY DEF OfRow, RowConcern, Evidence
  <1> HIDE DEF base, concern
  <1>6. Concern(base) => concern
    BY <1>4, <1>5 DEF Concern
  <1>7. PICK worst : /\ IsWorst(worst, observed)
                     /\ assessed.state = IF recognized THEN Ranked(worst) ELSE "NotEvaluated"
    <2>1. recognized \in BOOLEAN /\ available \in BOOLEAN
      BY <1>4
    <2> HIDE DEF recognized, available, observed
    <2>2. \E worst :
             /\ IsWorst(worst, observed)
             /\ EvaluateHealth(recognized, available, observed).state =
                   IF recognized THEN Ranked(worst) ELSE "NotEvaluated"
      BY <2>1, WorstRates
    <2>3. QED
      BY <2>2, Zenon
  <1>8. /\ observed \subseteq assessed.evidence
        /\ \A e \in assessed.evidence \ observed : e.source \in {"Provider", "HealthContract"}
    <2>1. recognized \in BOOLEAN /\ available \in BOOLEAN
      BY <1>4
    <2> HIDE DEF recognized, available, observed
    <2>2. QED
      BY <2>1, EvidenceIsKept, Zenon
  <1> HIDE DEF assessed
  <1>9. assessed.state \in {"Degraded", "NeedsAttention"} <=> recognized /\ worst >= 2
    BY <1>7, RankFacts DEF IsWorst
  <1>10. worst >= 2 <=> concern \/ restart = "Active"
    <2>1. /\ worst \in 0..3
          /\ \A e \in observed : e.current = TRUE => Rank(e.state) <= worst
          /\ worst # 0 => \E e \in observed : Rank(e.state) = worst
      BY <1>7 DEF IsWorst
    <2>2. \A e : e \in observed <=> e \in base.evidence \/ e \in restarts \/ e \in warnings
      OBVIOUS
    <2> HIDE DEF observed
    <2>3. ASSUME concern PROVE worst >= 2
      <3>1. Rank(OfRow(said, ready).state) >= 2
        BY <1>5, <2>3, RankFacts
      <3>2. OfRow(said, ready) \in observed
        BY <1>4, <2>2
      <3>3. Rank(OfRow(said, ready).state) <= worst
        BY <1>5, <2>1, <3>2
      <3>4. Rank(OfRow(said, ready).state) \in 0..3
        BY RankFacts
      <3>5. QED
        BY <2>1, <3>1, <3>3, <3>4
    <2>4. ASSUME restart = "Active" PROVE worst >= 2
      BY <1>2, <2>1, <2>4, <2>2
    <2>5. ASSUME worst >= 2, restart # "Active" PROVE concern
      <3>1. PICK e \in observed : Rank(e.state) = worst
        BY <2>1, <2>5
      <3>2. Rank(e.state) > 0 /\ Rank(e.state) # 0
        BY <2>1, <2>5, <3>1
      <3>3. CASE e \in restarts
        BY <1>2, <2>5, <3>2, <3>3
      <3>4. CASE e \in warnings
        BY <1>3, <1>6, <3>2, <3>4
      <3>5. CASE e \in base.evidence
        <4>1. e = OfRow(said, ready)
          BY <1>4, <3>2, <3>5
        <4>2. QED
          BY <1>5, <2>1, <2>5, <3>1, <4>1, RankFacts
      <3>6. QED
        BY <2>2, <3>3, <3>4, <3>5
    <2>6. QED
      BY <2>3, <2>4, <2>5
  <1>11. Concern(assessed) => concern
    BY <1>2, <1>3, <1>4, <1>5, <1>8 DEF Concern
  <1>12. QED
    BY <1>1, <1>4, <1>9, <1>10, <1>11 DEF concern

\* Who is called clean had nothing wrong and no old warning, as far as the events were read.
LEMMA CleanIsClean == IncidentInv => CleanMeansClean
  <1> SUFFICES ASSUME IncidentInv, incidentStage = "built", NEW n \in IncidentNamespaces,
                      Severity(n) = "none"
               PROVE  /\ ResourceHealthState(row[n].status, row[n].ready) \in {"Healthy", "Unknown"}
                      /\ \/ n \in Denied
                         \/ early[n] = {}
                         \/ Capped /\ \A e \in Kept, t \in early[n] : e[2] >= t
    BY DEF CleanMeansClean
  <1>1. /\ IncidentAssessment(n).state \notin {"Degraded", "NeedsAttention"}
        /\ EventsOf(n) = {}
    <2>1. StatusSeverity(IncidentAssessment(n)) = "none"
      BY DEF Severity
    <2>2. IncidentAssessment(n).state \notin {"Degraded", "NeedsAttention"}
      BY <2>1 DEF StatusSeverity
    <2>3. EventsOf(n) = {}
      BY <2>1 DEF Severity
    <2>4. QED
      BY <2>2, <2>3
  <1>2. ~RowConcern(row[n].status, row[n].ready)
    BY <1>1, IncidentAssessed, RowAssessed
  <1>3. ResourceHealthState(row[n].status, row[n].ready) \in {"Healthy", "Unknown"}
    BY <1>2 DEF RowConcern, ResourceHealthState
  <1>4. ASSUME n \notin Denied, NEW t \in early[n]
        PROVE  Capped /\ \A e \in Kept, u \in early[n] : e[2] >= u
    <2>1. eventsRead[n].at = "read" /\ early[n] \subseteq eventsRead[n].times
      BY <1>4 DEF IncidentInv, Denied
    <2>2. \A u \in early[n] : <<n, u>> \in AllEvents \ Kept
      BY <1>1, <2>1 DEF AllEvents, EventsOf
    <2>3. \A e \in Kept, u \in early[n] : e[2] >= u
      <3>1. \A e \in Kept : e \in AllEvents /\ e[2] \in Nat
        BY KeptAreNewest DEF AllEvents, IncidentInv
      <3>2. \A u \in early[n] : u \in Nat
        BY DEF IncidentInv
      <3> HIDE DEF AllEvents, Kept
      <3>3. QED
        BY <2>2, <3>1, <3>2, KeptAreNewest
    <2>4. Cardinality(Kept) # Cardinality(AllEvents)
      <3>1. Kept # AllEvents /\ IsFiniteSet(AllEvents) /\ Kept \in SUBSET AllEvents
        BY <1>4, <2>2, KeptAreNewest
      <3> HIDE DEF AllEvents, Kept
      <3>2. QED
        BY <3>1, FS_Subset
    <2>5. Capped
      BY <2>4, KeptAreNewest, MaxWarningEventsAssumption DEF Capped
    <2>6. QED
      BY <2>3, <2>5
  <1>5. QED
    BY <1>3, <1>4

\* What is serious is active, for a reason; what is only history is not.
LEMMA HistoryIsHistory == IncidentInv => HistoryIsNotActive
  <1> SUFFICES ASSUME IncidentInv, incidentStage = "built", NEW n \in IncidentNamespaces
               PROVE  /\ Severity(n) \in {"Degraded", "Attention"} =>
                           /\ ItemState(n) = "Active"
                           /\ \/ RowConcern(row[n].status, row[n].ready)
                              \/ restartsRead[n].state = "Active"
                      /\ Severity(n) \in {"Warning", "Restarted"} => ItemState(n) # "Active"
    BY DEF HistoryIsNotActive, RowConcern
  <1> DEFINE assessed == IncidentAssessment(n)
             concern == RowConcern(row[n].status, row[n].ready)
  <1>1. /\ assessed.state \in {"Degraded", "NeedsAttention"} <=>
              (row[n].status # "" \/ row[n].ready # "")
              /\ (concern \/ restartsRead[n].state = "Active")
        /\ Concern(assessed) => concern
    BY IncidentAssessed
  <1>2. concern => row[n].status # "" \/ row[n].ready # ""
    BY RowAssessed
  <1>3. restartsRead[n].state = "Active" => row[n].status # "" \/ row[n].ready # ""
    BY IncidentsAssumption DEF IncidentInv
  <1> HIDE DEF concern, assessed
  <1>4. assessed.state \in {"Degraded", "NeedsAttention"} <=> StatusSeverity(assessed) # "none"
    BY DEF StatusSeverity
  <1>5. Severity(n) \in {"Degraded", "Attention"} <=> StatusSeverity(assessed) # "none"
    BY DEF Severity, StatusSeverity, assessed
  <1>6. "Active" \in Signals(n) =>
           \/ StatusSeverity(assessed) # "none"
           \/ restartsRead[n].state = "Active"
           \/ Concern(assessed)
    BY DEF Signals, assessed
  <1>7. StatusSeverity(assessed) # "none" => "Active" \in Signals(n)
    BY DEF Signals, assessed
  <1>8. ItemState(n) = "Active" <=> "Active" \in Signals(n)
    BY DEF ItemState
  <1>9. QED
    BY <1>1, <1>2, <1>3, <1>4, <1>5, <1>6, <1>7, <1>8 DEF concern

\* The cockpit neither hides a concern nor invents one, however the cluster changes between
\* its reads (list_incidents).
THEOREM IncidentsAlwaysHonest == IncidentsSpec => []IncidentsAreHonest
  <1>1. IncidentInv => IncidentsAreHonest
    BY CleanIsClean, HistoryIsHistory, HealthNeverOverstated DEF IncidentsAreHonest
  <1>2. QED
    BY <1>1, IncidentsInit_Inv, IncidentsNext_Inv, PTL DEF IncidentsSpec
=============================================================================
