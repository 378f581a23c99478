---------------------------- MODULE ArgoInspection ----------------------------
(* Inspecting an Argo CD application: get_argo_application_inspector and      *)
(* get_argo_resource_comparison of commands/argo, over a connection to the    *)
(* Argo CD server or from the Application in the cluster, which stands in when *)
(* the connection fails.                                                     *)
(*                                                                          *)
(* A state of a managed resource is an object, the JSON text of one, or a      *)
(* text that is not JSON.                                                    *)
EXTENDS Naturals, FiniteSets

CONSTANTS
    InspectAsks,       \* [transport, of]: a transport, and the resource to compare or Whole
    ManagedStates,     \* [kind, encoding, secret]: the states resources may have
    ManagedNames,      \* the resources of the application
    ReadErrors,        \* kinds of error a read may end with
    MaxAppChanges,     \* bound on the changes of the application
    Whole              \* no single resource; nothing read, no answer

ASSUME InspectionAssumption ==
    /\ ManagedStates \subseteq [kind : STRING, encoding : {"object", "json", "text"},
                                secret : {"plain", "redacted"}]
    /\ Whole \notin ReadErrors \cup {"argoConnection", "notFound"}

VARIABLES
    ask,               \* the request
    connectedScope,    \* is there a connection of the request's scope
    application,       \* [revision, live]: in the cluster and on the Argo CD server
    appChanges,        \* changes of it so far
    inspecting,        \* "start", "managed", "actions", "kubernetes" or "done"
    status,            \* revision of the application as it has been read, or Whole
    failure,           \* why the connection was not used, or Whole
    inspected          \* the answer, or Whole

inspectionVars ==
    <<ask, connectedScope, application, appChanges, inspecting, status, failure, inspected>>

InspectionInit ==
    /\ ask \in InspectAsks
    /\ connectedScope \in BOOLEAN
    /\ application \in [revision : {0}, live : [ManagedNames -> ManagedStates]]
    /\ appChanges = 0
    /\ inspecting = "start" /\ status = Whole /\ failure = Whole /\ inspected = Whole

-----------------------------------------------------------------------------
(* Redaction                                                                *)

\* redact_secret_fields sees into objects, not into text.
Redacted(s) == IF s.encoding = "object" /\ s.kind = "Secret" THEN [s EXCEPT !.secret = "redacted"]
               ELSE s
\* A text that is not JSON stays what it is.
ParsedState(s) == IF s.encoding = "json" THEN [s EXCEPT !.encoding = "object"] ELSE s

\* Mutant: the response is redacted, and what its texts turn into is not.
ShownState_unseen(s) == ParsedState(Redacted(s))

\* state, of a response that has been redacted as a whole.
ShownState(s) == Redacted(ParsedState(Redacted(s)))

\* connected_comparison: exact, with the states; the status of a resource in the
\* Application has none.
Exact(live, n) == [resource |-> n, exact |-> TRUE, states |-> {ShownState(live[n])}]
FromStatus(n) == [resource |-> n, exact |-> FALSE, states |-> {}]

-----------------------------------------------------------------------------
(* The connected read                                                       *)

Answer(transport, comparisons, fallback) ==
    inspected' = [transport |-> transport, comparisons |-> comparisons, fallback |-> fallback,
                  application |-> status', resources |-> application.revision]
Fails(error) == inspected' = [transport |-> "none", errors |-> {failure', error} \ {Whole}]

\* An inspection falls back on the cluster; a comparison has the error.
ConnectionFails(error) ==
    /\ failure' = error /\ UNCHANGED status
    /\ IF ask.of = Whole THEN inspecting' = "kubernetes" /\ UNCHANGED inspected
                         ELSE inspecting' = "done" /\ Fails(error)

\* A comparison reads no application of its own.
ReadApplication ==
    /\ inspecting = "start" /\ ask.transport = "connected"
    /\ \/ ~connectedScope /\ ConnectionFails("argoConnection")
       \/ connectedScope /\ ask.of = Whole /\ \E e \in ReadErrors : ConnectionFails(e)
       \/ /\ connectedScope
          /\ status' = IF ask.of = Whole THEN application.revision ELSE status
          /\ inspecting' = "managed" /\ UNCHANGED <<failure, inspected>>
    /\ UNCHANGED <<ask, connectedScope, application, appChanges>>

ReadManaged ==
    /\ inspecting = "managed"
    /\ \/ \E e \in ReadErrors : ConnectionFails(e)
       \/ /\ ask.of = Whole
          /\ inspecting' = "done" /\ UNCHANGED <<status, failure>>
          /\ Answer("connected", {Exact(application.live, n) : n \in DOMAIN application.live}, Whole)
       \/ /\ ask.of # Whole /\ ask.of \in DOMAIN application.live
          /\ inspecting' = "actions" /\ UNCHANGED <<status, failure>>
          /\ Answer("connected", {Exact(application.live, ask.of)}, Whole)
       \/ ask.of # Whole /\ ask.of \notin DOMAIN application.live /\ ConnectionFails("notFound")
    /\ UNCHANGED <<ask, connectedScope, application, appChanges>>

\* The actions of a resource are read last; without them there is no comparison.
ReadActions ==
    /\ inspecting = "actions"
    /\ \/ inspecting' = "done" /\ UNCHANGED <<status, failure, inspected>>
       \/ \E e \in ReadErrors : ConnectionFails(e)
    /\ UNCHANGED <<ask, connectedScope, application, appChanges>>

-----------------------------------------------------------------------------
(* The read of the cluster                                                  *)

StartKubernetes ==
    /\ inspecting = "start" /\ ask.transport = "kubernetes" /\ inspecting' = "kubernetes"
    /\ UNCHANGED <<ask, connectedScope, application, appChanges, status, failure, inspected>>

RefuseTransport ==
    /\ inspecting = "start" /\ ask.transport \notin {"connected", "kubernetes"}
    /\ inspecting' = "done" /\ UNCHANGED <<status, failure>> /\ Fails("argoConnection")
    /\ UNCHANGED <<ask, connectedScope, application, appChanges>>

ReadKubernetes ==
    /\ inspecting = "kubernetes" /\ inspecting' = "done" /\ UNCHANGED failure
    /\ \/ /\ ask.of = Whole
          /\ status' = application.revision
          /\ Answer("kubernetes", {FromStatus(n) : n \in DOMAIN application.live}, failure)
       \/ /\ ask.of # Whole /\ ask.of \in DOMAIN application.live
          /\ status' = application.revision
          /\ Answer("kubernetes", {FromStatus(ask.of)}, Whole)
       \/ /\ ask.of # Whole /\ ask.of \notin DOMAIN application.live
          /\ UNCHANGED status /\ Fails("notFound")
       \/ UNCHANGED status /\ \E e \in ReadErrors : Fails(e)
    /\ UNCHANGED <<ask, connectedScope, application, appChanges>>

\* The application is synced: a resource goes, or has another state.
AppChange ==
    /\ appChanges < MaxAppChanges /\ appChanges' = appChanges + 1
    /\ \E names \in SUBSET ManagedNames : \E live \in [names -> ManagedStates] :
         application' = [revision |-> application.revision + 1, live |-> live]
    /\ UNCHANGED <<ask, connectedScope, inspecting, status, failure, inspected>>

InspectionNext ==
    \/ ReadApplication \/ ReadManaged \/ ReadActions
    \/ StartKubernetes \/ RefuseTransport \/ ReadKubernetes \/ AppChange

InspectionSpec == InspectionInit /\ [][InspectionNext]_inspectionVars

-----------------------------------------------------------------------------
(* Properties                                                               *)

IsAnswered == inspecting = "done" /\ inspected.transport # "none"

\* Wherever an answer comes from, it has no contents of a Secret whose state was sent as
\* an object or as the JSON text of one.  Other texts are shown as they were sent: the
\* code does not see what they are the text of.
SecretsStayHidden ==
    IsAnswered => \A comparison \in inspected.comparisons : \A s \in comparison.states :
                    s.kind = "Secret" => s.secret = "redacted" \/ s.encoding = "text"

\* An answer is of one transport, and says so: exact comparisons come over the
\* connection, and an inspection that was to be connected and is not names the error
\* of its connection; if both reads fail, both errors are named.
FallbacksAreNamed ==
    inspecting = "done" =>
        IF inspected.transport = "none"
        THEN inspected.errors # {} /\ (failure # Whole => failure \in inspected.errors)
        ELSE /\ \A comparison \in inspected.comparisons :
                  comparison.exact = (inspected.transport = "connected")
             /\ inspected.fallback = failure
             /\ (ask.transport # inspected.transport) = (inspected.fallback # Whole)

\* The two reads of a connected inspection are never of resources older than the
\* application they are shown with.
ResourcesAreNoOlder ==
    IsAnswered /\ ask.of = Whole => inspected.application <= inspected.resources

InspectionsAreHonest == SecretsStayHidden /\ FallbacksAreNamed /\ ResourcesAreNoOlder
=============================================================================
