------------------------------- MODULE MCParts -------------------------------
(* The parts of the application whose properties are about safety alone, for *)
(* TLC: in each scene one of them runs, and the others stay in the one state  *)
(* that they rest in.                                                        *)
EXTENDS WorkspaceSwitch, StreamRegistry, ArgoConnections, ArgoInspection, HelmReleases,
        KubeconfigSources, Topology, Incidents, Rbac, YamlApply, GuardedOperations,
        ServiceTargets, Metrics, Integers, TLC

CONSTANTS q1, q2, poll, list, prod, dev

VARIABLE scene

-----------------------------------------------------------------------------
(* Instances                                                                *)

\* A named read in one context, and the query that retries it in another.
OneName == (q1 :> poll) @@ (q2 :> poll)
OneScope == (poll :> list)
TwoContexts == (q1 :> prod) @@ (q2 :> dev)

\* Each connect is given a token or takes the remembered one.
RememberedAsks == [id : Ids, scope : Scopes, remember : {TRUE}, submitted : BOOLEAN]

\* Releases of the same name in two kinds of storage and in two namespaces, and
\* what may be listed of them.
StoredRelease(kind, namespace, revision) ==
    [kind |-> kind, namespace |-> namespace, name |-> "a", revision |-> revision]
Listing(namespaces, default, allowed, held) ==
    [namespaces |-> namespaces, default |-> default, allowed |-> allowed,
     everyNamespace |-> {"n1", "n2"}, stored |-> held]
NoListing == Listing({}, "", {}, {})
Listings == {Listing(ns, default, allowed, held) :
    ns \in {{}, {"n1", "n2"}}, default \in {"", "n1"},
    allowed \in SUBSET {<<"Secret", "all">>, <<"ConfigMap", "all">>, <<"Secret", "n1">>,
                        <<"ConfigMap", "n1">>, <<"ConfigMap", "n2">>},
    held \in SUBSET {StoredRelease("Secret", "n1", 1), StoredRelease("Secret", "n1", 2),
                       StoredRelease("ConfigMap", "n1", 2), StoredRelease("ConfigMap", "n2", 3)}}

\* A manifest of a namespaced object, a cluster-wide one and one of an unknown kind.
Kind(kind, namespaced) == [kind |-> kind, namespaced |-> namespaced]
Entry(kind, namespace, name) == [kind |-> kind, namespace |-> namespace, name |-> name]
Manifests == {[namespace |-> "n1",
    discovered |-> {Kind("ConfigMap", TRUE), Kind("Role", FALSE)},
    manifest |-> {Entry("ConfigMap", "", "a"), Entry("Role", "", "r"), Entry("Gone", "", "g")},
    objects |-> {Entry("ConfigMap", "n1", "a"), Entry("ConfigMap", "n1", "b"),
                 Entry("Role", "-", "r")}]}
NoManifest == [namespace |-> "n1", discovered |-> {}, manifest |-> {}, objects |-> {}]
AllListings == Listings \cup {NoListing}
AllManifests == Manifests \cup {NoManifest}

UserEdit(op, variable, paths) == [op |-> op, variable |-> variable, paths |-> paths]
UserEdits == {UserEdit("env", "FOO", <<>>), UserEdit("add", "-", <<"p2", "p3">>),
              UserEdit("remove", "-", <<"p2">>), UserEdit("reorder", "-", <<"p3">>)}
Variables == [{"KUBECONFIG", "FOO"} -> {Unset, <<>>, <<"p2">>, <<"p3", "p2">>}]
Contents == [Paths -> {Unreadable, {"a"}, {"a", "b"}}]

\* A resource that is recreated, its owner, and a cluster-wide one.
Object(kind, namespace, name, uid, owner, manager) ==
    [kind |-> kind, namespace |-> namespace, name |-> name, uid |-> uid, owner |-> owner,
     managed |-> manager]
MapObjects == {
    Object("Widget", "a", <<"web">>, "u1", NoOwner, "argo"),
    Object("Widget", "a", <<"web">>, "u2", NoOwner, NoOwner),
    Object("Deployment", "a", <<"web">>, "u3", "u1", NoOwner),
    Object("StorageClass", AllNamespaces, <<"fast">>, "u5", NoOwner, NoOwner)}
Web == <<"Deployment", "a", <<"web">>>>
Fast == <<"StorageClass", AllNamespaces, <<"fast">>>>
Inventories(objs, fails) == [objects |-> objs, fails |-> fails]
Inventory(name, listed, has) == [name |-> name, entries |-> listed, inventory |-> has]
FluxStates == {
    Inventories(<<>>, FALSE), Inventories(<<>>, TRUE),
    Inventories(<<Inventory("f1", <<Web>>, TRUE)>>, FALSE),
    Inventories(<<Inventory("f1", <<Fast, Web>>, TRUE)>>, FALSE),
    Inventories(<<Inventory("f1", <<Malformed>>, TRUE)>>, FALSE),
    Inventories(<<Inventory("f2", <<>>, FALSE)>>, FALSE),
    Inventories(<<Inventory("f2", <<>>, TRUE), Inventory("f3", <<Web>>, TRUE)>>, FALSE)}
Backed(name, selector, external) ==
    [name |-> name, selector |-> selector, external |-> external]
Networks == [
    routes : SUBSET {[from |-> "i", to |-> "s1"]},
    services : SUBSET {Backed("s1", {"x"}, FALSE)}
               \cup {{Backed("s1", {}, FALSE)}, {Backed("s1", {}, TRUE)}},
    slices : {{}} \cup {{[name |-> "l1", service |-> s, targets |-> targets]} :
                          s \in {"s1", NoOwner}, targets \in SUBSET {"p1", "p2"}},
    pods : {{}, {[name |-> "p1", labels |-> {"x"}]}, {[name |-> "p1", labels |-> {}]}}]
MapScopes == {{}, {"a", "b"}}

Container(restarts, failing, failed, at) ==
    [restarts |-> restarts, failing |-> failing, failed |-> failed, endedAt |-> at]
PodOf(phaseOf, isReady, containers) ==
    [status |-> phaseOf, ready |-> isReady, containers |-> containers]
Calm == PodOf("running", "true", {Container(0, FALSE, FALSE, 0)})
PodsSeen == {
    Calm, PodOf("running", "false", {Container(2, TRUE, TRUE, 1)}),
    PodOf("running", "true", {Container(1, FALSE, TRUE, 1), Container(1, FALSE, FALSE, 2)}),
    PodOf("running", "true", {Container(1, FALSE, TRUE, 1)})}

\* A Role and a ClusterRole of one name, bound to users, a group and accounts.
RoleOf(family, namespace, rules) ==
    [family |-> family, name |-> "edit", namespace |-> namespace, rules |-> rules]
BindingOf(family, namespace, kind, subjects, at) ==
    [family |-> family, namespace |-> namespace, roleKind |-> kind, roleName |-> "edit",
     subjects |-> subjects, at |-> at]
Subject(kind, name, namespace) == [kind |-> kind, name |-> name, namespace |-> namespace]
Grants == {
    [family |-> "serviceAccounts", name |-> "default", namespace |-> "a", automount |-> TRUE],
    RoleOf("roles", "a", {[verbs |-> {"get"}, resources |-> {"secrets"}]}),
    RoleOf("clusterRoles", "none", {[verbs |-> {"get"}, resources |-> {"pods"}]}),
    BindingOf("roleBindings", "a", "Role", {Subject("ServiceAccount", "sa", "none")}, 0),
    BindingOf("roleBindings", "b", "Role", {Subject("User", "u", "none")}, 0),
    BindingOf("clusterRoleBindings", "none", "ClusterRole",
              {Subject("Group", "system:masters", "none"), Subject("ServiceAccount", "sa", "b")},
              1),
    BindingOf("clusterRoleBindings", "none", "ClusterRole", {Subject("User", "u", "none")}, 2)}

\* Documents that name the resource, that name another, and two at once.
Config(name) == [version |-> "v1", kind |-> "ConfigMap", name |-> name, namespaced |-> TRUE,
                 namespace |-> "x"]
ShownObjects == {Config("a"), Config("b")}
Documents == {[Manifest(Config("a")) EXCEPT !.body = "new"],
              [Manifest(Config("a")) EXCEPT !.documents = 2],
              [Manifest(Config("a")) EXCEPT !.namespace = "y"]}

Workload(kind) == [kind |-> kind, named |-> TRUE]
PanelWorkloads == {Workload("Deployment"), Workload("Pod")}
TypedReplicas == {-1, 3}

\* A Service with a named, a numbered and a shadowed port, and what cannot be reached.
PortSpec(n, tcp, by, to) == [port |-> n, tcp |-> tcp, by |-> by, target |-> to]
Plain == PortSpec(80, TRUE, "same", 0)
Udp == PortSpec(443, FALSE, "same", 0)
ServiceOf(external, selector, ports) ==
    [argo |-> TRUE, external |-> external, selector |-> selector, ports |-> ports]
Services == {
    ServiceOf(FALSE, "v1", <<PortSpec(443, TRUE, "name", "https"), Plain>>),
    ServiceOf(FALSE, "v2", <<Udp, PortSpec(443, TRUE, "number", 8080)>>),
    ServiceOf(FALSE, NoTarget, <<Plain>>), ServiceOf(TRUE, "v1", <<Plain>>),
    ServiceOf(FALSE, "v1", <<Udp>>)}
BackendOf(phaseOf, deleted, isReady, label, ports) ==
    [phase |-> phaseOf, deleted |-> deleted, ready |-> isReady, label |-> label,
     ports |-> ports]
Bare == [n \in {} |-> 0]
Backends ==
    {BackendOf("Running", FALSE, TRUE, "v1", Bare), BackendOf("Running", FALSE, TRUE, "v2", Bare)}
    \cup {BackendOf("Running", d, r, "v1", [n \in {"https"} |-> 8443]) :
            d \in BOOLEAN, r \in BOOLEAN}

\* Pods of a ReplicaSet and of its namesake in another namespace, one that leaves
\* a quantity out, one that uses too much, and one of nobody.
UsedBy(namespace, name, owner, usage) ==
    [namespace |-> namespace, name |-> name, owner |-> owner, usage |-> usage]
Controller(kind, name) == [kind |-> kind, name |-> name]
Set == Controller("ReplicaSet", "x")
Uses == {UsedBy("a", "x-1", Set, <<2>>), UsedBy("a", "x-2", Set, <<1, 1, NoUsage>>),
         UsedBy("a", "x-3", Set, <<2, 2>>), UsedBy("b", "x-1", Set, <<1>>),
         UsedBy("a", "y", Unowned, <<1>>)}
SetOf(namespace, owner) == [namespace |-> namespace, name |-> "x", owner |-> owner]
OfDeployment == SetOf("a", Controller("Deployment", "d"))
Sets == {OfDeployment, SetOf("a", Controller("Rollout", "r")), SetOf("b", Unowned)}
NoCluster == [pods |-> {}, sets |-> {}]
SampledScopes == {{}, {"a"}, {"a", "b"}}
SampledClusters ==
    {[pods |-> Uses, sets |-> {OfDeployment, SetOf("b", Unowned)}],
     [pods |-> {UsedBy("a", "x-1", Set, <<2>>), UsedBy("b", "x-1", Set, <<1>>)},
      sets |-> {OfDeployment}],
     NoCluster}

Inspections == [transport : {"connected", "kubernetes", "other"}, of : {Whole, "s"}]
StatesOfResources ==
    [kind : {"Secret", "Deployment"}, encoding : {"object", "json", "text"}, secret : {"plain"}]

-----------------------------------------------------------------------------
(* Scenes                                                                   *)

Scenes == {"switch", "streams", "argo", "inspection", "releases", "reconciliation", "settings",
           "map", "incidents", "rbac", "yaml", "operations", "targets", "usage"}

\* A part whose scene this is not begins, and stays, in one state.
Rests(part, rest) == scene = part \/ rest

PartsInit ==
    /\ scene \in Scenes
    /\ SwitchInit /\ mounted = CHOOSE w \in Workspaces : TRUE
    /\ Init /\ ConnInit
    /\ HelmInit
    /\ Rests("releases", listing = NoListing)
    /\ scene = "reconciliation" <=> release # NoManifest
    /\ SettingsInit /\ Rests("settings", disk = Missing)
    /\ TopologyInit
    /\ Rests("map", live = {} /\ scope = {} /\ stage = "discover" /\ DOMAIN probing = CustomKinds)
    /\ IncidentsInit
    /\ Rests("incidents", \A n \in IncidentNamespaces : pod[n] = Calm /\ warned[n] = {})
    /\ RbacInit /\ Rests("rbac", granted = {})
    /\ YamlInit /\ shown = Config("a")
    /\ GuardedInit /\ workload = Workload("Deployment")
    /\ TargetsInit
    /\ Rests("targets", service = ServiceOf(TRUE, "v1", <<Plain>>)
                  /\ \A p \in BackendPods :
                       backends[p] = BackendOf("Running", FALSE, TRUE, "v1", Bare))
    /\ UsageInit /\ Rests("usage", usageScope = {} /\ cluster = NoCluster)
    /\ InspectionInit
    /\ Rests("inspection", ask = [transport |-> "other", of |-> Whole] /\ ~connectedScope
                  /\ \A n \in ManagedNames :
                       application.live[n] = [kind |-> "Secret", encoding |-> "object",
                                              secret |-> "plain"])

\* What the scenes have in common stays; the editor's is over when a preview has
\* been taken by another draft.
PartsNext ==
    \/ /\ scene = "switch" /\ SwitchNext
       /\ UNCHANGED <<scene, vars, connVars, inspectionVars, helmVars, settingsVars,
                      topologyVars, incidentVars, rbacVars, yamlVars, guardedVars,
                      targetVars, usageVars>>
    \/ /\ scene = "streams" /\ Next
       /\ UNCHANGED <<scene, switchVars, connVars, inspectionVars, helmVars, settingsVars,
                      topologyVars, incidentVars, rbacVars, yamlVars, guardedVars,
                      targetVars, usageVars>>
    \/ /\ scene = "argo" /\ ConnNext
       /\ UNCHANGED <<scene, switchVars, vars, inspectionVars, helmVars, settingsVars,
                      topologyVars, incidentVars, rbacVars, yamlVars, guardedVars,
                      targetVars, usageVars>>
    \/ /\ scene = "inspection" /\ InspectionNext
       /\ UNCHANGED <<scene, switchVars, vars, connVars, helmVars, settingsVars,
                      topologyVars, incidentVars, rbacVars, yamlVars, guardedVars,
                      targetVars, usageVars>>
    \/ /\ scene \in {"releases", "reconciliation"} /\ HelmNext
       /\ UNCHANGED <<scene, switchVars, vars, connVars, inspectionVars, settingsVars,
                      topologyVars, incidentVars, rbacVars, yamlVars, guardedVars,
                      targetVars, usageVars>>
    \/ /\ scene = "settings" /\ SettingsNext
       /\ UNCHANGED <<scene, switchVars, vars, connVars, inspectionVars, helmVars,
                      topologyVars, incidentVars, rbacVars, yamlVars, guardedVars,
                      targetVars, usageVars>>
    \/ /\ scene = "map" /\ TopologyNext
       /\ UNCHANGED <<scene, switchVars, vars, connVars, inspectionVars, helmVars,
                      settingsVars, incidentVars, rbacVars, yamlVars, guardedVars,
                      targetVars, usageVars>>
    \/ /\ scene = "incidents" /\ IncidentsNext
       /\ UNCHANGED <<scene, switchVars, vars, connVars, inspectionVars, helmVars,
                      settingsVars, topologyVars, rbacVars, yamlVars, guardedVars,
                      targetVars, usageVars>>
    \/ /\ scene = "rbac" /\ RbacNext
       /\ UNCHANGED <<scene, switchVars, vars, connVars, inspectionVars, helmVars,
                      settingsVars, topologyVars, incidentVars, yamlVars, guardedVars,
                      targetVars, usageVars>>
    \/ /\ scene = "yaml" /\ ~crossed /\ YamlNext
       /\ UNCHANGED <<scene, switchVars, vars, connVars, inspectionVars, helmVars,
                      settingsVars, topologyVars, incidentVars, rbacVars, guardedVars,
                      targetVars, usageVars>>
    \/ /\ scene = "operations" /\ GuardedNext
       /\ UNCHANGED <<scene, switchVars, vars, connVars, inspectionVars, helmVars,
                      settingsVars, topologyVars, incidentVars, rbacVars, yamlVars,
                      targetVars, usageVars>>
    \/ /\ scene = "targets" /\ TargetsNext
       /\ UNCHANGED <<scene, switchVars, vars, connVars, inspectionVars, helmVars,
                      settingsVars, topologyVars, incidentVars, rbacVars, yamlVars, guardedVars,
                      usageVars>>
    \/ /\ scene = "usage" /\ UsageNext
       /\ UNCHANGED <<scene, switchVars, vars, connVars, inspectionVars, helmVars,
                      settingsVars, topologyVars, incidentVars, rbacVars, yamlVars,
                      guardedVars, targetVars>>

PartsSpec ==
    PartsInit /\ [][PartsNext]_<<scene, switchVars, vars, connVars, inspectionVars, helmVars,
                                 settingsVars, topologyVars, incidentVars, rbacVars, yamlVars,
                                 guardedVars, targetVars, usageVars>>
=============================================================================
