------------------------------- MODULE Topology -------------------------------
(* The resource maps of commands/resources: the ownership map that is         *)
(* collected list by list while the cluster changes, of the native kinds and *)
(* of the custom kinds that a discovery has left in the cache; its GitOps     *)
(* owners; and the network map.                                              *)
EXTENDS Naturals, Sequences, SequencesExt

CONSTANTS
    Cluster,            \* the objects that there may be: see TopologyInit
    CustomKinds,        \* the custom kinds; all the others are listed for every map
    ClusterKinds,       \* the kinds without a namespace
    Selections,         \* namespaces that the user may have selected; {} is all
    FluxClusters,       \* the Flux objects that there may be: see ListOwners
    NetworkInputs,      \* inputs of the network map: see NetworkEdges
    MaxFluxOwners,      \* MAX_FLUX_OWNER_OBJECTS
    MaxFluxEntries,     \* MAX_FLUX_INVENTORY_ENTRIES
    MaxClusterChanges,  \* bound on the changes during a collection
    AllNamespaces, Malformed, NoOwner

\* A uid is given once, and what lives in no namespace is not custom.  Flux objects have
\* names, and are listed in an order, as their inventories are.  The name of a
\* service, a slice or a Pod in the network map stands for its kind and its name.
ASSUME TopologyAssumption ==
    /\ \A o, p \in Cluster : o.uid = p.uid => o = p
    /\ \A o \in Cluster : o.uid # NoOwner
    /\ {"StorageClass", "CustomResourceDefinition"} \subseteq ClusterKinds \ CustomKinds
    /\ MaxFluxOwners \in Nat /\ MaxFluxEntries \in Nat
    /\ \A kind \in FluxClusters :
         /\ kind.objects \in Seq(ToSet(kind.objects)) /\ kind.fails \in BOOLEAN
         /\ \A object \in ToSet(kind.objects) :
              object.name # NoOwner /\ object.entries \in Seq(ToSet(object.entries))
    /\ \A in \in NetworkInputs : \A s \in in.services :
         /\ s.name # "ingress"
         /\ \A t \in in.services : s.name = t.name => s = t
         /\ \A l \in in.slices : l.name # s.name /\ \A p \in in.pods : l.name # p.name

VARIABLES
    live,            \* the objects in the cluster
    remained,        \* history: those that have been there since the discovery began
    stayed,          \* history: those that have been there since the collection began
    clusterChanges,  \* changes so far
    scope,           \* the selected namespaces
    probing,         \* custom kind with a definition that is known -> the scopes its
                     \* probe still asks
    discovered,      \* the custom kinds that were found, and that are listed
    refused,         \* history: the lists that a probe was refused, or did not find
    catalogued,      \* is the map made of a discovery that is in the cache
    askedLists,      \* the lists that are not answered yet
    collected,       \* the inputs
    skipped,         \* the lists that a warning says were skipped
    flux,            \* the Kustomizations and the HelmReleases of the cluster
    owners,          \* the Flux ownership index
    stage,           \* "discover", "collect", "owners", "built", "failed"; "network", "drawn"
    network          \* the input of the network map

mapCluster == <<live, remained, stayed, clusterChanges>>
discovery == <<probing, discovered, refused, catalogued>>
inputs == <<scope, network>>
topologyVars == <<mapCluster, discovery, inputs, askedLists, collected, skipped, flux, owners, stage>>

-----------------------------------------------------------------------------
(* flux_inventory.rs: which Flux object applied a resource.                  *)

\* A page holds MaxFluxOwners objects; entries that do not parse, objects without
\* an inventory and everything that is cut off make the index partial.
Firsts(seq, n) == SubSeq(seq, 1, IF Len(seq) < n THEN Len(seq) ELSE n)
Page(objects) == Firsts(objects, MaxFluxOwners)
Entries(object) == Firsts(object.entries, MaxFluxEntries)
ClaimOf(object) == [owner |-> object.name, targets |-> ToSet(Entries(object))]
Claims(kind) ==
    IF kind.fails THEN <<>>
    ELSE [n \in 1..Len(Page(kind.objects)) |-> ClaimOf(Page(kind.objects)[n])]

\* Mutant: a full page of objects counts as all of them.
PartialKind_uncut(kind) ==
    \/ kind.fails
    \/ \E n \in 1..Len(Page(kind.objects)) :
         ~Page(kind.objects)[n].inventory \/ Contains(Entries(Page(kind.objects)[n]), Malformed)

PartialKind(kind) ==
    \/ kind.fails \/ Len(kind.objects) >= MaxFluxOwners
    \/ \E n \in 1..Len(Page(kind.objects)) :
         LET object == Page(kind.objects)[n]
         IN  \/ ~object.inventory
             \/ Len(object.entries) > MaxFluxEntries
             \/ Contains(Entries(object), Malformed)

\* Kustomizations first, then HelmReleases.
ListOwners(kustomizations, releases) ==
    [claims |-> Claims(kustomizations) \o Claims(releases),
     partial |-> PartialKind(kustomizations) \/ PartialKind(releases)]

ClaimIdentity(o) == <<o.kind, o.namespace, o.name>>

\* The first claim of a resource stays; a label on the resource goes before it.
Claiming(index, o) == {n \in 1..Len(index.claims) : ClaimIdentity(o) \in index.claims[n].targets}
Earliest(places) == CHOOSE n \in places : \A m \in places : n <= m
GitOpsOwner(index, o) ==
    IF o.managed # NoOwner THEN o.managed
    ELSE IF Claiming(index, o) = {} THEN NoOwner
    ELSE index.claims[Earliest(Claiming(index, o))].owner

NoIndex == [claims |-> <<>>, partial |-> FALSE]
NoFlux == LET none == [objects |-> <<>>, fails |-> FALSE]
          IN  [kustomizations |-> none, releases |-> none]
NoNetwork == [routes |-> {}, services |-> {}, slices |-> {}, pods |-> {}]

-----------------------------------------------------------------------------
(* What is asked for.                                                        *)

\* One list of each kind, or one of it in each selected namespace; custom kinds
\* without a namespace are listed only when no namespace is selected.
ScopesOf(kind, namespaces) ==
    IF kind \in ClusterKinds
    THEN IF kind \in CustomKinds /\ namespaces # {} THEN {} ELSE {AllNamespaces}
    ELSE IF namespaces = {} THEN {AllNamespaces} ELSE namespaces

NativeKinds == {o.kind : o \in Cluster} \ CustomKinds
ListsOf(kind, namespaces) == {<<kind, n>> : n \in ScopesOf(kind, namespaces)}
Covers(list, o) == o.kind = list[1] /\ list[2] \in {o.namespace, AllNamespaces}

\* Objects have a name of their own, and a uid of their own for all time.  The custom
\* kinds that are known may be of a list of definitions that is in the cache as well.
TopologyInit ==
    /\ live \in {objects \in SUBSET Cluster :
                   \A o, p \in objects : ClaimIdentity(o) = ClaimIdentity(p) => o = p}
    /\ remained = live /\ stayed = live
    /\ clusterChanges = 0
    /\ scope \in Selections
    /\ \E known \in SUBSET CustomKinds : probing = [k \in known |-> ScopesOf(k, scope)]
    /\ discovered = {} /\ refused = {} /\ catalogued = FALSE
    /\ askedLists = {} /\ collected = {} /\ skipped = {}
    /\ flux = NoFlux /\ owners = NoIndex
    /\ stage \in {"discover", "network"}
    /\ network = NoNetwork
    /\ stage = "network" => live = {}

\* The cluster does not wait: an object goes, or another takes its place.
ClusterChanges ==
    /\ stage \in {"discover", "collect"} /\ clusterChanges < MaxClusterChanges
    /\ clusterChanges' = clusterChanges + 1
    /\ \/ \E o \in live : live' = live \ {o} /\ stayed' = stayed \ {o} /\ remained' = remained \ {o}
       \/ \E o \in Cluster \ live : /\ \A p \in live : ~ClaimIdentity(o) = ClaimIdentity(p)
                                    /\ live' = live \cup {o} /\ UNCHANGED <<stayed, remained>>
    /\ UNCHANGED <<discovery, inputs, askedLists, collected, skipped, flux, owners, stage>>

-----------------------------------------------------------------------------
(* discovery.rs: list_present_custom_resource_kinds, whose answer is cached.  *)

\* custom_resource_kind_present: a kind is asked for one object in each scope, until
\* one has some.
Probed(kind, rest) ==
    /\ stage = "discover"
    /\ probing' = [probing EXCEPT ![kind] = rest]
    /\ UNCHANGED <<mapCluster, inputs, catalogued, askedLists, collected, skipped, flux, owners, stage>>

\* Mutant: the first namespace without objects ends the probe.
Probe_once(kind) ==
    /\ refused' = refused
    /\ \E n \in probing[kind] :
         /\ Probed(kind, {})
         /\ discovered' = discovered \cup {k \in {kind} : \E o \in live : Covers(<<k, n>>, o)}

Probe(kind) ==
    /\ refused' = refused
    /\ \E n \in probing[kind] :
         IF \E o \in live : Covers(<<kind, n>>, o)
         THEN Probed(kind, {}) /\ discovered' = discovered \cup {kind}
         ELSE Probed(kind, probing[kind] \ {n}) /\ discovered' = discovered

\* 403 and 404 pass over a namespace, and nobody is told; so does 404 over a kind that is
\* asked for in all of them at once, where a 403 fails the whole discovery: see NativeMap.
ProbeRefused(kind) ==
    /\ discovered' = discovered
    /\ \E n \in probing[kind] :
         Probed(kind, probing[kind] \ {n}) /\ refused' = refused \cup {<<kind, n>>}

-----------------------------------------------------------------------------
(* list_resource_topology: with what the cache has of the custom kinds.       *)

Collects(kinds) ==
    /\ stage = "discover" /\ stage' = "collect"
    /\ stayed' = live
    /\ askedLists' = UNION {ListsOf(k, scope) : k \in NativeKinds \cup kinds}
    /\ UNCHANGED <<live, clusterChanges, inputs, collected, skipped, flux, owners>>

\* The kinds that the discovery has found are listed without another probe...
CataloguedMap ==
    /\ \A k \in DOMAIN probing : probing[k] = {}
    /\ Collects(discovered) /\ catalogued' = TRUE
    /\ UNCHANGED <<remained, probing, discovered, refused>>

\* ...and with nothing in the cache, no custom kind is listed at all: nobody has asked,
\* the answer has not come or is too old, or the discovery has failed.  What such a
\* discovery was told is not of this map.
NativeMap ==
    /\ Collects({}) /\ UNCHANGED catalogued
    /\ remained' = live /\ probing' = [k \in {} |-> {}] /\ discovered' = {} /\ refused' = {}

-----------------------------------------------------------------------------
(* topology_collection.rs and topology_dynamic.rs: the lists.                *)

\* A definition is kept by its labels alone, before the Flux index is read.
ListedObjects(o) == o.kind = "CustomResourceDefinition" /\ scope # {}
             => o.managed # NoOwner \/ o.owner # NoOwner

ListObjects(list) ==
    /\ stage = "collect" /\ list \in askedLists
    /\ askedLists' = askedLists \ {list}
    /\ collected' = collected \cup {o \in live : Covers(list, o) /\ ListedObjects(o)}
    /\ UNCHANGED <<mapCluster, discovery, inputs, skipped, flux, owners, stage>>

\* 403 and 404 cost the list, any other error the map.
ListForbidden(list) ==
    /\ stage = "collect" /\ list \in askedLists
    /\ askedLists' = askedLists \ {list}
    /\ skipped' = skipped \cup {list}
    /\ UNCHANGED <<mapCluster, discovery, inputs, collected, flux, owners, stage>>
ListFails ==
    /\ stage = "collect" /\ askedLists # {} /\ stage' = "failed"
    /\ UNCHANGED <<mapCluster, discovery, inputs, askedLists, collected, skipped, flux, owners>>

CollectionEnds ==
    /\ stage = "collect" /\ askedLists = {} /\ stage' = "owners"
    /\ UNCHANGED <<mapCluster, discovery, inputs, askedLists, collected, skipped, flux, owners>>

\* The owners are read last, and storage classes outside of the selection leave.
ReadOwners ==
    /\ stage = "owners"
    /\ flux' \in [kustomizations : FluxClusters, releases : FluxClusters]
    /\ owners' = ListOwners(flux'.kustomizations, flux'.releases)
    /\ collected' = {o \in collected :
                       o.kind = "StorageClass" /\ scope # {}
                       => GitOpsOwner(owners', o) # NoOwner \/ o.owner # NoOwner}
    /\ stage' = "built"
    /\ UNCHANGED <<mapCluster, discovery, inputs, askedLists, skipped>>

\* The other map: its four lists are taken as one here.
ReadNetwork ==
    /\ stage = "network"
    /\ network' \in NetworkInputs
    /\ stage' = "drawn"
    /\ UNCHANGED <<mapCluster, discovery, scope, askedLists, collected, skipped, flux, owners>>

TopologyNext ==
    \/ ClusterChanges \/ CataloguedMap \/ NativeMap
    \/ ListFails \/ CollectionEnds \/ ReadOwners \/ ReadNetwork
    \/ \E k \in DOMAIN probing : Probe(k) \/ ProbeRefused(k)
    \/ \E l \in askedLists : ListObjects(l) \/ ListForbidden(l)

TopologySpec == TopologyInit /\ [][TopologyNext]_topologyVars

-----------------------------------------------------------------------------
(* topology.rs: build_resource_topology.                                     *)

Noise(o) == o.kind = "ConfigMap" /\ o.name = <<"kube-root-ca.crt">>
Nodes == {o \in collected : ~Noise(o)}
\* Of two inputs with one name, one stays: uids tell them apart.
Owns == {e \in Nodes \X Nodes : e[2].owner = e[1].uid}
MissingOwner == {o \in Nodes : o.owner # NoOwner /\ ~\E e \in Owns : e[2] = o}

-----------------------------------------------------------------------------
(* topology_network.rs: services, routes and the Pods behind them, of inputs  *)
(* with routes, services, slices and pods.                        *)

Matches(service, pod) == service.selector # {} /\ service.selector \subseteq pod.labels
SlicesOf(in, service) == {s \in in.slices : s.service = service.name}
TargetsOf(in, slice) == {p \in in.pods : p.name \in slice.targets}
ServiceEdges(in, s) ==
    IF SlicesOf(in, s) = {} THEN {<<s.name, p.name>> : p \in {p \in in.pods : Matches(s, p)}}
    ELSE {<<s.name, l.name>> : l \in SlicesOf(in, s)}
         \cup UNION {{<<l.name, p.name>> : p \in TargetsOf(in, l)} : l \in SlicesOf(in, s)}
NetworkEdges(in) ==
    {<<"ingress", r>> : r \in {r \in in.routes : \E s \in in.services : s.name = r.to}}
    \cup UNION {ServiceEdges(in, s) : s \in in.services}

Linked(in, s) ==
    IF SlicesOf(in, s) = {} THEN {p \in in.pods : Matches(s, p)}
    ELSE UNION {TargetsOf(in, l) : l \in SlicesOf(in, s)}
NetworkWarnings(in) ==
    {s.name : s \in {s \in in.services :
       /\ ~s.external /\ Linked(in, s) = {}
       /\ SlicesOf(in, s) = {} \/ \E l \in SlicesOf(in, s) : l.targets # {}}}
    \cup {r.to : r \in {r \in in.routes : ~\E s \in in.services : s.name = r.to}}
    \cup {l.name : l \in {l \in in.slices : l.service = NoOwner}}

-----------------------------------------------------------------------------
(* Properties.                                                               *)

\* What the map leaves out of the kinds that it lists it says: an object of the
\* selection that was there during the whole collection is on the map, under its owner
\* or with a warning that the owner is missing, unless a warning names a list that would
\* have had it -- whatever the cluster did between the lists, and whatever lists were
\* forbidden.  What has no namespace may be left out of a selection of namespaces, but
\* not if it has an owner.  Of the custom kinds a map lists those of the discovery in the
\* cache, and gives no warning of the others; but of the kinds whose definitions it knew
\* such a discovery has missed none with an object that has been in the selection since
\* it began, unless it was refused where the object is.
MapsAreHonest ==
    stage = "built" =>
      /\ \A o \in stayed :
           \/ o \in collected
           \/ \E l \in skipped : Covers(l, o)
           \/ o.kind \in CustomKinds \ discovered
           \/ /\ scope # {}
              /\ IF o.kind \notin ClusterKinds THEN o.namespace \notin scope
                 ELSE o.kind \in CustomKinds \/ (o.managed = NoOwner /\ o.owner = NoOwner)
      /\ catalogued => \A o \in remained :
           \/ o.kind \in NativeKinds \cup discovered \/ o.kind \notin DOMAIN probing
           \/ \E l \in refused : Covers(l, o)
           \/ scope # {} /\ (o.kind \in ClusterKinds \/ o.namespace \notin scope)
      /\ \A o \in stayed : o.kind = "StorageClass" /\ GitOpsOwner(owners, o) # NoOwner
           => o \in collected \/ \E l \in skipped : Covers(l, o)
      /\ \A o \in Nodes \cap stayed, p \in stayed : p.uid = o.owner =>
           <<p, o>> \in Owns \/ o \in MissingOwner

\* A resource is said to belong to a Flux object only if a label says so or the
\* object claims it; and unless the index is called partial, a resource without an
\* owner is claimed by no Flux object at all.
OwnersAreHonest ==
    stage = "built" =>
      \A o \in Nodes :
        LET owner == GitOpsOwner(owners, o)
            claims(object) == Contains(object.entries, ClaimIdentity(o))
            all == ToSet(flux.kustomizations.objects) \cup ToSet(flux.releases.objects)
        IN  /\ owner # NoOwner =>
                 owner = o.managed \/ \E object \in all : object.name = owner /\ claims(object)
            /\ owner = NoOwner /\ ~owners.partial =>
                 /\ ~flux.kustomizations.fails /\ ~flux.releases.fails
                 /\ \A object \in all : ~claims(object)

\* Every service that is not external leads to a Pod or is named in a warning, or
\* its slices name no Pod; a Pod is led to only by services that select it or
\* whose slices name it; and every route leads to a service or is named.
NetworkIsExplained ==
    LET in == network
    IN  /\ \A s \in in.services :
             \/ s.external \/ s.name \in NetworkWarnings(in)
             \/ \E p \in in.pods : <<s.name, p.name>> \in NetworkEdges(in)
             \/ \E p \in in.pods, l \in in.slices :
                   {<<s.name, l.name>>, <<l.name, p.name>>} \subseteq NetworkEdges(in)
             \/ SlicesOf(in, s) # {} /\ \A l \in SlicesOf(in, s) : l.targets = {}
        /\ \A r \in in.routes : <<"ingress", r>> \in NetworkEdges(in) \/ r.to \in NetworkWarnings(in)
        /\ \A s \in in.services, p \in in.pods : <<s.name, p.name>> \in NetworkEdges(in)
             => SlicesOf(in, s) = {} /\ s.selector # {}

\* Both maps explain what they do not show of the kinds that they list.
MapsExplainThemselves == MapsAreHonest /\ NetworkIsExplained
=============================================================================
