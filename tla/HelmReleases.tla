----------------------------- MODULE HelmReleases -----------------------------
(* Helm releases: list_helm_releases of commands/helm/storage.rs, and the    *)
(* comparison of a release's manifest with the cluster of                    *)
(* commands/helm/reconciliation.rs, while the cluster changes.               *)
(*                                                                          *)
(* A stored release is one revision in one Secret or ConfigMap; an object is  *)
(* named by its kind, namespace and name, and two releases can have the same  *)
(* name in different namespaces.                                             *)
EXTENDS Naturals, Sequences, FiniteSets

CONSTANTS
    ReleaseInputs,    \* what a listing may find: the stored releases, the namespaces that
                      \* can be listed, the default one, and the lists that are allowed
    ManifestInputs,   \* what a comparison may start from: the release's namespace and
                      \* manifest, the kinds discovered, and the objects there may be
    MaxObjectChanges  \* bound on the changes of the cluster during a comparison

VARIABLES
    listing,        \* the input of list_helm_releases
    releases,       \* its answer
    release,        \* the input of get_helm_release_reconciliation
    here,           \* object -> "absent", "labelled" or "plain", in the cluster
    objectChanges,  \* changes of objects so far
    phase,          \* of the comparison: "lookup", "scan" or "done"
    remaining,      \* manifest entries to look up, or the kinds to scan
    rows,           \* object -> its row, if it has one
    unidentified,   \* rows of entries that name no object
    been            \* history: object -> the states it had during the comparison

listingVars == <<listing, releases>>
helmVars == <<listing, releases, release, here, objectChanges, phase, remaining, rows,
              unidentified, been>>

-----------------------------------------------------------------------------
(* list_helm_releases                                                       *)

StorageKinds == <<"Secret", "ConfigMap">>

\* helm_fallback_namespaces: none are listed if they may not be listed.
FallbackNamespaces(in) ==
    IF in.namespaces = {} /\ in.default # "" THEN {in.default} ELSE in.namespaces

\* list_secret_releases and list_configmap_releases: everywhere, else by namespace.
Everywhere(in, kind) == <<kind, "all">> \in in.allowed
ReadIn(in, kind) ==
    IF Everywhere(in, kind) THEN in.everyNamespace
    ELSE {n \in FallbackNamespaces(in) : <<kind, n>> \in in.allowed}
Failed(in, kind) ==
    ~Everywhere(in, kind) /\ FallbackNamespaces(in) # {} /\ ReadIn(in, kind) = {}

\* secret_record: without a decoded release the labels give name and revision,
\* and a release without a revision counts as revision 0.
Records(in, kind) == {r \in in.stored : r.kind = kind /\ r.namespace \in ReadIn(in, kind)}

SameRelease(r, s) == r.namespace = s.namespace /\ r.name = s.name

\* latest_releases: a record replaces another of its release when its revision is
\* greater, Secrets first.
Precedes(r, s) == r.kind = "Secret" /\ s.kind = "ConfigMap"

\* Helm names what it stores after the release and its revision, and there always is
\* a namespace.
ASSUME ReleasesAssumption ==
    \A in \in ReleaseInputs :
        /\ IsFiniteSet(in.stored) /\ in.everyNamespace # {}
        /\ \A r \in in.stored : r.revision \in Nat /\ r.kind \in {"Secret", "ConfigMap"}
        /\ \A r, s \in in.stored :
              SameRelease(r, s) /\ r.kind = s.kind /\ r.revision = s.revision => r = s

Latest(records) ==
    {r \in records : \A s \in records \ {r} : SameRelease(r, s) =>
        s.revision < r.revision \/ (s.revision = r.revision /\ Precedes(r, s))}

ReadableRecords(in) == Records(in, "Secret") \cup Records(in, "ConfigMap")
ListReleases(in) ==
    IF ReadableRecords(in) = {} /\ \E i \in 1..2 : Failed(in, StorageKinds[i])
    THEN [at |-> "error", found |-> {}]
    ELSE [at |-> "listed", found |-> Latest(ReadableRecords(in))]

List ==
    /\ releases.at = "asked"
    /\ releases' = ListReleases(listing)
    /\ UNCHANGED <<listing, release, here, objectChanges, phase, remaining, rows, unidentified, been>>

-----------------------------------------------------------------------------
(* get_helm_release_reconciliation                                          *)

\* The kinds of COMMON_LABEL_SCAN_KINDS that the inputs use.
CommonKinds == {"ConfigMap", "Secret", "Service"}
KindOf(in, k) == CHOOSE d \in in.discovered : d.kind = k
Discovered(in, k) == \E d \in in.discovered : d.kind = k

\* resource_identity_from_manifest: an entry that lacks a field, or is of a kind
\* that discovery does not have, names no object.
Identified(in, ref) == ref.kind # "" /\ ref.name # "" /\ Discovered(in, ref.kind)
Identity(in, ref) ==
    [kind |-> ref.kind, name |-> ref.name,
     namespace |-> IF ~KindOf(in, ref.kind).namespaced THEN "-"
                   ELSE IF ref.namespace = "" THEN in.namespace ELSE ref.namespace]
ManifestObjects(in) == {Identity(in, ref) : ref \in {r \in in.manifest : Identified(in, r)}}

ASSUME ManifestsAssumption ==
    \A in \in ManifestInputs :
        /\ IsFiniteSet(in.manifest) /\ IsFiniteSet(in.objects)
        /\ ManifestObjects(in) \subseteq in.objects

HelmInit ==
    /\ listing \in ReleaseInputs
    /\ releases = [at |-> "asked", found |-> {}]
    /\ release \in ManifestInputs
    /\ here \in [release.objects -> {"absent", "labelled", "plain"}]
    /\ objectChanges = 0
    /\ phase = "lookup"
    /\ remaining = release.manifest
    /\ rows = [o \in {} |-> ""]
    /\ unidentified = {}
    /\ been = [o \in release.objects |-> {here[o]}]

AddRow(o, status) == rows' = [p \in DOMAIN rows \cup {o} |-> IF p = o THEN status ELSE rows[p]]
LookedUp(state) ==
    CASE state = "absent" -> "missing" [] state = "labelled" -> "tracked"
      [] OTHER -> "unlabeled_live"

\* The next entry of the manifest, one request each; a request that fails for any
\* other reason than 404 makes the row unavailable.
LookUpObject ==
    /\ phase = "lookup"
    /\ \E ref \in remaining :
         /\ remaining' = remaining \ {ref}
         /\ IF ~Identified(release, ref)
            THEN unidentified' = unidentified \cup {ref} /\ UNCHANGED rows
            ELSE LET o == Identity(release, ref)
                 IN  /\ AddRow(o, LookedUp(here[o])) \/ AddRow(o, "unavailable")
                     /\ UNCHANGED unidentified
    /\ UNCHANGED <<listingVars, release, here, objectChanges, phase, been>>

\* conservative_label_scan_kinds: the kinds of the manifest, and common ones.
ScanKinds(in) ==
    {d.kind : d \in {e \in in.discovered :
        (\E o \in ManifestObjects(in) : o.kind = e.kind)
        \/ (e.namespaced /\ e.kind \in CommonKinds)}}

StartScan ==
    /\ phase = "lookup" /\ remaining = {}
    /\ phase' = "scan"
    /\ remaining' = ScanKinds(release)
    /\ UNCHANGED <<listingVars, release, here, objectChanges, rows, unidentified, been>>

\* What a list with the release's label returns: in the release's namespace, or in
\* the cluster.
Labelled(kind) ==
    {o \in release.objects :
        o.kind = kind /\ here[o] = "labelled"
        /\ (KindOf(release, kind).namespaced => o.namespace = release.namespace)}

\* Mutant: what the scan finds replaces the rows of the manifest.
Scan_replaces ==
    /\ phase = "scan"
    /\ \E kind \in remaining :
         /\ remaining' = remaining \ {kind}
         /\ \/ rows' = [o \in DOMAIN rows \cup Labelled(kind) |->
                          IF o \in Labelled(kind) THEN "label_only" ELSE rows[o]]
            \/ UNCHANGED rows
    /\ UNCHANGED <<listingVars, release, here, objectChanges, phase, unidentified, been>>

\* scan_label_only_resources: an object that has a row keeps it; a list that fails
\* is a warning.
Scan ==
    /\ phase = "scan"
    /\ \E kind \in remaining :
         /\ remaining' = remaining \ {kind}
         /\ \/ rows' = [o \in DOMAIN rows \cup Labelled(kind) |->
                          IF o \in DOMAIN rows THEN rows[o] ELSE "label_only"]
            \/ UNCHANGED rows
    /\ UNCHANGED <<listingVars, release, here, objectChanges, phase, unidentified, been>>

Report ==
    /\ phase = "scan" /\ remaining = {}
    /\ phase' = "done"
    /\ UNCHANGED <<listingVars, release, here, objectChanges, remaining, rows, unidentified, been>>

\* Someone creates, deletes or labels an object meanwhile.
ObjectChanges ==
    /\ phase # "done" /\ objectChanges < MaxObjectChanges
    /\ \E o \in release.objects, state \in {"absent", "labelled", "plain"} :
         /\ here[o] # state
         /\ here' = [here EXCEPT ![o] = state]
         /\ been' = [been EXCEPT ![o] = @ \cup {state}]
    /\ objectChanges' = objectChanges + 1
    /\ UNCHANGED <<listingVars, release, phase, remaining, rows, unidentified>>

\* reconciliation_totals
Total(status) == Cardinality({o \in DOMAIN rows : rows[o] = status})
                 + (IF status = "unavailable" THEN Cardinality(unidentified) ELSE 0)
Statuses == {"tracked", "unlabeled_live", "missing", "label_only", "unavailable"}

HelmNext == List \/ LookUpObject \/ StartScan \/ Scan \/ Report \/ ObjectChanges

HelmSpec == HelmInit /\ [][HelmNext]_helmVars

-----------------------------------------------------------------------------
(* Properties.                                                              *)

\* Of everything the listing could read, it shows each release once, by its newest
\* revision; an answer that is not an error has read something, unless there was
\* no namespace to fall back to.
ReleasesAreNewest ==
    releases.at # "asked" =>
        LET read == ReadableRecords(listing)
            shown == releases.found
        IN  /\ releases.at = "listed" =>
                 /\ \A r \in read : \E s \in shown : SameRelease(r, s) /\ s.revision >= r.revision
                 /\ shown \subseteq read
                 /\ \A r, s \in shown : SameRelease(r, s) => r = s
                 /\ read # {} \/ FallbackNamespaces(listing) = {}
                    \/ \E i \in 1..2 : ReadIn(listing, StorageKinds[i]) # {}
            /\ releases.at = "error" => read = {}

\* A comparison that overlaps changes still says nothing untrue: a row tells a
\* state that its object had during the comparison; an object of the manifest has
\* exactly one row, and never one as unknown to the manifest; an object that kept
\* its state and could be asked for has the row of that state.
RowsTellTheTruth ==
    /\ \A o \in DOMAIN rows :
         /\ rows[o] = "missing" => "absent" \in been[o]
         /\ rows[o] \in {"tracked", "label_only"} => "labelled" \in been[o]
         /\ rows[o] = "unlabeled_live" => "plain" \in been[o]
         /\ rows[o] = "label_only" <=> o \notin ManifestObjects(release)
    /\ phase # "lookup" =>
         /\ ManifestObjects(release) \subseteq DOMAIN rows
         /\ Total("tracked") + Total("unlabeled_live") + Total("missing") + Total("label_only")
              + Total("unavailable") = Cardinality(DOMAIN rows) + Cardinality(unidentified)
         /\ \A o \in ManifestObjects(release) :
              been[o] = {"absent"} => rows[o] \in {"missing", "unavailable"}

\* The list shows the newest of what could be read, and the comparison of a release
\* says of an object what was true of it (list_helm_releases and
\* get_helm_release_reconciliation).
HelmAnswersAreHonest == ReleasesAreNewest /\ RowsTellTheTruth
=============================================================================
