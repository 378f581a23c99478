SPECIFICATION PartsSpec
CONSTANTS
    q1 = q1
    q2 = q2
    poll = poll
    list = list
    prod = prod
    dev = dev
    Anonymous = Anonymous
    Nowhere = Nowhere
    Requests = {q1, q2}
    RequestNames = {poll}
    NameOf <- OneName
    CancelScopes = {list}
    ScopeOf <- OneScope
    Contexts = {prod, dev}
    ContextOf <- TwoContexts
    CacheEntries = 1
    MaxFiles = 0
    MaxRotations = 1
    Workspaces = {w1, w2}
    Streams = {s1, s2}
    ResourceKeys = {pods, nodes}
    EventKeys = {events}
    Broadcasters = {b1, b2}
    None = None
    Connects = {c1, c2}
    Ids = {i1}
    Scopes = {work}
    Tunneled = {}
    Legacy = {i1}
    Disconnects = {d1}
    Cleanups = {k1}
    Holders = {h1}
    Asks <- RememberedAsks
    Nil = Nil
    InspectAsks <- Inspections
    ManagedStates <- StatesOfResources
    ManagedNames = {"s"}
    ReadErrors = {"network", "argoApi"}
    MaxAppChanges = 1
    Whole = Whole
    ReleaseInputs <- AllListings
    ManifestInputs <- AllManifests
    MaxObjectChanges = 1
    Loaders = {l1}
    Paths = {"p1", "p2", "p3"}
    DefaultPath = "p1"
    Edits <- UserEdits
    Environments <- Variables
    Unset = Unset
    Files <- Contents
    Unreadable = Unreadable
    MaxSettingsSteps = 4
    Cluster <- MapObjects
    CustomKinds = {"Widget"}
    ClusterKinds = {"StorageClass", "CustomResourceDefinition"}
    Selections <- MapScopes
    FluxClusters <- FluxStates
    NetworkInputs <- Networks
    MaxFluxOwners = 2
    MaxFluxEntries = 1
    MaxClusterChanges = 1
    AllNamespaces = AllNamespaces
    Malformed = Malformed
    NoOwner = NoOwner
    IncidentNamespaces = {"a", "b"}
    PodStates <- PodsSeen
    MaxWarningEvents = 1
    MaxIncidentChanges = 1
    AccessObjects <- Grants
    Clusterwide = "none"
    MaxAccessChanges = 1
    Objects <- ShownObjects
    Typed <- Documents
    ForceAlways = FALSE
    YamlCalls = {y1, y2}
    MaxEdits = 1
    MaxTakeovers = 1
    Blank = Blank
    Workloads <- PanelWorkloads
    ReplicaInputs <- TypedReplicas
    OperationCalls = {o1, o2}
    MaxOperationSteps = 3
    ServiceSpecs <- Services
    BackendPods = {1, 2}
    PodSpecs <- Backends
    ForwardPorts = {80, 443}
    MaxBackendChanges = 1
    NoTarget = NoTarget
    UsageScopes <- SampledScopes
    UsageClusters <- SampledClusters
    SampledPods <- Uses
    ReplicaSets <- Sets
    MaxUsage = 3
    MaxUsageChanges = 1
    AnyNamespace = AnyNamespace
    Unowned = Unowned
    NoUsage = NoUsage
    TooMuch = TooMuch
INVARIANTS
    RequestsAreAccountedFor
    RegistryIsSound
    StreamsAreServedUntilStopped
    GenerationNamesToken
    InspectionsAreHonest
    HelmAnswersAreHonest
    KeysNameSources
    MapsExplainThemselves
    OwnersAreHonest
    IncidentsAreHonest
    BindingsAreClassified
    AccessReachesNamespaces
    UsageIsHonest
    ReviewsAreApplied
    ChangesWerePreviewed
PROPERTIES
    TargetsAreHonest
CHECK_DEADLOCK FALSE
