SPECIFICATION TasksSpec
CONSTANTS
    q1 = q1
    poll = poll
    list = list
    prod = prod
    Anonymous = Anonymous
    Nowhere = Nowhere
    Requests = {q1}
    RequestNames = {poll}
    NameOf <- OneName
    CancelScopes = {list}
    ScopeOf <- OneScope
    Contexts = {prod}
    ContextOf <- OneContext
    CacheEntries = 1
    MaxFiles = 1
    MaxRotations = 3
    w1 = w1
    Workspaces = {w1, w2}
    Streams = {s1, s2}
    ResourceKeys = {pods}
    EventKeys = {events}
    Broadcasters = {b1, b2, b3}
    None = None
    Names = {n1}
    Subjects <- WatchSubjects
    MaxRevision = 2
INVARIANTS
    RestsOnWhatIsThere
    QuietViewsShowWhatTheyHeard
PROPERTIES
    RotatesOnlySuspended
    SwitchesEnd
    UnheardTasksEnd
    ChangesAreReached
CHECK_DEADLOCK FALSE
