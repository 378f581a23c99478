SPECIFICATION SwitchSpec
CONSTANTS
    q1 = q1
    poll = poll
    list = list
    prod = prod
    Anonymous = Anonymous
    Nowhere = Nowhere
    Requests = {q1}
    RequestNames = {poll}
    NameOf <- OneName
    CancelScopes = {list}
    ScopeOf <- OneScope
    Contexts = {prod}
    ContextOf <- OneContext
    CacheEntries = 1
    MaxFiles = 0
    MaxRotations = 1
    Workspaces = {w1, w2}
INVARIANTS
    OldWorkIsCancelled
CHECK_DEADLOCK FALSE
