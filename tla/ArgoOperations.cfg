SPECIFICATION Spec
CONSTANTS
    Connects = {c1, c2}
    Ids = {i1}
    Scopes = {w1}
    Tunneled = {i1}
    Legacy = {}
    Disconnects = {}
    Cleanups = {k1}
    Holders = {r1, r2}
    Runs = {r1, r2}
    Sessions = {s1}
    Asks <- SubmittedAsks
    Requests <- MixedRequests
    MaxVersion = 1
    MaxRestarts = 1
    Nil = Nil
SYMMETRY Symmetry
INVARIANTS
    ConnectionsAreKept
    SessionsAreSingleUse
CHECK_DEADLOCK FALSE
