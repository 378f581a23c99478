SPECIFICATION Spec
CONSTANTS
    Connects = {c1, c2}
    Ids = {i1}
    Scopes = {w1}
    Tunneled = {}
    Legacy = {}
    Disconnects = {}
    Cleanups = {}
    Holders = {r1}
    Runs = {r1}
    Sessions = {s1}
    Asks <- RememberedAsks
    Requests <- ConnectedRequests
    MaxVersion = 0
    MaxRestarts = 1
    Nil = Nil
INVARIANTS
    ReviewsSurviveRestarts
CHECK_DEADLOCK FALSE
