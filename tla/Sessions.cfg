SPECIFICATION SessionsSpec
CONSTANTS
    shell = shell
    w1 = w1
    Sessions = {shell}
    Interactive = {shell}
    Writes = {w1, w2}
    Resizes = {z1}
    Streams = {terminal}
    Target <- MCTarget
    Size <- MCSize
    ChunkBytes = 2
    PendingBytes = 2
    Capacity = 2
    MaxOutput = 1
    None = None
    Connects = {c1, c2}
    Ids = {i1}
    Scopes = {work}
    Tunneled = {i1}
    Legacy = {}
    Disconnects = {d1}
    Cleanups = {k1}
    Holders = {h1}
    Asks <- ConnectAsks
    Nil = Nil
    Sources = {1, 2}
    Targets <- LogTargets
    MaxSources = 1
    TailLines = 1
    MaxLines = 1
    MaxPodChanges = 2
INVARIANTS
    ShellsAreSound
    PendingWithinBudget
    LinesAreShownOnce
PROPERTIES
    WantedSourcesAreFollowed
    ShellsEnd
    CleanupsEnd
CHECK_DEADLOCK FALSE
