SPECIFICATION HomeSpec
CONSTANTS
    Starts = {s1, s2}
    Conns = {c1}
    Ports = {p1}
    AnyPort = AnyPort
    None = None
    prod = prod
    dev = dev
    home = home
    work = work
    Contexts = {prod, dev}
    Sources = {home, work}
    Scopes <- TwoSources
    MaxAcceptFailures = 2
    MaxSwitches = 1
INVARIANTS
    ForwardsAreSound
    TunnelsAreStoppable
    OnlyLateStartsSurvive
PROPERTIES
    StoppedTunnelsClose
CHECK_DEADLOCK FALSE
