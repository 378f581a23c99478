SPECIFICATION Spec
CONSTANTS
    Starts = {s1, s2}
    Conns = {}
    Ports = {p1}
    AnyPort = AnyPort
    None = None
    prod = prod
    dev = dev
    home = home
    work = work
    Contexts = {prod, dev}
    Sources = {home, work}
    Scopes <- TwoWorkspaces
    MaxAcceptFailures = 1
    MaxSwitches = 1
INVARIANTS
    SessionsStayInScope
CHECK_DEADLOCK FALSE
