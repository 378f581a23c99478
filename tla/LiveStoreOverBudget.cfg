SPECIFICATION Spec
CONSTANTS
    all = all
    named = named
    podA = podA
    r1 = r1
    r2 = r2
    resources = resources
    Readers = {r1, r2}
    Areas = {resources}
    Keys <- TwoKeys
    Objects <- TwoObjects
    AreaOf <- TwoArea
    Covers <- TwoCovers
    CoveredBy <- TwoCoveredBy
    Marks <- TwoMarks
    Freshness <- TwoFreshness
    MaxEntries = 1
    MaxLoads = 3
    MaxVersion = 0
    MaxTime = 0
INVARIANTS
    ReadyWithinBudget
CHECK_DEADLOCK FALSE
