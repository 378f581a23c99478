SPECIFICATION FairSpec
CONSTANTS
    all = all
    named = named
    podA = podA
    r1 = r1
    r2 = r2
    resources = resources
    Readers = {r1, r2}
    Areas = {resources}
    Keys <- OneKeys
    Objects <- OneObjects
    AreaOf <- OneArea
    Covers <- OneCovers
    CoveredBy <- OneCoveredBy
    Marks <- OneMarks
    Freshness <- OneFreshness
    MaxEntries = 1
    MaxLoads = 3
    MaxVersion = 1
    MaxTime = 0
INVARIANTS
    CacheIsSound
    CleanReflectsEvents
PROPERTIES
    ReadsNeverGoBack
    CancelledWaitersReturn
CHECK_DEADLOCK FALSE
