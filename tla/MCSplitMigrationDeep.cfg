SPECIFICATION Spec
CONSTANTS
    NodeCount = 2
    Fanout = 2
    RootLen = 1
    MaxPrefixLen = 3
    SplitThreshold = 1
    EmptySummary = e
    Summaries = {}
    Clients = {c1, c2}
    Keywords <- MCKeywords3
    Fids = {f1, f2}
    RingHash <- MCHash3
    AdsHash <- MCAdsHash3
    ImportMode = "replace_keyword"
    MaxRequests = 5
    MaxFailures = 0
    MaxResets = 0
    NoRoute = NoRoute
SYMMETRY Symmetry
INVARIANTS
    AcknowledgedAddKept
    ReadYourWrites
CHECK_DEADLOCK FALSE
