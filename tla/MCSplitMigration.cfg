SPECIFICATION Spec
CONSTANTS
    NodeCount = 2
    Fanout = 2
    RootLen = 1
    MaxPrefixLen = 2
    SplitThreshold = 1
    EmptySummary = e
    Summaries = {}
    Clients = {c1, c2}
    Keywords <- MCKeywords
    Fids = {f1, f2}
    RingHash <- MCHash
    AdsHash <- MCHash
    ImportMode = "replace_prefix"
    MaxRequests = 5
    MaxFailures = 1
    MaxResets = 1
    NoRoute = NoRoute
SYMMETRY Symmetry
INVARIANTS
    TypeOK
    AcknowledgedAddKept
    AcknowledgedDeleteKept
    ReadYourWrites
CHECK_DEADLOCK FALSE
