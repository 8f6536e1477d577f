SPECIFICATION Spec
CONSTANTS
    NodeCount = 2
    Fanout = 2
    RootLen = 1
    MaxPrefixLen = 2
    SplitThreshold = 1
    EmptySummary = e
    Summaries = {}
    Clients = {c1}
    Keywords <- MCKeywords
    Fids = {f1, f2}
    RingHash <- MCHash
    AdsHash <- MCHash
    ImportMode = "replace_prefix"
    MaxRequests = 4
    MaxFailures = 0
    MaxResets = 0
    NoRoute = NoRoute
INVARIANTS
    QueryableThroughoutMigration
CHECK_DEADLOCK FALSE
