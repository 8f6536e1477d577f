SPECIFICATION FairSpec
CONSTANTS
    NodeCount = 2
    Fanout = 2
    RootLen = 1
    MaxPrefixLen = 2
    SplitThreshold = 0
    EmptySummary = e
    Summaries = {}
    Clients = {c1, c2}
    Keywords <- MCKeywords2
    Fids = {f1}
    RingHash <- MCHash2
    AdsHash <- MCHash2
    ImportMode = "replace_prefix"
    MaxRequests = 4
    MaxFailures = 1
    MaxResets = 1
    NoRoute = NoRoute
PROPERTIES
    MigrationsEnd
    BufferedOperationsApplied
CHECK_DEADLOCK FALSE
