SPECIFICATION Spec
CONSTANTS
    NodeCount = 2
    Fanout = 2
    RootLen = 1
    MaxPrefixLen = 3
    SplitThreshold = 1
    EmptySummary = e
    Summaries = {r}
    MaxCounter = 2
    MaxEntries = 6
    MaxIncoming = 2
INVARIANTS
    TypeOK
    LeavesTileKeySpace
    LookupsAgree
    RegistryMatchesRing
PROPERTY
    ImplementsDirectory
