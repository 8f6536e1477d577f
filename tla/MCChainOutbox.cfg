SPECIFICATION FairSpec
CONSTANTS
    p = p
    q = q
    Prefixes <- MCPrefixes
    PrefixLists <- MCPrefixLists
    BatchSize = 2
    MaxChanges = 3
    MaxFaults = 3
    MaxResets = 1
    Torn = Torn
INVARIANTS
    TypeOK
    OutboxIsQueue
    NothingCrossesReset
    RegistryCaughtUp
PROPERTIES
    LatestNeverRegresses
    EventuallyCommitted
CHECK_DEADLOCK FALSE
