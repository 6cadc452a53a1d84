SPECIFICATION Spec
CONSTANTS
    root = root
    fork = fork
    NoSession = NoSession
    NoCursor = NoCursor
    Sessions <- MCSessions
    ParentOf <- MCParentOf
    LegacyOf <- NoLegacy
    Worlds <- OnlySplit
    SeedTail = 2
    MaxTurns = 3
    MaxTotal = 2
INVARIANTS
    NoInheritedUsage
CHECK_DEADLOCK FALSE
