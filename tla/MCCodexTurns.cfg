SPECIFICATION Spec
CONSTANTS
    root = root
    fork = fork
    NoSession = NoSession
    NoCursor = NoCursor
    Sessions <- MCSessions
    ParentOf <- MCParentOf
    LegacyOf <- MCLegacyOf
    Worlds <- AloneAndForked
    SeedTail = 2
    MaxTurns = 2
    MaxTotal = 2
INVARIANTS
    TypeOK
    UseIsExact
    NothingSkipped
    EachTurnOnce
CHECK_DEADLOCK FALSE
