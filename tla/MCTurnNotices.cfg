SPECIFICATION FairSpec
CONSTANTS
    Sessions = {1, 2}
    Hooks = {1, 2}
    Worlds <- MCWorlds
    TTL = 1
    MaxFragments = 2
    MaxVisits = 2
    MaxRemovals = 1
    Prompts <- MCPrompts
    Name <- MCName
    DetailTTL = 1
    MaxDetails = 2
    DetailVisits = 2
    DetailRemovals = 1
    MaxTurns = 3
INVARIANTS
    TypeOK
    ShownOnce
    NoticeComplete
PROPERTIES
    ExpiredGoes
CHECK_DEADLOCK FALSE
