SPECIFICATION Spec
CONSTANTS
    Sessions = {1, 2}
    Hooks = {1, 2}
    Worlds <- MCTwoLive
    TTL = 1
    MaxFragments = 2
    MaxVisits = 2
    MaxRemovals = 1
    Prompts <- MCPrompts
    Name <- MCName
    DetailTTL = 1
    MaxDetails = 2
    DetailVisits = 2
    DetailRemovals = 1
    MaxTurns = 1
INVARIANTS
    SessionsIsolated
CHECK_DEADLOCK FALSE
