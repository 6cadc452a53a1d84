SPECIFICATION Spec
CONSTANTS
    parent = parent
    child = child
    file1 = file1
    file2 = file2
    Sessions <- MCSessions
    Original <- file1
    Copy <- file2
    Layouts <- MCLayouts
    HashRank <- MCHashRank
    Answers <- CachedAnswers
    OldAgents <- NoAgents
    RunningAgents <- NoAgents
    MaxRecords = 4
    MaxRounds = 2
INVARIANTS
    TiersAddUp
CHECK_DEADLOCK FALSE
