SPECIFICATION Spec
CONSTANTS
    parent = parent
    child = child
    file1 = file1
    file2 = file2
    Sessions <- MCSessions
    Original <- file1
    Copy <- file2
    Layouts <- MCLayouts
    HashRank <- MCHashRank
    Answers <- MCAnswers
    OldAgents <- NoAgents
    RunningAgents <- MCRunningAgents
    MaxRecords = 3
    MaxRounds = 2
INVARIANTS
    UseNeverTwice
CHECK_DEADLOCK FALSE
