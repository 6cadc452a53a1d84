CONSTANTS
    s1 = s1
    s2 = s2
    p1 = p1
    p2 = p2
    p3 = p3
    db = db
    none = none
    day1 = day1
    day2 = day2
    Sessions <- MCSessions
    Paths <- MCPaths
    Root = root
    SessionOf <- MCSessionOf
    DirOf <- MCDirOf
    Worlds <- MCWorlds
    Databases = {db}
    NoDatabase = none
    TailRecords = 3
    MaxMessages = 2
    MaxBytes = 3
    MaxRows = 1
    ChunkMessages = 2
    ChunkBytes = 2
    MaxVersions = 2
    Midnight = 4
SPECIFICATION Spec
INVARIANTS
    TypeOK
    NothingMissed
    SentOnce
