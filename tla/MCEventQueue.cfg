CONSTANTS
    turn = turn
    snapshot = snapshot
    bad = bad
    decision = decision
    IDs <- MCIDs
    Snapshots <- MCSnapshots
    Size <- MCSize
    MaxAge = 0
    MaxBytes = 4
    Legacy <- MCLegacy
    daemon = daemon
    hook = hook
    Drainers <- MCDrainers
    Daemon <- daemon
    AppendBatches <- MCBatches
    BatchSize = 3
    MaxBody = 3
    MaxPost = 2
    Poison <- MCPoison
    Unmatched <- MCUnmatched
    MaxSeq = 4
    MaxTime = 1
SPECIFICATION FairSpec
INVARIANTS
    TypeOK
    StoreConsistent
    BytesConsistent
    CapacityRespected
    OneSender
    DeliveredWasAccepted
    QuarantineJustified
PROPERTIES
    EventsLeaveForAReason
    IsOutbox
    EventuallySettled
    DrainEnds
CHECK_DEADLOCK FALSE
