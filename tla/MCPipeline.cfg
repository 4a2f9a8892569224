SPECIFICATION PipelineSpec
CONSTANTS
    e1 = e1
    e2 = e2
    g1 = g1
    g2 = g2
    a = a
    b = b
    None = None
    Dispatcher = {d1, d2}
    Row = {r1, r2}
    NoOwner = NoOwner
    ClaimBatch = 2
    MaxFaults = 1
    MaxCrashes = 1
    MaxExpiries = 1
    MaxWindows = 1
INVARIANTS
    AckedIsKept
    PublishedIsDelivered
    CopiesBounded
    ReadyIsHonest
    RemovedIsClassified
    EvidenceIsExact
PROPERTIES
    LeaseHonoured
    DecidedOnce
CHECK_DEADLOCK FALSE
