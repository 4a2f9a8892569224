SPECIFICATION LanesSpec
CONSTANTS
    dex = dex
    aave = aave
    Direct = {dex, aave}
    Auction = {auction}
    RouteType <- Routes
    NoOwner = NoOwner
    SolverExposure = 1
    MaximumDailyLoss = 1
    GlobalLossLimit = 1
    MaxForeign = 0
    Proc = {p1}
    WorstCaseFee = 1
    MaxFaults = 1
INVARIANTS
    OwnAuthority
    BroadcastNeverForgotten
    LockCoversInFlight
    DailyLossBounded
    NoNonceGap
    CandidateTellsTheTruth
PROPERTY
    ImplementsLock
