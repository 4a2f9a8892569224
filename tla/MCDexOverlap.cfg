SPECIFICATION BothSpec
CONSTANTS
    d1 = d1
    d2 = d2
    p1 = p1
    p2 = p2
    Both = Both
    Direct = {d1, d2}
    Auction = {}
    RouteType <- Routes
    NoOwner = NoOwner
    SolverExposure = 1
    MaximumDailyLoss = 1
    GlobalLossLimit = 1
    MaxForeign = 1
    Proc = {p1, p2}
    WorstCaseFee = 1
    MaxFaults = 1
INVARIANT
    OneSubmissionAtATime
