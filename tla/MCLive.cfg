SPECIFICATION LiveSpec
CONSTANTS
    Direct = {dex}
    Auction = {auction}
    RouteType <- Routes
    NoOwner = NoOwner
    SolverExposure = 1
    MaximumDailyLoss = 2
    GlobalLossLimit = 2
    MaxForeign = 1
    Proc = {p1}
    WorstCaseFee = 1
    MaxFaults = 1
PROPERTY
    SettledInTheEnd
