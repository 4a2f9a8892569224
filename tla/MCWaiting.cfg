SPECIFICATION FairSpec
CONSTANTS
    p1 = p1
    p2 = p2
    q1 = q1
    q2 = q2
    None = None
PROPERTY
    NobodyWaitsForEver
CHECK_DEADLOCK FALSE
