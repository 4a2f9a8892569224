SPECIFICATION FairSpec
CONSTANTS
    e1 = e1
    d1 = d1
    r1 = r1
    g1 = g1
    a = a
    none = none
PROPERTIES
    DeliveredInTheEnd
    FinishedInTheEnd
CHECK_DEADLOCK FALSE
