SPECIFICATION Spec
CONSTANTS
    r1 = r1
    r2 = r2
    None = None
INVARIANTS
    LiveIsAligned
    SizedByEvidence
    ReadyIsEvidenced
    CommitsOnCurrentRows
PROPERTIES
    AuthorityIsBound
CHECK_DEADLOCK FALSE
