SPECIFICATION Spec
CONSTANTS
    e1 = e1
INVARIANTS
    ConfiguredBeforeUse
    OneExecutor
    RequestsAreGrounded
PROPERTIES
    DecisionsStand
CHECK_DEADLOCK FALSE
