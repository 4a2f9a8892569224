SPECIFICATION Spec
CONSTANTS
    p1 = p1
    p2 = p2
    q1 = q1
    q2 = q2
    q3 = q3
    None = None
INVARIANTS
    AnswersAreTrue
    AdmittedSequenceCompletes
    TailHasNoGap
PROPERTIES
    FailoverMovesOn
CHECK_DEADLOCK FALSE
