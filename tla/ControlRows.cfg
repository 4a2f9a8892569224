SPECIFICATION Spec
CONSTANTS
    None = None
    Running = {"executor", "supervisor", "hunter"}
INVARIANT
    TerminatesOnlyOnIntegrity
