SPECIFICATION Spec
CONSTANTS
    Steps = 3
    RunAhead = 2
    Tables = 2
    WarmN = 1
INVARIANTS
    WarmupExact
CHECK_DEADLOCK FALSE
