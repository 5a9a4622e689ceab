SPECIFICATION Spec
CONSTANTS
    Steps = 4
    RunAhead = 2
    Tables = 2
    WarmN = 0
INVARIANTS
    StockPathAlone
CHECK_DEADLOCK FALSE
