SPECIFICATION Spec
CONSTANTS
    Reqs <- MCReqs
    Steps = 5
    WarmN = 1
INVARIANTS
    PredictedForThisStep
CHECK_DEADLOCK FALSE
