SPECIFICATION FairSpec
CONSTANTS
    Steps = 5
    RunAhead = 2
    Tables = 2
    WarmN = 1
INVARIANTS
    TypeOK
    FastServesOnePrediction
    RowsInFlight
    OneMoreAtMost
    NewerWorkerAlone
PROPERTIES
    StepsEnd
CHECK_DEADLOCK FALSE
