SPECIFICATION FairSpec
CONSTANTS
    Reqs <- MCReqs
    Steps = 5
    WarmN = 1
INVARIANTS
    TypeOK
    UsedRowsNewest
    VerifiedFirst
PROPERTIES
    StepsPassTheWorker
CHECK_DEADLOCK FALSE
