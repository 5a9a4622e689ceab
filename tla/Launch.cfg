SPECIFICATION FairSpec
CONSTANTS
    l1 = l1
    l2 = l2
    Launches <- MCLaunches
    Trouble = 2
INVARIANTS
    TypeOK
    FailureLeavesNothing
    TearDownHasCause
    ReadyServesItself
    UpServeSpared
    StopsWhereItCould
PROPERTIES
    LaunchEnds
