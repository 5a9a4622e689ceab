SPECIFICATION FairSpec
CONSTANTS
    Units = 1
    Hb = 2
    Groups = 2
    HadN = 3
    OutN = 3
    G = 2
    Warps = 2
    Garbage <- MCGarbage
INVARIANTS
    TypeOK
    InputsVisible
    NoTaskTwice
    WaitsAreServed
PROPERTIES
    DagSpec
    LaunchFinishes
