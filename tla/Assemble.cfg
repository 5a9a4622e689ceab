SPECIFICATION AFairSpec
CONSTANTS
    Nodes <- MCNodes
    Remote <- MCRemote
    Upward <- MCUpward
    NoSource <- MCNoSource
    Units = 3
    Trouble = 2
    Assembler = "spark1"
INVARIANTS
    ATypeOK
    OneEncoder
    DoneBacked
    DoneMeansAll
    SnapshotTrue
PROPERTIES
    RecoversElsewhere
CHECK_DEADLOCK FALSE
