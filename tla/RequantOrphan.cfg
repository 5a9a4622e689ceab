SPECIFICATION FairSpec
CONSTANTS
    Nodes <- MCNodes
    Remote <- MCRemote
    Upward <- MCUpward
    NoSource <- MCNoSource
    Units = 2
    Trouble = 1
PROPERTIES
    ClaimsGetDone
CHECK_DEADLOCK FALSE
