CONSTANTS
    Keys <- MCKeys
    Vals <- MCVals
    MaxCmds = 5
    ShortReads = FALSE
SPECIFICATION FairSpec
INVARIANTS
    TypeOK
    ReplicaTracksLeader
PROPERTY
    CommandsApplied
CHECK_DEADLOCK FALSE
