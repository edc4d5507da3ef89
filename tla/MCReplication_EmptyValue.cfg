CONSTANTS
    Keys <- MCKeys
    Vals <- MCValsWithEmpty
    MaxCmds = 3
    ShortReads = FALSE
SPECIFICATION Spec
INVARIANT ReplicaTracksLeader
CHECK_DEADLOCK FALSE
