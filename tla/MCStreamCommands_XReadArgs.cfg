CONSTANTS
    k1 = k1
    k2 = k2
    s1 = s1
    Nil = Nil
    Keys <- MCKeys
    Strings <- MCStrings
    PxArgs <- MCPxArgs
    MaxTime = 4
    MaxIdPart = 2
    MaxStreamLen = 3
    ExpiryWidth = 16
    RdbExpiryTimes <- MCRdbExpiryTimes
    XRangeBounds <- MCXRangeBounds
    XReadArgs <- MCXReadArgs
SPECIFICATION Spec
SYMMETRY MCSymmetry
INVARIANTS
    XReadRejectsUnpaired
CHECK_DEADLOCK FALSE
