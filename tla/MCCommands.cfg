CONSTANTS
    c1 = c1
    c2 = c2
    k1 = k1
    k2 = k2
    s1 = s1
    nilc = nilc
    StreamMark = StreamMark
    Nil = Nil
    NilConn = nilc
    Conns <- MCConns1
    Keys <- MCKeys1
    Strings <- MCStrings
    Commands <- MCCommandsPlain
    PxArgs <- MCPxArgs
    RdbExpiryTimes <- MCNoRdbExpiry
    MaxTime = 2
    MaxIdPart = 1
    MaxStreamLen = 2
    ExpiryWidth = 16
    MaxInt = 2
    MaxPublished = 2
    ConfigStore <- MCConfigStore
    LeaderAddr = ""
    LeaderReplId = "8371b4fb"
    MaxQueue = 2
SPECIFICATION Spec
INVARIANTS
    TypeOK
    ExecAnswersEachQueued
CHECK_DEADLOCK FALSE
