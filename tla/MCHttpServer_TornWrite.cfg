CONSTANTS
    c1 = c1
    c2 = c2
    c3 = c3
    Absent = Absent
    Conns = {c1, c2, c3}
    Upper <- MCUpper
    Requests <- MCRequests
    FileNames <- MCFileNames
    InitFiles <- MCInitFiles
    MaxFile = 2
SPECIFICATION Spec
INVARIANTS
    FilesHoldWholeBodies
CHECK_DEADLOCK FALSE
