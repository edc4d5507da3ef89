CONSTANTS
    Absent = Absent
    Cases <- MCCases
    Numerals <- MCNumerals
    ArgLists <- MCArgLists
    SnapshotPath <- MCSnapshotPath
    SnapshotDirs <- MCSnapshotDirs
    SnapshotName <- MCSnapshotName
SPECIFICATION Spec
INVARIANTS
    TypeOK
    RdbLoadFaithful
    StartupFollowsCommandLine
CHECK_DEADLOCK FALSE
