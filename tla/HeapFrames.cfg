SPECIFICATION FairSpec
CONSTANTS
    Threads = {t1, t2, t3}
    NoThread = NoThread
    CpuCount = 1
    MaxFramesPerCPU = 2
INVARIANTS
    TypeOK
    FramesAreExclusive
    HolderIsRecorded
    NoFrameIsLost
    HolderPassesChecks
    WaitOnlyAtLimit
PROPERTIES
    CallsSettle
    HandoverThroughRelease
    ImplementsOwnership
CHECK_DEADLOCK FALSE
