SPECIFICATION FairSpec
CONSTANTS
    Threads = {t1, t2}
    NoThread = NoThread
    CpuCount = 1
    MaxFramesPerCPU = 1
PROPERTIES
    WaiterGetsFreeFrame
CHECK_DEADLOCK FALSE
