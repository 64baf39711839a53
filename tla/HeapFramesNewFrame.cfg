SPECIFICATION Spec
CONSTANTS
    Threads = {t1, t2, t3}
    NoThread = NoThread
    CpuCount = 1
    MaxFramesPerCPU = 4
INVARIANTS
    NewFrameIsOwn
CHECK_DEADLOCK FALSE
