SPECIFICATION Spec
CONSTANTS
    Threads = {t1, t2}
    NoThread = NoThread
    CpuCount = 1
    MaxFramesPerCPU = 4
INVARIANTS
    GcAfterUnlock
CHECK_DEADLOCK FALSE
