SPECIFICATION Spec
CONSTANTS
    Threads = {t1, t2}
    Values = {v1, v2}
    Objects = {o1, o2}
    MaxHandles = 5
    Serial = {"append"}
INVARIANTS
    TopIsReleased
CHECK_DEADLOCK FALSE
