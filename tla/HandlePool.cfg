SPECIFICATION Spec
CONSTANTS
    Threads = {t1, t2, t3}
    Values = {v1, v2}
    Objects = {o1, o2}
    MaxHandles = 5
    Serial = {"pop", "append"}
INVARIANTS
    TypeOK
    CountsMatch
    HandlesHaveOnePlace
    CountedHandlesHaveObjects
    PoolIsBounded
PROPERTIES
    ImplementsSharedValues
CHECK_DEADLOCK FALSE
