SPECIFICATION Spec
CONSTANTS
    Threads = {t1}
    NoOwner = NoOwner
    BlockCount = 5
    BlockSize = 3
    GenerationCount = 2
    HandleCount = 2
    NameCount = 3
    MaxRefs = 2
    MaxNewObjects = 3
    MaxCollections = 3
    ReadersRest = FALSE
INVARIANTS
    PointersAreValid
CHECK_DEADLOCK FALSE
