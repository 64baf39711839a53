SPECIFICATION Spec
CONSTANTS
    BlocksPerChunk = 6
    FreeListCount = 3
    MaxChunks = 3
    Requests = {2, 5, 7}
    MaxLive = 2
INVARIANTS
    TypeOK
    GroupsTileChunks
    FreeListsMatch
    BoundaryTagsMatch
    FreeGroupsAreMerged
    CountersMatch
PROPERTIES
    LiveBlocksStay
    ImplementsExtents
CHECK_DEADLOCK FALSE
