SPECIFICATION Spec
CONSTANTS
    BlockDescriptorSize = 1
    Scale = 5
    ChunkBlocks = 10
    Values = {a, b}
    Dead = Dead
    ValueSize = 2
    MaxBlocks = 4
INVARIANTS
    TypeOK
    IterationMeetsAll
PROPERTIES
    ElementsStay
    ImplementsSequence
CHECK_DEADLOCK FALSE
