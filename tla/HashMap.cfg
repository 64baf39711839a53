SPECIFICATION Spec
CONSTANTS
    Calls <- MCCalls
    Width = 4
    MaxBitmap = 2
    BitmapAt = 2
    NoObject = NoObject
    MinusZero = 32
    NaNs <- MCNaNs
    QuietNaN = 17
    HashRange = 64
    MaxCount = 5
INVARIANTS
    TrieIsWellFormed
    IterationAgrees
    EqualityIsContent
    CallsTakeEffect
    TraversalMeetsEntries
PROPERTIES
    ImplementsFiniteMap
CHECK_DEADLOCK FALSE
