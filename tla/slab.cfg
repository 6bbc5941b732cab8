SPECIFICATION Spec
CONSTANTS
    PageShift = 4
    MinShift = 1
    WordBits = 4
    NPages = 3
    Sizes = {2, 4, 7, 8, 17, 33}
    MaxLive = 7
INVARIANTS
    ListsExact
    PagesCovered
    UsedIsLive
    Inv
PROPERTIES
    ImplementsAllocator
