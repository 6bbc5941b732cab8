SPECIFICATION Spec
CONSTANTS
    KeyCount = 3
    Values = {"a"}
    KeySize = 1
    ValueSize = 1
    MaxNodes = 20
    Threads = {t1, t2}
    NoThread = NoThread
    Requests <- Puts
    MaxNodeMsg = 18
    MaxNodeChildNum = 1
    MaxOps = 6
    WriteBackOn = FALSE
SYMMETRY Sym
INVARIANTS
    TypeOK
    Inv
    WritesEnterAtRoot
    PathIsBranch
    IdleHoldsNothing
    Balanced
    SizeCoversMessages
    SplitBufFailsOnSurplus
    CountedUntilGrowth
PROPERTIES
    LinksGuarded
    KeysNeverVanish
