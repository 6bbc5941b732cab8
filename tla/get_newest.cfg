SPECIFICATION Spec
CONSTANTS
    KeyCount = 3
    Values = {"a"}
    KeySize = 1
    ValueSize = 1
    MaxNodes = 12
    Threads = {t1}
    NoThread = NoThread
    Requests <- PutsGets
    MaxNodeMsg = 18
    MaxNodeChildNum = 2
    MaxOps = 5
    WriteBackOn = FALSE
INVARIANT
    GetReturnsNewest
