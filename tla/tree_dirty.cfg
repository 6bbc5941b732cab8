SPECIFICATION Spec
CONSTANTS
    KeyCount = 2
    Values = {"a"}
    KeySize = 1
    ValueSize = 1
    MaxNodes = 16
    Threads = {t1, t2}
    NoThread = NoThread
    Requests <- Puts
    MaxNodeMsg = 18
    MaxNodeChildNum = 1
    MaxOps = 5
    WriteBackOn = TRUE
SYMMETRY Sym
PROPERTIES
    GainsAreMarked
