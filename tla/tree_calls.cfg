SPECIFICATION FairSpec
CONSTANTS
    KeyCount = 2
    Values = {"a"}
    KeySize = 1
    ValueSize = 1
    MaxNodes = 12
    Threads = {t1, t2}
    NoThread = NoThread
    Requests <- AllCalls
    MaxNodeMsg = 18
    MaxNodeChildNum = 1
    MaxOps = 4
    WriteBackOn = FALSE
PROPERTIES
    CallsReturn
