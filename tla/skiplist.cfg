SPECIFICATION Spec
CONSTANTS
    KeyCount = 4
    Values = {"a"}
    KeySize = 1
    ValueSize = 1
    kMaxHeight = 3
INVARIANTS
    WellFormed
    SearchesAgree
    Inv
PROPERTIES
    ImplementsMsgList
