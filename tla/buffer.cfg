SPECIFICATION Spec
CONSTANTS
    Byte = {0, 1}
    Zero = 0
    kCheapPrepend = 2
    kInitialSize = 2
    MaxSize = 8
    MaxLen = 3
INVARIANT IndexOrder
PROPERTY ImplementsQueue
