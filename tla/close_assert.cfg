SPECIFICATION Spec
CONSTANTS
    Clients = {c1, c2}
    MaxObjs = 4
    NodeSize = 1
    CacheLimitMem = 4
    MaxChanges = 2
    MaxGets = 2
    MaxFailures = 1
INVARIANT
    DestroyedUnlocked
