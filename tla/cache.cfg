SPECIFICATION FairSpec
CONSTANTS
    Clients = {c1, c2}
    MaxObjs = 5
    NodeSize = 1
    CacheLimitMem = 4
    MaxChanges = 2
    MaxGets = 2
    MaxFailures = 1
INVARIANTS
    CacheTypeOK
    UnwrittenIsRemembered
    OneCopy
    FlushIsReady
    Inv
PROPERTY
    DiskCatchesUp
