SPECIFICATION Spec
CONSTANTS
    Clients = {c1, c2}
    MaxObjs = 4
    NodeSize = 1
    CacheLimitMem = 4
    MaxChanges = 2
    MaxGets = 4
    MaxFailures = 0
PROPERTY
    EvictedIsWritten
