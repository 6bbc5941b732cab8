SPECIFICATION Spec
CONSTANTS
    Base = 4
    IntWidth = 2
    Nids = {1, 2}
    Shapes <- MCShapes
    Bufs <- ShortValue
    Region = 45
    OffsetRange = 256
    MetaInit = 4
    Children = {1}
    Stray = {5}
    MaxChanges = 1
    MaxFailures = 0
    Cuts = {0, 7, 46}
    MaxRestarts = 0
INVARIANT
    ReadAssertions
