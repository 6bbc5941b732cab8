SPECIFICATION FairSpec
CONSTANTS
    Base = 4
    IntWidth = 2
    Nids = {1, 2}
    Shapes <- MCShapes
    Bufs <- MCBufs
    Region = 40
    OffsetRange = 256
    MetaInit = 4
    Children = {1}
    Stray = {5}
    MaxChanges = 1
    MaxFailures = 2
    Cuts = {0, 7, 46}
    MaxRestarts = 1
INVARIANTS
    ReadsBack
    SizeCoversImage
    Inv
PROPERTY
    FileCatchesUp
