CONSTANTS
    p1 = p1
    p2 = p2
    Body <- MCBody
    BodyLen <- MCBodyLen
    MaxFileSize = 3
    MaxCacheFile = 2
    MaxFiles = 2
    Dir = "data/block"
    Ext = "blk"
SPECIFICATION StoreSpec
INVARIANTS
    StoreTypeOK
    ReadBack
    FileLimit
    WriterOpen
    PullExact
CHECK_DEADLOCK FALSE
