SPECIFICATION Spec
CONSTANTS
    BitmapBits = 8
    FirstSector = 6
    TotalBlocks = 10
    FS_MAGIC = 100
    UserBlocks = {9}
    NoBlock = NoBlock
    MaxCrashes = 0
INVARIANT DiskFullTrue
CHECK_DEADLOCK FALSE
