CONSTANTS
    Client = {c1, c2}
    fileA = fileA
    fileB = fileB
    fileC = fileC
    Name = {fileA, fileB, fileC}
    Data = {1}
    s_nblocks = 7
    NDIRECT = 2
    NINDIRECT = 2
    MAXOPEN = 2
    FILE2BLK = 2
    Scarce <- PageOrBlock
    Files <- OneFile
    MaxSize = 2
    MaxCalls = 4
    MaxCrashes = 1
    CrashInCheck = FALSE
    NONE = NONE
SPECIFICATION FsSpec
INVARIANTS
    ServerSound BlocksOwnedOnce DiskPointersUsed ClosedIsDurable OpenSlotPrivate
SYMMETRY Symmetry
CHECK_DEADLOCK FALSE
