CONSTANTS
    c1 = c1
    c2 = c2
    NONE = NONE
    Client <- OneClient
    Sector = {0, 1}
    Data = {0, 1}
    NVirtio = 1
    MAX_QUEUE_SIZE = 4
    QueueSizeMax = {3, 8}
    IdxMod = 8
    Ops = {"read", "write"}
    MaxBlk = 1
    DiskFails = FALSE
    InterruptedOps = {}
    MaxCalls = 3
SPECIFICATION VirtioFairSpec
PROPERTIES
    EveryCallReturns
CHECK_DEADLOCK FALSE
