CONSTANTS
    MBLOCK_SIZE = 40
    KMALLOC_HEAP_SIZE = 344
    Sizes = {0, 13, 64, 130}
    MaxLive = 3
    e1 = e1
    e2 = e2
    Env = {e1, e2}
    SPAN = 2
    HEAP = 2
    KMMAP_BEGIN = 3
    KMMAP_COUNT = 5
    COPIED = 4
    PageCounts = {1, 2}
    MaxMapped = 3
    Table = {1, 2, 3, 4, 5, 6}
    Frame = {1, 2}
    Envs = {e1, e2}
    NPAGE = 3
    Frames = {1, 2, 3}
    NENV = 2
    MaxLens = {1}
    DmaPages = {0}
    Printer = {1, 2}
    BUF_LEN = 6
    KERNEL_BUFFER_SIZE = 9
    INT = 16
    LONG = 64
    Firmware = {"whole"}
    Calls <- MCCalls
    PAGE = 4
    TABLE = 2
    Images <- WellFormed
    Jobs <- MCJobs
    NSLOT = 2
    SUB = 3
    UVPT_SLOT = 2
    TablePages = {1, 2, 3, 4, 5, 6, 7, 8, 9, 10, 11, 12}
    FreePages = {4, 9}
    Part = {"heap", "space", "copy", "vpt", "text", "string", "load"}
SPECIFICATION LibSpec
SYMMETRY MCSymmetry
VIEW LibView
INVARIANTS
    HeapCorrect KernelHalfAgrees KernelSeesCaller WindowShowsTables TextFaithful StringsExact LoadedExact
PROPERTIES
    CopiesArePrivate
CHECK_DEADLOCK FALSE
