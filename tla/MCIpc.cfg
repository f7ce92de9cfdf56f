CONSTANTS
    e1 = e1
    e2 = e2
    e3 = e3
    NULL = NULL
    HEAD = HEAD
    Env <- MCEnv
    NASID = 2
    Pri = {2}
    MaxGen = 4
    Usage = {"status_self", "wake_caller"}
SPECIFICATION IpcSpec
SYMMETRY MCSymmetry
INVARIANTS
    TablesConsistent SchedListIffRunnable AsidsExact ReceiverBlocked
CHECK_DEADLOCK FALSE
