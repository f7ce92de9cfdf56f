CONSTANTS
    e1 = e1
    e2 = e2
    e3 = e3
    NULL = NULL
    HEAD = HEAD
    Env <- MCEnv
    NASID = 3
    Pri = {1}
    MaxGen = 3
    Usage = {"destroy_blocked"}
SPECIFICATION IpcSpec
INVARIANTS
    SchedListIffRunnable
CHECK_DEADLOCK FALSE
