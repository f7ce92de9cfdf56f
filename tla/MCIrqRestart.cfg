CONSTANTS
    e1 = e1
    e2 = e2
    e3 = e3
    NULL = NULL
    HEAD = HEAD
    Env <- MCEnv2
    NASID = 2
    Pri = {1}
    MaxGen = 3
    Usage = {"driver_exit"}
    Irq = {1}
SPECIFICATION IrqSpec
SYMMETRY MCSymmetry
PROPERTIES
    DivertedOwnsCode
CHECK_DEADLOCK FALSE
