CONSTANTS
    e1 = e1
    e2 = e2
    e3 = e3
    NULL = NULL
    HEAD = HEAD
    Env <- MCEnv2
    NASID = 2
    Pri = {1}
    MaxGen = 2
    Usage = {}
    Irq = {1, 2}
SPECIFICATION IrqSpec
SYMMETRY MCSymmetry
INVARIANTS
    SchedulerIntact RecvOutcomeTruthful MaskingExact
PROPERTIES
    PreemptedKeepsRegisters
CHECK_DEADLOCK FALSE
