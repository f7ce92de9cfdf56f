CONSTANTS
    e1 = e1
    e2 = e2
    e3 = e3
    NULL = NULL
    Env <- ThreeEnvs
    VA <- TwoPages
    NPage = 7
    PTES = 2
    USTACKTOP = 17
    NASID = 2
    RefMod = 65536
    Perms = {{"W"}}
    Sfence = "exact"
SPECIFICATION PmapSpec
VIEW PageView
INVARIANTS
    PagesSafe
CHECK_DEADLOCK FALSE
