CONSTANTS
    e1 = e1
    e2 = e2
    e3 = e3
    NULL = NULL
    Env <- TwoEnvs
    VA <- TwoPages
    NPage = 8
    PTES = 2
    USTACKTOP = 17
    NASID = 2
    RefMod = 65536
    Perms = {{"W"}, {"W", "LIBRARY"}}
    Sfence = "all"
SPECIFICATION PmapSpec
VIEW PageView
INVARIANTS
    PagesExact TlbCoherent CowIsolation
CHECK_DEADLOCK FALSE
