CONSTANTS
    p1 = p1
    p2 = p2
    Proc = {p1, p2}
    First = p1
    MAXFD = 3
    PIPE_SIZE = 2
    PosMod = 4
    MaxBytes = 4
    OneUser = TRUE
    MaxDup = 1
SPECIFICATION PipeSpec
INVARIANTS
    PipeSound
PROPERTIES
    ImplementsFifo
CHECK_DEADLOCK FALSE
