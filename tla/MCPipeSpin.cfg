CONSTANTS
    p1 = p1
    p2 = p2
    Proc = {p1, p2}
    First = p1
    MAXFD = 3
    PIPE_SIZE = 2
    PosMod = 8
    MaxBytes = 1
    OneUser = TRUE
    MaxDup = 0
SPECIFICATION PipeFairSpec
PROPERTY CheckEnds
CHECK_DEADLOCK FALSE
