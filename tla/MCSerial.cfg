CONSTANTS
    a = a  NONE = NONE
    Client = {a}
    BUFFER_SIZE = 2  FifoSize = 1  Lens = {0, 3}  MAX_PAYLOAD_SIZE = 3
    Ops = {"read", "write", "nofunc", "nopage", "long read", "long write"}
    LateInterrupts = FALSE
    MaxWrite = 3  MaxArrive = 3  MaxStatus = 1  MaxCalls = 2
SPECIFICATION FairSpec
INVARIANTS
    QueuesIntact
PROPERTIES
    WrittenIsSent CallsEnd
CHECK_DEADLOCK FALSE
