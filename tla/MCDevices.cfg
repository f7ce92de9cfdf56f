CONSTANTS
    Blobs <- AnyBlobs
    MAX_STACK_DEPTH = 4
    ITER_MAX_QUEUE_LEN = 12
    NAME_BUFFER_LEN = 32
    WORD = 256
    MAX_VIRTIO_COUNT = 8
    PAGE_SIZE = 16
    PLIC_ENABLE = 176
    PLIC_THRESHOLD = 192
    PLIC_CLAIM = 196
    Access <- Anywhere
    Codes = {1, 8, 10, 16, 40, 95}
    MaxCalls = 3
SPECIFICATION BootSpec
INVARIANTS
    TreeFaithful DiscoveryFaithful AccessReachesDevice BootSound
CHECK_DEADLOCK FALSE
