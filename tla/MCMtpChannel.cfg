CONSTANTS
    SEQNUM_MAX = 7
    MAX_RELIABLE_WINDOW_SIZE = 4
    SEQNUM_INITIAL = 6
    START_RELIABLE_WINDOW_SIZE = 4
    MIN_RELIABLE_WINDOW_SIZE = 3
    MAX_RELIABLE_WINDOW_SIZE_SEND = 4
    WindowStep = 1
    MaxPacketsRequeued = 1
    MessageSizes = {1, 2}
    MaxPings = 1
    MaxPackets = 5
    MaxResent = 2
SPECIFICATION Spec
CONSTRAINT InNetworkBound
INVARIANTS
    TypeOK
    SafeUnlessOverrun
PROPERTIES
    FifoUntilOverrun
CHECK_DEADLOCK FALSE
