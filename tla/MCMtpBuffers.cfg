SPECIFICATION BuffersSpec
CONSTANTS
    SPLITS = 3
    MaxChunks = 3
    MaxReliable = 2
    MaxUnreliable = 2
    MaxFailures = 1
    SEQNUM_MAX = 9
    MAX_RELIABLE_WINDOW_SIZE = 5
    Sizes = {s1, s2}
CHECK_DEADLOCK FALSE
INVARIANTS
    BuffersTypeOK
    WholeMessages
    NothingLeftBehind
PROPERTIES
    ImplementsFifo
    ImplementsPacketSet
