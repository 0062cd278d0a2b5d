SPECIFICATION ProgressSpec
CONSTANTS
    Lessons <- ProgressLessons
    Runs = {1, 2}
    LoopCount = 3
    WHILE_MAX_REPEAT = 2
    MAX_INSTRUCTIONS = 5
    MaxWires = 1
    STEP_DELAY = 3
    WAIT_DELAY = 6
    ACTION_ANIMATION_TIME = 2
    Dtimes = {1, 3}
    SEQNUM_MAX = 9
    MAX_RELIABLE_WINDOW_SIZE = 5
    SEQNUM_INITIAL = 8
    START_RELIABLE_WINDOW_SIZE = 2
    MIN_RELIABLE_WINDOW_SIZE = 2
    MAX_RELIABLE_WINDOW_SIZE_SEND = 2
    WindowStep = 0
    MaxPacketsRequeued = 1
    MessageSizes = {1, 2}
    MaxPings = 1
    MaxPackets = 3
CHECK_DEADLOCK FALSE
INVARIANTS
    TypeOK
    MovesAddUp
    LoopsKeepCount
PROPERTIES
    ProgramsEnd
    EveryMessageArrives
