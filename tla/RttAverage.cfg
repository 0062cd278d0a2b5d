SPECIFICATION Spec
CONSTANTS
    NumSamples = 327680
    RESEND_TIMEOUT_MIN = 100
    RESEND_TIMEOUT_MAX = 2000
    RESEND_TIMEOUT_FACTOR = 2
    InitialTimeout = 500
    Rtts = {20, 60, 300, 900, 1500}
PROPERTIES
    AverageMoves
