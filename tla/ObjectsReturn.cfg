SPECIFICATION Spec
CONSTANTS
    Blocks = {0, 1}
    Ids = {1, 2}
    Things = {t1}
    OnDisk = {0}
    ResaveDistance = 3
    MaxAccidents = 0
    None = None
CHECK_DEADLOCK FALSE
INVARIANTS
    RemovedStayGone
