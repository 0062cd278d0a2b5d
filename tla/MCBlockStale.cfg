SPECIFICATION Spec
CONSTANTS
    near = near
    far = far
    None = None
    Air = Air
    Blocks = {near, far}
    Dist <- Distance
    Nodes = {n1}
    FarAway = {far}
    Close = {}
    Made = {near}
    FullD = 2
    Increment = 1
    CullDistance = 2
    MaxSimul = 1
    SingleChangeLimit = 2
    MaxEvents = 2
CHECK_DEADLOCK FALSE
INVARIANTS
    SentIsUpToDate
