SPECIFICATION BlocksSpec
CONSTANTS
    near = near
    far = far
    None = None
    Air = Air
    Blocks = {near, far}
    Dist <- Distance
    MeshPos <- Position
    NextTo <- Neighbours
    Nodes = {n1}
    FarAway = {}
    Close = {near}
    Made = {near}
    FullD = 2
    Increment = 1
    CullDistance = 2
    MaxSimul = 1
    SingleChangeLimit = 2
    MaxEvents = 2
    m1 = m1
    m2 = m2
    m3 = m3
    c1 = c1
    c2 = c2
    w1 = w1
    w2 = w2
    MapBlocks = {m1, m2, m3}
    Cells = {c1, c2}
    AtFirst = {m1, m3}
    Workers = {w1, w2}
    MaxUpdates = 2
CHECK_DEADLOCK FALSE
INVARIANTS
    BlocksTypeOK
    UpToDateUnlessCrossed
    BooksAreRight
    NewestIsDrawn
PROPERTIES
    MapReachesScreen
