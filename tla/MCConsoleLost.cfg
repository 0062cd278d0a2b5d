SPECIFICATION StoreSpec
CONSTANTS
    Events = {e1, e2}
    Edits = {d1}
    Passphrases = {}
    Plain = Plain
    None = None
    Jobs = {j1, j2}
    Overlap = TRUE
    MaxDamage = 0
    MaxFaults = 0
    MaxCrashes = 0
CHECK_DEADLOCK FALSE
INVARIANTS
    AckedIsKept
