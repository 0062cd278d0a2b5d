SPECIFICATION StorageSpec
CONSTANTS
    Blocks = {0, 1}
    Ids = {1, 2}
    Things = {t1}
    OnDisk = {0}
    ResaveDistance = 3
    MaxAccidents = 1
    Events = {e1, e2}
    Edits = {d1}
    Passphrases = {k1, k2}
    Plain = Plain
    None = None
    Jobs = {j1}
    Overlap = FALSE
    MaxDamage = 1
    MaxFaults = 1
    MaxCrashes = 1
    MaxPlays = 3
    MaxMishaps = 2
CHECK_DEADLOCK FALSE
INVARIANTS
    StorageTypeOK
    OneOfEach
    ListsAgree
    SavedUnlessMarked
    AckedIsKept
    BackupHelps
PROPERTIES
    NothingDestroyed
