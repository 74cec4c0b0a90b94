SPECIFICATION DSpec
CONSTANTS
    Paths = {p1}
    Vals = {v1}
    Metas = {m1}
    Times = {1, 2}
    Window = 20
    MaxDirEntries = 2
    SyncOnCommit = TRUE
    SectorLoss = FALSE
    MaxLog = 14
    MaxGen = 2
    MaxCrashes = 0
    MaxFaults = 0
    MaxDamage = 1
INVARIANT IncompleteIgnored
CHECK_DEADLOCK FALSE
