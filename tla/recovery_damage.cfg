SPECIFICATION DSpec
CONSTANTS
    Paths = {p1}
    Vals = {v1}
    Metas = {m1}
    Times = {1, 2}
    Window = 20
    MaxDirEntries = 2
    SyncOnCommit = FALSE
    SectorLoss = FALSE
    MaxLog = 10
    MaxGen = 2
    MaxCrashes = 0
    MaxFaults = 0
    MaxDamage = 2
INVARIANT DamageLosesNothing
CHECK_DEADLOCK FALSE
