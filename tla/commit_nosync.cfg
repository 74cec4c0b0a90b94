SPECIFICATION Spec
CONSTANTS
    Paths = {p1}
    Vals = {v1}
    Metas = {m1}
    Times = {1}
    Window = 20
    MaxDirEntries = 2
    SyncOnCommit = FALSE
    SectorLoss = FALSE
    MaxLog = 9
    MaxGen = 2
    MaxCrashes = 1
    MaxFaults = 0
INVARIANTS StaysOpenable
CHECK_DEADLOCK FALSE
