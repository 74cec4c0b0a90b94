SPECIFICATION Spec
CONSTANTS
    Paths = {p1}
    Vals = {v1}
    Metas = {m1, m2}
    Times = {1}
    Window = 2
    MaxDirEntries = 2
    SyncOnCommit = TRUE
    SectorLoss = TRUE
    MaxLog = 14
    MaxGen = 2
    MaxCrashes = 2
    MaxFaults = 0
INVARIANTS TypeOK SnapshotSurvives
