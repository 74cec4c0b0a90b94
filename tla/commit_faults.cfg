SPECIFICATION Spec
CONSTANTS
    Paths = {p1}
    Vals = {v1}
    Metas = {m1}
    Times = {1}
    Window = 20
    MaxDirEntries = 2
    SyncOnCommit = TRUE
    SectorLoss = TRUE
    MaxLog = 14
    MaxGen = 2
    MaxCrashes = 1
    MaxFaults = 2
INVARIANTS SnapshotSurvives HandleReadable
PROPERTY ImplementsAtomicSnapshots
