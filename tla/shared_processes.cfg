SPECIFICATION Spec
CONSTANTS
    Threads = {"a", "b"}
    Handles = {"A", "B"}
    Processes = {"p", "q"}
    HandleOf <- OneEach
    ProcessOf <- TwoProcesses
    Writers = {"a", "b"}
    Flock = TRUE
    Damaged = TRUE
    MaxTx = 3
    MaxCrashes = 1
    MaxFails = 1
INVARIANTS
    TypeOK
    OneWriter
    SnapshotsIntact
    NoLockLeft
