SPECIFICATION Spec
CONSTANTS
    Threads = {"a", "b"}
    Handles = {"A", "B"}
    Processes = {"p", "q"}
    HandleOf <- OneEach
    ProcessOf <- TwoProcesses
    Writers = {"a"}
    Flock = TRUE
    Damaged = TRUE
    MaxTx = 1
    MaxCrashes = 0
    MaxFails = 0
INVARIANT AckedSurvives
