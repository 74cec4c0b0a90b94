SPECIFICATION Spec
CONSTANTS
    Threads = {"a1", "a2", "b"}
    Handles = {"A", "B"}
    Processes = {"p", "q"}
    HandleOf <- TwoAndOne
    ProcessOf <- TwoProcesses
    Writers = {"a1", "a2"}
    Flock = TRUE
    Damaged = FALSE
    MaxTx = 3
    MaxCrashes = 1
    MaxFails = 1
INVARIANT AckedSurvives
PROPERTY GenerationGrows
