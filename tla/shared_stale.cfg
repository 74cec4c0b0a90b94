SPECIFICATION Spec
CONSTANTS
    Threads = {"a", "b"}
    Handles = {"A", "B"}
    Processes = {"p"}
    HandleOf <- OneEach
    ProcessOf <- OneProcess
    Writers = {"a", "b"}
    Flock = TRUE
    Damaged = FALSE
    MaxTx = 3
    MaxCrashes = 0
    MaxFails = 0
PROPERTY GenerationGrows
