SPECIFICATION FairSpec
CONSTANTS
    Threads = {"a1", "a2", "b"}
    Handles = {"A", "B"}
    Processes = {"p"}
    HandleOf <- TwoAndOne
    ProcessOf <- OneProcess
    Writers = {"a1", "a2", "b"}
    Flock = FALSE
    Damaged = FALSE
    MaxTx = 2
    MaxCrashes = 0
    MaxFails = 0
INVARIANT OneWriter
PROPERTY CallsReturn
