SPECIFICATION Spec
CONSTANTS
    PathOrder <- Order
    HashOf <- Hashes
    Vals = {"empty", "two"}
    ChunkEnds <- Ends
    Metas = {"m"}
    MaxUint64 = 7
    MaxOps = 3
    BufSize = 2
    PackOpts <- Options
    Archives <- Zips
    PeekSize = 1
    MaxJobs = 1
    MaxDamage = 1
    MaxFaults = 1
INVARIANTS
    LookupAgrees
    DeadBytesAccounted
    InputSurvives
    OutputWhole
    NoTempLeft
CHECK_DEADLOCK FALSE
