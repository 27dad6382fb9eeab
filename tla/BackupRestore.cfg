SPECIFICATION BSpec
CONSTANTS
    Clients = {c1}
    Keys = {k1, k2}
    DocRefs = {d1, d2, d3, d4}
    None = None
    Ops = {"CREATE", "SET", "DEL", "EXPIRE"}
    TTLs = {1}
    MaxNow = 2
    MaxCommands = 2
    Bad = TRUE
    MaxJobs = 2
SYMMETRY Symmetry
CONSTRAINT
    SweepsDuringJobs
    BackupThenRestore
CHECK_DEADLOCK FALSE
PROPERTIES
    BackupIsRegular
    RestoreKeepsTTL
    RestoredAreSaved
